----------------------------- MODULE ConsumerProofs -----------------------------
(***************************************************************************)
(* Proofs about Consumer, for any users, loops, channels, messages and     *)
(* capacities, and without the bounds on starts, stops and faults playing  *)
(* a part.  A channel is in the cache once or with the one loop that took  *)
(* it, a delivery that the broker still counts is where the user will find *)
(* it, and a consumer that is never started twice has one loop while it is *)
(* started and none otherwise.                                             *)
(***************************************************************************)
EXTENDS Consumer, FiniteSetTheorems, TLAPS

(* How often x is in the sequence s, and how many loops have the value x.  *)
Times(s, x) == Cardinality({i \in DOMAIN s : s[i] = x})
Having(f, x) == Cardinality({l \in Loop : f[l] = x})

(* Positions of a sequence are finite in number.                           *)
LEMMA TimesType ==
    ASSUME NEW S, NEW s \in Seq(S), NEW x
    PROVE  /\ IsFiniteSet({i \in DOMAIN s : s[i] = x})
           /\ Times(s, x) \in Nat
           /\ \A i \in DOMAIN s : s[i] = x => Times(s, x) >= 1
<1> DEFINE T == {i \in DOMAIN s : s[i] = x}
<1>1. IsFiniteSet(T)
  <2>1. DOMAIN s = 1 .. Len(s) /\ Len(s) \in Int /\ 1 \in Int
    OBVIOUS
  <2>2. IsFiniteSet(DOMAIN s)
    BY <2>1, FS_Interval
  <2> QED BY <2>2, FS_Subset
<1>2. Cardinality(T) \in Nat /\ (Cardinality(T) = 0 <=> T = {})
  BY <1>1, FS_CardinalityType, FS_EmptySet
<1>3. Times(s, x) = Cardinality(T)
  BY DEF Times
<1>4. ASSUME NEW i \in DOMAIN s, s[i] = x
      PROVE  Times(s, x) >= 1
  <2>1. T # {}
    BY <1>4
  <2> HIDE DEF T
  <2> QED BY <1>2, <1>3, <2>1
<1>5. Times(s, x) \in Nat
  BY <1>2, <1>3
<1> QED BY <1>1, <1>4, <1>5

(* An element at the end of a sequence occurs once more.                   *)
LEMMA TimesAppend ==
    ASSUME NEW S, NEW s \in Seq(S), NEW e \in S, NEW x
    PROVE  Times(Append(s, e), x) = Times(s, x) + (IF e = x THEN 1 ELSE 0)
<1> DEFINE T == {i \in DOMAIN s : s[i] = x}
           U == {i \in DOMAIN Append(s, e) : Append(s, e)[i] = x}
           n == Len(s) + 1
<1>1. /\ Len(s) \in Nat /\ DOMAIN s = 1 .. Len(s) /\ DOMAIN Append(s, e) = 1 .. n
      /\ \A i \in 1 .. Len(s) : Append(s, e)[i] = s[i]
      /\ Append(s, e)[n] = e
  OBVIOUS
<1>2. U = IF e = x THEN T \cup {n} ELSE T
  BY <1>1
<1>3. Times(s, x) = Cardinality(T) /\ Times(Append(s, e), x) = Cardinality(U)
  BY DEF Times
<1>4. IsFiniteSet(T) /\ Times(s, x) \in Nat
  BY TimesType
<1>5. n \notin T
  BY <1>1
<1> HIDE DEF T, U, n
<1>6. Cardinality(T \cup {n}) = Cardinality(T) + 1
  BY <1>4, <1>5, FS_AddElement
<1> QED BY <1>2, <1>3, <1>4, <1>6

(* One taken off its head occurs once less.                                *)
LEMMA TimesTail ==
    ASSUME NEW S, NEW s \in Seq(S), s # <<>>, NEW x
    PROVE  Times(s, x) = Times(Tail(s), x) + (IF Head(s) = x THEN 1 ELSE 0)
<1> DEFINE T == {i \in DOMAIN s : s[i] = x}
           U == {i \in DOMAIN Tail(s) : Tail(s)[i] = x}
           f == [i \in U |-> i + 1]
<1>1. /\ Len(s) \in Nat /\ Len(s) >= 1 /\ DOMAIN s = 1 .. Len(s) /\ Head(s) = s[1]
      /\ DOMAIN Tail(s) = 1 .. Len(s) - 1 /\ Tail(s) \in Seq(S)
      /\ \A i \in 1 .. Len(s) - 1 : Tail(s)[i] = s[i + 1]
  OBVIOUS
<1>2. f \in Bijection(U, T \ {1})
  <2>1. f \in [U -> T \ {1}]
    BY <1>1
  <2>2. \A i, j \in U : f[i] = f[j] => i = j
    BY <1>1
  <2>3. \A j \in T \ {1} : \E i \in U : f[i] = j
    <3> SUFFICES ASSUME NEW j \in T \ {1} PROVE \E i \in U : f[i] = j
      OBVIOUS
    <3>1. j - 1 \in U /\ f[j - 1] = j
      BY <1>1
    <3> QED BY <3>1
  <2> QED BY <2>1, <2>2, <2>3 DEF Bijection, Injection, Surjection, IsInjective
<1>3. 1 \in T <=> Head(s) = x
  BY <1>1
<1>4. Times(s, x) = Cardinality(T) /\ Times(Tail(s), x) = Cardinality(U)
  BY DEF Times
<1>5. IsFiniteSet(T) /\ IsFiniteSet(U) /\ Times(s, x) \in Nat
  BY <1>1, TimesType
<1> HIDE DEF T, U, f
<1>6. Cardinality(T \ {1}) = Cardinality(U)
  BY <1>2, <1>5, FS_Bijection DEF ExistsBijection
<1>7. Cardinality(T \ {1}) = IF 1 \in T THEN Cardinality(T) - 1 ELSE Cardinality(T)
  BY <1>5, FS_RemoveElement
<1> QED BY <1>3, <1>4, <1>5, <1>6, <1>7

(* Loops with a value are finite in number, and two are at least two.    *)
LEMMA HavingType ==
    ASSUME NEW f, NEW x
    PROVE  /\ IsFiniteSet({l \in Loop : f[l] = x})
           /\ Having(f, x) \in Nat
           /\ \A l \in Loop : f[l] = x => Having(f, x) >= 1
           /\ \A l, m \in Loop : f[l] = x /\ f[m] = x /\ l # m => Having(f, x) >= 2
<1> DEFINE T == {l \in Loop : f[l] = x}
<1>1. IsFiniteSet(T)
  BY ConsumerAssumption, FS_Subset
<1>2. Cardinality(T) \in Nat /\ (Cardinality(T) = 0 <=> T = {})
      /\ (Cardinality(T) = 1 <=> \E y : T = {y})
  BY <1>1, FS_CardinalityType, FS_EmptySet, FS_Singleton
<1>3. Having(f, x) = Cardinality(T)
  BY DEF Having
<1>4. ASSUME NEW l \in Loop, f[l] = x
      PROVE  Having(f, x) >= 1
  BY <1>2, <1>3, <1>4
<1>5. ASSUME NEW l \in Loop, NEW m \in Loop, f[l] = x, f[m] = x, l # m
      PROVE  Having(f, x) >= 2
  <2>1. l \in T /\ m \in T
    BY <1>5
  <2>2. Cardinality(T) # 0 /\ Cardinality(T) # 1
    BY <1>2, <1>5, <2>1
  <2> QED BY <1>2, <1>3, <2>2
<1> QED BY <1>1, <1>2, <1>3, <1>4, <1>5

(* Giving one loop another value moves it from one count to the other.     *)
LEMMA HavingExcept ==
    ASSUME NEW f \in [Loop -> Channel \cup {None}], NEW g \in [Loop -> Channel \cup {None}],
           NEW l \in Loop, NEW x, \A m \in Loop \ {l} : g[m] = f[m]
    PROVE  /\ Having(f, x) \in Nat /\ Having(g, x) \in Nat
           /\ (f[l] = x <=> g[l] = x) => Having(g, x) = Having(f, x)
           /\ f[l] = x /\ g[l] # x => Having(g, x) = Having(f, x) - 1
           /\ f[l] # x /\ g[l] = x => Having(g, x) = Having(f, x) + 1
<1> DEFINE T == {m \in Loop : f[m] = x}
           U == {m \in Loop : g[m] = x}
<1>1. U = IF g[l] = x THEN (T \ {l}) \cup {l} ELSE T \ {l}
  OBVIOUS
<1>2. l \in T <=> f[l] = x
  OBVIOUS
<1>3. Having(f, x) = Cardinality(T) /\ Having(g, x) = Cardinality(U)
  BY DEF Having
<1>4. IsFiniteSet(T) /\ Having(f, x) \in Nat /\ Having(g, x) \in Nat
  BY HavingType
<1> HIDE DEF T, U
<1>5. IsFiniteSet(T \ {l})
      /\ Cardinality(T \ {l}) = IF l \in T THEN Cardinality(T) - 1 ELSE Cardinality(T)
  BY <1>4, FS_RemoveElement
<1>6. Cardinality((T \ {l}) \cup {l}) = Cardinality(T \ {l}) + 1
  BY <1>5, FS_AddElement
<1> QED BY <1>1, <1>2, <1>3, <1>4, <1>5, <1>6

-----------------------------------------------------------------------------
Holding == {"consume", "retry", "errors", "lost", "deliver", "hand", "check"}

(* A loop has a channel from GetChannelFromPool to its return, and a       *)
(* delivery from the moment it reads one to the moment it lets go of it.   *)
Places ==
    \A i \in Loop :
        /\ chan[i] # None <=> pc[i] \in Holding
        /\ pc[i] # "hand" => hand[i] = ZeroValue

(* A StopConsuming that has begun holds conLock, without which no loop     *)
(* ends: the consumer is started until the call returns.                   *)
StopHoldsLock ==
    /\ \A u \in User : conLock = u <=> userPc[u] # "idle"
    /\ conLock # None => started

(* But for cancelled ones, only open subscriptions have deliveries to read. *)
NothingBuffered ==
    cancels = 0 => \A c \in Channel : sub[c] # "open" => buffer[c] = <<>>

UnackedTyped ==
    unacked \in [Channel -> SUBSET Delivery] /\ cancels \in Nat /\ stops \in Nat

(* Where a delivery of channel c may be.                                   *)
Found(c, d) ==
    \/ d \in Range(buffer[c]) \cup Range(receivedMessages) \cup flushed
    \/ \E i \in Loop : hand[i] = d

AllFound == cancels = 0 => \A c \in Channel : \A d \in unacked[c] : Found(c, d)

(* A stop that is asked for is with its caller, then in consumeStop, and   *)
(* then it may have parked a channel.                                      *)
Sending == \E u \in User : userPc[u] = "send"
Pending == (IF token THEN 1 ELSE 0) + (IF Sending THEN 1 ELSE 0)
StopsPark == Cardinality(Parked) + Pending <= stops

(* Each of them was asked for since the last start.                        *)
StopsAreAsked == token \/ Sending => asked

IInv ==
    /\ TypeOK /\ ChannelsConserved /\ UnackedTyped /\ Places /\ StopHoldsLock
    /\ NothingBuffered /\ AllFound /\ StopsPark /\ StopsAreAsked /\ StartedIffRunning

-----------------------------------------------------------------------------
(* A new consumer, with an idle pool of channels and a full queue.         *)
LEMMA IInvInit == Init => IInv
<1> SUFFICES ASSUME Init PROVE IInv
  OBVIOUS
<1>1. /\ \A i \in Loop : pc[i] = "off" /\ chan[i] = None /\ hand[i] = ZeroValue
      /\ \A c \in Channel : /\ up[c] = TRUE /\ sub[c] = "none" /\ buffer[c] = <<>>
                            /\ unacked[c] = {} /\ errors[c] = "quiet"
      /\ \A u \in User : userPc[u] = "idle"
      /\ \A m \in Msg : times[m] = 0
  BY DEF Init
<1>2. None \notin Channel /\ None \notin User
  BY ConsumerAssumption
<1>3. PICK n \in Nat : n = Cardinality(Channel)
  BY ConsumerAssumption, FS_CardinalityType
<1>4. cache \in [1 .. n -> Channel] /\ IsInjective(cache)
  <2>1. PICK m \in Nat : ExistsBijection(1 .. m, Channel)
    BY ConsumerAssumption, FS_NatBijection
  <2>2. m = n
    <3>1. IsFiniteSet(1 .. m) /\ Cardinality(1 .. m) = m
      BY FS_Interval
    <3> QED BY <1>3, <2>1, <3>1, ConsumerAssumption, FS_Bijection
  <2>3. PICK f : f \in Bijection(1 .. n, Channel)
    BY <2>1, <2>2 DEF ExistsBijection
  <2>4. f \in [1 .. n -> Channel] /\ IsInjective(f)
    BY <2>3 DEF Bijection, Injection, IsInjective
  <2> QED BY <1>3, <2>4 DEF Init
<1>5. TypeOK
  <2>1. cache \in Seq(Channel)
    BY <1>3, <1>4
  <2>2. buffer \in [Channel -> Seq(Delivery)]
    <3>1. <<>> \in Seq(Delivery)
      OBVIOUS
    <3> QED BY <3>1 DEF Init
  <2>3. /\ conLock \in User \cup {None} /\ started \in BOOLEAN /\ twice \in BOOLEAN
        /\ token \in BOOLEAN /\ asked \in BOOLEAN /\ userPc \in [User -> {"idle", "send", "sent"}]
    BY DEF Init
  <2>4. /\ pc \in [Loop -> PCs] /\ chan \in [Loop -> Channel \cup {None}]
        /\ hand \in [Loop -> Delivery \cup {ZeroValue}]
    BY DEF Init, PCs
  <2>5. /\ up \in [Channel -> BOOLEAN] /\ errors \in [Channel -> {"quiet", "erred", "closed"}]
        /\ sub \in [Channel -> {"none", "open", "closed"}]
        /\ ready \in SUBSET Msg /\ times \in [Msg -> Nat]
    BY DEF Init
  <2>6. /\ receivedMessages \in Seq(Delivery \cup {ZeroValue})
        /\ Len(receivedMessages) <= MessagesCap
        /\ conErrors \in 0 .. ErrorsCap
        /\ handled \in SUBSET Msg /\ flushed \subseteq Delivery
    BY ConsumerAssumption DEF Init
  <2>7. \A c \in Channel : unacked[c] \subseteq Delivery
    BY <1>1
  <2> QED BY <2>1, <2>2, <2>3, <2>4, <2>5, <2>6, <2>7 DEF TypeOK
<1>6. ChannelsConserved
  <2> SUFFICES ASSUME NEW c \in Channel
               PROVE  Times(cache, c) + Having(chan, c) = 1
    BY DEF ChannelsConserved, Times, Having
  <2>1. cache \in Surjection(1 .. n, Channel)
    <3>1. cache \in Injection(1 .. n, Channel)
      BY <1>4 DEF Injection, IsInjective
    <3>2. Cardinality(1 .. n) = n
      BY FS_Interval
    <3> QED BY <1>3, <3>1, <3>2, ConsumerAssumption, FS_Injection
  <2>2. PICK k \in 1 .. n : cache[k] = c
    BY <2>1 DEF Surjection
  <2>3. {k2 \in DOMAIN cache : cache[k2] = c} = {k}
    BY <1>4, <2>2 DEF IsInjective
  <2>4. {i \in Loop : chan[i] = c} = {}
    BY <1>1, <1>2
  <2>5. Cardinality({k}) = 1 /\ Cardinality({}) = 0
    BY FS_Singleton, FS_EmptySet
  <2>6. Times(cache, c) = 1
    BY <2>3, <2>5, Zenon DEF Times
  <2>7. Having(chan, c) = 0
    BY <2>4, <2>5, Zenon DEF Having
  <2> QED BY <2>6, <2>7
<1>7. UnackedTyped
  BY DEF UnackedTyped, Init
<1>8. Places
  BY <1>1 DEF Places, Holding
<1>9. StopHoldsLock
  BY <1>1, <1>2 DEF StopHoldsLock, Init
<1>10. NothingBuffered /\ AllFound
  BY <1>1 DEF NothingBuffered, AllFound
<1>12. StopsPark /\ StopsAreAsked
  <2>1. Parked = {}
    BY <1>1, <1>5 DEF Parked, TypeOK, Range
  <2>2. ~Sending /\ ~token /\ stops = 0
    BY <1>1 DEF Sending, Init
  <2>3. Cardinality(Parked) = 0
    BY <2>1, FS_EmptySet
  <2> QED BY <2>2, <2>3 DEF StopsPark, StopsAreAsked, Pending
<1>11. StartedIffRunning
  BY <1>1 DEF StartedIffRunning, Running, Init
<1> QED BY <1>5, <1>6, <1>7, <1>8, <1>9, <1>10, <1>11, <1>12 DEF IInv

-----------------------------------------------------------------------------
(* A channel in hand is in no other, and one in the cache in none.         *)
LEMMA Hands ==
    ASSUME TypeOK, ChannelsConserved, Places
    PROVE  /\ \A i \in Loop : pc[i] \in Holding =>
                 /\ chan[i] \in Channel
                 /\ \A j \in Loop : chan[j] = chan[i] => j = i
           /\ cache # <<>> => Head(cache) \in Channel /\ Tail(cache) \in Seq(Channel)
<1>1. \A c \in Channel : Times(cache, c) + Having(chan, c) = 1
  BY DEF ChannelsConserved, Times, Having
<1>2. \A c \in Channel : Times(cache, c) \in Nat
  BY TimesType DEF TypeOK
<1>3. ASSUME NEW i \in Loop, pc[i] \in Holding
      PROVE  chan[i] \in Channel /\ \A j \in Loop : chan[j] = chan[i] => j = i
  <2>1. chan[i] \in Channel
    BY <1>3 DEF Places, TypeOK
  <2>2. ASSUME NEW j \in Loop, chan[j] = chan[i], j # i
        PROVE  FALSE
    <3>1. Having(chan, chan[i]) >= 2 /\ Having(chan, chan[i]) \in Nat
      BY <2>2, HavingType
    <3> QED BY <1>1, <1>2, <2>1, <3>1
  <2> QED BY <2>1, <2>2
<1>4. cache # <<>> => Head(cache) \in Channel /\ Tail(cache) \in Seq(Channel)
  BY DEF TypeOK
<1> QED BY <1>3, <1>4

(* What the calls of users do to the types.                                *)
LEMMA UserType ==
    ASSUME TypeOK, UnackedTyped, NEW u \in User,
           StartConsuming(u) \/ StopConsuming(u) \/ sendStop(u) \/ finishStop(u)
    PROVE  TypeOK' /\ UnackedTyped'
<1> USE ConsumerAssumption
        DEF TypeOK, UnackedTyped, control, loops, channels, broker, output, counters, PCs
<1>1. CASE StartConsuming(u)
  <2>1. PICK i \in Loop : pc' = [pc EXCEPT ![i] = "top"]
    BY <1>1 DEF StartConsuming, StartLoop, Goto
  <2>2. pc' \in [Loop -> PCs]
    BY <2>1
  <2>3. /\ twice' \in BOOLEAN /\ token' \in BOOLEAN /\ started' \in BOOLEAN
        /\ asked' \in BOOLEAN /\ conErrors' \in 0 .. ErrorsCap
    <3>1. /\ twice' = (twice \/ started) /\ token' = FALSE /\ started' = TRUE
          /\ asked' = FALSE /\ conErrors' = 0
      BY <1>1 DEF StartConsuming, StartLoop
    <3> HIDE DEF TypeOK
    <3>2. twice' \in BOOLEAN
      BY <3>1, Zenon
    <3>3. conErrors' \in 0 .. ErrorsCap
      BY <3>1
    <3> QED BY <3>1, <3>2, <3>3
  <2>4. UNCHANGED <<conLock, userPc, chan, hand, cache, up, errors, sub, buffer, unacked,
                    ready, times, receivedMessages, handled, flushed, stops, cancels>>
    BY <1>1 DEF StartConsuming, StartLoop
  <2> QED BY <2>2, <2>3, <2>4
<1>2. CASE StopConsuming(u)
  BY <1>2 DEF StopConsuming
<1>3. CASE sendStop(u)
  BY <1>3 DEF sendStop
<1>4. CASE finishStop(u)
  <2>1. receivedMessages' \in Seq(Delivery \cup {ZeroValue})
        /\ Len(receivedMessages') <= MessagesCap
        /\ flushed' \subseteq Delivery
    <3>1. CASE UNCHANGED <<receivedMessages, flushed>>
      BY <3>1
    <3>2. CASE /\ receivedMessages' = <<>>
               /\ flushed' = flushed \cup (Range(receivedMessages) \ {ZeroValue})
      <4>1. Range(receivedMessages) \subseteq Delivery \cup {ZeroValue}
        BY DEF Range
      <4> QED BY <3>2, <4>1
    <3> QED BY <1>4, <3>1, <3>2 DEF finishStop
  <2>2. conLock' \in User \cup {None} /\ userPc' \in [User -> {"idle", "send", "sent"}]
    BY <1>4 DEF finishStop
  <2>3. UNCHANGED <<started, twice, token, asked, pc, chan, hand, cache, up, errors,
                    sub, buffer, unacked, ready, times, conErrors, handled, stops,
                    cancels>>
    BY <1>4 DEF finishStop
  <2> QED BY <2>1, <2>2, <2>3
<1> QED BY <1>1, <1>2, <1>3, <1>4

(* Wiping channels gives their deliveries back to the queue.               *)
LEMMA RequeueType ==
    ASSUME TypeOK, UnackedTyped, NEW C \in SUBSET Channel, Requeue(C)
    PROVE  /\ ready' \in SUBSET Msg /\ times' \in [Msg -> Nat]
           /\ unacked' \in [Channel -> SUBSET Delivery]
<1>1. ready' \in SUBSET Msg
  <2>1. \A d \in UNION {unacked[c] : c \in C} : d \in Delivery
    BY DEF UnackedTyped
  <2>2. \A d \in Delivery : d[1] \in Msg
    BY DEF Delivery
  <2> QED BY <2>1, <2>2 DEF Requeue, TypeOK
<1>2. unacked' \in [Channel -> SUBSET Delivery] /\ times' \in [Msg -> Nat]
  BY DEF Requeue, UnackedTyped, TypeOK
<1> QED BY <1>1, <1>2

(* And leaves their buffers empty.                                         *)
LEMMA LoseType ==
    ASSUME TypeOK, UnackedTyped, NEW C \in SUBSET Channel, Lose(C)
    PROVE  /\ ready' \in SUBSET Msg /\ times' \in [Msg -> Nat]
           /\ unacked' \in [Channel -> SUBSET Delivery]
           /\ buffer' \in [Channel -> Seq(Delivery)]
           /\ up' \in [Channel -> BOOLEAN]
           /\ errors' \in [Channel -> {"quiet", "erred", "closed"}]
           /\ sub' \in [Channel -> {"none", "open", "closed"}]
<1>1. /\ ready' \in SUBSET Msg /\ times' \in [Msg -> Nat]
      /\ unacked' \in [Channel -> SUBSET Delivery]
  BY RequeueType DEF Lose
<1>2. buffer' \in [Channel -> Seq(Delivery)]
  <2>1. <<>> \in Seq(Delivery)
    OBVIOUS
  <2> QED BY <2>1 DEF Lose, TypeOK
<1>3. up' \in [Channel -> BOOLEAN]
  <2>1. \A c \in Channel : (up[c] /\ c \notin C) \in BOOLEAN
    OBVIOUS
  <2> QED BY <2>1, Zenon DEF Lose
<1>4. /\ errors' \in [Channel -> {"quiet", "erred", "closed"}]
      /\ sub' \in [Channel -> {"none", "open", "closed"}]
  BY DEF Lose, TypeOK
<1> QED BY <1>1, <1>2, <1>3, <1>4

(* The user acknowledges one delivery, or nothing.                         *)
LEMMA HandleType ==
    ASSUME TypeOK, UnackedTyped, NEW d \in Delivery \cup {ZeroValue}, Handle(d)
    PROVE  /\ handled' \in SUBSET Msg /\ UNCHANGED <<ready, times>>
           /\ unacked' \in [Channel -> SUBSET Delivery]
<1>1. d[1] \in Msg \cup {None}
  BY DEF Delivery, ZeroValue
<1> QED BY <1>1 DEF Handle, TypeOK, UnackedTyped

(* What a loop does to them before it has a channel and after.             *)
LEMMA OuterLoopType ==
    ASSUME TypeOK, UnackedTyped, ChannelsConserved, Places, NEW i \in Loop,
           \/ stopAtTop(i) \/ goOn(i) \/ GetChannelFromPool(i) \/ Consume(i)
           \/ consumeFails(i) \/ consumeTwice(i) \/ ReturnErredChannel(i)
           \/ reportError(i) \/ readStopImmediate(i) \/ finishLoop(i)
    PROVE  TypeOK' /\ UnackedTyped'
<1> USE ConsumerAssumption
        DEF TypeOK, UnackedTyped, control, loops, channels, broker, output, counters, PCs,
            Goto
<1>1. CASE stopAtTop(i)
  BY <1>1 DEF stopAtTop
<1>2. CASE goOn(i)
  BY <1>2 DEF goOn
<1>3. CASE GetChannelFromPool(i)
  <2>1. Head(cache) \in Channel /\ Tail(cache) \in Seq(Channel)
    BY <1>3, Hands DEF GetChannelFromPool
  <2> QED BY <1>3, <2>1 DEF GetChannelFromPool
<1>4. CASE Consume(i)
  <2>1. <<>> \in Seq(Delivery)
    OBVIOUS
  <2>2. buffer' \in [Channel -> Seq(Delivery)]
    BY <1>4, <2>1 DEF Consume
  <2> QED BY <1>4, <2>2 DEF Consume
<1>5. CASE consumeFails(i)
  BY <1>5 DEF consumeFails
<1>6. CASE ReturnErredChannel(i)
  <2>1. chan[i] \in Channel
    BY <1>6, Hands DEF ReturnErredChannel, Holding
  <2>2. /\ ready' \in SUBSET Msg /\ times' \in [Msg -> Nat]
        /\ unacked' \in [Channel -> SUBSET Delivery]
        /\ buffer' \in [Channel -> Seq(Delivery)]
    <3>1. Requeue({chan[i]}) /\ {chan[i]} \in SUBSET Channel
      BY <1>6, <2>1 DEF ReturnErredChannel
    <3>2. <<>> \in Seq(Delivery)
      OBVIOUS
    <3>3. buffer' \in [Channel -> Seq(Delivery)]
      BY <1>6, <3>2 DEF ReturnErredChannel
    <3> HIDE DEF TypeOK, UnackedTyped
    <3> QED BY <3>1, <3>3, RequeueType
  <2>3. Append(cache, chan[i]) \in Seq(Channel)
    BY <2>1
  <2>4. /\ cache' \in Seq(Channel) /\ up' \in [Channel -> BOOLEAN]
        /\ errors' \in [Channel -> {"quiet", "erred", "closed"}]
        /\ sub' \in [Channel -> {"none", "open", "closed"}]
        /\ chan' \in [Loop -> Channel \cup {None}] /\ pc' \in [Loop -> PCs]
    BY <1>6, <2>3 DEF ReturnErredChannel
  <2>5. UNCHANGED <<conLock, started, twice, token, asked, userPc, hand,
                    receivedMessages, conErrors, handled, flushed, stops, cancels>>
    BY <1>6 DEF ReturnErredChannel
  <2> QED BY <2>2, <2>4, <2>5
<1>7. CASE reportError(i)
  BY <1>7 DEF reportError
<1>8. CASE readStopImmediate(i)
  BY <1>8 DEF readStopImmediate
<1>9. CASE finishLoop(i)
  BY <1>9 DEF finishLoop
<1>10. CASE consumeTwice(i)
  <2>1. PICK C \in SUBSET Channel : Lose(C)
    BY <1>10 DEF consumeTwice
  <2>2. /\ ready' \in SUBSET Msg /\ times' \in [Msg -> Nat]
        /\ unacked' \in [Channel -> SUBSET Delivery]
        /\ buffer' \in [Channel -> Seq(Delivery)]
        /\ up' \in [Channel -> BOOLEAN]
        /\ errors' \in [Channel -> {"quiet", "erred", "closed"}]
        /\ sub' \in [Channel -> {"none", "open", "closed"}]
    <3> HIDE DEF TypeOK, UnackedTyped
    <3> QED BY <2>1, LoseType
  <2>3. pc' \in [Loop -> PCs]
    BY <1>10 DEF consumeTwice
  <2>4. UNCHANGED <<conLock, started, twice, token, asked, userPc, chan, hand, cache,
                    receivedMessages, conErrors, handled, flushed, stops, cancels>>
    BY <1>10 DEF consumeTwice
  <2> QED BY <2>2, <2>3, <2>4
<1> QED BY <1>1, <1>2, <1>3, <1>4, <1>5, <1>6, <1>7, <1>8, <1>9, <1>10

(* And what processDeliveries does.                                        *)
LEMMA InnerLoopType ==
    ASSUME TypeOK, UnackedTyped, ChannelsConserved, Places, NEW i \in Loop,
           \/ checkErrors(i) \/ takeDelivery(i) \/ noDelivery(i) \/ sendMessage(i)
           \/ callAction(i) \/ stopAtCheck(i)
    PROVE  TypeOK' /\ UnackedTyped'
<1> USE ConsumerAssumption
        DEF TypeOK, UnackedTyped, control, loops, channels, broker, output, counters, PCs,
            Goto, LetGo
<1>1. pc[i] \in Holding => chan[i] \in Channel
  BY Hands
<1>2. CASE checkErrors(i)
  <2>1. errors' \in [Channel -> {"quiet", "erred", "closed"}]
    BY <1>2 DEF checkErrors
  <2>2. pc' \in [Loop -> PCs]
    <3>1. \E p \in {"lost", "deliver"} : pc' = [pc EXCEPT ![i] = p]
      BY <1>2 DEF checkErrors
    <3> QED BY <3>1
  <2>3. UNCHANGED <<conLock, started, twice, token, asked, userPc, chan, hand, cache,
                    up, sub, buffer, unacked, ready, times, receivedMessages, conErrors,
                    handled, flushed, stops, cancels>>
    BY <1>2 DEF checkErrors
  <2> QED BY <2>1, <2>2, <2>3
<1>3. CASE takeDelivery(i)
  <2>1. chan[i] \in Channel /\ buffer[chan[i]] \in Seq(Delivery) /\ buffer[chan[i]] # <<>>
    BY <1>1, <1>3 DEF takeDelivery, Holding
  <2>2. Head(buffer[chan[i]]) \in Delivery /\ Tail(buffer[chan[i]]) \in Seq(Delivery)
    BY <2>1
  <2>3. /\ hand' \in [Loop -> Delivery \cup {ZeroValue}] /\ pc' \in [Loop -> PCs]
        /\ buffer' \in [Channel -> Seq(Delivery)]
    BY <1>3, <2>2 DEF takeDelivery
  <2>4. UNCHANGED <<conLock, started, twice, token, asked, userPc, chan, cache, up,
                    errors, sub, unacked, ready, times, receivedMessages, conErrors,
                    handled, flushed, stops, cancels>>
    BY <1>3 DEF takeDelivery
  <2> QED BY <2>3, <2>4
<1>4. CASE noDelivery(i)
  BY <1>4 DEF noDelivery
<1>5. CASE sendMessage(i)
  <2>1. /\ Append(receivedMessages, hand[i]) \in Seq(Delivery \cup {ZeroValue})
        /\ Len(Append(receivedMessages, hand[i])) <= MessagesCap
    BY <1>5 DEF sendMessage
  <2>2. hand' \in [Loop -> Delivery \cup {ZeroValue}] /\ pc' \in [Loop -> PCs]
    BY <1>5 DEF sendMessage
  <2>3. UNCHANGED <<conLock, started, twice, token, asked, userPc, chan, cache, up,
                    errors, sub, buffer, unacked, ready, times, conErrors, handled,
                    flushed, stops, cancels>>
    BY <1>5 DEF sendMessage
  <2> QED BY <1>5, <2>1, <2>2, <2>3 DEF sendMessage
<1>6. CASE callAction(i)
  <2>1. /\ handled' \in SUBSET Msg /\ UNCHANGED <<ready, times>>
        /\ unacked' \in [Channel -> SUBSET Delivery]
    BY <1>6, HandleType DEF callAction
  <2>2. hand' \in [Loop -> Delivery \cup {ZeroValue}] /\ pc' \in [Loop -> PCs]
    BY <1>6 DEF callAction
  <2>3. UNCHANGED <<conLock, started, twice, token, asked, userPc, chan, cache, up,
                    errors, sub, buffer, receivedMessages, conErrors, flushed, stops, cancels>>
    BY <1>6 DEF callAction
  <2> QED BY <2>1, <2>2, <2>3
<1>7. CASE stopAtCheck(i)
  <2>1. chan[i] \in Channel
    BY <1>1, <1>7 DEF stopAtCheck, Holding
  <2>2. Append(cache, chan[i]) \in Seq(Channel)
    BY <2>1
  <2> QED BY <1>7, <2>2 DEF stopAtCheck
<1> QED BY <1>2, <1>3, <1>4, <1>5, <1>6, <1>7

(* Readers of messages and errors, the broker and the library.             *)
LEMMA OutsideType ==
    ASSUME TypeOK, UnackedTyped,
           \/ receiveMessage \/ receiveError
           \/ \E c \in Channel : brokerDelivers(c) \/ loseChannel(c) \/ cancelConsumer(c)
    PROVE  TypeOK' /\ UnackedTyped'
<1> USE ConsumerAssumption
        DEF TypeOK, UnackedTyped, control, loops, channels, broker, output, counters
<1>1. CASE receiveMessage
  <2>1. /\ receivedMessages \in Seq(Delivery \cup {ZeroValue}) /\ receivedMessages # <<>>
        /\ receivedMessages' = Tail(receivedMessages)
    BY <1>1 DEF receiveMessage
  <2>2. /\ Head(receivedMessages) \in Delivery \cup {ZeroValue}
        /\ Tail(receivedMessages) \in Seq(Delivery \cup {ZeroValue})
        /\ Len(Tail(receivedMessages)) <= MessagesCap
    BY <2>1
  <2>3. /\ handled' \in SUBSET Msg /\ UNCHANGED <<ready, times>>
        /\ unacked' \in [Channel -> SUBSET Delivery]
    BY <1>1, <2>2, HandleType DEF receiveMessage
  <2>4. UNCHANGED <<conLock, started, twice, token, asked, userPc, pc, chan, hand,
                    cache, up, errors, sub, buffer, conErrors, flushed, stops, cancels>>
    BY <1>1 DEF receiveMessage
  <2> QED BY <2>1, <2>2, <2>3, <2>4
<1>2. CASE receiveError
  BY <1>2 DEF receiveError
<1>3. ASSUME NEW c \in Channel, brokerDelivers(c)
      PROVE  TypeOK' /\ UnackedTyped'
  <2>1. PICK m \in ready :
           LET d == <<m, times[m] + 1>>
           IN  /\ ready' = ready \ {m}
               /\ times' = [times EXCEPT ![m] = d[2]]
               /\ unacked' = [unacked EXCEPT ![c] = @ \cup {d}]
               /\ buffer' = [buffer EXCEPT ![c] = Append(@, d)]
    BY <1>3 DEF brokerDelivers
  <2>2. PICK d : d = <<m, times[m] + 1>>
    OBVIOUS
  <2>3. d \in Delivery /\ d[2] \in Nat
    <3>1. m \in Msg /\ times[m] + 1 \in Nat \ {0}
      OBVIOUS
    <3> QED BY <2>2, <3>1 DEF Delivery
  <2>4. ready' \in SUBSET Msg /\ times' \in [Msg -> Nat]
    BY <2>1, <2>2, <2>3
  <2>5. unacked' \in [Channel -> SUBSET Delivery]
    BY <2>1, <2>2, <2>3
  <2>6. buffer' \in [Channel -> Seq(Delivery)]
    <3>1. Append(buffer[c], d) \in Seq(Delivery)
      BY <2>3
    <3>2. buffer' = [buffer EXCEPT ![c] = Append(buffer[c], d)]
      BY <2>1, <2>2
    <3> QED BY <3>1, <3>2
  <2>7. UNCHANGED <<conLock, started, twice, token, asked, userPc, pc, chan, hand,
                    cache, up, errors, sub, receivedMessages, conErrors, handled, flushed,
                    stops, cancels>>
    BY <1>3 DEF brokerDelivers
  <2> QED BY <2>4, <2>5, <2>6, <2>7
<1>4. ASSUME NEW c \in Channel, loseChannel(c)
      PROVE  TypeOK' /\ UnackedTyped'
  <2>1. Lose({c}) /\ {c} \in SUBSET Channel
    BY <1>4 DEF loseChannel
  <2>2. /\ ready' \in SUBSET Msg /\ times' \in [Msg -> Nat]
        /\ unacked' \in [Channel -> SUBSET Delivery]
        /\ buffer' \in [Channel -> Seq(Delivery)]
        /\ up' \in [Channel -> BOOLEAN]
        /\ errors' \in [Channel -> {"quiet", "erred", "closed"}]
        /\ sub' \in [Channel -> {"none", "open", "closed"}]
    <3> HIDE DEF TypeOK, UnackedTyped
    <3> QED BY <2>1, LoseType
  <2>3. UNCHANGED <<conLock, started, twice, token, asked, userPc, pc, chan, hand,
                    cache, receivedMessages, conErrors, handled, flushed, stops, cancels>>
    BY <1>4 DEF loseChannel
  <2> QED BY <2>2, <2>3
<1>5. ASSUME NEW c \in Channel, cancelConsumer(c)
      PROVE  TypeOK' /\ UnackedTyped'
  BY <1>5 DEF cancelConsumer
<1> QED BY <1>1, <1>2, <1>3, <1>4, <1>5

(* Every step keeps the types and the buffers within their capacities.     *)
LEMMA TypeStep ==
    ASSUME TypeOK, UnackedTyped, ChannelsConserved, Places, [Next]_vars
    PROVE  TypeOK' /\ UnackedTyped'
<1>1. CASE UNCHANGED vars
  BY <1>1 DEF TypeOK, UnackedTyped, vars, control, loops, channels, broker, output,
              counters
<1>2. ASSUME NEW i \in Loop, LoopStep(i) PROVE TypeOK' /\ UnackedTyped'
  BY <1>2, OuterLoopType, InnerLoopType DEF LoopStep
<1> QED BY <1>1, <1>2, UserType, OutsideType DEF Next

-----------------------------------------------------------------------------
(* What users, readers, broker and library leave alone of the loops.       *)
LEMMA OthersLeave ==
    ASSUME \/ \E u \in User : StopConsuming(u) \/ sendStop(u) \/ finishStop(u)
           \/ receiveMessage \/ receiveError
           \/ \E c \in Channel : brokerDelivers(c) \/ loseChannel(c) \/ cancelConsumer(c)
           \/ UNCHANGED vars
    PROVE  UNCHANGED <<pc, chan, hand, cache>>
BY DEF StopConsuming, sendStop, finishStop, receiveMessage, receiveError, brokerDelivers,
       loseChannel, cancelConsumer, vars, loops, channels

(* One loop takes a step, and what it has and where it is agree again.     *)
LEMMA PlacesStep ==
    ASSUME TypeOK, ChannelsConserved, Places, [Next]_vars
    PROVE  Places'
<1> USE DEF Places, Holding, TypeOK, Goto
<1>0. None \notin Channel
  BY ConsumerAssumption
<1>1. ASSUME NEW i \in Loop, LoopStep(i)
      PROVE  /\ chan'[i] # None <=> pc'[i] \in Holding
             /\ pc'[i] # "hand" => hand'[i] = ZeroValue
             /\ \A j \in Loop \ {i} : chan'[j] = chan[j] /\ pc'[j] = pc[j] /\ hand'[j] = hand[j]
  <2> USE DEF LetGo
  <2>1. CASE stopAtTop(i) \/ goOn(i)
    BY <2>1 DEF stopAtTop, goOn
  <2>2. CASE GetChannelFromPool(i)
    <3>1. Head(cache) \in Channel
      BY <2>2, Hands DEF GetChannelFromPool
    <3> QED BY <1>0, <2>2, <3>1 DEF GetChannelFromPool
  <2>3. CASE Consume(i) \/ consumeFails(i) \/ consumeTwice(i)
    BY <2>3 DEF Consume, consumeFails, consumeTwice
  <2>4. CASE ReturnErredChannel(i)
    BY <2>4 DEF ReturnErredChannel
  <2>5. CASE reportError(i) \/ readStopImmediate(i) \/ finishLoop(i)
    BY <2>5 DEF reportError, readStopImmediate, finishLoop
  <2>6. CASE checkErrors(i)
    BY <2>6 DEF checkErrors
  <2>7. CASE takeDelivery(i)
    BY <2>7 DEF takeDelivery
  <2>8. CASE noDelivery(i)
    BY <2>8 DEF noDelivery
  <2>9. CASE sendMessage(i) \/ callAction(i)
    BY <2>9 DEF sendMessage, callAction
  <2>10. CASE stopAtCheck(i)
    BY <2>10 DEF stopAtCheck
  <2> QED BY <1>1, <2>1, <2>2, <2>3, <2>4, <2>5, <2>6, <2>7, <2>8, <2>9, <2>10 DEF LoopStep
<1>2. ASSUME NEW u \in User, StartConsuming(u) PROVE Places'
  <2>1. PICK i \in Loop : pc[i] = "off" /\ pc' = [pc EXCEPT ![i] = "top"]
    BY <1>2 DEF StartConsuming, StartLoop
  <2>2. UNCHANGED <<chan, hand>>
    BY <1>2 DEF StartConsuming, StartLoop
  <2> QED BY <2>1, <2>2
<1>3. ASSUME UNCHANGED <<pc, chan, hand>> PROVE Places'
  BY <1>3
<1>4. ASSUME NEW i \in Loop, LoopStep(i) PROVE Places'
  BY <1>1, <1>4
<1> QED BY <1>2, <1>3, <1>4, OthersLeave DEF Next

(* A channel goes from the cache to a loop and back, and nowhere else.     *)
LEMMA ConserveStep ==
    ASSUME TypeOK, ChannelsConserved, Places, [Next]_vars
    PROVE  ChannelsConserved'
<1>2. \A c \in Channel : Times(cache, c) \in Nat /\ Having(chan, c) \in Nat
  BY TimesType, HavingType DEF TypeOK
<1>3. \A c \in Channel : Times(cache, c) + Having(chan, c) = 1
  BY DEF ChannelsConserved, Times, Having
<1>4. DOMAIN chan = Loop /\ None \notin Channel /\ cache \in Seq(Channel)
  BY ConsumerAssumption DEF TypeOK
<1>5. ASSUME NEW i \in Loop, GetChannelFromPool(i) PROVE ChannelsConserved'
  <2> SUFFICES ASSUME NEW c \in Channel
               PROVE  Times(cache', c) + Having(chan', c) = 1
    BY DEF ChannelsConserved, Times, Having
  <2>1. cache' = Tail(cache) /\ chan' = [chan EXCEPT ![i] = Head(cache)] /\ cache # <<>>
    BY <1>5 DEF GetChannelFromPool
  <2>2. chan[i] = None
    BY <1>5 DEF GetChannelFromPool, Places, Holding
  <2>3. Times(cache, c) = Times(cache', c) + (IF Head(cache) = c THEN 1 ELSE 0)
        /\ Times(cache', c) \in Nat
    <3>1. Tail(cache) \in Seq(Channel)
      BY <1>4, <2>1
    <3> QED BY <1>4, <2>1, <3>1, TimesTail, TimesType
  <2>4. /\ Having(chan', c) \in Nat
        /\ Having(chan', c) = IF Head(cache) = c THEN Having(chan, c) + 1 ELSE Having(chan, c)
    <3>1. chan'[i] = Head(cache) /\ \A m \in Loop \ {i} : chan'[m] = chan[m]
      BY <2>1 DEF TypeOK
    <3>2. chan[i] # c
      BY <1>4, <2>2
    <3>3. chan \in [Loop -> Channel \cup {None}] /\ chan' \in [Loop -> Channel \cup {None}]
      BY <2>1, Hands DEF TypeOK
    <3>4. /\ Having(chan', c) \in Nat
          /\ (chan[i] = c <=> chan'[i] = c) => Having(chan', c) = Having(chan, c)
          /\ chan[i] # c /\ chan'[i] = c => Having(chan', c) = Having(chan, c) + 1
      BY <3>1, <3>3, HavingExcept
    <3> QED BY <3>1, <3>2, <3>4
  <2> QED BY <1>2, <1>3, <2>3, <2>4
<1>6. ASSUME NEW i \in Loop, ReturnErredChannel(i) \/ stopAtCheck(i) PROVE ChannelsConserved'
  <2> SUFFICES ASSUME NEW c \in Channel
               PROVE  Times(cache', c) + Having(chan', c) = 1
    BY DEF ChannelsConserved, Times, Having
  <2>1. cache' = Append(cache, chan[i]) /\ chan' = [chan EXCEPT ![i] = None]
    BY <1>6 DEF ReturnErredChannel, stopAtCheck
  <2>2. chan[i] \in Channel
    BY <1>6, Hands DEF ReturnErredChannel, stopAtCheck, Holding
  <2>3. Times(cache', c) = Times(cache, c) + (IF chan[i] = c THEN 1 ELSE 0)
    BY <1>4, <2>1, <2>2, TimesAppend
  <2>4. /\ Having(chan', c) \in Nat
        /\ Having(chan', c) = IF chan[i] = c THEN Having(chan, c) - 1 ELSE Having(chan, c)
    <3>1. chan'[i] = None /\ \A m \in Loop \ {i} : chan'[m] = chan[m]
      BY <2>1 DEF TypeOK
    <3>2. chan'[i] # c
      BY <1>4, <3>1
    <3>3. chan \in [Loop -> Channel \cup {None}] /\ chan' \in [Loop -> Channel \cup {None}]
      BY <2>1 DEF TypeOK
    <3>4. /\ Having(chan', c) \in Nat
          /\ (chan[i] = c <=> chan'[i] = c) => Having(chan', c) = Having(chan, c)
          /\ chan[i] = c /\ chan'[i] # c => Having(chan', c) = Having(chan, c) - 1
      BY <3>1, <3>3, HavingExcept
    <3> QED BY <3>1, <3>2, <3>4
  <2> QED BY <1>2, <1>3, <2>3, <2>4
<1>7. ASSUME UNCHANGED <<cache, chan>> PROVE ChannelsConserved'
  BY <1>7 DEF ChannelsConserved
<1>8. ASSUME NEW i \in Loop,
             \/ stopAtTop(i) \/ goOn(i) \/ Consume(i) \/ consumeFails(i)
             \/ consumeTwice(i) \/ reportError(i) \/ readStopImmediate(i) \/ finishLoop(i) \/ checkErrors(i) \/ takeDelivery(i)
             \/ noDelivery(i) \/ sendMessage(i) \/ callAction(i)
      PROVE  UNCHANGED <<cache, chan>>
  BY <1>8 DEF stopAtTop, goOn, Consume, consumeFails, consumeTwice, reportError,
              readStopImmediate, finishLoop, checkErrors, takeDelivery, noDelivery, sendMessage, callAction,
              channels
<1>9. ASSUME NEW u \in User, StartConsuming(u)
      PROVE  UNCHANGED <<cache, chan>>
  BY <1>9 DEF StartConsuming, StartLoop, channels
<1> QED BY <1>5, <1>6, <1>7, <1>8, <1>9, OthersLeave DEF Next, LoopStep

(* One StopConsuming at a time, and no loop ends during it.                *)
LEMMA StopStep ==
    ASSUME TypeOK, StopHoldsLock, [Next]_vars
    PROVE  StopHoldsLock'
<1> USE ConsumerAssumption DEF StopHoldsLock, TypeOK, control
<1>1. ASSUME NEW u \in User, StartConsuming(u) PROVE StopHoldsLock'
  BY <1>1 DEF StartConsuming, StartLoop
<1>2. ASSUME NEW u \in User, StopConsuming(u) PROVE StopHoldsLock'
  BY <1>2 DEF StopConsuming
<1>3. ASSUME NEW u \in User, sendStop(u) PROVE StopHoldsLock'
  BY <1>3 DEF sendStop
<1>4. ASSUME NEW u \in User, finishStop(u) PROVE StopHoldsLock'
  BY <1>4 DEF finishStop
<1>5. ASSUME NEW i \in Loop, finishLoop(i) PROVE StopHoldsLock'
  BY <1>5 DEF finishLoop
<1>6. ASSUME UNCHANGED <<conLock, started, userPc>> PROVE StopHoldsLock'
  BY <1>6
<1>7. ASSUME NEW i \in Loop, LoopStep(i), ~finishLoop(i)
      PROVE  UNCHANGED <<conLock, started, userPc>>
  BY <1>7 DEF LoopStep, stopAtTop, goOn, GetChannelFromPool, Consume, consumeFails, consumeTwice,
              ReturnErredChannel, reportError, readStopImmediate, checkErrors, takeDelivery,
              noDelivery, sendMessage, callAction, stopAtCheck
<1>8. ASSUME \/ receiveMessage \/ receiveError
             \/ \E c \in Channel : brokerDelivers(c) \/ loseChannel(c) \/ cancelConsumer(c)
             \/ UNCHANGED vars
      PROVE  UNCHANGED <<conLock, started, userPc>>
  BY <1>8 DEF receiveMessage, receiveError, brokerDelivers, loseChannel, cancelConsumer,
              vars
<1> QED BY <1>1, <1>2, <1>3, <1>4, <1>5, <1>6, <1>7, <1>8 DEF Next

-----------------------------------------------------------------------------
(* What is sent on a Go channel is then in it.                             *)
LEMMA RangeAppend ==
    ASSUME NEW S, NEW s \in Seq(S), NEW e \in S
    PROVE  Range(s) \subseteq Range(Append(s, e)) /\ e \in Range(Append(s, e))
<1>1. /\ Len(s) \in Nat /\ DOMAIN s = 1 .. Len(s)
      /\ DOMAIN Append(s, e) = 1 .. Len(s) + 1
      /\ \A k \in 1 .. Len(s) : Append(s, e)[k] = s[k]
      /\ Append(s, e)[Len(s) + 1] = e
  OBVIOUS
<1> QED BY <1>1 DEF Range

(* A receive takes out nothing but the head.                               *)
LEMMA RangeTail ==
    ASSUME NEW S, NEW s \in Seq(S), s # <<>>
    PROVE  \A d \in Range(s) : d = Head(s) \/ d \in Range(Tail(s))
<1>1. /\ Len(s) \in Nat /\ DOMAIN s = 1 .. Len(s) /\ Head(s) = s[1]
      /\ DOMAIN Tail(s) = 1 .. Len(s) - 1
      /\ \A k \in 1 .. Len(s) - 1 : Tail(s)[k] = s[k + 1]
  OBVIOUS
<1>2. ASSUME NEW k \in DOMAIN s, k # 1
      PROVE  s[k] \in Range(Tail(s))
  <2>1. k - 1 \in DOMAIN Tail(s) /\ Tail(s)[k - 1] = s[k]
    BY <1>1, <1>2
  <2> QED BY <2>1 DEF Range
<1> QED BY <1>1, <1>2 DEF Range

(* Only cancelConsumer leaves deliveries in a subscription that is closed. *)
LEMMA BufferStep ==
    ASSUME TypeOK, UnackedTyped, ChannelsConserved, Places, NothingBuffered, [Next]_vars
    PROVE  NothingBuffered'
<1> USE DEF NothingBuffered, TypeOK
<1>1. ASSUME UNCHANGED <<sub, buffer, cancels>> PROVE NothingBuffered'
  BY <1>1
<1>2. ASSUME NEW c \in Channel, NEW s,
             sub' = [sub EXCEPT ![c] = s] /\ buffer' = [buffer EXCEPT ![c] = <<>>]
             /\ UNCHANGED cancels
      PROVE  NothingBuffered'
  BY <1>2
<1>12. ASSUME NEW C \in SUBSET Channel, Lose(C), UNCHANGED cancels
       PROVE  NothingBuffered'
  BY <1>12 DEF Lose
<1>13. ASSUME NEW i \in Loop, consumeTwice(i) PROVE NothingBuffered'
  <2>1. PICK C \in SUBSET Channel : Lose(C)
    BY <1>13 DEF consumeTwice
  <2>2. UNCHANGED cancels
    BY <1>13 DEF consumeTwice, counters
  <2> HIDE DEF NothingBuffered, TypeOK
  <2> QED BY <1>12, <2>1, <2>2
<1>3. ASSUME NEW i \in Loop, Consume(i) \/ ReturnErredChannel(i) PROVE NothingBuffered'
  <2>1. chan[i] \in Channel
    BY <1>3, Hands DEF Consume, ReturnErredChannel, Holding
  <2> QED BY <1>2, <1>3, <2>1 DEF Consume, ReturnErredChannel, counters
<1>4. ASSUME NEW i \in Loop, takeDelivery(i) PROVE NothingBuffered'
  <2>1. chan[i] \in Channel
    BY <1>4, Hands DEF takeDelivery, Holding
  <2>2. /\ buffer[chan[i]] # <<>> /\ buffer' = [buffer EXCEPT ![chan[i]] = Tail(@)]
        /\ UNCHANGED <<sub, cancels>>
    BY <1>4 DEF takeDelivery, counters
  <2> QED BY <2>1, <2>2
<1>5. ASSUME NEW i \in Loop, LoopStep(i), ~Consume(i), ~consumeTwice(i),
             ~ReturnErredChannel(i), ~takeDelivery(i)
      PROVE  UNCHANGED <<sub, buffer, cancels>>
  BY <1>5 DEF LoopStep, stopAtTop, goOn, GetChannelFromPool, consumeFails, reportError,
              readStopImmediate, finishLoop, checkErrors, noDelivery, sendMessage,
              callAction, stopAtCheck, channels, counters
<1>6. ASSUME NEW u \in User,
             StartConsuming(u) \/ StopConsuming(u) \/ sendStop(u) \/ finishStop(u)
      PROVE  UNCHANGED <<sub, buffer, cancels>>
  BY <1>6 DEF StartConsuming, StartLoop, StopConsuming, sendStop, finishStop, channels, counters
<1>7. ASSUME receiveMessage \/ receiveError
      PROVE  UNCHANGED <<sub, buffer, cancels>>
  BY <1>7 DEF receiveMessage, receiveError, channels, counters
<1>8. ASSUME NEW c \in Channel, brokerDelivers(c) PROVE NothingBuffered'
  <2>1. /\ sub[c] = "open" /\ UNCHANGED <<sub, cancels>>
        /\ \A b \in Channel \ {c} : buffer'[b] = buffer[b]
    BY <1>8 DEF brokerDelivers, counters
  <2> QED BY <2>1
<1>9. ASSUME NEW c \in Channel, loseChannel(c) PROVE NothingBuffered'
  <2>1. Lose({c}) /\ {c} \in SUBSET Channel /\ UNCHANGED cancels
    BY <1>9 DEF loseChannel
  <2> HIDE DEF NothingBuffered, TypeOK
  <2> QED BY <1>12, <2>1
<1>10. ASSUME NEW c \in Channel, cancelConsumer(c) PROVE NothingBuffered'
  <2>1. cancels' # 0
    BY <1>10 DEF cancelConsumer, UnackedTyped
  <2> QED BY <2>1
<1>11. CASE UNCHANGED vars
  BY <1>1, <1>11 DEF vars, channels, counters
<1> QED BY <1>1, <1>3, <1>4, <1>5, <1>6, <1>7, <1>8, <1>9, <1>10, <1>11, <1>13 DEF Next

-----------------------------------------------------------------------------
(* A delivery goes from the buffer to the loop's hand, on to               *)
(* receivedMessages, and from either to the user.                          *)
LEMMA LoopKeeps ==
    ASSUME TypeOK, UnackedTyped, ChannelsConserved, Places, NothingBuffered,
           AllFound, NEW i \in Loop, LoopStep(i)
    PROVE  AllFound'
<1>0. cancels' = cancels
  BY DEF LoopStep, stopAtTop, goOn, GetChannelFromPool, Consume, consumeFails, consumeTwice,
         ReturnErredChannel, reportError, readStopImmediate, finishLoop, checkErrors,
         takeDelivery, noDelivery, sendMessage, callAction, stopAtCheck, counters
<1>1. pc[i] \in Holding => chan[i] \in Channel
  BY Hands
<1>2. \A c \in Channel : \A d \in unacked[c] : d # ZeroValue
  BY DEF UnackedTyped, Delivery, ZeroValue
<1>3. ASSUME UNCHANGED <<buffer, receivedMessages, flushed, hand, unacked>>
      PROVE  AllFound'
  BY <1>0, <1>3 DEF AllFound, Found
<1>4. ASSUME NEW c \in Channel, UNCHANGED <<receivedMessages, flushed, hand>>,
             buffer' = [buffer EXCEPT ![c] = <<>>],
             \/ unacked' = [unacked EXCEPT ![c] = {}]
             \/ /\ UNCHANGED unacked
                /\ buffer[c] = <<>> \/ cancels # 0
      PROVE  AllFound'
  BY <1>0, <1>4 DEF AllFound, Found, UnackedTyped, TypeOK
<1>5. ASSUME Consume(i) PROVE AllFound'
  <2>1. chan[i] \in Channel
    BY <1>1, <1>5 DEF Consume, Holding
  <2>2. buffer[chan[i]] = <<>> \/ cancels # 0
    BY <1>5, <2>1 DEF NothingBuffered, Consume
  <2> QED BY <1>4, <1>5, <2>1, <2>2 DEF Consume, broker, output
<1>6. ASSUME ReturnErredChannel(i) PROVE AllFound'
  <2>1. chan[i] \in Channel
    BY <1>1, <1>6 DEF ReturnErredChannel, Holding
  <2>2. unacked' = [unacked EXCEPT ![chan[i]] = {}]
    BY <1>6, <2>1 DEF ReturnErredChannel, Requeue, UnackedTyped
  <2> QED BY <1>4, <1>6, <2>1, <2>2 DEF ReturnErredChannel, output
<1>11. ASSUME NEW C \in SUBSET Channel, Lose(C), UNCHANGED <<receivedMessages, flushed, hand>>
       PROVE  AllFound'
  <2>1. \A c \in C : unacked'[c] = {}
    BY <1>11 DEF Lose, Requeue
  <2>2. \A c \in Channel \ C : unacked'[c] = unacked[c] /\ buffer'[c] = buffer[c]
    BY <1>11 DEF Lose, Requeue
  <2> QED BY <1>0, <1>11, <2>1, <2>2 DEF AllFound, Found
<1>12. ASSUME consumeTwice(i) PROVE AllFound'
  <2>1. PICK C \in SUBSET Channel : Lose(C)
    BY <1>12 DEF consumeTwice
  <2>2. UNCHANGED <<receivedMessages, flushed, hand>>
    BY <1>12 DEF consumeTwice, output
  <2> QED BY <1>11, <2>1, <2>2
<1>7. ASSUME takeDelivery(i) PROVE AllFound'
  <2>1. chan[i] \in Channel /\ buffer[chan[i]] \in Seq(Delivery) /\ buffer[chan[i]] # <<>>
    BY <1>1, <1>7 DEF takeDelivery, Holding, TypeOK
  <2>2. hand[i] = ZeroValue
    BY <1>7 DEF takeDelivery, Places
  <2>3. /\ hand'[i] = Head(buffer[chan[i]])
        /\ \A j \in Loop \ {i} : hand'[j] = hand[j]
        /\ buffer'[chan[i]] = Tail(buffer[chan[i]])
        /\ \A c \in Channel \ {chan[i]} : buffer'[c] = buffer[c]
        /\ UNCHANGED <<receivedMessages, flushed, unacked>>
    BY <1>7, <2>1 DEF takeDelivery, TypeOK, broker, output
  <2>4. \A d \in Range(buffer[chan[i]]) : d = hand'[i] \/ d \in Range(buffer'[chan[i]])
    BY <2>1, <2>3, RangeTail
  <2>5. ASSUME NEW c \in Channel, NEW d \in unacked[c], Found(c, d)
        PROVE  Found(c, d)'
    <3>1. CASE d \in Range(buffer[c])
      BY <2>3, <2>4, <3>1 DEF Found
    <3>2. CASE d \in Range(receivedMessages) \cup flushed
      BY <2>3, <3>2 DEF Found
    <3>3. CASE \E j \in Loop : hand[j] = d
      BY <1>2, <2>2, <2>3, <3>3 DEF Found
    <3> QED BY <2>5, <3>1, <3>2, <3>3 DEF Found
  <2> QED BY <1>0, <2>3, <2>5 DEF AllFound, Found
<1>8. ASSUME sendMessage(i) PROVE AllFound'
  <2>1. /\ hand[i] \in Delivery \cup {ZeroValue}
        /\ receivedMessages \in Seq(Delivery \cup {ZeroValue})
        /\ receivedMessages' = Append(receivedMessages, hand[i])
    BY <1>8 DEF sendMessage, TypeOK
  <2>2. /\ Range(receivedMessages) \subseteq Range(receivedMessages')
        /\ hand[i] \in Range(receivedMessages')
    BY <2>1, RangeAppend
  <2>3. /\ \A j \in Loop \ {i} : hand'[j] = hand[j]
        /\ UNCHANGED <<buffer, flushed, unacked>>
    BY <1>8 DEF sendMessage, LetGo, TypeOK, channels, broker
  <2>4. ASSUME NEW c \in Channel, NEW d \in unacked[c], Found(c, d)
        PROVE  Found(c, d)'
    BY <2>2, <2>3, <2>4 DEF Found
  <2> QED BY <1>0, <2>3, <2>4 DEF AllFound, Found
<1>9. ASSUME callAction(i) PROVE AllFound'
  <2>1. /\ \A j \in Loop \ {i} : hand'[j] = hand[j]
        /\ unacked' = [c \in Channel |-> unacked[c] \ {hand[i]}]
        /\ UNCHANGED <<buffer, receivedMessages, flushed>>
    BY <1>9 DEF callAction, Handle, LetGo, TypeOK, channels
  <2>2. ASSUME NEW c \in Channel, NEW d \in unacked'[c], Found(c, d)
        PROVE  d \in unacked[c] /\ Found(c, d)'
    BY <2>1, <2>2 DEF Found
  <2>3. \A c \in Channel : \A d \in unacked'[c] : d \in unacked[c]
    BY <2>1
  <2> QED BY <1>0, <2>2, <2>3 DEF AllFound, Found
<1>10. ASSUME LoopStep(i), ~Consume(i), ~consumeTwice(i), ~ReturnErredChannel(i),
              ~takeDelivery(i), ~sendMessage(i), ~callAction(i)
       PROVE  UNCHANGED <<buffer, receivedMessages, flushed, hand, unacked>>
  BY <1>10 DEF LoopStep, stopAtTop, goOn, GetChannelFromPool, consumeFails, reportError,
               readStopImmediate, finishLoop, checkErrors, noDelivery, stopAtCheck,
               channels, broker, output
<1> QED BY <1>3, <1>5, <1>6, <1>7, <1>8, <1>9, <1>10, <1>12

(* A stop may flush, which is noted; a reader acknowledges what it reads;  *)
(* the broker gives a delivery to the buffer; a loss forgets both sides.   *)
LEMMA OthersKeep ==
    ASSUME TypeOK, UnackedTyped, AllFound, [Next]_vars,
           ~(\E i \in Loop : LoopStep(i))
    PROVE  AllFound'
<1>1. \A c \in Channel : \A d \in unacked[c] : d # ZeroValue
  BY DEF UnackedTyped, Delivery, ZeroValue
<1>2. ASSUME UNCHANGED <<buffer, receivedMessages, flushed, hand, unacked, cancels>>
      PROVE  AllFound'
  BY <1>2 DEF AllFound, Found
<1>3. ASSUME NEW u \in User, StartConsuming(u) \/ StopConsuming(u) \/ sendStop(u)
      PROVE  UNCHANGED <<buffer, receivedMessages, flushed, hand, unacked, cancels>>
  BY <1>3 DEF StartConsuming, StartLoop, StopConsuming, sendStop, loops, channels, broker, output,
              counters
<1>4. ASSUME NEW u \in User, finishStop(u) PROVE AllFound'
  <2>1. UNCHANGED <<buffer, hand, unacked, cancels>>
    BY <1>4 DEF finishStop, loops, channels, broker, counters
  <2>2. \A d \in Range(receivedMessages) \cup flushed :
           d # ZeroValue => d \in Range(receivedMessages') \cup flushed'
    BY <1>4 DEF finishStop
  <2>3. ASSUME NEW c \in Channel, NEW d \in unacked[c], Found(c, d)
        PROVE  Found(c, d)'
    <3>1. CASE d \in Range(receivedMessages) \cup flushed
      BY <1>1, <2>2, <3>1 DEF Found
    <3>2. CASE d \in Range(buffer[c]) \/ \E i \in Loop : hand[i] = d
      BY <2>1, <3>2 DEF Found
    <3> QED BY <2>3, <3>1, <3>2 DEF Found
  <2> QED BY <2>1, <2>3 DEF AllFound, Found
<1>5. ASSUME receiveMessage PROVE AllFound'
  <2>1. /\ receivedMessages \in Seq(Delivery \cup {ZeroValue}) /\ receivedMessages # <<>>
        /\ receivedMessages' = Tail(receivedMessages)
        /\ unacked' = [c \in Channel |-> unacked[c] \ {Head(receivedMessages)}]
        /\ UNCHANGED <<buffer, hand, flushed, cancels>>
    BY <1>5 DEF receiveMessage, Handle, TypeOK, loops, channels, counters
  <2>2. \A d \in Range(receivedMessages) :
           d = Head(receivedMessages) \/ d \in Range(receivedMessages')
    BY <2>1, RangeTail
  <2>3. ASSUME NEW c \in Channel, NEW d \in unacked'[c], Found(c, d)
        PROVE  Found(c, d)'
    <3>1. d # Head(receivedMessages)
      BY <2>1
    <3> QED BY <2>1, <2>2, <2>3, <3>1 DEF Found
  <2>4. \A c \in Channel : \A d \in unacked'[c] : d \in unacked[c]
    BY <2>1
  <2> QED BY <2>1, <2>3, <2>4 DEF AllFound, Found
<1>6. ASSUME receiveError
      PROVE  UNCHANGED <<buffer, receivedMessages, flushed, hand, unacked, cancels>>
  BY <1>6 DEF receiveError, loops, channels, broker, counters
<1>7. ASSUME NEW c \in Channel, brokerDelivers(c) PROVE AllFound'
  <2>1. PICK m \in ready :
           LET d == <<m, times[m] + 1>>
           IN  /\ unacked' = [unacked EXCEPT ![c] = @ \cup {d}]
               /\ buffer' = [buffer EXCEPT ![c] = Append(@, d)]
    BY <1>7 DEF brokerDelivers
  <2>2. PICK d : d = <<m, times[m] + 1>>
    OBVIOUS
  <2>3. d \in Delivery
    <3>1. m \in Msg /\ times[m] + 1 \in Nat \ {0}
      BY DEF TypeOK
    <3> QED BY <2>2, <3>1 DEF Delivery
  <2>4. /\ unacked'[c] = unacked[c] \cup {d} /\ buffer'[c] = Append(buffer[c], d)
        /\ \A b \in Channel \ {c} : unacked'[b] = unacked[b] /\ buffer'[b] = buffer[b]
    BY <2>1, <2>2 DEF UnackedTyped, TypeOK
  <2>5. Range(buffer[c]) \subseteq Range(buffer'[c]) /\ d \in Range(buffer'[c])
    BY <2>3, <2>4, RangeAppend DEF TypeOK
  <2>6. UNCHANGED <<receivedMessages, flushed, hand, cancels>>
    BY <1>7 DEF brokerDelivers, loops, output, counters
  <2> QED BY <2>4, <2>5, <2>6 DEF AllFound, Found
<1>8. ASSUME NEW c \in Channel, loseChannel(c) PROVE AllFound'
  <2>1. /\ unacked'[c] = {}
        /\ \A b \in Channel \ {c} : unacked'[b] = unacked[b] /\ buffer'[b] = buffer[b]
    BY <1>8 DEF loseChannel, Lose, Requeue, UnackedTyped, TypeOK
  <2>2. UNCHANGED <<receivedMessages, flushed, hand, cancels>>
    BY <1>8 DEF loseChannel, loops, output
  <2> QED BY <2>1, <2>2 DEF AllFound, Found
<1>9. ASSUME NEW c \in Channel, cancelConsumer(c) PROVE AllFound'
  <2>1. cancels' # 0
    BY <1>9 DEF cancelConsumer, UnackedTyped
  <2> QED BY <2>1 DEF AllFound, Found
<1>10. CASE UNCHANGED vars
  BY <1>2, <1>10 DEF vars, loops, channels, broker, output, counters
<1> QED BY <1>2, <1>3, <1>4, <1>5, <1>6, <1>7, <1>8, <1>9, <1>10 DEF Next

-----------------------------------------------------------------------------
(* A channel in the cache is in nobody's hands, and one that is not is.    *)
LEMMA IdleOrTaken ==
    ASSUME TypeOK, ChannelsConserved, NEW c \in Channel
    PROVE  c \in Range(cache) <=> ~\E i \in Loop : chan[i] = c
<1>1. Times(cache, c) + Having(chan, c) = 1
  BY DEF ChannelsConserved, Times, Having
<1>2. Times(cache, c) \in Nat /\ Having(chan, c) \in Nat
  BY TimesType, HavingType DEF TypeOK
<1>3. c \in Range(cache) => Times(cache, c) >= 1
  BY TimesType DEF TypeOK, Range
<1>4. (\E i \in Loop : chan[i] = c) => Having(chan, c) >= 1
  BY HavingType
<1>5. ASSUME c \notin Range(cache)
      PROVE  Times(cache, c) = 0
  <2>1. {k \in DOMAIN cache : cache[k] = c} = {}
    BY <1>5 DEF Range
  <2> QED BY <2>1, FS_EmptySet DEF Times
<1>6. ASSUME ~\E i \in Loop : chan[i] = c
      PROVE  Having(chan, c) = 0
  <2>1. {i \in Loop : chan[i] = c} = {}
    BY <1>6
  <2> QED BY <2>1, FS_EmptySet DEF Having
<1> QED BY <1>1, <1>2, <1>3, <1>4, <1>5, <1>6

(* The stops under way are a number.                                       *)
LEMMA PendingType == Pending \in Nat
BY DEF Pending

(* A channel is parked only by the stop that returns it.                   *)
LEMMA ParkedStep ==
    ASSUME TypeOK, ChannelsConserved, Places, [Next]_vars
    PROVE  /\ \A i \in Loop : stopAtCheck(i) => Parked' \subseteq Parked \cup {chan[i]}
           /\ (\A i \in Loop : ~stopAtCheck(i)) => Parked' \subseteq Parked
<1> USE DEF Parked
<1>1. ASSUME UNCHANGED <<cache, sub>> PROVE Parked' \subseteq Parked
  BY <1>1 DEF Range
<1>2. ASSUME NEW i \in Loop, stopAtCheck(i) PROVE Parked' \subseteq Parked \cup {chan[i]}
  <2>1. cache' = Append(cache, chan[i]) /\ chan[i] \in Channel /\ sub' = sub
    BY <1>2, Hands DEF stopAtCheck, Holding
  <2>2. Range(cache') \subseteq Range(cache) \cup {chan[i]}
    BY <2>1 DEF TypeOK, Range
  <2> QED BY <2>1, <2>2
<1>3. ASSUME NEW i \in Loop, GetChannelFromPool(i) PROVE Parked' \subseteq Parked
  <2>1. cache' = Tail(cache) /\ cache # <<>> /\ sub' = sub
    BY <1>3 DEF GetChannelFromPool
  <2>2. Range(cache') \subseteq Range(cache)
    BY <2>1 DEF TypeOK, Range
  <2> QED BY <2>1, <2>2
<1>4. ASSUME NEW i \in Loop, Consume(i) PROVE Parked' \subseteq Parked
  <2>1. chan[i] \in Channel /\ chan[i] \notin Range(cache)
    BY <1>4, Hands, IdleOrTaken DEF Consume, Holding
  <2>2. UNCHANGED cache /\ \A c \in Channel \ {chan[i]} : sub'[c] = sub[c]
    BY <1>4 DEF Consume, TypeOK
  <2>3. Range(cache) \subseteq Channel
    BY DEF TypeOK, Range
  <2> QED BY <2>1, <2>2, <2>3 DEF Range
<1>5. ASSUME NEW i \in Loop, ReturnErredChannel(i) PROVE Parked' \subseteq Parked
  <2>1. chan[i] \in Channel
    BY <1>5, Hands DEF ReturnErredChannel, Holding
  <2>2. /\ cache' = Append(cache, chan[i])
        /\ sub'[chan[i]] = "none" /\ \A c \in Channel \ {chan[i]} : sub'[c] = sub[c]
    BY <1>5, <2>1 DEF ReturnErredChannel, TypeOK
  <2>3. Range(cache') \subseteq Range(cache) \cup {chan[i]} /\ Range(cache) \subseteq Channel
    BY <2>1, <2>2 DEF TypeOK, Range
  <2> QED BY <2>2, <2>3
<1>6. ASSUME NEW C \in SUBSET Channel, Lose(C), UNCHANGED cache
      PROVE  Parked' \subseteq Parked
  <2>1. Range(cache) \subseteq Channel
    BY DEF TypeOK, Range
  <2>2. \A c \in Channel : sub'[c] = "open" => sub[c] = "open"
    BY <1>6 DEF Lose
  <2> QED BY <1>6, <2>1, <2>2 DEF Range
<1>7. ASSUME NEW i \in Loop, consumeTwice(i) PROVE Parked' \subseteq Parked
  <2>1. PICK C \in SUBSET Channel : Lose(C)
    BY <1>7 DEF consumeTwice
  <2>2. UNCHANGED cache
    BY <1>7 DEF consumeTwice
  <2> QED BY <1>6, <2>1, <2>2
<1>8. ASSUME NEW c \in Channel, loseChannel(c) PROVE Parked' \subseteq Parked
  <2>1. Lose({c}) /\ UNCHANGED cache /\ {c} \in SUBSET Channel
    BY <1>8 DEF loseChannel
  <2> QED BY <1>6, <2>1
<1>9. ASSUME NEW c \in Channel, cancelConsumer(c) PROVE Parked' \subseteq Parked
  <2>1. /\ UNCHANGED cache /\ sub'[c] = "closed"
        /\ \A b \in Channel \ {c} : sub'[b] = sub[b]
    BY <1>9 DEF cancelConsumer, TypeOK
  <2>2. Range(cache) \subseteq Channel
    BY DEF TypeOK, Range
  <2> QED BY <2>1, <2>2 DEF Range
<1>10. ASSUME NEW i \in Loop, LoopStep(i), ~stopAtCheck(i), ~GetChannelFromPool(i),
              ~Consume(i), ~ReturnErredChannel(i), ~consumeTwice(i)
       PROVE  UNCHANGED <<cache, sub>>
  BY <1>10 DEF LoopStep, stopAtTop, goOn, consumeFails, reportError, readStopImmediate,
               finishLoop, checkErrors, takeDelivery, noDelivery, sendMessage, callAction,
               channels
<1>11. ASSUME \/ \E u \in User : \/ StartConsuming(u) \/ StopConsuming(u) \/ sendStop(u)
                               \/ finishStop(u)
              \/ receiveMessage \/ receiveError \/ UNCHANGED vars
              \/ \E c \in Channel : brokerDelivers(c)
       PROVE  UNCHANGED <<cache, sub>>
  BY <1>11 DEF StartConsuming, StartLoop, StopConsuming, sendStop, finishStop,
               receiveMessage, receiveError, brokerDelivers, vars, channels
<1> HIDE DEF Parked
<1> QED BY <1>1, <1>2, <1>3, <1>4, <1>5, <1>7, <1>8, <1>9, <1>10, <1>11 DEF Next

(* A stop is counted when it is asked for; on the way to the loop it stays *)
(* one, or is flushed; and the loop that takes it returns one channel.     *)
LEMMA StopsParkStep ==
    ASSUME TypeOK, TypeOK', UnackedTyped, ChannelsConserved, Places, StopHoldsLock,
           StopsPark, [Next]_vars
    PROVE  StopsPark'
<1>1. IsFiniteSet(Parked) /\ IsFiniteSet(Parked') /\ Cardinality(Parked) \in Nat
      /\ Cardinality(Parked') \in Nat
  <2>1. Parked \subseteq Channel /\ Parked' \subseteq Channel
    BY DEF Parked, Range, TypeOK
  <2> QED BY <2>1, ConsumerAssumption, FS_Subset, FS_CardinalityType
<1>2. Pending \in Nat /\ Pending' \in Nat
  BY DEF Pending
<1>3. ASSUME Parked' \subseteq Parked, stops' \in Nat, Pending' + stops <= Pending + stops'
      PROVE  StopsPark'
  <2>1. Cardinality(Parked') <= Cardinality(Parked)
    BY <1>1, <1>3, FS_Subset
  <2>2. Cardinality(Parked) + Pending <= stops /\ stops \in Nat
    BY DEF StopsPark, UnackedTyped
  <2>3. Cardinality(Parked') + Pending' <= stops'
    <3>1. \A p, q, r, t \in Nat : \A x, y \in Nat :
              p + q <= x /\ r <= p /\ t + x <= q + y => r + t <= y
      OBVIOUS
    <3> QED BY ONLY <1>1, <1>2, <1>3, <2>1, <2>2, <3>1
  <2> QED BY ONLY <2>3 DEF StopsPark
<1>4. ASSUME UNCHANGED <<token, userPc, stops>>, \A i \in Loop : ~stopAtCheck(i)
      PROVE  StopsPark'
  <2>1. Pending' = Pending
    BY <1>4 DEF Pending, Sending
  <2>2. Parked' \subseteq Parked
    BY <1>4, ParkedStep
  <2> QED BY <1>2, <1>3, <1>4, <2>1, <2>2 DEF UnackedTyped
<1>5. ASSUME NEW i \in Loop, stopAtCheck(i) PROVE StopsPark'
  <2>1. token /\ ~token' /\ UNCHANGED <<userPc, stops>>
    BY <1>5 DEF stopAtCheck, counters
  <2>2. Pending' = Pending - 1
    BY <2>1 DEF Pending, Sending
  <2>3. Cardinality(Parked') <= Cardinality(Parked) + 1
    <3>1. Parked' \subseteq Parked \cup {chan[i]}
      BY <1>5, ParkedStep
    <3>2. IsFiniteSet(Parked \cup {chan[i]})
          /\ Cardinality(Parked \cup {chan[i]}) \in {Cardinality(Parked), Cardinality(Parked) + 1}
      BY <1>1, FS_AddElement
    <3>3. Cardinality(Parked') <= Cardinality(Parked \cup {chan[i]})
      BY <3>1, <3>2, FS_Subset
    <3> QED BY <1>1, <3>2, <3>3
  <2> QED BY <1>1, <1>2, <2>1, <2>2, <2>3 DEF StopsPark, UnackedTyped
<1>6. ASSUME NEW u \in User,
             StartConsuming(u) \/ StopConsuming(u) \/ sendStop(u) \/ finishStop(u)
      PROVE  Parked' \subseteq Parked
  <2>1. \A i \in Loop : ~stopAtCheck(i)
    <3>1. UNCHANGED chan \/ UNCHANGED hand
      BY <1>6 DEF StartConsuming, StartLoop, StopConsuming, sendStop, finishStop, loops
    <3>2. UNCHANGED cache
      BY <1>6 DEF StartConsuming, StartLoop, StopConsuming, sendStop, finishStop, channels
    <3>3. \A i \in Loop : stopAtCheck(i) => cache' # cache
      <4> SUFFICES ASSUME NEW i \in Loop, stopAtCheck(i) PROVE cache' # cache
        OBVIOUS
      <4>1. cache' = Append(cache, chan[i]) /\ cache \in Seq(Channel)
        BY DEF stopAtCheck, TypeOK
      <4>2. Len(cache') = Len(cache) + 1 /\ Len(cache) \in Nat
        BY <4>1
      <4> QED BY <4>2
    <3> QED BY <3>2, <3>3
  <2> QED BY <2>1, ParkedStep
<1>7. ASSUME NEW u \in User, StartConsuming(u) PROVE StopsPark'
  <2>1. ~token' /\ UNCHANGED <<userPc, stops>>
    BY <1>7 DEF StartConsuming, StartLoop
  <2>2. Pending' <= Pending
    BY <2>1 DEF Pending, Sending
  <2>3. stops' \in Nat /\ Pending' + stops <= Pending + stops'
    BY <2>1, <2>2 DEF UnackedTyped, Pending
  <2> QED BY <1>3, <1>6, <1>7, <2>3
<1>8. ASSUME NEW u \in User, StopConsuming(u) PROVE StopsPark'
  <2>1. conLock = None /\ UNCHANGED token /\ stops' = stops + 1
    BY <1>8 DEF StopConsuming
  <2>2. ~Sending
    BY <2>1, ConsumerAssumption DEF StopHoldsLock, Sending
  <2>3. Pending' <= Pending + 1
    BY <2>1, <2>2 DEF Pending
  <2>4. stops' \in Nat /\ Pending' + stops <= Pending + stops'
    BY <2>1, <2>3 DEF UnackedTyped, Pending
  <2> QED BY <1>3, <1>6, <1>8, <2>4
<1>9. ASSUME NEW u \in User, sendStop(u) PROVE StopsPark'
  <2>1. ~token /\ token' /\ userPc[u] = "send" /\ UNCHANGED stops
        /\ userPc' = [userPc EXCEPT ![u] = "sent"]
    BY <1>9 DEF sendStop, counters
  <2>2. \A v \in User \ {u} : userPc[v] = "idle"
    BY <2>1 DEF StopHoldsLock, TypeOK
  <2>3. Sending /\ ~Sending'
    BY <2>1, <2>2 DEF Sending, TypeOK
  <2>4. Pending' = Pending
    BY <2>1, <2>3 DEF Pending
  <2> QED BY <1>2, <1>3, <1>6, <1>9, <2>1, <2>4 DEF UnackedTyped
<1>10. ASSUME NEW u \in User, finishStop(u) PROVE StopsPark'
  <2>1. UNCHANGED <<token, stops>> /\ userPc' = [userPc EXCEPT ![u] = "idle"]
    BY <1>10 DEF finishStop, counters
  <2>2. Sending' => Sending
    BY <2>1 DEF Sending, TypeOK
  <2>3. Pending' <= Pending
    BY <2>1, <2>2 DEF Pending
  <2>4. stops' \in Nat /\ Pending' + stops <= Pending + stops'
    BY <2>1, <2>3 DEF UnackedTyped, Pending
  <2> QED BY <1>3, <1>6, <1>10, <2>4
<1>11. ASSUME NEW i \in Loop, stopAtTop(i), \A j \in Loop : ~stopAtCheck(j) PROVE StopsPark'
  <2>1. token /\ ~token' /\ UNCHANGED <<userPc, stops>>
    BY <1>11 DEF stopAtTop, counters
  <2>2. Pending' <= Pending
    BY <2>1 DEF Pending, Sending
  <2>3. Parked' \subseteq Parked
    BY <1>11, ParkedStep
  <2>4. stops' \in Nat /\ Pending' + stops <= Pending + stops'
    BY <2>1, <2>2 DEF UnackedTyped, Pending
  <2> QED BY <1>3, <2>3, <2>4
<1>12. ASSUME NEW i \in Loop, LoopStep(i), ~stopAtTop(i), ~stopAtCheck(i)
       PROVE  UNCHANGED <<token, userPc, stops>>
  BY <1>12 DEF LoopStep, goOn, GetChannelFromPool, Consume, consumeFails, consumeTwice,
               ReturnErredChannel, reportError, readStopImmediate, finishLoop, checkErrors,
               takeDelivery, noDelivery, sendMessage, callAction, control, counters
<1>13. ASSUME \/ receiveMessage \/ receiveError \/ UNCHANGED vars
              \/ \E c \in Channel : brokerDelivers(c) \/ loseChannel(c) \/ cancelConsumer(c)
       PROVE  UNCHANGED <<token, userPc, stops>>
  BY <1>13 DEF receiveMessage, receiveError, brokerDelivers, loseChannel, cancelConsumer,
               vars, control, counters
<1> QED BY <1>4, <1>5, <1>7, <1>8, <1>9, <1>10, <1>11, <1>12, <1>13 DEF Next

(* FlushStop empties consumeStop at each start, with conLock held, so that *)
(* nobody is about to send.                                                *)
LEMMA AskedStep ==
    ASSUME TypeOK, StopHoldsLock, StopsAreAsked, [Next]_vars
    PROVE  StopsAreAsked'
<1> USE DEF StopsAreAsked, Sending, TypeOK
<1>1. ASSUME UNCHANGED <<token, userPc, asked>> PROVE StopsAreAsked'
  BY <1>1
<1>2. ASSUME NEW u \in User, StartConsuming(u) PROVE StopsAreAsked'
  <2>1. ~token' /\ conLock = None /\ UNCHANGED userPc
    BY <1>2 DEF StartConsuming, StartLoop
  <2> QED BY <2>1, ConsumerAssumption DEF StopHoldsLock
<1>3. ASSUME NEW u \in User, StopConsuming(u) PROVE StopsAreAsked'
  BY <1>3 DEF StopConsuming
<1>4. ASSUME NEW u \in User, sendStop(u) PROVE StopsAreAsked'
  BY <1>4 DEF sendStop
<1>5. ASSUME NEW u \in User, finishStop(u) PROVE StopsAreAsked'
  BY <1>5 DEF finishStop
<1>6. ASSUME NEW i \in Loop, stopAtTop(i) \/ stopAtCheck(i) PROVE StopsAreAsked'
  BY <1>6 DEF stopAtTop, stopAtCheck
<1>7. ASSUME NEW i \in Loop, LoopStep(i), ~stopAtTop(i), ~stopAtCheck(i)
      PROVE  UNCHANGED <<token, userPc, asked>>
  BY <1>7 DEF LoopStep, goOn, GetChannelFromPool, Consume, consumeFails, consumeTwice,
              ReturnErredChannel, reportError, readStopImmediate, finishLoop, checkErrors,
              takeDelivery, noDelivery, sendMessage, callAction, control
<1>8. ASSUME \/ receiveMessage \/ receiveError \/ UNCHANGED vars
             \/ \E c \in Channel : brokerDelivers(c) \/ loseChannel(c) \/ cancelConsumer(c)
      PROVE  UNCHANGED <<token, userPc, asked>>
  BY <1>8 DEF receiveMessage, receiveError, brokerDelivers, loseChannel, cancelConsumer,
              vars, control
<1> QED BY <1>1, <1>2, <1>3, <1>4, <1>5, <1>6, <1>7, <1>8 DEF Next

-----------------------------------------------------------------------------
(* Only StartConsuming makes a loop, and only the end of one resets        *)
(* started.                                                                *)
LEMMA RunningStep ==
    ASSUME TypeOK, StartedIffRunning, [Next]_vars
    PROVE  StartedIffRunning'
<1> USE DEF StartedIffRunning, Running, TypeOK, Goto
<1>1. ASSUME NEW u \in User, StartConsuming(u) PROVE StartedIffRunning'
  <2>1. PICK i \in Loop : pc' = [pc EXCEPT ![i] = "top"]
    BY <1>1 DEF StartConsuming, StartLoop
  <2>2. started' = TRUE /\ (twice' <=> (twice \/ started))
    BY <1>1 DEF StartConsuming, StartLoop
  <2> QED BY <2>1, <2>2
<1>2. ASSUME NEW i \in Loop, finishLoop(i) PROVE StartedIffRunning'
  <2>1. /\ pc[i] # "off" /\ pc' = [pc EXCEPT ![i] = "off"]
        /\ started' = FALSE /\ UNCHANGED twice
    BY <1>2 DEF finishLoop
  <2> QED BY <2>1
<1>3. ASSUME UNCHANGED <<started, twice>>, \A i \in Loop : Running(i)' <=> Running(i)
      PROVE  StartedIffRunning'
  BY <1>3
<1>4. ASSUME NEW i \in Loop, LoopStep(i), ~finishLoop(i)
      PROVE  /\ UNCHANGED <<started, twice>>
             /\ \A j \in Loop : Running(j)' <=> Running(j)
  <2>1. UNCHANGED <<started, twice>>
    BY <1>4 DEF LoopStep, stopAtTop, goOn, GetChannelFromPool, Consume, consumeFails, consumeTwice,
                ReturnErredChannel, reportError, readStopImmediate, checkErrors,
                takeDelivery, noDelivery, sendMessage, callAction, stopAtCheck, control
  <2>2. pc[i] # "off" /\ \E p \in PCs \ {"off"} : pc' = [pc EXCEPT ![i] = p]
    BY <1>4 DEF LoopStep, stopAtTop, goOn, GetChannelFromPool, Consume, consumeFails, consumeTwice,
                ReturnErredChannel, reportError, readStopImmediate, checkErrors,
                takeDelivery, noDelivery, sendMessage, callAction, stopAtCheck, LetGo, PCs
  <2> QED BY <2>1, <2>2
<1>5. ASSUME \/ \E u \in User : StopConsuming(u) \/ sendStop(u) \/ finishStop(u)
             \/ receiveMessage \/ receiveError
             \/ \E c \in Channel : brokerDelivers(c) \/ loseChannel(c) \/ cancelConsumer(c)
             \/ UNCHANGED vars
      PROVE  UNCHANGED <<started, twice, pc>>
  BY <1>5 DEF StopConsuming, sendStop, finishStop, receiveMessage, receiveError,
              brokerDelivers, loseChannel, cancelConsumer, vars, control, loops
<1> QED BY <1>1, <1>2, <1>3, <1>4, <1>5 DEF Next

-----------------------------------------------------------------------------
(* Every step of users, loops, readers, broker and library keeps it.       *)
LEMMA IInvStep == IInv /\ [Next]_vars => IInv'
<1> SUFFICES ASSUME IInv, [Next]_vars PROVE IInv'
  OBVIOUS
<1>1. /\ TypeOK /\ ChannelsConserved /\ UnackedTyped /\ Places /\ StopHoldsLock
      /\ NothingBuffered /\ AllFound /\ StopsPark /\ StopsAreAsked /\ StartedIffRunning
  BY DEF IInv
<1>2. TypeOK' /\ UnackedTyped'
  BY <1>1, TypeStep
<1>3. ChannelsConserved' /\ Places' /\ StopHoldsLock'
  BY <1>1, ConserveStep, PlacesStep, StopStep
<1>4. NothingBuffered' /\ StartedIffRunning'
  BY <1>1, BufferStep, RunningStep
<1>5. AllFound'
  BY <1>1, LoopKeeps, OthersKeep
<1>6. StopsPark' /\ StopsAreAsked'
  BY <1>1, <1>2, StopsParkStep, AskedStep
<1> QED BY <1>2, <1>3, <1>4, <1>5, <1>6 DEF IInv

(* The inductive invariant of consumer.go, for any users, loops, channels, *)
(* messages, capacities and faults.                                        *)
THEOREM ConsumerInvariant == Spec => []IInv
<1> QED BY IInvInit, IInvStep, PTL DEF Spec

(* startConsumeLoop gives back the channel it took on every way round: an  *)
(* error of Consume, a channel lost, a stop; and the buffers keep to their *)
(* capacities.                                                             *)
THEOREM ConsumerSafe == Spec => []Safety
<1>1. IInv => Safety
  BY DEF IInv, Safety
<1> QED BY <1>1, ConsumerInvariant, PTL

(* An unacknowledged delivery is on its way to the user, flushed, or in    *)
(* the buffer of a channel that a stop has parked, unless the broker       *)
(* cancels subscriptions; and each stop parks at most one channel.         *)
THEOREM DeliveriesKept == Spec => []NoDeliveryDropped
<1>1. IInv => NoDeliveryDropped
  <2> SUFFICES ASSUME IInv PROVE NoDeliveryDropped
    OBVIOUS
  <2>1. Cardinality(Parked) <= stops
    <3>1. Parked \subseteq Channel
      BY DEF IInv, TypeOK, Parked, Range
    <3>2. Cardinality(Parked) \in Nat
      BY <3>1, ConsumerAssumption, FS_Subset, FS_CardinalityType
    <3> QED BY <3>2, PendingType DEF IInv, StopsPark, UnackedTyped
  <2>2. ASSUME cancels = 0, NEW c \in Channel, NEW d \in unacked[c], d \in Range(buffer[c])
        PROVE  c \in Parked \/ \E i \in Loop : chan[i] = c
    <3>1. buffer[c] # <<>>
      BY <2>2 DEF Range
    <3>2. sub[c] = "open"
      BY <2>2, <3>1 DEF IInv, NothingBuffered
    <3>3. c \in Range(cache) \/ \E i \in Loop : chan[i] = c
      BY IdleOrTaken DEF IInv
    <3> QED BY <3>2, <3>3 DEF Parked
  <2>3. ASSUME cancels = 0, NEW c \in Channel, NEW d \in unacked[c]
        PROVE  Found(c, d)
    BY <2>3 DEF IInv, AllFound
  <2> QED BY <2>1, <2>2, <2>3 DEF NoDeliveryDropped, Found
<1> QED BY <1>1, ConsumerInvariant, PTL

(* FlushStop: a stop found in consumeStop was asked for since the last     *)
(* start.                                                                  *)
THEOREM StopsAreFresh == Spec => []NoStaleStop
<1>1. IInv => NoStaleStop
  BY DEF IInv, StopsAreAsked, NoStaleStop
<1> QED BY <1>1, ConsumerInvariant, PTL

(* Started tells of the one loop there is, until StartConsuming is called  *)
(* on a consumer that is started.                                          *)
THEOREM StartedTells == Spec => []StartedIffRunning
<1>1. IInv => StartedIffRunning
  BY DEF IInv
<1> QED BY <1>1, ConsumerInvariant, PTL

(* conLock: one StopConsuming at a time, and the loop that it stops does   *)
(* not reset started before the call has returned.                         *)
THEOREM OneStopAtATime ==
    Spec => [](\A u, v \in User :
                  userPc[u] # "idle" => started /\ (userPc[v] # "idle" => u = v))
<1>1. IInv => \A u, v \in User :
                 userPc[u] # "idle" => started /\ (userPc[v] # "idle" => u = v)
  BY ConsumerAssumption DEF IInv, StopHoldsLock
<1> QED BY <1>1, ConsumerInvariant, PTL
=============================================================================
