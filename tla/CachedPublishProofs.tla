-------------------------- MODULE CachedPublishProofs --------------------------
(***************************************************************************)
(* Proofs about CachedPublish, for any letters, channels, capacity of      *)
(* Confirmations, timeouts, nacks and faults.  The inductive invariant     *)
(* charges each letter whose caller was misled to a nack, or to a call     *)
(* that left its channel early: the answers that such calls leave, Stale   *)
(* here, are never more than the calls, and a letter misled uses one up.   *)
(***************************************************************************)
EXTENDS CachedPublish, FiniteSetTheorems, TLAPS

(* How often x is in the sequence s, and how many letters have the value x. *)
Times(s, x) == Cardinality({i \in DOMAIN s : s[i] = x})
Having(f, x) == Cardinality({l \in Letter : f[l] = x})

(* Positions of a sequence are finite in number.                           *)
LEMMA TimesType ==
    ASSUME NEW S, NEW s \in Seq(S), NEW x
    PROVE  /\ IsFiniteSet({i \in DOMAIN s : s[i] = x})
           /\ Times(s, x) \in Nat
           /\ \A i \in DOMAIN s : s[i] = x => Times(s, x) >= 1
<1> DEFINE T == {i \in DOMAIN s : s[i] = x}
<1>1. IsFiniteSet(T)
  <2>1. DOMAIN s = 1 .. Len(s) /\ Len(s) \in Int /\ 1 \in Int
    OBVIOUS
  <2>2. IsFiniteSet(DOMAIN s)
    BY <2>1, FS_Interval
  <2> QED BY <2>2, FS_Subset
<1>2. Cardinality(T) \in Nat /\ (Cardinality(T) = 0 <=> T = {})
  BY <1>1, FS_CardinalityType, FS_EmptySet
<1>3. Times(s, x) = Cardinality(T)
  BY DEF Times
<1>4. ASSUME NEW i \in DOMAIN s, s[i] = x
      PROVE  Times(s, x) >= 1
  <2>1. T # {}
    BY <1>4
  <2> HIDE DEF T
  <2> QED BY <1>2, <1>3, <2>1
<1>5. Times(s, x) \in Nat
  BY <1>2, <1>3
<1> QED BY <1>1, <1>4, <1>5

(* An element at the end of a sequence occurs once more.                   *)
LEMMA TimesAppend ==
    ASSUME NEW S, NEW s \in Seq(S), NEW e \in S, NEW x
    PROVE  Times(Append(s, e), x) = Times(s, x) + (IF e = x THEN 1 ELSE 0)
<1> DEFINE T == {i \in DOMAIN s : s[i] = x}
           U == {i \in DOMAIN Append(s, e) : Append(s, e)[i] = x}
           n == Len(s) + 1
<1>1. /\ Len(s) \in Nat /\ DOMAIN s = 1 .. Len(s) /\ DOMAIN Append(s, e) = 1 .. n
      /\ \A i \in 1 .. Len(s) : Append(s, e)[i] = s[i]
      /\ Append(s, e)[n] = e
  OBVIOUS
<1>2. U = IF e = x THEN T \cup {n} ELSE T
  BY <1>1
<1>3. Times(s, x) = Cardinality(T) /\ Times(Append(s, e), x) = Cardinality(U)
  BY DEF Times
<1>4. IsFiniteSet(T) /\ Times(s, x) \in Nat
  BY TimesType
<1>5. n \notin T
  BY <1>1
<1> HIDE DEF T, U, n
<1>6. Cardinality(T \cup {n}) = Cardinality(T) + 1
  BY <1>4, <1>5, FS_AddElement
<1> QED BY <1>2, <1>3, <1>4, <1>6

(* One taken off its head occurs once less.                                *)
LEMMA TimesTail ==
    ASSUME NEW S, NEW s \in Seq(S), s # <<>>, NEW x
    PROVE  Times(s, x) = Times(Tail(s), x) + (IF Head(s) = x THEN 1 ELSE 0)
<1> DEFINE T == {i \in DOMAIN s : s[i] = x}
           U == {i \in DOMAIN Tail(s) : Tail(s)[i] = x}
           f == [i \in U |-> i + 1]
<1>1. /\ Len(s) \in Nat /\ Len(s) >= 1 /\ DOMAIN s = 1 .. Len(s) /\ Head(s) = s[1]
      /\ DOMAIN Tail(s) = 1 .. Len(s) - 1 /\ Tail(s) \in Seq(S)
      /\ \A i \in 1 .. Len(s) - 1 : Tail(s)[i] = s[i + 1]
  OBVIOUS
<1>2. f \in Bijection(U, T \ {1})
  <2>1. f \in [U -> T \ {1}]
    BY <1>1
  <2>2. \A i, j \in U : f[i] = f[j] => i = j
    BY <1>1
  <2>3. \A j \in T \ {1} : \E i \in U : f[i] = j
    <3> SUFFICES ASSUME NEW j \in T \ {1} PROVE \E i \in U : f[i] = j
      OBVIOUS
    <3>1. j - 1 \in U /\ f[j - 1] = j
      BY <1>1
    <3> QED BY <3>1
  <2> QED BY <2>1, <2>2, <2>3 DEF Bijection, Injection, Surjection, IsInjective
<1>3. 1 \in T <=> Head(s) = x
  BY <1>1
<1>4. Times(s, x) = Cardinality(T) /\ Times(Tail(s), x) = Cardinality(U)
  BY DEF Times
<1>5. IsFiniteSet(T) /\ IsFiniteSet(U) /\ Times(s, x) \in Nat
  BY <1>1, TimesType
<1> HIDE DEF T, U, f
<1>6. Cardinality(T \ {1}) = Cardinality(U)
  BY <1>2, <1>5, FS_Bijection DEF ExistsBijection
<1>7. Cardinality(T \ {1}) = IF 1 \in T THEN Cardinality(T) - 1 ELSE Cardinality(T)
  BY <1>5, FS_RemoveElement
<1> QED BY <1>3, <1>4, <1>5, <1>6, <1>7

(* Letters with a value are finite in number, and two are at least two.    *)
LEMMA HavingType ==
    ASSUME NEW f, NEW x
    PROVE  /\ IsFiniteSet({l \in Letter : f[l] = x})
           /\ Having(f, x) \in Nat
           /\ \A l \in Letter : f[l] = x => Having(f, x) >= 1
           /\ \A l, m \in Letter : f[l] = x /\ f[m] = x /\ l # m => Having(f, x) >= 2
<1> DEFINE T == {l \in Letter : f[l] = x}
<1>1. IsFiniteSet(T)
  BY CachedAssumption, FS_Subset
<1>2. Cardinality(T) \in Nat /\ (Cardinality(T) = 0 <=> T = {})
      /\ (Cardinality(T) = 1 <=> \E y : T = {y})
  BY <1>1, FS_CardinalityType, FS_EmptySet, FS_Singleton
<1>3. Having(f, x) = Cardinality(T)
  BY DEF Having
<1>4. ASSUME NEW l \in Letter, f[l] = x
      PROVE  Having(f, x) >= 1
  BY <1>2, <1>3, <1>4
<1>5. ASSUME NEW l \in Letter, NEW m \in Letter, f[l] = x, f[m] = x, l # m
      PROVE  Having(f, x) >= 2
  <2>1. l \in T /\ m \in T
    BY <1>5
  <2>2. Cardinality(T) # 0 /\ Cardinality(T) # 1
    BY <1>2, <1>5, <2>1
  <2> QED BY <1>2, <1>3, <2>2
<1> QED BY <1>1, <1>2, <1>3, <1>4, <1>5

(* Giving one letter another value moves it from one count to the other.   *)
LEMMA HavingExcept ==
    ASSUME NEW f, NEW g, NEW l \in Letter, NEW x,
           \A m \in Letter \ {l} : g[m] = f[m]
    PROVE  /\ Having(f, x) \in Nat /\ Having(g, x) \in Nat
           /\ (f[l] = x <=> g[l] = x) => Having(g, x) = Having(f, x)
           /\ f[l] = x /\ g[l] # x => Having(g, x) = Having(f, x) - 1
           /\ f[l] # x /\ g[l] = x => Having(g, x) = Having(f, x) + 1
<1> DEFINE T == {m \in Letter : f[m] = x}
           U == {m \in Letter : g[m] = x}
<1>1. U = IF g[l] = x THEN (T \ {l}) \cup {l} ELSE T \ {l}
  OBVIOUS
<1>2. l \in T <=> f[l] = x
  OBVIOUS
<1>3. Having(f, x) = Cardinality(T) /\ Having(g, x) = Cardinality(U)
  BY DEF Having
<1>4. IsFiniteSet(T) /\ Having(f, x) \in Nat /\ Having(g, x) \in Nat
  BY HavingType
<1> HIDE DEF T, U
<1>5. IsFiniteSet(T \ {l})
      /\ Cardinality(T \ {l}) = IF l \in T THEN Cardinality(T) - 1 ELSE Cardinality(T)
  BY <1>4, FS_RemoveElement
<1>6. Cardinality((T \ {l}) \cup {l}) = Cardinality(T \ {l}) + 1
  BY <1>5, FS_AddElement
<1> QED BY <1>1, <1>2, <1>3, <1>4, <1>5, <1>6

-----------------------------------------------------------------------------
(* The sum of f over the channels, as the number of pairs below it.        *)
Below(f, C) == {p \in C \X Nat : p[2] \in 1 .. f[p[1]]}
Total(f) == Cardinality(Below(f, Channel))

(* The pairs below a function on channels are finite in number.            *)
LEMMA BelowFinite ==
    ASSUME NEW f \in [Channel -> Nat], NEW C \in SUBSET Channel
    PROVE  IsFiniteSet(Below(f, C))
<1> DEFINE column(c) == {c} \X (1 .. f[c])
           Columns == {column(c) : c \in C}
<1>1. IsFiniteSet(C)
  <2>1. IsFiniteSet(Channel)
    BY CachedAssumption, FS_Interval DEF Channel
  <2> QED BY <2>1, FS_Subset
<1>2. IsFiniteSet(Columns)
  <2>1. [c \in C |-> column(c)] \in Surjection(C, Columns)
    BY DEF Surjection
  <2> HIDE DEF column, Columns
  <2> QED BY <1>1, <2>1, FS_Surjection
<1>3. \A X \in Columns : IsFiniteSet(X)
  <2> SUFFICES ASSUME NEW c \in C PROVE IsFiniteSet({c} \X (1 .. f[c]))
    OBVIOUS
  <2>1. f[c] \in Int /\ 1 \in Int
    OBVIOUS
  <2>2. IsFiniteSet(1 .. f[c]) /\ IsFiniteSet({c})
    BY <2>1, FS_Interval, FS_Singleton
  <2> QED BY <2>2, FS_Product
<1>4. IsFiniteSet(UNION Columns)
  BY <1>2, <1>3, FS_UNION
<1>5. Below(f, C) \subseteq UNION Columns
  <2> SUFFICES ASSUME NEW p \in Below(f, C) PROVE p \in UNION Columns
    OBVIOUS
  <2>1. p[1] \in C /\ p \in column(p[1])
    BY DEF Below
  <2> QED BY <2>1
<1> QED BY <1>4, <1>5, FS_Subset

(* A sum over the channels is a number, no less than each of its parts.    *)
LEMMA TotalType ==
    ASSUME NEW f \in [Channel -> Nat]
    PROVE  /\ Total(f) \in Nat
           /\ \A c \in Channel : f[c] <= Total(f)
<1>1. IsFiniteSet(Below(f, Channel)) /\ Total(f) \in Nat
  BY BelowFinite, FS_CardinalityType DEF Total
<1>2. ASSUME NEW c \in Channel
      PROVE  f[c] <= Total(f)
  <2> DEFINE g == [i \in 1 .. f[c] |-> <<c, i>>]
  <2>1. g \in Injection(1 .. f[c], Below(f, Channel))
    BY DEF Below, Injection, IsInjective
  <2>2. Cardinality(1 .. f[c]) = f[c]
    <3>1. f[c] \in Nat
      OBVIOUS
    <3> QED BY <3>1, FS_Interval
  <2>3. Cardinality(1 .. f[c]) <= Cardinality(Below(f, Channel))
    BY <1>1, <2>1, FS_Injection
  <2> QED BY <2>2, <2>3 DEF Total
<1> QED BY <1>1, <1>2

(* Only the change on one channel changes the sum.                         *)
LEMMA TotalChange ==
    ASSUME NEW f \in [Channel -> Nat], NEW g \in [Channel -> Nat], NEW c \in Channel,
           \A d \in Channel \ {c} : g[d] = f[d]
    PROVE  Total(g) + f[c] = Total(f) + g[c]
<1> DEFINE Others == Below(f, Channel \ {c})
<1>1. ASSUME NEW h \in [Channel -> Nat], \A d \in Channel \ {c} : h[d] = f[d]
      PROVE  Total(h) = Cardinality(Others) + h[c]
  <2> DEFINE K == Below(h, Channel \ {c})
             Col == Below(h, {c})
             k == [i \in 1 .. h[c] |-> <<c, i>>]
  <2>1. K = Others
    BY <1>1 DEF Below
  <2>2. Below(h, Channel) = K \cup Col /\ K \cap Col = {}
    BY DEF Below
  <2>3. IsFiniteSet(K) /\ IsFiniteSet(Col)
    BY BelowFinite
  <2>4. Cardinality(Col) = h[c]
    <3>1. k \in Bijection(1 .. h[c], Col)
      <4>1. k \in [1 .. h[c] -> Col] /\ \A i, j \in 1 .. h[c] : k[i] = k[j] => i = j
        BY DEF Below
      <4>2. ASSUME NEW p \in Col PROVE \E i \in 1 .. h[c] : k[i] = p
        <5>1. p[1] = c /\ p[2] \in 1 .. h[c] /\ p = <<p[1], p[2]>>
          BY DEF Below
        <5>2. k[p[2]] = p
          BY <5>1
        <5> QED BY <5>1, <5>2
      <4> QED BY <4>1, <4>2 DEF Bijection, Injection, Surjection, IsInjective
    <3>2. h[c] \in Nat /\ IsFiniteSet(1 .. h[c]) /\ Cardinality(1 .. h[c]) = h[c]
      BY FS_Interval
    <3> HIDE DEF k, Col
    <3> QED BY <3>1, <3>2, FS_Bijection DEF ExistsBijection
  <2> HIDE DEF K, Col
  <2>5. Cardinality(K) \in Nat /\ Cardinality(Col) \in Nat
    BY <2>3, FS_CardinalityType
  <2>6. Cardinality(K \cup Col) = Cardinality(K) + Cardinality(Col) - Cardinality({})
    BY <2>2, <2>3, FS_Union
  <2>7. Total(h) = Cardinality(K \cup Col)
    BY <2>2 DEF Total
  <2>8. Cardinality({}) = 0
    BY FS_EmptySet
  <2>9. Total(h) = Cardinality(K) + h[c]
    BY <2>4, <2>5, <2>6, <2>7, <2>8
  <2> QED BY <2>1, <2>9
<1>2. Total(f) = Cardinality(Others) + f[c] /\ Total(g) = Cardinality(Others) + g[c]
  BY <1>1
<1>3. Cardinality(Others) \in Nat
  BY BelowFinite, FS_CardinalityType
<1> HIDE DEF Others
<1> QED BY <1>2, <1>3

-----------------------------------------------------------------------------
(* Who has a channel, and who has been told of a success.                  *)
Holding == {"publish", "wait", "return", "reconnect"}

CallsOK ==
    \A l \in Letter :
        /\ chan[l] # None <=> pc[l] \in Holding
        /\ report[l] = "success" => pc[l] \in {"return", "done"}
        /\ l \in Plain => pc[l] # "wait"

(* Of a channel that is lost nothing is in flight.                         *)
DownEmpty == \A c \in Channel : ~up[c] => inflight[c] = <<>>

Waits(l, c) == pc[l] = "wait" /\ chan[l] = c

(* The last publication of a channel that may still be heard of is of l.   *)
Newest(l, c) ==
    IF inflight[c] # <<>> THEN inflight[c][Len(inflight[c])] = l
    ELSE confirms[c] # <<>> /\ confirms[c][Len(confirms[c])].letter = l

(* While the channel is up, who waits on it is the last to have published. *)
OwnNewest ==
    \A l \in Letter, c \in Channel : Waits(l, c) /\ up[c] => Newest(l, c)

(* The answers, on their way or there, that nobody is to wait for.         *)
Expected(c) == \E l \in Letter : Waits(l, c) /\ Newest(l, c)
StaleOn(c) == Len(inflight[c]) + Len(confirms[c]) - (IF Expected(c) THEN 1 ELSE 0)
Stale == [c \in Channel |-> StaleOn(c)]

Misled == {l \in Confirmed : report[l] = "success" /\ l \notin accepted}

InFlight(l) == \E c \in Channel : \E i \in DOMAIN inflight[c] : inflight[c][i] = l

(* Each confirmation tells the truth, N being the letters that were ever   *)
(* refused.                                                                *)
AnswersTold(N) ==
    \A c \in Channel : \A i \in DOMAIN confirms[c] :
        confirms[c][i].letter \in (IF confirms[c][i].ack THEN accepted ELSE N)

(* Every letter whose caller was misled was refused, is one of the D that  *)
(* the loss of a channel took away, or may still be answered; and for each *)
(* of D and each stale answer there is a call that left early.             *)
Charged(N, D) ==
    /\ Cardinality(N) <= nacks
    /\ Total(Stale) + Cardinality(D) <= EarlyLeavers
    /\ AnswersTold(N)
    /\ \A l \in Misled : l \in N \cup D \/ InFlight(l)

IInv ==
    /\ TypeOK /\ ChannelsConserved /\ CallsOK /\ DownEmpty /\ OwnNewest
    /\ \E N, D \in SUBSET Letter : Charged(N, D)
    /\ EarlyLeavers = 0 => Misled = {}

-----------------------------------------------------------------------------
(* A channel in hand is in no other, and one in the cache in none.         *)
LEMMA Hands ==
    ASSUME TypeOK, ChannelsConserved, CallsOK
    PROVE  /\ \A l \in Letter : pc[l] \in Holding =>
                 /\ chan[l] \in Channel
                 /\ \A m \in Letter : chan[m] = chan[l] => m = l
           /\ cache # <<>> => /\ Head(cache) \in Channel /\ Tail(cache) \in Seq(Channel)
                              /\ \A m \in Letter : chan[m] # Head(cache)
<1>1. \A c \in Channel : Times(cache, c) + Having(chan, c) = 1
  BY DEF ChannelsConserved, Times, Having
<1>2. \A c \in Channel : Times(cache, c) \in Nat
  BY TimesType DEF TypeOK
<1>3. ASSUME NEW l \in Letter, pc[l] \in Holding
      PROVE  chan[l] \in Channel /\ \A m \in Letter : chan[m] = chan[l] => m = l
  <2>1. chan[l] \in Channel
    BY <1>3 DEF CallsOK, TypeOK
  <2>2. ASSUME NEW m \in Letter, chan[m] = chan[l], m # l
        PROVE  FALSE
    <3>1. Having(chan, chan[l]) >= 2 /\ Having(chan, chan[l]) \in Nat
      BY <2>2, HavingType
    <3> QED BY <1>1, <1>2, <2>1, <3>1
  <2> QED BY <2>1, <2>2
<1>4. ASSUME cache # <<>>
      PROVE  /\ Head(cache) \in Channel /\ Tail(cache) \in Seq(Channel)
             /\ \A m \in Letter : chan[m] # Head(cache)
  <2>1. Head(cache) \in Channel /\ Tail(cache) \in Seq(Channel)
    BY <1>4 DEF TypeOK
  <2>2. Times(cache, Head(cache)) = Times(Tail(cache), Head(cache)) + 1
        /\ Times(Tail(cache), Head(cache)) \in Nat
    BY <1>4, <2>1, TimesTail, TimesType DEF TypeOK
  <2>3. ASSUME NEW m \in Letter, chan[m] = Head(cache)
        PROVE  FALSE
    <3>1. Having(chan, Head(cache)) >= 1 /\ Having(chan, Head(cache)) \in Nat
      BY <2>3, HavingType
    <3> QED BY <1>1, <2>1, <2>2, <3>1
  <2> QED BY <2>1, <2>3
<1> QED BY <1>3, <1>4

(* What taking the head of a channel's buffers leaves, and the count of    *)
(* early leavers.                                                          *)
LEMMA BufferTypes ==
    ASSUME TypeOK, NEW c \in Channel
    PROVE  /\ inflight[c] \in Seq(Letter) /\ confirms[c] \in Seq(Confirmation)
           /\ Len(inflight[c]) \in Nat /\ Len(confirms[c]) \in Nat
           /\ inflight[c] # <<>> => /\ Head(inflight[c]) \in Letter
                                    /\ Tail(inflight[c]) \in Seq(Letter)
                                    /\ Len(Tail(inflight[c])) = Len(inflight[c]) - 1
           /\ confirms[c] # <<>> => /\ Head(confirms[c]) \in Confirmation
                                    /\ Tail(confirms[c]) \in Seq(Confirmation)
                                    /\ Len(Tail(confirms[c])) = Len(confirms[c]) - 1
           /\ EarlyLeavers \in Nat
<1>1. inflight[c] \in Seq(Letter) /\ confirms[c] \in Seq(Confirmation)
  BY DEF TypeOK
<1>2. EarlyLeavers \in Nat
  <2>1. IsFiniteSet({l \in Plain : report[l] = "success"})
    BY CachedAssumption, FS_Subset
  <2>2. timeouts \in Nat
    BY CachedAssumption DEF TypeOK
  <2> QED BY <2>1, <2>2, FS_CardinalityType DEF EarlyLeavers
<1> QED BY <1>1, <1>2

(* What a flush leaves of confirmations.                                   *)
LEMMA FlushTypes ==
    ASSUME TypeOK, NEW c \in Channel, FlushConfirms(c)
    PROVE  /\ confirms' \in [Channel -> Seq(Confirmation)]
           /\ \A d \in Channel : Len(confirms'[d]) <= ConfirmCap
<1>1. \A d \in Channel :
         \/ confirms'[d] = confirms[d]
         \/ confirms[d] # <<>> /\ confirms'[d] = Tail(confirms[d])
  BY DEF FlushConfirms, TypeOK
<1>2. \A d \in Channel :
         confirms'[d] \in Seq(Confirmation) /\ Len(confirms'[d]) <= ConfirmCap
  <2> SUFFICES ASSUME NEW d \in Channel
               PROVE  confirms'[d] \in Seq(Confirmation) /\ Len(confirms'[d]) <= ConfirmCap
    OBVIOUS
  <2>1. Len(confirms[d]) <= ConfirmCap /\ ConfirmCap \in Nat
    BY CachedAssumption DEF TypeOK
  <2>2. /\ confirms[d] \in Seq(Confirmation) /\ Len(confirms[d]) \in Nat
        /\ confirms[d] # <<>> => /\ Tail(confirms[d]) \in Seq(Confirmation)
                                 /\ Len(Tail(confirms[d])) = Len(confirms[d]) - 1
    BY BufferTypes
  <2>3. CASE confirms'[d] = confirms[d]
    BY <2>1, <2>2, <2>3
  <2>4. CASE confirms[d] # <<>> /\ confirms'[d] = Tail(confirms[d])
    BY <2>1, <2>2, <2>4
  <2> QED BY <1>1, <2>3, <2>4
<1>3. confirms' = [d \in Channel |-> confirms'[d]]
  BY DEF FlushConfirms, TypeOK
<1> QED BY <1>2, <1>3

(* Every step keeps the types, and Confirmations within its capacity.      *)
LEMMA TypeStep ==
    ASSUME TypeOK, ChannelsConserved, CallsOK, [Next]_vars
    PROVE  TypeOK'
<1> USE CachedAssumption, Hands
        DEF TypeOK, pool, amqp, calls, counters, Goto, Report, PCs,
            Reports, Holding
<1>1. ASSUME NEW l \in Letter, start(l) PROVE TypeOK'
  BY <1>1 DEF start
<1>2. ASSUME NEW l \in Letter, getChannel(l) PROVE TypeOK'
  <2>1. Head(cache) \in Channel /\ Tail(cache) \in Seq(Channel)
    BY <1>2 DEF getChannel
  <2>2. /\ confirms' \in [Channel -> Seq(Confirmation)]
        /\ \A d \in Channel : Len(confirms'[d]) <= ConfirmCap
    BY <1>2, <2>1, FlushTypes DEF getChannel
  <2> QED BY <1>2, <2>1, <2>2 DEF getChannel
<1>3. ASSUME NEW l \in Letter, publish(l) PROVE TypeOK'
  <2>1. chan[l] \in Channel
    BY <1>3 DEF publish
  <2>2. Append(inflight[chan[l]], l) \in Seq(Letter)
    BY <2>1
  <2>3. inflight' \in [Channel -> Seq(Letter)]
    BY <1>3, <2>1, <2>2 DEF publish
  <2> QED BY <1>3, <2>3 DEF publish
<1>4. ASSUME NEW l \in Letter, publishFails(l) PROVE TypeOK'
  BY <1>4 DEF publishFails
<1>5. ASSUME NEW l \in Letter, reconnect(l) PROVE TypeOK'
  BY <1>5 DEF reconnect
<1>6. ASSUME NEW l \in Letter, timeOut(l) PROVE TypeOK'
  BY <1>6 DEF timeOut
<1>7. ASSUME NEW l \in Letter, receiveConfirmation(l) PROVE TypeOK'
  <2>1. chan[l] \in Channel /\ Len(confirms[chan[l]]) <= ConfirmCap
    BY <1>7 DEF receiveConfirmation
  <2>2. /\ Tail(confirms[chan[l]]) \in Seq(Confirmation)
        /\ Len(Tail(confirms[chan[l]])) <= ConfirmCap
    BY <1>7, <2>1, BufferTypes DEF receiveConfirmation
  <2>3. /\ confirms' \in [Channel -> Seq(Confirmation)]
        /\ \A d \in Channel : Len(confirms'[d]) <= ConfirmCap
    BY <1>7, <2>1, <2>2 DEF receiveConfirmation
  <2> QED BY <1>7, <2>3 DEF receiveConfirmation
<1>8. ASSUME NEW l \in Letter, receiveClosed(l) PROVE TypeOK'
  BY <1>8 DEF receiveClosed
<1>9. ASSUME NEW l \in Letter, returnChannel(l) PROVE TypeOK'
  <2>1. chan[l] \in Channel
    BY <1>9 DEF returnChannel
  <2>2. /\ confirms' \in [Channel -> Seq(Confirmation)]
        /\ \A d \in Channel : Len(confirms'[d]) <= ConfirmCap
    BY <1>9, <2>1, FlushTypes DEF returnChannel
  <2> QED BY <1>9, <2>1, <2>2 DEF returnChannel
<1>10. ASSUME NEW c \in Channel, NEW a \in BOOLEAN, Answer(c, a)
       PROVE  /\ confirms' \in [Channel -> Seq(Confirmation)]
              /\ \A d \in Channel : Len(confirms'[d]) <= ConfirmCap
              /\ inflight' \in [Channel -> Seq(Letter)]
              /\ Head(inflight[c]) \in Letter
  <2> DEFINE r == [letter |-> Head(inflight[c]), ack |-> a]
  <2>1. Head(inflight[c]) \in Letter /\ Tail(inflight[c]) \in Seq(Letter)
    BY <1>10, BufferTypes DEF Answer
  <2>2. r \in Confirmation
    BY <2>1 DEF Confirmation
  <2> HIDE DEF r
  <2>3. /\ Append(confirms[c], r) \in Seq(Confirmation)
        /\ Len(Append(confirms[c], r)) <= ConfirmCap
    BY <1>10, <2>2, BufferTypes DEF Answer, Room
  <2>4. confirms' = [confirms EXCEPT ![c] = Append(@, r)]
        /\ inflight' = [inflight EXCEPT ![c] = Tail(@)]
    BY <1>10 DEF Answer, r
  <2> QED BY <2>1, <2>3, <2>4
<1>11. ASSUME NEW c \in Channel, brokerAcks(c) PROVE TypeOK'
  BY <1>10, <1>11 DEF brokerAcks
<1>12. ASSUME NEW c \in Channel, brokerNacks(c) PROVE TypeOK'
  <2>1. Answer(c, FALSE)
    BY <1>12 DEF brokerNacks
  <2>2. nacks' \in 0 .. MaxNacks
    BY <1>12 DEF brokerNacks
  <2>3. UNCHANGED <<cache, up, pc, chan, report, accepted, timeouts, faults>>
    BY <1>12 DEF brokerNacks
  <2> QED BY <1>10, <2>1, <2>2, <2>3
<1>13. ASSUME NEW c \in Channel, loseChannel(c) PROVE TypeOK'
  <2>1. accepted' \in SUBSET Letter
    BY <1>13, BufferTypes DEF loseChannel
  <2>2. inflight' \in [Channel -> Seq(Letter)]
    <3>1. <<>> \in Seq(Letter)
      OBVIOUS
    <3>2. inflight' = [inflight EXCEPT ![c] = <<>>]
      BY <1>13 DEF loseChannel
    <3> QED BY <3>1, <3>2
  <2>3. up' \in [Channel -> BOOLEAN] /\ faults' \in 0 .. MaxFaults
    BY <1>13 DEF loseChannel
  <2>4. UNCHANGED <<cache, confirms, pc, chan, report, timeouts, nacks>>
    BY <1>13 DEF loseChannel
  <2> QED BY <2>1, <2>2, <2>3, <2>4
<1>14. CASE UNCHANGED vars
  BY <1>14 DEF vars
<1> QED BY <1>1, <1>2, <1>3, <1>4, <1>5, <1>6, <1>7, <1>8, <1>9, <1>11, <1>12, <1>13,
           <1>14 DEF Next, Call

(* The calls keep to their order, and only those with a channel use one.   *)
LEMMA CallsStep ==
    ASSUME TypeOK, ChannelsConserved, CallsOK, [Next]_vars
    PROVE  CallsOK'
<1> USE CachedAssumption, Hands
        DEF CallsOK, pool, amqp, calls, counters, Goto, Report, Holding, TypeOK
<1>0. \A c \in Channel : c # None
  <2>1. Channel \subseteq Nat /\ None \notin Nat
    BY CachedAssumption DEF Channel
  <2> QED BY <2>1
<1>1. ASSUME NEW l \in Letter, start(l) PROVE CallsOK'
  BY <1>1 DEF start
<1>2. ASSUME NEW l \in Letter, getChannel(l) PROVE CallsOK'
  BY <1>0, <1>2 DEF getChannel
<1>3. ASSUME NEW l \in Letter, publish(l) PROVE CallsOK'
  BY <1>3 DEF publish
<1>4. ASSUME NEW l \in Letter, publishFails(l) PROVE CallsOK'
  BY <1>4 DEF publishFails
<1>5. ASSUME NEW l \in Letter, reconnect(l) PROVE CallsOK'
  BY <1>5 DEF reconnect
<1>6. ASSUME NEW l \in Letter, timeOut(l) PROVE CallsOK'
  BY <1>6 DEF timeOut
<1>7. ASSUME NEW l \in Letter, receiveConfirmation(l) PROVE CallsOK'
  BY <1>7 DEF receiveConfirmation
<1>8. ASSUME NEW l \in Letter, receiveClosed(l) PROVE CallsOK'
  BY <1>8 DEF receiveClosed
<1>9. ASSUME NEW l \in Letter, returnChannel(l) PROVE CallsOK'
  BY <1>9 DEF returnChannel
<1>10. CASE UNCHANGED calls
  BY <1>10
<1>11. ASSUME NEW c \in Channel, brokerAcks(c) \/ brokerNacks(c) \/ loseChannel(c)
       PROVE  UNCHANGED calls
  BY <1>11 DEF brokerAcks, brokerNacks, loseChannel
<1>12. CASE UNCHANGED vars
  BY <1>12 DEF vars
<1> QED BY <1>1, <1>2, <1>3, <1>4, <1>5, <1>6, <1>7, <1>8, <1>9, <1>10, <1>11, <1>12
        DEF Next, Call

(* A channel goes from the cache to a call and back, and nowhere else.     *)
LEMMA ConserveStep ==
    ASSUME TypeOK, ChannelsConserved, CallsOK, [Next]_vars
    PROVE  ChannelsConserved'
<1> DEFINE Once == \A c \in Channel : Times(cache, c) + Having(chan, c) = 1
<1>1. ChannelsConserved /\ (ChannelsConserved' <=> Once')
  BY DEF ChannelsConserved, Times, Having
<1>2. \A c \in Channel : Times(cache, c) \in Nat /\ Having(chan, c) \in Nat
  BY TimesType, HavingType DEF TypeOK
<1>3. Once
  BY DEF ChannelsConserved, Times, Having
<1>4. DOMAIN chan = Letter /\ None \notin Channel /\ cache \in Seq(Channel)
  BY CachedAssumption DEF TypeOK, Channel
<1>5. ASSUME NEW l \in Letter, getChannel(l) PROVE ChannelsConserved'
  <2> SUFFICES ASSUME NEW c \in Channel
               PROVE  Times(cache', c) + Having(chan', c) = 1
    BY <1>1 DEF Times, Having
  <2> DEFINE one == IF Head(cache) = c THEN 1 ELSE 0
  <2>1. cache' = Tail(cache) /\ chan' = [chan EXCEPT ![l] = Head(cache)] /\ cache # <<>>
    BY <1>5 DEF getChannel
  <2>2. chan[l] = None
    BY <1>5 DEF getChannel, CallsOK, Holding
  <2>3. Times(cache, c) = Times(cache', c) + one /\ Times(cache', c) \in Nat
    <3>1. Tail(cache) \in Seq(Channel)
      BY <1>4, <2>1
    <3> QED BY <1>4, <2>1, <3>1, TimesTail, TimesType
  <2>4. /\ Having(chan', c) \in Nat
        /\ Having(chan', c) = IF Head(cache) = c THEN Having(chan, c) + 1 ELSE Having(chan, c)
    <3>1. chan'[l] = Head(cache) /\ \A m \in Letter \ {l} : chan'[m] = chan[m]
      BY <2>1 DEF TypeOK
    <3>2. chan[l] # c
      BY <1>4, <2>2
    <3>3. /\ Having(chan', c) \in Nat
          /\ (chan[l] = c <=> chan'[l] = c) => Having(chan', c) = Having(chan, c)
          /\ chan[l] # c /\ chan'[l] = c => Having(chan', c) = Having(chan, c) + 1
      BY <3>1, HavingExcept
    <3> QED BY <3>1, <3>2, <3>3
  <2> QED BY <1>2, <1>3, <2>3, <2>4
<1>6. ASSUME NEW l \in Letter, reconnect(l) \/ returnChannel(l) PROVE ChannelsConserved'
  <2> SUFFICES ASSUME NEW c \in Channel
               PROVE  Times(cache', c) + Having(chan', c) = 1
    BY <1>1 DEF Times, Having
  <2> DEFINE one == IF chan[l] = c THEN 1 ELSE 0
  <2>1. cache' = Append(cache, chan[l]) /\ chan' = [chan EXCEPT ![l] = None]
    BY <1>6 DEF reconnect, returnChannel
  <2>2. chan[l] \in Channel
    BY <1>6, Hands DEF reconnect, returnChannel, Holding
  <2>3. Times(cache', c) = Times(cache, c) + one
    BY <1>4, <2>1, <2>2, TimesAppend
  <2>4. /\ Having(chan', c) \in Nat
        /\ Having(chan', c) = IF chan[l] = c THEN Having(chan, c) - 1 ELSE Having(chan, c)
    <3>1. chan'[l] = None /\ \A m \in Letter \ {l} : chan'[m] = chan[m]
      BY <2>1 DEF TypeOK
    <3>2. chan'[l] # c
      BY <1>4, <3>1
    <3>3. /\ Having(chan', c) \in Nat
          /\ (chan[l] = c <=> chan'[l] = c) => Having(chan', c) = Having(chan, c)
          /\ chan[l] = c /\ chan'[l] # c => Having(chan', c) = Having(chan, c) - 1
      BY <3>1, HavingExcept
    <3> QED BY <3>1, <3>2, <3>3
  <2> QED BY <1>2, <1>3, <2>3, <2>4
<1>7. ASSUME UNCHANGED <<cache, chan>> PROVE ChannelsConserved'
  BY <1>7 DEF ChannelsConserved
<1>8. ASSUME NEW l \in Letter,
             \/ start(l) \/ publish(l) \/ publishFails(l) \/ timeOut(l)
             \/ receiveConfirmation(l) \/ receiveClosed(l)
      PROVE  UNCHANGED <<cache, chan>>
  BY <1>8 DEF start, publish, publishFails, timeOut, receiveConfirmation, receiveClosed,
              pool, calls
<1>9. ASSUME NEW c \in Channel, brokerAcks(c) \/ brokerNacks(c) \/ loseChannel(c)
      PROVE  UNCHANGED <<cache, chan>>
  BY <1>9 DEF brokerAcks, brokerNacks, loseChannel, pool, calls
<1>10. CASE UNCHANGED vars
  BY <1>7, <1>10 DEF vars, pool, calls
<1> QED BY <1>5, <1>6, <1>7, <1>8, <1>9, <1>10 DEF Next, Call

-----------------------------------------------------------------------------
(* What a call does, it does on the channel that it has or takes.          *)
LEMMA Elsewhere ==
    ASSUME TypeOK, ChannelsConserved, CallsOK, NEW l \in Letter, NEW d,
           \/ (Call(l) \/ timeOut(l)) /\ d = chan[l]
           \/ getChannel(l) /\ d = Head(cache)
    PROVE  /\ d \in Channel
           /\ \A m \in Letter : Waits(m, d) \/ Waits(m, d)' => m = l
           /\ \A c \in Channel \ {d} :
                 /\ inflight'[c] = inflight[c] /\ confirms'[c] = confirms[c] /\ up'[c] = up[c]
                 /\ \A m \in Letter : Waits(m, c)' <=> Waits(m, c)
<1> USE DEF TypeOK, CallsOK, Holding, pool, amqp, calls, counters, Goto, Report
<1>1. CASE getChannel(l) /\ d = Head(cache)
  <2>1. d \in Channel /\ \A m \in Letter : chan[m] # d
    BY <1>1, Hands DEF getChannel
  <2>2. \A c \in Channel \ {d} :
           inflight'[c] = inflight[c] /\ confirms'[c] = confirms[c] /\ up'[c] = up[c]
    BY <1>1, <2>1 DEF getChannel, FlushConfirms
  <2>3. /\ pc[l] = "get" /\ pc' = [pc EXCEPT ![l] = "publish"]
        /\ chan' = [chan EXCEPT ![l] = d]
    BY <1>1 DEF getChannel
  <2>4. \A m \in Letter, c \in Channel : Waits(m, c)' <=> Waits(m, c)
    BY <2>3 DEF Waits
  <2>5. \A m \in Letter : ~Waits(m, d)
    BY <2>1 DEF Waits
  <2> QED BY <2>1, <2>2, <2>4, <2>5
<1>2. CASE (Call(l) \/ timeOut(l)) /\ d = chan[l]
  <2>1. pc[l] \in Holding
    BY <1>2 DEF Call, publish, publishFails, reconnect, receiveConfirmation, receiveClosed,
                returnChannel, timeOut
  <2>2. d \in Channel /\ \A m \in Letter : chan[m] = d => m = l
    BY <1>2, <2>1, Hands
  <2>3. \A c \in Channel \ {d} :
           inflight'[c] = inflight[c] /\ confirms'[c] = confirms[c] /\ up'[c] = up[c]
    BY <1>2, <2>2 DEF Call, publish, publishFails, reconnect, receiveConfirmation,
       receiveClosed, returnChannel, timeOut, FlushConfirms
  <2>4. /\ \A m \in Letter \ {l} : pc'[m] = pc[m] /\ chan'[m] = chan[m]
        /\ chan'[l] \in {d, None}
    BY <1>2 DEF Call, publish, publishFails, reconnect, receiveConfirmation, receiveClosed,
                returnChannel, timeOut
  <2>5. \A c \in Channel : c # None
    BY CachedAssumption DEF Channel
  <2>6. \A m \in Letter : Waits(m, d) \/ Waits(m, d)' => m = l
    BY <2>2, <2>4 DEF Waits
  <2>7. \A c \in Channel \ {d}, m \in Letter : Waits(m, c)' <=> Waits(m, c)
    BY <1>2, <2>4, <2>5 DEF Waits
  <2> QED BY <2>2, <2>3, <2>6, <2>7
<1> QED BY <1>1, <1>2

(* What the broker and the network do disturbs no call.                    *)
LEMMA FromOutside ==
    ASSUME NEW c \in Channel, brokerAcks(c) \/ brokerNacks(c) \/ loseChannel(c), TypeOK
    PROVE  /\ UNCHANGED <<pc, chan, report, timeouts>>
           /\ \A d \in Channel \ {c} :
                 inflight'[d] = inflight[d] /\ confirms'[d] = confirms[d] /\ up'[d] = up[d]
           /\ \A m \in Letter, d \in Channel : Waits(m, d)' <=> Waits(m, d)
<1>1. UNCHANGED <<pc, chan, report, timeouts>>
  BY DEF brokerAcks, brokerNacks, loseChannel, calls, counters
<1>2. \A d \in Channel \ {c} :
         inflight'[d] = inflight[d] /\ confirms'[d] = confirms[d] /\ up'[d] = up[d]
  BY DEF brokerAcks, brokerNacks, loseChannel, Answer, pool, TypeOK
<1> QED BY <1>1, <1>2 DEF Waits

(* Losing a channel empties it, and nothing is published on it until it is *)
(* made anew.                                                              *)
LEMMA DownStep ==
    ASSUME TypeOK, ChannelsConserved, CallsOK, DownEmpty, [Next]_vars
    PROVE  DownEmpty'
<1> USE DEF DownEmpty, TypeOK, pool, amqp
<1>1. ASSUME NEW l \in Letter, publish(l) PROVE DownEmpty'
  BY <1>1 DEF publish
<1>2. ASSUME NEW l \in Letter, reconnect(l) PROVE DownEmpty'
  BY <1>2 DEF reconnect
<1>3. ASSUME NEW l \in Letter,
             \/ start(l) \/ getChannel(l) \/ publishFails(l) \/ timeOut(l)
             \/ receiveConfirmation(l) \/ receiveClosed(l) \/ returnChannel(l)
      PROVE  DownEmpty'
  BY <1>3 DEF start, getChannel, publishFails, timeOut, receiveConfirmation, receiveClosed,
              returnChannel
<1>4. ASSUME NEW c \in Channel, brokerAcks(c) \/ brokerNacks(c) PROVE DownEmpty'
  BY <1>4 DEF brokerAcks, brokerNacks, Answer
<1>5. ASSUME NEW c \in Channel, loseChannel(c) PROVE DownEmpty'
  BY <1>5 DEF loseChannel
<1>6. CASE UNCHANGED vars
  BY <1>6 DEF vars
<1> QED BY <1>1, <1>2, <1>3, <1>4, <1>5, <1>6 DEF Next, Call

(* An answer moves the oldest publication; the newest stays the newest.    *)
LEMMA AnswerKeepsNewest ==
    ASSUME TypeOK, NEW c \in Channel, NEW a \in BOOLEAN, Answer(c, a), NEW l \in Letter
    PROVE  Newest(l, c)' <=> Newest(l, c)
<1>1. /\ inflight[c] \in Seq(Letter) /\ confirms[c] \in Seq(Confirmation)
      /\ inflight[c] # <<>>
  BY BufferTypes DEF Answer
<1>2. /\ inflight'[c] = Tail(inflight[c])
      /\ confirms'[c] = Append(confirms[c], [letter |-> Head(inflight[c]), ack |-> a])
  BY DEF Answer, TypeOK
<1>3. [letter |-> Head(inflight[c]), ack |-> a] \in Confirmation
  BY <1>1 DEF Confirmation
<1>4. confirms'[c] # <<>> /\ confirms'[c][Len(confirms'[c])].letter = Head(inflight[c])
  BY <1>1, <1>2, <1>3
<1>5. CASE Tail(inflight[c]) = <<>>
  <2>1. Len(inflight[c]) = 1
    <3>1. Len(Tail(inflight[c])) = Len(inflight[c]) - 1 /\ Len(inflight[c]) \in Nat
      BY <1>1, BufferTypes
    <3>2. Len(<<>>) = 0
      OBVIOUS
    <3>3. Len(Tail(inflight[c])) = 0
      BY <1>5, <3>2, Zenon
    <3> QED BY <3>1, <3>3
  <2>2. Newest(l, c) <=> Head(inflight[c]) = l
    BY <1>1, <2>1 DEF Newest
  <2> QED BY <1>2, <1>4, <1>5, <2>2 DEF Newest
<1>6. CASE Tail(inflight[c]) # <<>>
  <2>1. Tail(inflight[c])[Len(Tail(inflight[c]))] = inflight[c][Len(inflight[c])]
    BY <1>1, <1>6
  <2> QED BY <1>1, <1>2, <1>6, <2>1 DEF Newest
<1> QED BY <1>5, <1>6

(* While its channel is up, nobody publishes after the call that waits on  *)
(* it.                                                                     *)
LEMMA NewestStep ==
    ASSUME TypeOK, ChannelsConserved, CallsOK, OwnNewest, [Next]_vars
    PROVE  OwnNewest'
<1> SUFFICES ASSUME NEW m \in Letter, NEW c \in Channel, Waits(m, c)', up'[c]
             PROVE  Newest(m, c)'
  BY DEF OwnNewest
<1>1. ASSUME Waits(m, c), up[c], inflight'[c] = inflight[c], confirms'[c] = confirms[c]
      PROVE  Newest(m, c)'
  BY <1>1 DEF OwnNewest, Newest
<1>2. ASSUME NEW l \in Letter, start(l)
      PROVE  Newest(m, c)'
  BY <1>1, <1>2 DEF start, Waits, Goto, TypeOK, pool, amqp
<1>3. ASSUME NEW l \in Letter, NEW d,
             \/ (Call(l) \/ timeOut(l)) /\ d = chan[l]
             \/ getChannel(l) /\ d = Head(cache)
      PROVE  Newest(m, c)'
  <2>1. CASE c # d
    BY <1>1, <1>3, <2>1, Elsewhere
  <2>2. CASE c = d
    <3>1. m = l
      BY <1>3, <2>2, Elsewhere
    <3>2. pc'[l] = "wait"
      BY <3>1 DEF Waits
    <3>3. publish(l)
      BY <1>3, <3>2 DEF Call, publishFails, reconnect, receiveConfirmation, receiveClosed,
            returnChannel, timeOut, getChannel, Goto, TypeOK
    <3>4. d = chan[l] /\ c \in Channel /\ inflight[c] \in Seq(Letter)
      BY <1>3, <2>2, <3>3 DEF TypeOK, getChannel, publish
    <3>5. inflight'[c] = Append(inflight[c], l)
      BY <2>2, <3>3, <3>4 DEF publish, TypeOK
    <3>6. inflight'[c] # <<>> /\ inflight'[c][Len(inflight'[c])] = l
      BY <3>4, <3>5
    <3> QED BY <3>1, <3>6 DEF Newest
  <2> QED BY <2>1, <2>2
<1>4. ASSUME NEW d \in Channel, brokerAcks(d) \/ brokerNacks(d) \/ loseChannel(d)
      PROVE  Newest(m, c)'
  <2>1. Waits(m, c)
    BY <1>4, FromOutside
  <2>2. CASE c # d
    BY <1>1, <1>4, <2>1, <2>2, FromOutside
  <2>3. CASE c = d
    <3>1. ~loseChannel(d)
      BY <2>3 DEF loseChannel, TypeOK
    <3>2. \E a \in BOOLEAN : Answer(c, a)
      BY <1>4, <2>3, <3>1 DEF brokerAcks, brokerNacks
    <3>3. up[c]
      BY <3>2 DEF Answer
    <3> QED BY <2>1, <3>2, <3>3, AnswerKeepsNewest DEF OwnNewest
  <2> QED BY <2>2, <2>3
<1>5. CASE UNCHANGED vars
  BY <1>1, <1>5 DEF vars, pool, amqp, calls, Waits
<1> QED BY <1>2, <1>3, <1>4, <1>5 DEF Next

-----------------------------------------------------------------------------
(* Stale answers are counted in natural numbers.                           *)
LEMMA StaleType ==
    ASSUME TypeOK
    PROVE  /\ \A c \in Channel : StaleOn(c) \in Nat
           /\ Stale \in [Channel -> Nat]
<1>1. ASSUME NEW c \in Channel
      PROVE  StaleOn(c) \in Nat
  <2>1. /\ Len(inflight[c]) \in Nat /\ Len(confirms[c]) \in Nat
        /\ inflight[c] \in Seq(Letter) /\ confirms[c] \in Seq(Confirmation)
    BY BufferTypes
  <2> DEFINE li == Len(inflight[c])
             lc == Len(confirms[c])
  <2>2. StaleOn(c) = IF Expected(c) THEN li + lc - 1 ELSE li + lc
    BY <2>1 DEF StaleOn
  <2>3. ASSUME Expected(c)
        PROVE  li >= 1 \/ lc >= 1
    <3>1. inflight[c] # <<>> \/ confirms[c] # <<>>
      BY <2>3 DEF Expected, Newest
    <3> QED BY <2>1, <3>1
  <2> HIDE DEF li, lc
  <2>4. li \in Nat /\ lc \in Nat
    BY <2>1 DEF li, lc
  <2> QED BY <2>2, <2>3, <2>4
<1> QED BY <1>1 DEF Stale

(* The same after a step.                                                  *)
LEMMA StaleTypeNext ==
    (TypeOK => (\A c \in Channel : StaleOn(c) \in Nat) /\ Stale \in [Channel -> Nat])'
<1>1. TypeOK => (\A c \in Channel : StaleOn(c) \in Nat) /\ Stale \in [Channel -> Nat]
  BY StaleType
<1> QED BY <1>1, PTL

(* The stale answers of a channel that a step leaves alone stay the same.  *)
LEMMA StaleFrame ==
    ASSUME NEW c \in Channel, inflight'[c] = inflight[c], confirms'[c] = confirms[c],
           \A m \in Letter : Waits(m, c)' <=> Waits(m, c)
    PROVE  StaleOn(c)' = StaleOn(c)
<1>1. \A m \in Letter : Newest(m, c)' <=> Newest(m, c)
  BY DEF Newest
<1>2. Expected(c)' <=> Expected(c)
  BY <1>1 DEF Expected
<1> QED BY <1>2 DEF StaleOn

(* A change on one channel changes the total by as much.                   *)
LEMMA StaleStep ==
    ASSUME TypeOK, TypeOK', NEW c \in Channel,
           \A d \in Channel \ {c} : StaleOn(d)' = StaleOn(d)
    PROVE  /\ Total(Stale)' \in Nat /\ Total(Stale) \in Nat
           /\ Total(Stale)' = Total(Stale) + StaleOn(c)' - StaleOn(c)
<1> DEFINE g == [d \in Channel |-> StaleOn(d)']
<1>1. Stale \in [Channel -> Nat] /\ StaleOn(c) \in Nat
  BY StaleType
<1>2. g \in [Channel -> Nat] /\ StaleOn(c)' \in Nat
  BY StaleTypeNext DEF Stale
<1>3. Total(Stale)' = Total(g)
  BY DEF Total, Below, Stale
<1>4. g[c] = StaleOn(c)' /\ Stale[c] = StaleOn(c)
  BY DEF Stale
<1>5. \A d \in Channel \ {c} : g[d] = Stale[d]
  BY DEF Stale
<1> HIDE DEF g
<1>6. Total(g) + Stale[c] = Total(Stale) + g[c]
  BY <1>1, <1>2, <1>5, TotalChange
<1>7. Total(g) \in Nat /\ Total(Stale) \in Nat
  BY <1>1, <1>2, TotalType
<1> QED BY <1>1, <1>2, <1>3, <1>4, <1>6, <1>7

-----------------------------------------------------------------------------
(* Each timeout and each Publish that succeeds is one more call that left  *)
(* early; nothing takes one back.                                          *)
LEMMA EarlyStep ==
    ASSUME TypeOK, TypeOK', CallsOK, [Next]_vars
    PROVE  /\ EarlyLeavers \in Nat /\ EarlyLeavers' \in Nat
           /\ EarlyLeavers' >= EarlyLeavers
           /\ \A l \in Letter : timeOut(l) \/ (publish(l) /\ l \in Plain) =>
                 EarlyLeavers' = EarlyLeavers + 1
<1> DEFINE Left == {l \in Plain : report[l] = "success"}
           LeftThen == {l \in Plain : report'[l] = "success"}
<1> USE DEF TypeOK, CallsOK, Holding, Report, Goto, pool, amqp, calls, counters
<1>1. EarlyLeavers = timeouts + Cardinality(Left)
      /\ EarlyLeavers' = timeouts' + Cardinality(LeftThen)
  BY DEF EarlyLeavers
<1>2. timeouts \in Nat /\ timeouts' \in Nat
  BY CachedAssumption
<1>3. IsFiniteSet(Left) /\ IsFiniteSet(LeftThen)
  BY CachedAssumption, FS_Subset
<1>4. Cardinality(Left) \in Nat /\ Cardinality(LeftThen) \in Nat
  BY <1>3, FS_CardinalityType
<1>5. ASSUME NEW l \in Letter, timeOut(l)
      PROVE  timeouts' = timeouts + 1 /\ LeftThen = Left
  BY <1>5 DEF timeOut
<1>6. ASSUME NEW l \in Plain, publish(l)
      PROVE  timeouts' = timeouts /\ LeftThen = Left \cup {l} /\ l \notin Left
  <2>1. l \in Letter /\ timeouts' = timeouts /\ report' = [report EXCEPT ![l] = "success"]
    BY <1>6, CachedAssumption DEF publish
  <2>2. report[l] # "success"
    BY <1>6, <2>1 DEF publish
  <2>3. \A p \in Plain : report'[p] = IF p = l THEN "success" ELSE report[p]
    BY <2>1, CachedAssumption
  <2> QED BY <2>1, <2>2, <2>3
<1>7. ASSUME NEW l \in Letter,
             \/ start(l) \/ getChannel(l) \/ (publish(l) /\ l \notin Plain)
             \/ publishFails(l) \/ reconnect(l)
             \/ receiveConfirmation(l) \/ receiveClosed(l) \/ returnChannel(l)
      PROVE  timeouts' = timeouts /\ LeftThen = Left
  <2>1. CASE receiveConfirmation(l)
    <3>1. l \notin Plain /\ timeouts' = timeouts
      BY <2>1 DEF receiveConfirmation
    <3>2. \A p \in Plain : report'[p] = report[p]
      BY <2>1, <3>1, CachedAssumption DEF receiveConfirmation
    <3> QED BY <3>1, <3>2
  <2>2. CASE publishFails(l)
    <3>1. report[l] # "success" /\ timeouts' = timeouts
      BY <2>2 DEF publishFails
    <3>2. \A p \in Plain \ {l} : report'[p] = report[p]
      BY <2>2, CachedAssumption DEF publishFails
    <3>3. report'[l] # "success"
      BY <2>2, <3>1 DEF publishFails
    <3> QED BY <3>1, <3>2, <3>3
  <2> QED BY <1>7, <2>1, <2>2
          DEF start, getChannel, publish, reconnect, receiveClosed, returnChannel
<1>8. ASSUME NEW c \in Channel, brokerAcks(c) \/ brokerNacks(c) \/ loseChannel(c)
      PROVE  timeouts' = timeouts /\ LeftThen = Left
  BY <1>8, FromOutside
<1>9. CASE UNCHANGED vars
  <2>1. timeouts' = timeouts /\ LeftThen = Left
    BY <1>9 DEF vars
  <2>2. \A l \in Letter : ~timeOut(l)
    BY <1>9, <1>2 DEF vars, timeOut
  <2>3. \A l \in Letter : ~publish(l)
    BY <1>9 DEF vars, publish
  <2> HIDE DEF Left, LeftThen
  <2> QED BY <1>1, <1>2, <1>4, <2>1, <2>2, <2>3
<1>10. ASSUME NEW l \in Plain, l \notin Left, LeftThen = Left \cup {l}
       PROVE  Cardinality(LeftThen) = Cardinality(Left) + 1
  <2> HIDE DEF Left, LeftThen
  <2> QED BY <1>3, <1>10, FS_AddElement
<1> HIDE DEF Left, LeftThen
<1>11. ASSUME NEW l \in Letter, timeOut(l) \/ (publish(l) /\ l \in Plain)
       PROVE  EarlyLeavers' = EarlyLeavers + 1
  <2>1. CASE timeOut(l)
    <3>1. timeouts' = timeouts + 1 /\ Cardinality(LeftThen) = Cardinality(Left)
      BY <1>5, <2>1
    <3> QED BY <1>1, <1>2, <1>4, <3>1
  <2>2. CASE publish(l) /\ l \in Plain
    <3>1. timeouts' = timeouts /\ Cardinality(LeftThen) = Cardinality(Left) + 1
      BY <1>6, <1>10, <2>2
    <3> QED BY <1>1, <1>2, <1>4, <3>1
  <2> QED BY <1>11, <2>1, <2>2
<1>12. EarlyLeavers' >= EarlyLeavers
  <2>1. CASE timeouts' = timeouts /\ LeftThen = Left
    BY <1>1, <1>2, <1>4, <2>1
  <2>2. ASSUME NEW l \in Letter, timeOut(l) \/ (publish(l) /\ l \in Plain)
        PROVE  EarlyLeavers' >= EarlyLeavers
    BY <1>1, <1>2, <1>4, <1>11, <2>2
  <2> QED BY <1>7, <1>8, <1>9, <2>1, <2>2 DEF Next, Call
<1> QED BY <1>1, <1>2, <1>4, <1>11, <1>12

-----------------------------------------------------------------------------
(* What a step must show of the charges it keeps or adds.                  *)
LEMMA Recharge ==
    ASSUME NEW N, NEW D, NEW N2, NEW D2, Charged(N, D),
           N \subseteq N2, D \subseteq D2,
           Cardinality(N2) <= nacks',
           Total(Stale)' + Cardinality(D2) <= EarlyLeavers',
           accepted \subseteq accepted',
           \A c \in Channel : \A i \in DOMAIN confirms'[c] :
              \/ \E j \in DOMAIN confirms[c] : confirms'[c][i] = confirms[c][j]
              \/ confirms'[c][i].letter \in (IF confirms'[c][i].ack THEN accepted' ELSE N2),
           \A m \in Misled' :
              \/ m \in N2 \cup D2 \/ InFlight(m)'
              \/ m \in Misled /\ (InFlight(m) => InFlight(m)')
    PROVE  Charged(N2, D2)'
<1>1. AnswersTold(N2)'
  <2> SUFFICES ASSUME NEW c \in Channel, NEW i \in DOMAIN confirms'[c]
               PROVE  confirms'[c][i].letter
                        \in (IF confirms'[c][i].ack THEN accepted' ELSE N2)
    BY DEF AnswersTold
  <2>1. ASSUME NEW j \in DOMAIN confirms[c], confirms'[c][i] = confirms[c][j]
        PROVE  confirms'[c][i].letter \in (IF confirms'[c][i].ack THEN accepted' ELSE N2)
    <3>1. confirms[c][j].letter \in (IF confirms[c][j].ack THEN accepted ELSE N)
      BY DEF Charged, AnswersTold
    <3> QED BY <2>1, <3>1
  <2> QED BY <2>1
<1>2. \A m \in Misled' : m \in N2 \cup D2 \/ InFlight(m)'
  BY DEF Charged
<1> QED BY <1>1, <1>2 DEF Charged

(* Confirmations that a flush or a receiver leaves were there before.      *)
LEMMA TailsKeep ==
    ASSUME TypeOK, NEW c \in Channel,
           confirms'[c] = confirms[c] \/ (confirms[c] # <<>> /\ confirms'[c] = Tail(confirms[c]))
    PROVE  \A i \in DOMAIN confirms'[c] :
              \E j \in DOMAIN confirms[c] : confirms'[c][i] = confirms[c][j]
<1>1. confirms[c] \in Seq(Confirmation)
  BY DEF TypeOK
<1>2. ASSUME confirms[c] # <<>>, confirms'[c] = Tail(confirms[c]),
             NEW i \in DOMAIN confirms'[c]
      PROVE  \E j \in DOMAIN confirms[c] : confirms'[c][i] = confirms[c][j]
  <2>1. i + 1 \in DOMAIN confirms[c] /\ Tail(confirms[c])[i] = confirms[c][i + 1]
    BY <1>1, <1>2
  <2> QED BY <1>2, <2>1
<1> QED BY <1>2

(* A flush, or a Publish, while nobody waits.                              *)
LEMMA IdleStale ==
    ASSUME TypeOK, NEW c \in Channel, \A m \in Letter : ~Waits(m, c)
    PROVE  StaleOn(c) = Len(inflight[c]) + Len(confirms[c])
<1>1. ~Expected(c)
  BY DEF Expected
<1>2. Len(inflight[c]) \in Nat /\ Len(confirms[c]) \in Nat
  BY BufferTypes
<1> QED BY <1>1, <1>2 DEF StaleOn

(* The letters in flight on a channel that misled their callers, against   *)
(* the stale answers in flight.                                            *)
LEMMA MisledInFlight ==
    ASSUME TypeOK, NEW c \in Channel
    PROVE  LET W == {m \in Misled : \E i \in DOMAIN inflight[c] : inflight[c][i] = m}
           IN  /\ IsFiniteSet(W) /\ Cardinality(W) \in Nat
               /\ Cardinality(W) <= Len(inflight[c])
               /\ CallsOK /\ Expected(c) /\ inflight[c] # <<>> =>
                     Cardinality(W) <= Len(inflight[c]) - 1
<1> DEFINE W == {m \in Misled : \E i \in DOMAIN inflight[c] : inflight[c][i] = m}
           at == [m \in W |-> CHOOSE i \in DOMAIN inflight[c] : inflight[c][i] = m]
           n == Len(inflight[c])
<1>1. inflight[c] \in Seq(Letter) /\ n \in Nat /\ DOMAIN inflight[c] = 1 .. n
  BY DEF TypeOK
<1>2. \A m \in W : at[m] \in 1 .. n /\ inflight[c][at[m]] = m
  BY <1>1
<1>3. ASSUME NEW k \in Nat, \A m \in W : at[m] \in 1 .. k
      PROVE  IsFiniteSet(W) /\ Cardinality(W) <= k
  <2>1. at \in Injection(W, 1 .. k)
    <3>1. at \in [W -> 1 .. k]
      BY <1>3
    <3>2. \A a, b \in W : at[a] = at[b] => a = b
      BY <1>2
    <3> QED BY <3>1, <3>2 DEF Injection, IsInjective
  <2>2. IsFiniteSet(1 .. k) /\ Cardinality(1 .. k) = k
    BY FS_Interval
  <2> HIDE DEF W, at
  <2> QED BY <2>1, <2>2, FS_Injection
<1>4. IsFiniteSet(W) /\ Cardinality(W) <= n
  BY <1>1, <1>2, <1>3
<1>5. ASSUME CallsOK, Expected(c), inflight[c] # <<>>
      PROVE  Cardinality(W) <= n - 1
  <2>1. PICK l \in Letter : Waits(l, c) /\ inflight[c][n] = l
    BY <1>5 DEF Expected, Newest
  <2>2. report[l] # "success"
    BY <1>5, <2>1 DEF CallsOK, Waits
  <2>3. l \notin W
    BY <2>2 DEF Misled
  <2>4. \A m \in W : at[m] # n
    BY <1>2, <2>1, <2>3
  <2>5. n - 1 \in Nat
    BY <1>1, <1>5
  <2>6. \A m \in W : at[m] \in 1 .. n - 1
    <3> SUFFICES ASSUME NEW m \in W PROVE at[m] \in 1 .. n - 1
      OBVIOUS
    <3>1. at[m] \in 1 .. n /\ at[m] # n
      BY <1>2, <2>4
    <3> HIDE DEF at, n
    <3> QED BY <1>1, <3>1
  <2> HIDE DEF W, at
  <2> QED BY <1>3, <2>5, <2>6
<1> HIDE DEF W
<1>6. Cardinality(W) \in Nat
  BY <1>4, FS_CardinalityType
<1> QED BY <1>4, <1>5, <1>6 DEF W

(* The same after a step.                                                  *)
LEMMA IdleStaleNext ==
    ASSUME TypeOK', NEW c \in Channel, \A m \in Letter : ~Waits(m, c)'
    PROVE  /\ StaleOn(c)' = Len(inflight'[c]) + Len(confirms'[c])
           /\ Len(inflight'[c]) \in Nat /\ Len(confirms'[c]) \in Nat
<1>1. ~Expected(c)'
  BY DEF Expected
<1>2. inflight'[c] \in Seq(Letter) /\ confirms'[c] \in Seq(Confirmation)
  BY DEF TypeOK
<1>3. Len(inflight'[c]) \in Nat /\ Len(confirms'[c]) \in Nat
  BY <1>2
<1> QED BY <1>1, <1>3 DEF StaleOn

(* A step that changes one channel only, and there the stale answers by no *)
(* more than the calls that left, keeps the charges.                       *)
LEMMA QuietCharge ==
    ASSUME TypeOK, TypeOK', CallsOK, [Next]_vars,
           NEW N \in SUBSET Letter, NEW D \in SUBSET Letter, Charged(N, D), NEW c \in Channel,
           \A d \in Channel \ {c} :
              /\ inflight'[d] = inflight[d] /\ confirms'[d] = confirms[d]
              /\ \A m \in Letter : Waits(m, d)' <=> Waits(m, d),
           StaleOn(c)' + EarlyLeavers <= StaleOn(c) + EarlyLeavers',
           nacks' = nacks, accepted' = accepted, Misled' \subseteq Misled,
           \A m \in Misled' : InFlight(m) => InFlight(m)',
           \/ confirms'[c] = confirms[c]
           \/ confirms[c] # <<>> /\ confirms'[c] = Tail(confirms[c])
    PROVE  Charged(N, D)'
<1>1. /\ Total(Stale)' \in Nat /\ Total(Stale) \in Nat
      /\ Total(Stale)' = Total(Stale) + StaleOn(c)' - StaleOn(c)
  BY StaleFrame, StaleStep
<1>2. StaleOn(c)' \in Nat /\ StaleOn(c) \in Nat /\ EarlyLeavers \in Nat /\ EarlyLeavers' \in Nat
  BY StaleType, StaleTypeNext, EarlyStep
<1>3. Cardinality(D) \in Nat
  BY CachedAssumption, FS_Subset, FS_CardinalityType
<1>4. Total(Stale)' + Cardinality(D) <= EarlyLeavers'
  BY <1>1, <1>2, <1>3 DEF Charged
<1>5. \A d \in Channel : \A i \in DOMAIN confirms'[d] :
         \E j \in DOMAIN confirms[d] : confirms'[d][i] = confirms[d][j]
  <2>1. \A i \in DOMAIN confirms'[c] :
           \E j \in DOMAIN confirms[c] : confirms'[c][i] = confirms[c][j]
    BY TailsKeep
  <2> QED BY <2>1
<1>6. Cardinality(N) <= nacks'
  BY DEF Charged
<1>7. AnswersTold(N)'
  <2> SUFFICES ASSUME NEW d \in Channel, NEW i \in DOMAIN confirms'[d]
               PROVE  confirms'[d][i].letter
                        \in (IF confirms'[d][i].ack THEN accepted' ELSE N)
    BY DEF AnswersTold
  <2>1. PICK j \in DOMAIN confirms[d] : confirms'[d][i] = confirms[d][j]
    BY <1>5
  <2>2. confirms[d][j].letter \in (IF confirms[d][j].ack THEN accepted ELSE N)
    BY DEF Charged, AnswersTold
  <2> QED BY <2>1, <2>2
<1>8. \A m \in Misled' : m \in N \cup D \/ InFlight(m)'
  BY DEF Charged
<1> QED BY <1>4, <1>6, <1>7, <1>8 DEF Charged

(* The calls that publish, give up or give back.                           *)
LEMMA CallCharge ==
    ASSUME TypeOK, TypeOK', ChannelsConserved, CallsOK, DownEmpty, [Next]_vars,
           NEW N \in SUBSET Letter, NEW D \in SUBSET Letter, Charged(N, D), NEW l \in Letter,
           \/ getChannel(l) \/ publish(l) \/ publishFails(l) \/ timeOut(l)
           \/ receiveClosed(l) \/ returnChannel(l)
    PROVE  Charged(N, D)' /\ Misled' \subseteq Misled
<1>1. PICK c : \/ (Call(l) \/ timeOut(l)) /\ c = chan[l]
               \/ getChannel(l) /\ c = Head(cache)
  BY DEF Call
<1>2. /\ c \in Channel
      /\ \A m \in Letter : Waits(m, c) \/ Waits(m, c)' => m = l
      /\ \A d \in Channel \ {c} :
            /\ inflight'[d] = inflight[d] /\ confirms'[d] = confirms[d]
            /\ \A m \in Letter : Waits(m, d)' <=> Waits(m, d)
  BY <1>1, Elsewhere
<1>3. nacks' = nacks /\ accepted' = accepted
  BY DEF getChannel, publish, publishFails, timeOut, receiveClosed, returnChannel, counters
<1>4. Misled' \subseteq Misled
  <2>1. \A m \in Confirmed : report'[m] = "success" => report[m] = "success"
    BY DEF getChannel, publish, publishFails, timeOut, receiveClosed, returnChannel, calls,
           Report, Confirmed, TypeOK
  <2> QED BY <1>3, <2>1 DEF Misled
<1>5. StaleOn(c)' \in Nat /\ StaleOn(c) \in Nat /\ EarlyLeavers \in Nat /\ EarlyLeavers' \in Nat
      /\ EarlyLeavers' >= EarlyLeavers
  BY <1>2, StaleType, StaleTypeNext, EarlyStep
<1> DEFINE li == Len(inflight[c])
           lc == Len(confirms[c])
<1>6. li \in Nat /\ lc \in Nat
  BY <1>2, BufferTypes
<1>10. inflight[c] \in Seq(Letter)
  BY <1>2, BufferTypes
<1>7. CASE getChannel(l) \/ publishFails(l) \/ returnChannel(l)
  <2>1. ~Waits(l, c) /\ ~Waits(l, c)' /\ inflight' = inflight
    BY <1>7 DEF getChannel, publishFails, returnChannel, Waits, Goto, TypeOK, amqp
  <2>2. \/ confirms'[c] = confirms[c]
        \/ confirms[c] # <<>> /\ confirms'[c] = Tail(confirms[c])
    <3>1. CASE getChannel(l)
      <4>1. c = Head(cache)
        BY <1>1, <3>1 DEF Call, timeOut, getChannel, publish, publishFails, reconnect,
              receiveConfirmation, receiveClosed, returnChannel
      <4> QED BY <1>2, <3>1, <4>1 DEF getChannel, FlushConfirms, TypeOK
    <3>2. CASE returnChannel(l)
      <4>1. c = chan[l]
        BY <1>1, <3>2 DEF getChannel, returnChannel
      <4> QED BY <1>2, <3>2, <4>1 DEF returnChannel, FlushConfirms, TypeOK
    <3>3. CASE publishFails(l)
      BY <3>3 DEF publishFails, amqp
    <3> QED BY <1>7, <3>1, <3>2, <3>3
  <2>3. Len(confirms'[c]) = lc \/ Len(confirms'[c]) = lc - 1
    BY <1>2, <2>2, BufferTypes
  <2>4. StaleOn(c) = li + lc /\ (StaleOn(c)' = li + lc \/ StaleOn(c)' = li + lc - 1)
    <3>1. StaleOn(c) = li + lc /\ StaleOn(c)' = li + Len(confirms'[c])
      BY <1>2, <2>1, IdleStale, IdleStaleNext
    <3> HIDE DEF li, lc
    <3> QED BY <1>6, <2>3, <3>1
  <2>5. StaleOn(c)' + EarlyLeavers <= StaleOn(c) + EarlyLeavers'
    <3> HIDE DEF li, lc
    <3> QED BY <1>5, <1>6, <2>4
  <2>6. \A m \in Misled' : InFlight(m) => InFlight(m)'
    BY <2>1 DEF InFlight
  <2> QED BY <1>2, <1>3, <1>4, <2>2, <2>5, <2>6, QuietCharge
<1>8. CASE timeOut(l) \/ receiveClosed(l)
  <2>1. ~Waits(l, c)' /\ inflight' = inflight /\ confirms' = confirms
    BY <1>8 DEF timeOut, receiveClosed, Waits, Goto, TypeOK, amqp
  <2>2. StaleOn(c)' = li + lc
    BY <1>2, <2>1, IdleStaleNext
  <2>3. StaleOn(c) = li + lc \/ StaleOn(c) = li + lc - 1
    <3>1. StaleOn(c) = li + lc - (IF Expected(c) THEN 1 ELSE 0)
      BY DEF StaleOn
    <3> HIDE DEF li, lc
    <3> QED BY <1>6, <3>1
  <2>4. StaleOn(c)' + EarlyLeavers <= StaleOn(c) + EarlyLeavers'
    <3>1. CASE timeOut(l)
      <4>1. EarlyLeavers' = EarlyLeavers + 1
        BY <3>1, EarlyStep
      <4> HIDE DEF li, lc
      <4> QED BY <1>5, <1>6, <2>2, <2>3, <4>1
    <3>2. CASE receiveClosed(l)
      <4>1. c = chan[l]
        BY <1>1, <3>2 DEF getChannel, receiveClosed
      <4>2. inflight[c] = <<>> /\ confirms[c] = <<>>
        BY <1>2, <3>2, <4>1 DEF receiveClosed, DownEmpty
      <4>3. StaleOn(c)' = 0
        BY <2>2, <4>2
      <4> QED BY <1>5, <4>3
    <3> QED BY <1>8, <3>1, <3>2
  <2>5. \A m \in Misled' : InFlight(m) => InFlight(m)'
    BY <2>1 DEF InFlight
  <2> QED BY <1>2, <1>3, <1>4, <2>1, <2>4, <2>5, QuietCharge
<1>9. CASE publish(l)
  <2>1. c = chan[l] /\ ~Waits(l, c)
    BY <1>1, <1>9 DEF getChannel, publish, Waits
  <2>2. inflight' = [inflight EXCEPT ![c] = Append(@, l)] /\ confirms' = confirms
        /\ pc[l] = "publish" /\ chan' = chan
    BY <1>9, <2>1 DEF publish
  <2>3. inflight'[c] = Append(inflight[c], l)
    BY <1>2, <2>2 DEF TypeOK
  <2>4. Len(inflight'[c]) = li + 1 /\ inflight'[c] # <<>>
        /\ inflight'[c][Len(inflight'[c])] = l
    BY <1>10, <2>3
  <2>5. StaleOn(c) = li + lc
    BY <1>2, <2>1, IdleStale
  <2>6. StaleOn(c)' + EarlyLeavers <= StaleOn(c) + EarlyLeavers'
    <3>1. CASE l \in Plain
      <4>1. EarlyLeavers' = EarlyLeavers + 1
        BY <1>9, <3>1, EarlyStep
      <4>2. ~Waits(l, c)'
        BY <1>9, <3>1 DEF publish, Goto, Waits, TypeOK
      <4>3. StaleOn(c)' = li + 1 + lc
        BY <1>2, <2>2, <2>4, <4>2, IdleStaleNext
      <4> HIDE DEF li, lc
      <4> QED BY <1>5, <1>6, <2>5, <4>1, <4>3
    <3>2. CASE l \notin Plain
      <4>1. Waits(l, c)'
        BY <1>9, <2>1, <3>2 DEF publish, Goto, Waits, TypeOK
      <4>2. Newest(l, c)'
        BY <2>4 DEF Newest
      <4>3. Expected(c)'
        BY <4>1, <4>2 DEF Expected
      <4>4. StaleOn(c)' = li + 1 + lc - 1
        BY <1>6, <2>2, <2>4, <4>3 DEF StaleOn
      <4> HIDE DEF li, lc
      <4>5. StaleOn(c)' = StaleOn(c)
        BY <1>6, <2>5, <4>4
      <4> QED BY <1>5, <4>5
    <3> QED BY <3>1, <3>2
  <2>7. \A m \in Misled' : InFlight(m) => InFlight(m)'
    <3> SUFFICES ASSUME NEW m, NEW d \in Channel, NEW i \in DOMAIN inflight[d],
                        inflight[d][i] = m
                 PROVE  i \in DOMAIN inflight'[d] /\ inflight'[d][i] = m
      BY DEF InFlight
    <3>1. CASE d = c
      BY <1>10, <2>3, <3>1
    <3>2. CASE d # c
      BY <1>2, <3>2
    <3> QED BY <3>1, <3>2
  <2> QED BY <1>2, <1>3, <1>4, <2>2, <2>6, <2>7, QuietCharge
<1> QED BY <1>4, <1>7, <1>8, <1>9

(* Two sets of letters together have no more than the sum of their         *)
(* members.                                                                *)
LEMMA UnionBound ==
    ASSUME NEW D \in SUBSET Letter, NEW W \in SUBSET Letter
    PROVE  /\ Cardinality(D) \in Nat /\ Cardinality(W) \in Nat /\ Cardinality(D \cup W) \in Nat
           /\ Cardinality(D \cup W) <= Cardinality(D) + Cardinality(W)
<1>1. IsFiniteSet(D) /\ IsFiniteSet(W) /\ IsFiniteSet(D \cap W) /\ IsFiniteSet(D \cup W)
  BY CachedAssumption, FS_Subset
<1>2. Cardinality(D \cup W) = Cardinality(D) + Cardinality(W) - Cardinality(D \cap W)
  BY <1>1, FS_Union
<1>3. /\ Cardinality(D) \in Nat /\ Cardinality(W) \in Nat
      /\ Cardinality(D \cap W) \in Nat /\ Cardinality(D \cup W) \in Nat
  BY <1>1, FS_CardinalityType
<1> QED BY <1>2, <1>3

(* A channel that is made anew, or lost, takes the answers in flight with  *)
(* it: the misled letters among them are no more than its stale answers.   *)
LEMMA WipeCharge ==
    ASSUME TypeOK, TypeOK', CallsOK, [Next]_vars,
           NEW N \in SUBSET Letter, NEW D \in SUBSET Letter, Charged(N, D), NEW c \in Channel,
           \A d \in Channel \ {c} :
              /\ inflight'[d] = inflight[d] /\ confirms'[d] = confirms[d]
              /\ \A m \in Letter : Waits(m, d)' <=> Waits(m, d),
           LET W == {m \in Misled : \E i \in DOMAIN inflight[c] : inflight[c][i] = m}
           IN  StaleOn(c)' + Cardinality(W) <= StaleOn(c),
           nacks' = nacks, accepted \subseteq accepted', Misled' \subseteq Misled,
           confirms'[c] \in {confirms[c], <<>>}
    PROVE  \E D2 \in SUBSET Letter : Charged(N, D2)'
<1>1. PICK W \in SUBSET Letter :
               W = {m \in Misled : \E i \in DOMAIN inflight[c] : inflight[c][i] = m}
  BY DEF Misled, Confirmed
<1>2. \A m \in Misled : InFlight(m) => m \in W \/ InFlight(m)'
  <2> SUFFICES ASSUME NEW m \in Misled, NEW d \in Channel, NEW i \in DOMAIN inflight[d],
                      inflight[d][i] = m, d # c
               PROVE  i \in DOMAIN inflight'[d] /\ inflight'[d][i] = m
    BY <1>1 DEF InFlight
  <2> QED OBVIOUS
<1>3. StaleOn(c)' + Cardinality(W) <= StaleOn(c)
  BY <1>1
<1>4. /\ Total(Stale)' \in Nat /\ Total(Stale) \in Nat
      /\ Total(Stale)' = Total(Stale) + StaleOn(c)' - StaleOn(c)
  BY StaleFrame, StaleStep
<1>5. StaleOn(c)' \in Nat /\ StaleOn(c) \in Nat /\ EarlyLeavers \in Nat /\ EarlyLeavers' \in Nat
      /\ EarlyLeavers' >= EarlyLeavers
  BY StaleType, StaleTypeNext, EarlyStep
<1>6. /\ Cardinality(D) \in Nat /\ Cardinality(W) \in Nat /\ Cardinality(D \cup W) \in Nat
      /\ Cardinality(D \cup W) <= Cardinality(D) + Cardinality(W)
  BY UnionBound
<1>7. Total(Stale) + Cardinality(D) <= EarlyLeavers /\ Cardinality(N) <= nacks'
  BY DEF Charged
<1>8. Total(Stale)' + Cardinality(D \cup W) <= EarlyLeavers'
  BY <1>3, <1>4, <1>5, <1>6, <1>7
<1>9. \A d \in Channel : \A i \in DOMAIN confirms'[d] :
         \E j \in DOMAIN confirms[d] : confirms'[d][i] = confirms[d][j]
  <2>1. DOMAIN <<>> = {}
    OBVIOUS
  <2> QED BY <2>1
<1>10. \A m \in Misled' :
          \/ m \in N \cup (D \cup W) \/ InFlight(m)'
          \/ m \in Misled /\ (InFlight(m) => InFlight(m)')
  BY <1>2
<1>11. PICK D2 \in SUBSET Letter : D2 = D \cup W
  OBVIOUS
<1>12. Total(Stale)' + Cardinality(D2) <= EarlyLeavers' /\ N \subseteq N /\ D \subseteq D2
  BY <1>8, <1>11
<1>13. \A m \in Misled' :
          \/ m \in N \cup D2 \/ InFlight(m)'
          \/ m \in Misled /\ (InFlight(m) => InFlight(m)')
  BY <1>10, <1>11
<1>14. Charged(N, D2)'
  BY <1>7, <1>9, <1>12, <1>13, Recharge
<1> QED BY <1>14

(* ReturnChannel of a channel in error: those whose answers                *)
(* reconnectChannel throws away are charged to its stale answers.          *)
LEMMA ReconnectCharge ==
    ASSUME TypeOK, TypeOK', ChannelsConserved, CallsOK, [Next]_vars,
           NEW N \in SUBSET Letter, NEW D \in SUBSET Letter, Charged(N, D),
           NEW l \in Letter, reconnect(l)
    PROVE  /\ \E D2 \in SUBSET Letter : Charged(N, D2)'
           /\ Misled' \subseteq Misled
<1>1. PICK c : c = chan[l]
  OBVIOUS
<1>2. /\ c \in Channel
      /\ \A m \in Letter : Waits(m, c) \/ Waits(m, c)' => m = l
      /\ \A d \in Channel \ {c} :
            /\ inflight'[d] = inflight[d] /\ confirms'[d] = confirms[d]
            /\ \A m \in Letter : Waits(m, d)' <=> Waits(m, d)
  BY <1>1, Elsewhere DEF Call
<1>3. /\ pc[l] = "reconnect" /\ pc'[l] # "wait"
      /\ nacks' = nacks /\ accepted' = accepted /\ report' = report
  BY DEF reconnect, counters, Goto, TypeOK
<1>4. inflight'[c] = <<>> /\ confirms'[c] = <<>>
  BY <1>1, <1>2 DEF reconnect, TypeOK
<1>5. Misled' \subseteq Misled
  BY <1>3 DEF Misled
<1>6. StaleOn(c) = Len(inflight[c]) + Len(confirms[c])
      /\ StaleOn(c)' = Len(inflight'[c]) + Len(confirms'[c])
  BY <1>2, <1>3, IdleStale, IdleStaleNext DEF Waits
<1>7. StaleOn(c)' = 0
  BY <1>4, <1>6
<1>8. LET W == {m \in Misled : \E i \in DOMAIN inflight[c] : inflight[c][i] = m}
      IN  StaleOn(c)' + Cardinality(W) <= StaleOn(c)
  <2> DEFINE W == {m \in Misled : \E i \in DOMAIN inflight[c] : inflight[c][i] = m}
             li == Len(inflight[c])
             lc == Len(confirms[c])
  <2>1. Cardinality(W) \in Nat /\ Cardinality(W) <= li
    BY <1>2, MisledInFlight
  <2>2. li \in Nat /\ lc \in Nat /\ StaleOn(c) = li + lc
    BY <1>2, <1>6, BufferTypes
  <2> HIDE DEF W, li, lc
  <2>3. StaleOn(c)' + Cardinality(W) <= StaleOn(c)
    BY <1>7, <2>1, <2>2
  <2> QED BY <2>3 DEF W
<1> QED BY <1>2, <1>3, <1>4, <1>5, <1>8, WipeCharge

(* A channel lost: those whose answers are lost with it are charged to its *)
(* stale answers.                                                          *)
LEMMA LoseCharge ==
    ASSUME TypeOK, TypeOK', CallsOK, [Next]_vars,
           NEW N \in SUBSET Letter, NEW D \in SUBSET Letter, Charged(N, D),
           NEW c \in Channel, loseChannel(c)
    PROVE  /\ \E D2 \in SUBSET Letter : Charged(N, D2)'
           /\ Misled' \subseteq Misled
<1>1. /\ UNCHANGED <<pc, chan, report, timeouts>>
      /\ \A d \in Channel \ {c} : inflight'[d] = inflight[d] /\ confirms'[d] = confirms[d]
      /\ \A m \in Letter, d \in Channel : Waits(m, d)' <=> Waits(m, d)
  BY FromOutside
<1>2. /\ nacks' = nacks /\ accepted \subseteq accepted'
      /\ inflight'[c] = <<>> /\ confirms' = confirms
  BY DEF loseChannel, TypeOK
<1>3. Misled' \subseteq Misled
  BY <1>1, <1>2 DEF Misled
<1>4. LET W == {m \in Misled : \E i \in DOMAIN inflight[c] : inflight[c][i] = m}
      IN  StaleOn(c)' + Cardinality(W) <= StaleOn(c)
  <2> DEFINE W == {m \in Misled : \E i \in DOMAIN inflight[c] : inflight[c][i] = m}
             li == Len(inflight[c])
             lc == Len(confirms[c])
  <2>1. /\ Cardinality(W) \in Nat /\ Cardinality(W) <= li
        /\ Expected(c) /\ inflight[c] # <<>> => Cardinality(W) <= li - 1
    BY MisledInFlight
  <2>2. li \in Nat /\ lc \in Nat /\ StaleOn(c) \in Nat /\ StaleOn(c)' \in Nat
    BY BufferTypes, StaleType, StaleTypeNext
  <2>3. StaleOn(c) = li + lc - (IF Expected(c) THEN 1 ELSE 0)
    BY DEF StaleOn
  <2>4. StaleOn(c)' = lc \/ StaleOn(c)' = lc - 1
    <3>1. StaleOn(c)' = Len(inflight'[c]) + lc - (IF Expected(c)' THEN 1 ELSE 0)
      BY <1>2 DEF StaleOn
    <3>2. Len(inflight'[c]) = 0
      BY <1>2
    <3> HIDE DEF lc
    <3> QED BY <2>2, <3>1, <3>2
  <2>5. inflight[c] = <<>> => li = 0 /\ StaleOn(c)' = StaleOn(c)
    <3> SUFFICES ASSUME inflight[c] = <<>> PROVE li = 0 /\ StaleOn(c)' = StaleOn(c)
      OBVIOUS
    <3>1. inflight'[c] = inflight[c] /\ confirms'[c] = confirms[c]
      BY <1>2
    <3> QED BY <1>1, <3>1, StaleFrame
  <2>6. StaleOn(c)' + Cardinality(W) <= StaleOn(c)
    <3> HIDE DEF W, li, lc
    <3>1. CASE inflight[c] = <<>>
      BY <2>1, <2>2, <2>5, <3>1
    <3>2. CASE inflight[c] # <<>> /\ Expected(c)
      BY <2>1, <2>2, <2>3, <2>4, <3>2
    <3>3. CASE inflight[c] # <<>> /\ ~Expected(c)
      BY <2>1, <2>2, <2>3, <2>4, <3>3
    <3> QED BY <3>1, <3>2, <3>3
  <2> QED BY <2>6
<1> QED BY <1>1, <1>2, <1>3, <1>4, WipeCharge

(* The broker's answer to the publication at the head of a channel: an ack *)
(* makes the letter accepted, a nack makes it one of those refused.        *)
LEMMA AnswerCharge ==
    ASSUME TypeOK, TypeOK', [Next]_vars, CallsOK,
           NEW N \in SUBSET Letter, NEW D \in SUBSET Letter, Charged(N, D),
           NEW c \in Channel, brokerAcks(c) \/ brokerNacks(c)
    PROVE  /\ \E N2 \in SUBSET Letter : Charged(N2, D)'
           /\ Misled' \subseteq Misled
<1>1. PICK a \in BOOLEAN : Answer(c, a) /\ (a <=> brokerAcks(c))
  <2>1. CASE brokerAcks(c)
    BY <2>1 DEF brokerAcks
  <2>2. CASE ~brokerAcks(c)
    BY <2>2 DEF brokerNacks
  <2> QED BY <2>1, <2>2
<1>2. PICK h \in Letter : h = Head(inflight[c])
  BY <1>1, BufferTypes DEF Answer
<1>3. PICK N2 \in SUBSET Letter : N2 = IF a THEN N ELSE N \cup {h}
  OBVIOUS
<1>4. /\ UNCHANGED <<pc, chan, report, timeouts>>
      /\ \A d \in Channel \ {c} : inflight'[d] = inflight[d] /\ confirms'[d] = confirms[d]
      /\ \A m \in Letter, d \in Channel : Waits(m, d)' <=> Waits(m, d)
  BY FromOutside
<1>5. /\ inflight[c] \in Seq(Letter) /\ confirms[c] \in Seq(Confirmation)
      /\ inflight[c] # <<>> /\ inflight'[c] = Tail(inflight[c])
      /\ confirms'[c] = Append(confirms[c], [letter |-> h, ack |-> a])
  BY <1>1, <1>2, BufferTypes DEF Answer, TypeOK
<1>6. /\ accepted \subseteq accepted' /\ (a => h \in accepted')
      /\ nacks' = IF a THEN nacks ELSE nacks + 1
  <2>1. CASE a
    BY <1>1, <1>2, <2>1 DEF brokerAcks, counters
  <2>2. CASE ~a
    BY <1>1, <2>2 DEF brokerNacks
  <2> QED BY <2>1, <2>2
<1>7. Misled' \subseteq Misled
  BY <1>4, <1>6 DEF Misled
<1>8. Cardinality(N2) <= nacks'
  <2>1. Cardinality(N) <= nacks /\ nacks \in Nat
    BY CachedAssumption DEF Charged, TypeOK
  <2>4. Cardinality(N) \in Nat
    BY UnionBound
  <2>2. Cardinality(N \cup {h}) <= Cardinality(N) + Cardinality({h})
        /\ Cardinality(N \cup {h}) \in Nat
    BY UnionBound
  <2>3. Cardinality({h}) = 1
    BY FS_Singleton
  <2> QED BY <1>3, <1>6, <2>1, <2>2, <2>3, <2>4
<1>9. StaleOn(c)' = StaleOn(c)
  <2>1. Expected(c)' <=> Expected(c)
    BY <1>1, <1>4, AnswerKeepsNewest DEF Expected
  <2> DEFINE li == Len(inflight[c])
             lc == Len(confirms[c])
  <2>2. li \in Nat /\ lc \in Nat /\ Len(inflight'[c]) = li - 1
    BY <1>5, BufferTypes
  <2>3. Len(confirms'[c]) = lc + 1
    <3>1. [letter |-> h, ack |-> a] \in Confirmation
      BY DEF Confirmation
    <3> QED BY <1>5, <3>1
  <2>4. /\ StaleOn(c) = li + lc - (IF Expected(c) THEN 1 ELSE 0)
        /\ StaleOn(c)' = (li - 1) + (lc + 1) - (IF Expected(c) THEN 1 ELSE 0)
    BY <2>1, <2>2, <2>3 DEF StaleOn
  <2> HIDE DEF li, lc
  <2> QED BY <2>2, <2>4
<1>10. Total(Stale)' + Cardinality(D) <= EarlyLeavers'
  <2>1. /\ Total(Stale)' \in Nat /\ Total(Stale) \in Nat
        /\ Total(Stale)' = Total(Stale) + StaleOn(c)' - StaleOn(c)
    BY <1>4, StaleFrame, StaleStep
  <2>2. StaleOn(c) \in Nat /\ EarlyLeavers \in Nat /\ EarlyLeavers' \in Nat
        /\ EarlyLeavers' >= EarlyLeavers
    BY StaleType, EarlyStep
  <2>3. Cardinality(D) \in Nat
    BY UnionBound
  <2> QED BY <1>9, <2>1, <2>2, <2>3 DEF Charged
<1>11. ASSUME NEW d \in Channel, NEW i \in DOMAIN confirms'[d]
       PROVE  \/ \E j \in DOMAIN confirms[d] : confirms'[d][i] = confirms[d][j]
              \/ confirms'[d][i].letter \in (IF confirms'[d][i].ack THEN accepted' ELSE N2)
  <2>1. CASE d # c
    BY <1>4, <1>11, <2>1
  <2>2. CASE d = c
    <3>1. [letter |-> h, ack |-> a] \in Confirmation
      BY DEF Confirmation
    <3>2. \/ i \in DOMAIN confirms[c] /\ confirms'[c][i] = confirms[c][i]
          \/ confirms'[c][i] = [letter |-> h, ack |-> a]
      BY <1>5, <1>11, <2>2, <3>1
    <3> QED BY <1>3, <1>6, <2>2, <3>2
  <2> QED BY <2>1, <2>2
<1>12. ASSUME NEW m \in Misled'
       PROVE  \/ m \in N2 \cup D \/ InFlight(m)'
              \/ m \in Misled /\ (InFlight(m) => InFlight(m)')
  <2> SUFFICES ASSUME NEW d \in Channel, NEW i \in DOMAIN inflight[d], inflight[d][i] = m
               PROVE  m \in N2 \/ InFlight(m)'
    BY <1>7, <1>12 DEF InFlight
  <2>1. CASE d # c
    <3>1. i \in DOMAIN inflight'[d] /\ inflight'[d][i] = m
      BY <1>4, <2>1
    <3> QED BY <3>1 DEF InFlight
  <2>2. CASE d = c /\ i = 1
    <3>1. m = h
      BY <1>2, <1>5, <2>2
    <3>2. m \notin accepted'
      BY <1>12 DEF Misled
    <3> QED BY <1>3, <1>6, <3>1, <3>2
  <2>3. CASE d = c /\ i # 1
    <3>1. i - 1 \in DOMAIN inflight'[c] /\ inflight'[c][i - 1] = m
      BY <1>5, <2>3
    <3> QED BY <3>1 DEF InFlight
  <2> QED BY <2>1, <2>2, <2>3
<1>13. N \subseteq N2
  BY <1>3
<1>14. Charged(N2, D)'
  BY <1>6, <1>8, <1>10, <1>11, <1>12, <1>13, Recharge
<1> QED BY <1>7, <1>14

(* A confirmation received: if the wait was for it, nothing is stale that  *)
(* was not; if not, one stale answer less pays for the letter misled.      *)
LEMMA ConfirmationCharge ==
    ASSUME TypeOK, TypeOK', ChannelsConserved, CallsOK, OwnNewest, [Next]_vars,
           NEW N \in SUBSET Letter, NEW D \in SUBSET Letter, Charged(N, D),
           NEW l \in Letter, receiveConfirmation(l)
    PROVE  /\ \E D2 \in SUBSET Letter : Charged(N, D2)'
           /\ EarlyLeavers = 0 => Misled' \subseteq Misled
<1>1. PICK c : c = chan[l]
  OBVIOUS
<1>2. /\ c \in Channel
      /\ \A m \in Letter : Waits(m, c) \/ Waits(m, c)' => m = l
      /\ \A d \in Channel \ {c} :
            /\ inflight'[d] = inflight[d] /\ confirms'[d] = confirms[d]
            /\ \A m \in Letter : Waits(m, d)' <=> Waits(m, d)
  BY <1>1, Elsewhere DEF Call
<1>3. /\ Waits(l, c) /\ ~Waits(l, c)'
      /\ UNCHANGED <<inflight, accepted, nacks>>
      /\ confirms[c] # <<>> /\ confirms'[c] = Tail(confirms[c])
  BY <1>1, <1>2 DEF receiveConfirmation, Waits, Goto, counters, TypeOK
<1>4. confirms[c] \in Seq(Confirmation) /\ Head(confirms[c]) = confirms[c][1]
  BY <1>2, <1>3 DEF TypeOK
<1> DEFINE li == Len(inflight[c])
           lc == Len(confirms[c])
<1>5. li \in Nat /\ lc \in Nat /\ Len(confirms'[c]) = lc - 1 /\ lc >= 1
      /\ DOMAIN confirms[c] = 1 .. lc
  <2>1. li \in Nat /\ lc \in Nat /\ Len(confirms'[c]) = lc - 1
    BY <1>2, <1>3, BufferTypes
  <2> QED BY <1>3, <1>4, <2>1
<1>6. StaleOn(c) = li + lc - (IF Expected(c) THEN 1 ELSE 0)
  BY DEF StaleOn
<1>7. StaleOn(c)' = li + (lc - 1)
  BY <1>2, <1>3, <1>5, IdleStaleNext
<1>8. /\ Expected(c) => StaleOn(c)' = StaleOn(c)
      /\ ~Expected(c) => StaleOn(c)' = StaleOn(c) - 1
  <2> HIDE DEF li, lc
  <2> QED BY <1>5, <1>6, <1>7
<1>9. StaleOn(c)' \in Nat /\ StaleOn(c) \in Nat /\ EarlyLeavers \in Nat /\ EarlyLeavers' \in Nat
      /\ EarlyLeavers' >= EarlyLeavers
  BY <1>2, StaleType, StaleTypeNext, EarlyStep
<1>10. \A m \in Letter : InFlight(m) <=> InFlight(m)'
  BY <1>3 DEF InFlight
<1>11. AnswersTold(N)
  BY DEF Charged
<1>12. Misled' \subseteq Misled \cup {l}
       /\ (l \in Misled' => confirms[c][1].ack /\ l \notin accepted)
  <2>1. \A m \in Confirmed :
           report'[m] = "success" => \/ m # l /\ report[m] = "success"
                                     \/ m = l /\ confirms[c][1].ack
    <3>1. report[l] # "success"
      BY <1>3 DEF CallsOK, Waits
    <3>2. CASE confirms[c][1].ack
      BY <1>1, <1>4, <3>1, <3>2 DEF receiveConfirmation, Report, TypeOK, Confirmed
    <3>3. CASE ~confirms[c][1].ack
      BY <1>1, <1>4, <3>1, <3>3 DEF receiveConfirmation
    <3> QED BY <3>2, <3>3
  <2> QED BY <1>3, <2>1 DEF Misled
<1>13. ASSUME l \in Misled', Expected(c)
       PROVE  l \in N \/ (InFlight(l) /\ li >= 1)
  <2>1. Newest(l, c)
    BY <1>2, <1>13 DEF Expected
  <2>2. CASE inflight[c] # <<>>
    <3>1. inflight[c] \in Seq(Letter)
      BY <1>2 DEF TypeOK
    <3>2. li >= 1 /\ li \in DOMAIN inflight[c] /\ inflight[c][li] = l
      BY <2>1, <2>2, <3>1 DEF Newest
    <3> QED BY <1>2, <3>2 DEF InFlight
  <2>3. CASE inflight[c] = <<>>
    <3>1. confirms[c][lc].letter = l /\ lc \in DOMAIN confirms[c]
      BY <1>5, <2>1, <2>3 DEF Newest
    <3>2. l \in (IF confirms[c][lc].ack THEN accepted ELSE N)
      BY <1>2, <1>11, <3>1 DEF AnswersTold
    <3> QED BY <1>12, <1>13, <3>2
  <2> QED BY <2>2, <2>3
<1>14. ASSUME EarlyLeavers = 0
       PROVE  Misled' \subseteq Misled
  <2>1. StaleOn(c) = 0
    <3>1. /\ Total(Stale) \in Nat /\ StaleOn(c) <= Total(Stale)
      BY <1>2, StaleType, TotalType DEF Stale
    <3>2. Total(Stale) + Cardinality(D) <= EarlyLeavers /\ Cardinality(D) \in Nat
      BY UnionBound DEF Charged
    <3> QED BY <1>9, <1>14, <3>1, <3>2
  <2>2. Expected(c) /\ li = 0 /\ lc = 1
    <3> HIDE DEF li, lc
    <3> QED BY <1>5, <1>6, <2>1
  <2>3. Newest(l, c) /\ inflight[c] = <<>>
    <3>1. inflight[c] = <<>>
      BY <1>2, <2>2 DEF TypeOK
    <3> QED BY <1>2, <2>2, <3>1 DEF Expected
  <2>4. confirms[c][1].letter = l /\ 1 \in DOMAIN confirms[c]
    BY <1>5, <2>2, <2>3 DEF Newest
  <2>5. l \in (IF confirms[c][1].ack THEN accepted ELSE N)
    BY <1>2, <1>11, <2>4 DEF AnswersTold
  <2> QED BY <1>12, <2>5
<1>15. CASE l \notin Misled' \/ Expected(c)
  <2>1. StaleOn(c)' <= StaleOn(c)
    BY <1>8, <1>9
  <2>2. Total(Stale)' + Cardinality(D) <= EarlyLeavers'
    <3>1. /\ Total(Stale)' \in Nat /\ Total(Stale) \in Nat
          /\ Total(Stale)' = Total(Stale) + StaleOn(c)' - StaleOn(c)
      BY <1>2, StaleFrame, StaleStep
    <3>2. Total(Stale) + Cardinality(D) <= EarlyLeavers /\ Cardinality(D) \in Nat
      BY UnionBound DEF Charged
    <3> QED BY <1>9, <2>1, <3>1, <3>2
  <2>3. \A d \in Channel : \A i \in DOMAIN confirms'[d] :
           \E j \in DOMAIN confirms[d] : confirms'[d][i] = confirms[d][j]
    BY <1>2, <1>3, TailsKeep
  <2>4. \A m \in Misled' :
           \/ m \in N \cup D \/ InFlight(m)'
           \/ m \in Misled /\ (InFlight(m) => InFlight(m)')
    BY <1>10, <1>12, <1>13, <1>15 DEF Misled, Confirmed
  <2>5. Cardinality(N) <= nacks' /\ N \subseteq N /\ D \subseteq D /\ accepted \subseteq accepted'
    BY <1>3 DEF Charged
  <2>6. Charged(N, D)'
    BY <2>2, <2>3, <2>4, <2>5, Recharge
  <2> QED BY <1>14, <2>6
<1>16. CASE ~Expected(c)
  <2>1. PICK D2 \in SUBSET Letter : D2 = D \cup {l}
    OBVIOUS
  <2>2. Total(Stale)' + Cardinality(D2) <= EarlyLeavers'
    <3>1. /\ Total(Stale)' \in Nat /\ Total(Stale) \in Nat
          /\ Total(Stale)' = Total(Stale) + StaleOn(c)' - StaleOn(c)
      BY <1>2, StaleFrame, StaleStep
    <3>2. Total(Stale) + Cardinality(D) <= EarlyLeavers /\ Cardinality(D) \in Nat
      BY UnionBound DEF Charged
    <3>3. Cardinality(D2) <= Cardinality(D) + Cardinality({l}) /\ Cardinality(D2) \in Nat
      BY <2>1, UnionBound
    <3>4. Cardinality({l}) = 1
      BY FS_Singleton
    <3> QED BY <1>8, <1>9, <1>16, <3>1, <3>2, <3>3, <3>4
  <2>3. \A d \in Channel : \A i \in DOMAIN confirms'[d] :
           \E j \in DOMAIN confirms[d] : confirms'[d][i] = confirms[d][j]
    BY <1>2, <1>3, TailsKeep
  <2>4. \A m \in Misled' :
           \/ m \in N \cup D2 \/ InFlight(m)'
           \/ m \in Misled /\ (InFlight(m) => InFlight(m)')
    BY <1>10, <1>12, <2>1 DEF Misled, Confirmed
  <2>5. Cardinality(N) <= nacks' /\ N \subseteq N /\ D \subseteq D2 /\ accepted \subseteq accepted'
    BY <1>3, <2>1 DEF Charged
  <2>6. Charged(N, D2)'
    BY <2>2, <2>3, <2>4, <2>5, Recharge
  <2> QED BY <1>14, <2>6
<1> QED BY <1>15, <1>16

(* Every step keeps each misled letter charged to a nack, to a stale       *)
(* answer or to a call that left early, and misleads nobody before a call  *)
(* has left early.                                                         *)
LEMMA ChargeStep ==
    ASSUME TypeOK, TypeOK', ChannelsConserved, CallsOK, DownEmpty, OwnNewest, [Next]_vars,
           NEW N \in SUBSET Letter, NEW D \in SUBSET Letter, Charged(N, D)
    PROVE  /\ \E N2, D2 \in SUBSET Letter : Charged(N2, D2)'
           /\ EarlyLeavers = 0 => Misled' \subseteq Misled
<1> DEFINE Goal == /\ \E N2, D2 \in SUBSET Letter : Charged(N2, D2)'
                   /\ EarlyLeavers = 0 => Misled' \subseteq Misled
<1>1. ASSUME NEW l \in Letter,
             \/ getChannel(l) \/ publish(l) \/ publishFails(l) \/ timeOut(l)
             \/ receiveClosed(l) \/ returnChannel(l)
      PROVE  Goal
  <2>1. Charged(N, D)' /\ Misled' \subseteq Misled
    BY <1>1, CallCharge
  <2> QED BY <2>1
<1>2. ASSUME NEW l \in Letter, reconnect(l) PROVE Goal
  BY <1>2, ReconnectCharge
<1>3. ASSUME NEW l \in Letter, receiveConfirmation(l) PROVE Goal
  BY <1>3, ConfirmationCharge
<1>4. ASSUME NEW c \in Channel, brokerAcks(c) \/ brokerNacks(c) PROVE Goal
  BY <1>4, AnswerCharge
<1>5. ASSUME NEW c \in Channel, loseChannel(c) PROVE Goal
  BY <1>5, LoseCharge
<1>6. ASSUME (\E l \in Letter : start(l)) \/ UNCHANGED vars PROVE Goal
  <2>1. 0 \in Channel
    BY CachedAssumption DEF Channel
  <2>2. /\ UNCHANGED <<inflight, confirms, report, accepted, nacks, chan>>
        /\ \A m \in Letter : pc'[m] = "wait" <=> pc[m] = "wait"
    BY <1>6 DEF start, Goto, vars, pool, amqp, calls, counters, TypeOK
  <2>3. \A m \in Letter, d \in Channel : Waits(m, d)' <=> Waits(m, d)
    BY <2>2 DEF Waits
  <2>4. Misled' \subseteq Misled /\ \A m \in Misled' : InFlight(m) => InFlight(m)'
    BY <2>2 DEF Misled, InFlight
  <2>5. StaleOn(0)' = StaleOn(0)
    BY <2>1, <2>2, <2>3, StaleFrame
  <2>6. StaleOn(0) \in Nat /\ EarlyLeavers \in Nat /\ EarlyLeavers' \in Nat
        /\ EarlyLeavers' >= EarlyLeavers
    BY <2>1, StaleType, EarlyStep
  <2>7. StaleOn(0)' + EarlyLeavers <= StaleOn(0) + EarlyLeavers'
    BY <2>5, <2>6
  <2>8. Charged(N, D)'
    BY <2>1, <2>2, <2>3, <2>4, <2>7, QuietCharge
  <2> QED BY <2>4, <2>8
<1> HIDE DEF Goal
<1>7. Goal
  BY <1>1, <1>2, <1>3, <1>4, <1>5, <1>6 DEF Next, Call
<1> QED BY <1>7 DEF Goal

(* The inductive invariant holds when the pool has filled its cache and no *)
(* call is made yet.                                                       *)
LEMMA IInvInit == Init => IInv
<1> SUFFICES ASSUME Init PROVE IInv
  OBVIOUS
<1> USE DEF Init
<1>1. Channel \subseteq Nat /\ None \notin Channel /\ MaxCacheChannelCount \in Nat
      /\ \A c \in Channel : c + 1 \in 1 .. MaxCacheChannelCount
      /\ \A i \in 1 .. MaxCacheChannelCount : i - 1 \in Channel
  BY CachedAssumption DEF Channel
<1>2. \A l \in Letter : pc[l] = "idle" /\ chan[l] = None /\ report[l] = "none"
  OBVIOUS
<1>3. \A c \in Channel : up[c] = TRUE /\ inflight[c] = <<>> /\ confirms[c] = <<>>
  OBVIOUS
<1>4. <<>> \in Seq(Letter) /\ <<>> \in Seq(Confirmation) /\ Len(<<>>) = 0 /\ DOMAIN <<>> = {}
  OBVIOUS
<1>5. TypeOK
  <2>1. cache \in Seq(Channel)
    <3>1. cache \in [1 .. MaxCacheChannelCount -> Channel]
      <4>1. cache = [i \in 1 .. MaxCacheChannelCount |-> i - 1]
        OBVIOUS
      <4>2. \A i \in 1 .. MaxCacheChannelCount : cache[i] \in Channel
        BY <4>1, CachedAssumption DEF Channel
      <4> HIDE DEF Init
      <4> QED BY <4>1, <4>2
    <3> QED BY <1>1, <3>1
  <2>2. inflight \in [Channel -> Seq(Letter)] /\ confirms \in [Channel -> Seq(Confirmation)]
    BY <1>3, <1>4
  <2>3. \A c \in Channel : Len(confirms[c]) <= ConfirmCap
    BY <1>3, <1>4, CachedAssumption
  <2>4. pc \in [Letter -> PCs] /\ chan \in [Letter -> Channel \cup {None}]
        /\ report \in [Letter -> Reports]
    BY DEF PCs, Reports
  <2>5. timeouts \in 0 .. MaxTimeouts /\ nacks \in 0 .. MaxNacks /\ faults \in 0 .. MaxFaults
    BY CachedAssumption
  <2> QED BY <2>1, <2>2, <2>3, <2>4, <2>5 DEF TypeOK
<1>6. ChannelsConserved
  <2> SUFFICES ASSUME NEW c \in Channel
               PROVE  Cardinality({i \in DOMAIN cache : cache[i] = c})
                        + Cardinality({l \in Letter : chan[l] = c}) = 1
    BY DEF ChannelsConserved
  <2>1. {i \in DOMAIN cache : cache[i] = c} = {c + 1}
    BY <1>1
  <2>2. {l \in Letter : chan[l] = c} = {}
    BY <1>1, <1>2
  <2>3. Cardinality({c + 1}) = 1
    BY FS_Singleton
  <2>4. Cardinality({}) = 0
    BY FS_EmptySet
  <2>5. Cardinality({i \in DOMAIN cache : cache[i] = c}) = 1
    BY <2>1, <2>3, Zenon
  <2>6. Cardinality({l \in Letter : chan[l] = c}) = 0
    BY <2>2, <2>4, Zenon
  <2> QED BY <2>5, <2>6
<1>7. CallsOK /\ DownEmpty /\ OwnNewest
  BY <1>2, <1>3 DEF CallsOK, DownEmpty, OwnNewest, Waits, Holding
<1>8. Misled = {}
  BY <1>2 DEF Misled, Confirmed
<1>9. Charged({}, {})
  <2>1. Cardinality({}) = 0
    BY FS_EmptySet
  <2>2. Total(Stale) = 0
    <3>1. \A c \in Channel : ~Expected(c)
      BY <1>2 DEF Expected, Waits
    <3>2. \A c \in Channel : StaleOn(c) = 0
      BY <1>3, <1>4, <3>1 DEF StaleOn
    <3>3. \A c \in Channel : Stale[c] = 0
      BY <3>2 DEF Stale
    <3>4. Below(Stale, Channel) = {}
      BY <3>3 DEF Below
    <3> QED BY <2>1, <3>4 DEF Total
  <2>3. EarlyLeavers = 0
    <3>1. {l \in Plain : report[l] = "success"} = {}
      BY <1>2, CachedAssumption
    <3>2. Cardinality({l \in Plain : report[l] = "success"}) = 0
      BY <2>1, <3>1, Zenon
    <3> QED BY <3>2 DEF EarlyLeavers
  <2>4. AnswersTold({})
    BY <1>3, <1>4 DEF AnswersTold
  <2>5. Cardinality({}) <= nacks
    BY <2>1
  <2> QED BY <1>8, <2>1, <2>2, <2>3, <2>4, <2>5 DEF Charged
<1>10. \E N, D \in SUBSET Letter : Charged(N, D)
  BY <1>9
<1> QED BY <1>5, <1>6, <1>7, <1>8, <1>10 DEF IInv

(* Every step of calls, broker and network keeps it.                       *)
LEMMA IInvStep == IInv /\ [Next]_vars => IInv'
<1> SUFFICES ASSUME IInv, [Next]_vars PROVE IInv'
  OBVIOUS
<1>1. TypeOK /\ ChannelsConserved /\ CallsOK /\ DownEmpty /\ OwnNewest
  BY DEF IInv
<1>2. TypeOK' /\ ChannelsConserved' /\ CallsOK' /\ DownEmpty' /\ OwnNewest'
  BY <1>1, TypeStep, ConserveStep, CallsStep, DownStep, NewestStep
<1>3. PICK N, D \in SUBSET Letter : Charged(N, D)
  BY DEF IInv
<1>4. /\ \E N2, D2 \in SUBSET Letter : Charged(N2, D2)'
      /\ EarlyLeavers = 0 => Misled' \subseteq Misled
  BY <1>1, <1>2, <1>3, ChargeStep
<1>5. EarlyLeavers' = 0 => Misled' = {}
  <2>1. EarlyLeavers' = 0 => EarlyLeavers = 0
    BY <1>1, <1>2, EarlyStep
  <2> QED BY <1>4, <2>1 DEF IInv
<1> QED BY <1>2, <1>4, <1>5 DEF IInv

(* The inductive invariant of publishing on the cached channels, for any   *)
(* letters, channels, capacity of Confirmations, timeouts, nacks and       *)
(* faults.                                                                 *)
THEOREM Inductive == Spec => []IInv
<1> QED BY IInvInit, IInvStep, PTL DEF Spec

(* GetChannelFromPool, ReturnChannel and reconnectChannel neither lose nor *)
(* double a cached channel, whatever goes wrong in the publish between     *)
(* them; and Confirmations keeps within its capacity.                      *)
THEOREM SafetyHolds == Spec => []Safety
<1>1. IInv => Safety
  BY DEF IInv, Safety
<1> QED BY <1>1, Inductive, PTL

(* What is left behind on a channel is stale, and each stale answer is     *)
(* charged to a call that left early.                                      *)
LEMMA LeftBehindBounded == IInv => OnlyEarlyLeaversLeaveAnswers
<1> SUFFICES ASSUME IInv PROVE OnlyEarlyLeaversLeaveAnswers
  OBVIOUS
<1> DEFINE Left == UNION {{c} \X (1 .. LeftBehind(c)) : c \in Channel}
           B == Below(Stale, Channel)
<1>1. TypeOK
  BY DEF IInv
<1>2. PICK N, D \in SUBSET Letter : Charged(N, D)
  BY DEF IInv
<1>3. ASSUME NEW c \in Channel
      PROVE  LeftBehind(c) <= StaleOn(c) /\ LeftBehind(c) \in Int /\ StaleOn(c) \in Nat
  <2> DEFINE waiting == {l \in Letter : pc[l] = "wait" /\ chan[l] = c}
             li == Len(inflight[c])
             lc == Len(confirms[c])
  <2>1. IsFiniteSet(waiting)
    BY CachedAssumption, FS_Subset
  <2>2. Expected(c) => waiting # {}
    BY DEF Expected, Waits
  <2>3. LeftBehind(c) = li + lc - Cardinality(waiting)
    BY DEF LeftBehind
  <2>4. StaleOn(c) = li + lc - (IF Expected(c) THEN 1 ELSE 0)
    BY DEF StaleOn
  <2>5. li \in Nat /\ lc \in Nat
    BY <1>1, BufferTypes
  <2> HIDE DEF waiting, li, lc
  <2>6. Cardinality(waiting) \in Nat /\ (Expected(c) => Cardinality(waiting) # 0)
    BY <2>1, <2>2, FS_CardinalityType, FS_EmptySet
  <2>7. StaleOn(c) \in Nat
    BY <1>1, StaleType DEF Stale
  <2>8. LeftBehind(c) \in Int /\ LeftBehind(c) <= StaleOn(c)
    BY <2>3, <2>4, <2>5, <2>6
  <2> QED BY <2>7, <2>8
<1>4. Left \subseteq B
  <2> SUFFICES ASSUME NEW c \in Channel, NEW i \in 1 .. LeftBehind(c)
               PROVE  <<c, i>> \in B
    OBVIOUS
  <2>1. i \in 1 .. StaleOn(c) /\ i \in Nat
    BY <1>3
  <2> QED BY <2>1 DEF Below, Stale
<1>5. IsFiniteSet(B) /\ Total(Stale) \in Nat /\ Total(Stale) = Cardinality(B)
  BY <1>1, StaleType, BelowFinite, TotalType DEF Total
<1>6. Cardinality(Left) <= Cardinality(B) /\ Cardinality(Left) \in Nat
  <2> HIDE DEF Left, B
  <2> QED BY <1>4, <1>5, FS_Subset, FS_CardinalityType
<1>7. Total(Stale) + Cardinality(D) <= EarlyLeavers /\ Cardinality(D) \in Nat
  BY <1>2, UnionBound DEF Charged
<1>8. EarlyLeavers \in Nat
  <2>1. 0 \in Channel
    BY CachedAssumption DEF Channel
  <2> QED BY <1>1, <2>1, BufferTypes
<1>9. Cardinality(Left) <= EarlyLeavers
  <2> HIDE DEF Left, B
  <2> QED BY <1>5, <1>6, <1>7, <1>8
<1> QED BY <1>9 DEF OnlyEarlyLeaversLeaveAnswers

(* All channels together have no more answers left behind than there were  *)
(* calls of Publish, which never waits, and calls of                       *)
(* PublishWithConfirmation whose timer fired.                              *)
THEOREM EarlyLeaversOnly == Spec => []OnlyEarlyLeaversLeaveAnswers
<1> QED BY Inductive, LeftBehindBounded, PTL

(* Of the misled letters that may still be answered there are no more than *)
(* stale answers: each is one, at its place in flight.                     *)
LEMMA MisledAreStale ==
    ASSUME TypeOK, CallsOK
    PROVE  Cardinality({m \in Misled : InFlight(m)}) <= Total(Stale)
<1> DEFINE F == {m \in Misled : InFlight(m)}
           B == Below(Stale, Channel)
           Place(m, p) == /\ p \in Channel \X Nat
                          /\ p[2] \in DOMAIN inflight[p[1]] /\ inflight[p[1]][p[2]] = m
           g == [m \in F |-> CHOOSE p \in B : Place(m, p)]
<1>1. ASSUME NEW m \in F
      PROVE  \E p \in B : Place(m, p)
  <2>1. PICK c \in Channel : \E i \in DOMAIN inflight[c] : inflight[c][i] = m
    BY DEF InFlight
  <2>2. PICK i \in DOMAIN inflight[c] : inflight[c][i] = m
    BY <2>1
  <2> DEFINE li == Len(inflight[c])
             lc == Len(confirms[c])
  <2>3. li \in Nat /\ lc \in Nat /\ i \in 1 .. li /\ inflight[c] # <<>>
    <3>1. inflight[c] \in Seq(Letter)
      BY DEF TypeOK
    <3>2. i \in 1 .. li /\ inflight[c] # <<>>
      BY <2>2, <3>1
    <3> QED BY <3>2, BufferTypes
  <2>4. Expected(c) => i # li
    <3> SUFFICES ASSUME Expected(c), i = li PROVE FALSE
      OBVIOUS
    <3>1. PICK l \in Letter : Waits(l, c) /\ Newest(l, c)
      BY DEF Expected
    <3>2. l = m
      BY <2>2, <2>3, <3>1 DEF Newest
    <3> QED BY <3>1, <3>2 DEF CallsOK, Waits, Misled
  <2>5. StaleOn(c) = li + lc - (IF Expected(c) THEN 1 ELSE 0)
    BY DEF StaleOn
  <2>6. i \in 1 .. StaleOn(c) /\ i \in Nat
    <3> HIDE DEF li, lc
    <3> QED BY <2>3, <2>4, <2>5
  <2>7. <<c, i>> \in B
    BY <2>6 DEF Below, Stale
  <2>8. Place(m, <<c, i>>)
    BY <2>2, <2>6
  <2> QED BY <2>7, <2>8
<1>2. \A m \in F : g[m] \in B /\ Place(m, g[m])
  <2> HIDE DEF B, Place, F
  <2> QED BY <1>1
<1>3. g \in Injection(F, B)
  <2>1. g \in [F -> B]
    BY <1>2
  <2>2. \A m, n \in F : g[m] = g[n] => m = n
    BY <1>2
  <2> HIDE DEF g, F, B
  <2> QED BY <2>1, <2>2 DEF Injection, IsInjective
<1>4. IsFiniteSet(B)
  BY StaleType, BelowFinite
<1>5. Total(Stale) = Cardinality(B)
  BY DEF Total
<1>6. Cardinality(F) <= Cardinality(B)
  <2> HIDE DEF g, F, B
  <2> QED BY <1>3, <1>4, FS_Injection
<1> QED BY <1>5, <1>6

(* Each misled letter is refused, charged, or stale.                       *)
LEMMA MisledBounded == IInv => FalseSuccessesBounded
<1> SUFFICES ASSUME IInv PROVE FalseSuccessesBounded
  OBVIOUS
<1>1. TypeOK /\ CallsOK /\ (EarlyLeavers = 0 => Misled = {})
  BY DEF IInv
<1>2. PICK N, D \in SUBSET Letter : Charged(N, D)
  BY DEF IInv
<1>3. PICK F \in SUBSET Letter : F = {m \in Misled : InFlight(m)}
  BY DEF Misled, Confirmed
<1>4. Misled \in SUBSET Letter /\ Misled \subseteq (N \cup D) \cup F
  BY <1>2, <1>3 DEF Charged, Misled, Confirmed
<1>5. Cardinality(F) <= Total(Stale)
  BY <1>1, <1>3, MisledAreStale
<1>6. Total(Stale) + Cardinality(D) <= EarlyLeavers /\ Cardinality(N) <= nacks
  BY <1>2 DEF Charged
<1>7. Total(Stale) \in Nat /\ EarlyLeavers \in Nat /\ nacks \in Nat
  <2>1. Total(Stale) \in Nat
    BY <1>1, StaleType, TotalType
  <2>2. EarlyLeavers \in Nat
    <3>1. 0 \in Channel
      BY CachedAssumption DEF Channel
    <3> QED BY <1>1, <3>1, BufferTypes
  <2>3. nacks \in Nat
    BY <1>1, CachedAssumption DEF TypeOK
  <2> QED BY <2>1, <2>2, <2>3
<1>8. PICK ND \in SUBSET Letter : ND = N \cup D
  OBVIOUS
<1>9. /\ Cardinality(ND) <= Cardinality(N) + Cardinality(D)
      /\ Cardinality(N) \in Nat /\ Cardinality(D) \in Nat
  BY <1>8, UnionBound
<1>10. /\ Cardinality(ND \cup F) <= Cardinality(ND) + Cardinality(F)
       /\ Cardinality(ND) \in Nat /\ Cardinality(F) \in Nat /\ Cardinality(ND \cup F) \in Nat
  BY UnionBound
<1>11. Cardinality(Misled) <= Cardinality(ND \cup F) /\ Cardinality(Misled) \in Nat
  <2>1. IsFiniteSet(ND \cup F)
    BY CachedAssumption, FS_Subset
  <2>2. Misled \subseteq ND \cup F
    BY <1>4, <1>8
  <2>3. Cardinality(Misled) <= Cardinality(ND \cup F)
    BY <2>1, <2>2, FS_Subset
  <2> QED BY <1>4, <2>3, UnionBound
<1>12. Cardinality(Misled) <= EarlyLeavers + nacks
  BY <1>5, <1>6, <1>7, <1>9, <1>10, <1>11
<1>13. EarlyLeavers = 0 => Cardinality(Misled) = 0
  BY <1>1, FS_EmptySet
<1>14. FalseSuccessesBounded
         <=> Cardinality(Misled) <= IF EarlyLeavers = 0 THEN 0 ELSE EarlyLeavers + nacks
  BY DEF FalseSuccessesBounded, Misled
<1> QED BY <1>12, <1>13, <1>14

(* Taking the very next confirmation for one's own (publisher.go:217)      *)
(* misleads nobody until a call has left early, and from then on at most   *)
(* one letter for each such call and each nack.                            *)
THEOREM FalseSuccesses == Spec => []FalseSuccessesBounded
<1> QED BY Inductive, MisledBounded, PTL
=============================================================================
