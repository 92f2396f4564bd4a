------------------------------- MODULE V1Proofs -------------------------------
(***************************************************************************)
(* Proofs about version 1, its pools in V1Pools and its publisher,         *)
(* consumer and service in V1Service, each by itself.                      *)
(*                                                                         *)
(* V1Service, for any letters, messages, buffer sizes and retries, however *)
(* often it is started, stopped and disturbed: its three parts have an     *)
(* invariant each, which the others can only disturb by shutting down the  *)
(* channel pool.  The publisher counts its letters and its loop takes the  *)
(* one stop that is pending, the consumer waits for what it has taken and  *)
(* accounts for its channel, and the collectors are at least as many as    *)
(* those that carry an error.                                              *)
(*                                                                         *)
(* V1Pools, for any numbers of connections, channels, goroutines, losses   *)
(* and calls of Shutdown: what a goroutine has in hand follows from its    *)
(* place, and until Shutdown is called connections and plain channels are  *)
(* each in one place, a queue or a hand, so that a dead channel is flagged *)
(* or about to be wherever it can be taken.                                *)
(***************************************************************************)
EXTENDS V1Service, V1Pools, FiniteSetTheorems, TLAPS

InCount == {"counted", "queued", "publishing"}
Counted == In("counted") \cup In("queued") \cup In("publishing")

(* A letter that is being published has tries left or was told of; or its  *)
(* retries found the pool down.                                            *)
Told ==
    \A l \in In("publishing") : tries[l] > 0 \/ notified[l] # {} \/ (allowRetry /\ ~poolUp)

LettersInv ==
    /\ place \in [Letter -> {"new", "admitted", "counted", "queued", "publishing",
                             "done"}]
    /\ tries \in [Letter -> 0 .. RetryCount + 1]
    /\ pubChannel \in [Letter -> {"none", "waits", "has"}]
    /\ DOMAIN notified = Letter
    /\ LettersAccountedFor /\ Told

(* Started once at a time and stopped once for each start: the loop there  *)
(* is has no company, and a stop is a sender, or in autoStop, or taken by  *)
(* the loop that waits for its letters.                                    *)
OneStop ==
    ~doubled =>
        /\ \A g, h \in Runs : g = h
        /\ starting => Runs # {}
        /\ StopPending => autoStarted /\ ~starting
        /\ stopSenders <= 1
        /\ stopSenders > 0 => ~autoStop
        /\ stopSenders > 0 \/ autoStop => \A g \in Runs : loop[g] = "run"

LoopsInv ==
    /\ loop \in [DOMAIN loop -> {"run", "wait", "ended"}]
    /\ \E n \in Nat : DOMAIN loop = 1 .. n
    /\ stopSenders \in Nat
    /\ OneStop /\ LoopIffStarted

(* The consumer is started as long as its loop has a place, and only a     *)
(* hasty stop lets it finish with deliveries on their way.                 *)
Waits ==
    /\ started <=> consumer # "none"
    /\ stopImmediate => started /\ conCounts.hasty > 0
    /\ At("finish") /\ conCounts.hasty = 0 => ~Converting

(* A loop that has a channel sees that it is lost before it makes a second *)
(* message of nothing, if its close error is there to be seen.             *)
ChannelUse ==
    poolUp /\ conCounts.unseen = 0 =>
        /\ Holding => channel \in {"up", "lost"}
        /\ At("deliver") => channel = "up" \/ phantoms.made < conCounts.losses

Counters == {"events", "losses", "unseen", "leaks", "returns", "starts", "hasty"}

Nothings == [made : 0 .. MaxPhantoms, converting : Nat, buffered : Nat]

ConTypes ==
    /\ phantoms \in Nothings
    /\ entries \in Nat
    /\ consumer \in {"none", "outer", "get", "close?", "deliver", "stop?", "stopping",
                     "wait", "finish"}
    /\ channel \in {"down", "up", "cancelled", "lost", "closed"}
    /\ conCounts \in [Counters -> Nat]
    /\ DOMAIN msg = Msg

ConInv ==
    /\ ConTypes /\ Waits /\ ChannelUse
    /\ WhenStoppedNothingArrives /\ ChannelAccountedFor /\ PhantomsBounded

CollectorsInv == collectors \in Nat /\ carrying \in 0 .. collectors

IInv == LettersInv /\ LoopsInv /\ ConInv /\ CollectorsInv

-----------------------------------------------------------------------------
(* Nothing is queued, nothing runs.                                        *)
LEMMA IInvInit == Init => IInv
<1> SUFFICES ASSUME Init PROVE IInv
  OBVIOUS
<1> USE DEF Init, PubInit, ConInit
<1>1. \A l \in Letter : place[l] = "new" /\ tries[l] = 0
  OBVIOUS
<1>2. LettersInv
  <2>1. /\ tries \in [Letter -> 0 .. RetryCount + 1] /\ DOMAIN notified = Letter
        /\ pubChannel \in [Letter -> {"none", "waits", "has"}]
    BY V1PublisherAssumption
  <2>2. place \in [Letter -> {"new", "admitted", "counted", "queued", "publishing", "done"}]
    OBVIOUS
  <2>3. Counted = {} /\ In("done") = {} /\ In("publishing") = {}
    BY <1>1 DEF Counted, In
  <2>4. letterCount = Cardinality(Counted)
    <3>1. Cardinality(Counted) = 0
      BY <2>3, FS_EmptySet, Zenon
    <3> QED BY <3>1
  <2> QED BY <2>1, <2>2, <2>3, <2>4 DEF LettersInv, LettersAccountedFor, Told, Counted
<1>3. LoopsInv
  <2>1. DOMAIN loop = {} /\ {} = 1 .. 0 /\ 0 \in Nat
    OBVIOUS
  <2>2. loop \in [DOMAIN loop -> {"run", "wait", "ended"}]
    OBVIOUS
  <2>3. \E n \in Nat : DOMAIN loop = 1 .. n
    BY <2>1
  <2>4. Runs = {}
    BY <2>1 DEF Runs
  <2> QED BY <2>2, <2>3, <2>4 DEF LoopsInv, OneStop, LoopIffStarted, StopPending
<1>4. ConInv
  <2>1. ConTypes
    BY V1ConsumerAssumption DEF ConTypes, Counters, Nothings
  <2>2. conCounts.leaks = 0 /\ conCounts.returns = 0 /\ conCounts.losses = 0
        /\ conCounts.unseen = 0 /\ phantoms.made = 0
    OBVIOUS
  <2>3. ~Converting
    BY DEF MsgsIn, Converting
  <2> QED BY <2>1, <2>2, <2>3 DEF ConInv, Waits, ChannelUse, WhenStoppedNothingArrives,
             ChannelAccountedFor, PhantomsBounded, Holding, At
<1>5. CollectorsInv
  BY DEF CollectorsInv
<1> QED BY <1>2, <1>3, <1>4, <1>5 DEF IInv

-----------------------------------------------------------------------------
(* What the place of one letter does to the count.                         *)
LEMMA CountMoves ==
    ASSUME LettersInv, NEW l \in Letter, NEW p, place' = [place EXCEPT ![l] = p]
    PROVE  /\ letterCount = Cardinality(Counted)
           /\ Cardinality(Counted) \in Nat /\ Cardinality(Counted') \in Nat
           /\ place[l] \in InCount /\ p \in InCount
                 => Cardinality(Counted') = Cardinality(Counted)
           /\ place[l] \notin InCount /\ p \in InCount
                 => Cardinality(Counted') = Cardinality(Counted) + 1
           /\ place[l] \in InCount /\ p \notin InCount
                 => Cardinality(Counted') = Cardinality(Counted) - 1
           /\ place[l] \notin InCount /\ p \notin InCount
                 => Cardinality(Counted') = Cardinality(Counted)
<1>1. /\ Counted = {m \in Letter : place[m] \in InCount}
      /\ Counted' = {m \in Letter : place'[m] \in InCount}
  BY DEF Counted, In, InCount
<1>2. /\ place'[l] = p /\ \A m \in Letter \ {l} : place'[m] = place[m]
  BY DEF LettersInv
<1>3. PICK C, D : C = Counted /\ D = Counted'
  OBVIOUS
<1>4. /\ D = IF p \in InCount THEN (C \ {l}) \cup {l} ELSE C \ {l}
      /\ l \in C <=> place[l] \in InCount
  BY <1>1, <1>2, <1>3
<1>5. IsFiniteSet(C)
  BY <1>1, <1>3, V1PublisherAssumption, FS_Subset
<1>6. /\ IsFiniteSet(C \ {l}) /\ Cardinality(C) \in Nat /\ Cardinality(C \ {l}) \in Nat
      /\ Cardinality(C \ {l}) = IF l \in C THEN Cardinality(C) - 1 ELSE Cardinality(C)
  BY <1>5, FS_RemoveElement, FS_CardinalityType
<1>7. Cardinality((C \ {l}) \cup {l}) = Cardinality(C \ {l}) + 1
  BY <1>6, FS_AddElement
<1>8. letterCount = Cardinality(C)
  BY <1>3 DEF LettersInv, LettersAccountedFor, Counted
<1>9. /\ p \in InCount => Cardinality(D) = Cardinality(C \ {l}) + 1
      /\ p \notin InCount => Cardinality(D) = Cardinality(C \ {l})
  BY <1>4, <1>7
<1>10. /\ place[l] \in InCount => Cardinality(C \ {l}) = Cardinality(C) - 1
       /\ place[l] \notin InCount => Cardinality(C \ {l}) = Cardinality(C)
  BY <1>4, <1>6
<1>11. Cardinality(Counted) = Cardinality(C) /\ Cardinality(Counted') = Cardinality(D)
  BY <1>3
<1> QED BY <1>6, <1>8, <1>9, <1>10, <1>11

(* Each step of a letter keeps the count and the notifications.            *)
LEMMA LettersStep ==
    ASSUME LettersInv, NEW l \in Letter,
           \/ QueueLetter(l) \/ increaseLetterCount(l) \/ queueLetter(l) \/ LetterStep(l)
           \/ strandedGoesOn(l) \/ \E g \in DOMAIN loop : takeLetter(g, l)
    PROVE  LettersInv'
<1> USE V1PublisherAssumption DEF LettersInv, letters, publishing
<1>1. ASSUME NEW p \in {"admitted", "counted", "queued", "publishing", "done"},
             place' = [place EXCEPT ![l] = p], letterCount' = Cardinality(Counted'),
             UNCHANGED <<pubChannel, notified, allowRetry, poolUp>>,
             tries' \in [Letter -> 0 .. RetryCount + 1],
             \A m \in Letter \ {l} : tries'[m] = tries[m],
             p = "publishing" => tries'[l] > 0,
             p = "done" => \/ notified[l] # {}
                           \/ allowRetry /\ ~poolUp
      PROVE  LettersInv'
  <2>1. /\ place' \in [Letter -> {"new", "admitted", "counted", "queued", "publishing", "done"}]
        /\ place'[l] = p /\ \A m \in Letter \ {l} : place'[m] = place[m]
    BY <1>1
  <2>2. \A m \in In("done")' : notified'[m] # {} \/ (allowRetry' /\ ~poolUp')
    BY <1>1, <2>1 DEF LettersAccountedFor, In
  <2>3. LettersAccountedFor'
    BY <1>1, <2>2 DEF LettersAccountedFor, Counted
  <2>4. Told'
    BY <1>1, <2>1 DEF Told, In
  <2> QED BY <1>1, <2>1, <2>3, <2>4
<1>2. ASSUME place[l] = "publishing", UNCHANGED <<place, letterCount, allowRetry, poolUp>>,
             tries' \in [Letter -> 0 .. RetryCount + 1], DOMAIN notified' = Letter,
             pubChannel' \in [Letter -> {"none", "waits", "has"}],
             \A m \in Letter \ {l} : tries'[m] = tries[m] /\ notified'[m] = notified[m],
             \/ notified'[l] # {}
             \/ notified'[l] = notified[l] /\ (tries'[l] = tries[l] \/ (allowRetry /\ ~poolUp))
      PROVE  LettersInv'
  <2>1. \A m \in Letter : place[m] = "done" => notified'[m] = notified[m]
    BY <1>2
  <2>2. LettersAccountedFor'
    BY <1>2, <2>1 DEF LettersAccountedFor, In
  <2>3. Told'
    BY <1>2 DEF Told, In
  <2> QED BY <1>2, <2>2, <2>3
<1>3. CASE QueueLetter(l)
  <2>1. letterCount' = Cardinality(Counted')
    <3>1. /\ place[l] = "new" /\ place' = [place EXCEPT ![l] = "admitted"]
          /\ letterCount' = letterCount
      BY <1>3 DEF QueueLetter
    <3>2. place[l] \notin InCount /\ "admitted" \notin InCount
      BY <3>1 DEF InCount
    <3>3. letterCount = Cardinality(Counted) /\ Cardinality(Counted') = Cardinality(Counted)
      BY <3>1, <3>2, CountMoves
    <3> QED BY <3>1, <3>3
  <2> QED BY <1>1, <1>3, <2>1 DEF QueueLetter
<1>4. CASE increaseLetterCount(l)
  <2>1. letterCount' = Cardinality(Counted')
    <3>1. /\ place[l] = "admitted" /\ place' = [place EXCEPT ![l] = "counted"]
          /\ letterCount' = letterCount + 1
      BY <1>4 DEF increaseLetterCount
    <3>2. letterCount = Cardinality(Counted)
      BY <3>1, CountMoves
    <3>3. Cardinality(Counted') = Cardinality(Counted) + 1
      BY <3>1, CountMoves DEF InCount
    <3> QED BY <3>1, <3>2, <3>3
  <2> QED BY <1>1, <1>4, <2>1 DEF increaseLetterCount
<1>5. CASE queueLetter(l)
  <2>1. letterCount' = Cardinality(Counted')
    BY <1>5, CountMoves DEF queueLetter, InCount
  <2> QED BY <1>1, <1>5, <2>1 DEF queueLetter
<1>6. ASSUME NEW g \in DOMAIN loop, takeLetter(g, l) PROVE LettersInv'
  <2>1. letterCount' = Cardinality(Counted')
    BY <1>6, CountMoves DEF takeLetter, InCount
  <2>2. /\ tries' \in [Letter -> 0 .. RetryCount + 1] /\ tries'[l] > 0
        /\ \A m \in Letter \ {l} : tries'[m] = tries[m]
    <3>1. RetryCount + 1 \in 0 .. RetryCount + 1 /\ 1 \in 0 .. RetryCount + 1
          /\ RetryCount + 1 > 0
      OBVIOUS
    <3>2. tries' = [tries EXCEPT ![l] = IF allowRetry THEN RetryCount + 1 ELSE 1]
      BY <1>6 DEF takeLetter
    <3> QED BY <3>1, <3>2
  <2>3. /\ place' = [place EXCEPT ![l] = "publishing"]
        /\ UNCHANGED <<pubChannel, notified, allowRetry, poolUp>>
    BY <1>6 DEF takeLetter
  <2> QED BY <1>1, <2>1, <2>2, <2>3
<1>7. ASSUME NEW c, Trying(l, c)
      PROVE  tries[l] - 1 \in 0 .. RetryCount + 1 /\ 0 \in 0 .. RetryCount + 1
  BY <1>7 DEF Trying
<1>8. CASE noChannel(l)
  BY <1>2, <1>7, <1>8 DEF noChannel, Trying
<1>9. CASE publishFails(l)
  BY <1>2, <1>7, <1>9 DEF publishFails, Trying
<1>10. CASE publishSucceeds(l)
  BY <1>2, <1>7, <1>10 DEF publishSucceeds, Trying
<1>12. CASE enterGetChannel(l) \/ getsChannel(l)
  BY <1>2, <1>12 DEF enterGetChannel, getsChannel, Trying
<1>11. CASE reduceLetterCount(l)
  <2>1. letterCount' = Cardinality(Counted')
    <3>1. /\ place[l] = "publishing" /\ place' = [place EXCEPT ![l] = "done"]
          /\ letterCount' = letterCount - 1
      BY <1>11 DEF reduceLetterCount
    <3>2. letterCount = Cardinality(Counted)
      BY <3>1, CountMoves
    <3>3. place[l] \in InCount /\ "done" \notin InCount
      BY <3>1 DEF InCount
    <3>4. Cardinality(Counted') = Cardinality(Counted) - 1
      BY <3>1, <3>3, CountMoves
    <3> QED BY <3>1, <3>2, <3>4
  <2>2. notified[l] # {} \/ (allowRetry /\ ~poolUp)
    BY <1>11 DEF reduceLetterCount, Told, In
  <2> QED BY <1>1, <1>11, <2>1, <2>2 DEF reduceLetterCount
<1> QED BY <1>3, <1>4, <1>5, <1>6, <1>8, <1>9, <1>10, <1>11, <1>12
        DEF LetterStep, strandedGoesOn

(* Others may shut down the pool, and do nothing else to letters.          *)
LEMMA LettersFrame ==
    ASSUME LettersInv, UNCHANGED <<letters, publishing>>, poolUp' => poolUp
    PROVE  LettersInv'
BY DEF LettersInv, LettersAccountedFor, Told, In, letters, publishing

-----------------------------------------------------------------------------
(* A new loop has a name of its own, and the others go on.                 *)
LEMMA StartKeepsLoops ==
    ASSUME LoopsInv, StartAutoPublish
    PROVE  LoopsInv'
<1>1. PICK n \in Nat : DOMAIN loop = 1 .. n
  BY DEF LoopsInv
<1>2. Cardinality(DOMAIN loop) = n
  BY <1>1, FS_Interval
<1>3. /\ loop' = [g \in 1 .. n + 1 |-> IF g \in 1 .. n THEN loop[g] ELSE "run"]
      /\ starting' = TRUE /\ autoStop' = FALSE
      /\ UNCHANGED <<autoStarted, stopSenders>>
      /\ doubled' <=> doubled \/ Runs # {}
  BY <1>1, <1>2 DEF StartAutoPublish
<1>4. /\ DOMAIN loop' = 1 .. n + 1 /\ n + 1 \in Nat
      /\ loop'[n + 1] = "run" /\ \A g \in 1 .. n : loop'[g] = loop[g]
      /\ \A g \in 1 .. n + 1 : loop'[g] \in {"run", "wait", "ended"}
  BY <1>1, <1>3 DEF LoopsInv
<1>5. n + 1 \in Runs'
  BY <1>4 DEF Runs
<1>6. ASSUME ~doubled'
      PROVE  /\ Runs' = {n + 1} /\ ~autoStarted
             /\ stopSenders = 0 /\ ~StopPending'
  <2>1. ~doubled /\ Runs = {}
    BY <1>3, <1>6
  <2>2. Runs' = {n + 1}
    BY <1>1, <1>4, <1>5, <2>1 DEF Runs
  <2>3. ~autoStarted /\ ~StopPending
    BY <2>1 DEF LoopsInv, OneStop, LoopIffStarted
  <2>4. stopSenders = 0
    BY <2>3 DEF StopPending, LoopsInv
  <2>5. ~StopPending'
    BY <1>3, <1>4, <2>2, <2>4 DEF StopPending
  <2> QED BY <2>2, <2>3, <2>4, <2>5
<1>7. OneStop' /\ LoopIffStarted'
  BY <1>3, <1>4, <1>5, <1>6 DEF OneStop, LoopIffStarted
<1>8. loop' \in [DOMAIN loop' -> {"run", "wait", "ended"}]
  BY <1>3, <1>4
<1> QED BY <1>3, <1>4, <1>7, <1>8 DEF LoopsInv

(* A stop goes from its sender through autoStop to the loop, which waits   *)
(* and ends.                                                               *)
LEMMA LoopsStep ==
    ASSUME LoopsInv,
           \/ StartAutoPublish \/ markStarted \/ StopAutoPublish \/ sendStop
           \/ \E g \in DOMAIN loop : takeStop(g) \/ endLoop(g)
    PROVE  LoopsInv'
<1> USE DEF LoopsInv, OneStop, LoopIffStarted, StopPending, Runs, letters, publishing,
            signals, starts, history
<1>1. CASE StartAutoPublish
  BY <1>1, StartKeepsLoops
<1>2. CASE markStarted
  BY <1>2 DEF markStarted
<1>3. CASE StopAutoPublish
  <2>1. ~starting /\ UNCHANGED <<autoStop, autoStarted, starting, loop>>
    BY <1>3 DEF StopAutoPublish
  <2>2. CASE autoStarted /\ autoStops < MaxAutoStops
    <3>1. stopSenders' = stopSenders + 1 /\ (doubled' <=> doubled \/ StopPending)
      BY <1>3, <2>2 DEF StopAutoPublish
    <3>2. ASSUME ~doubled' PROVE ~doubled /\ ~StopPending /\ stopSenders = 0
      BY <3>1, <3>2
    <3>3. OneStop'
      BY <2>1, <2>2, <3>1, <3>2
    <3>4. LoopIffStarted'
      BY <2>1, <3>2
    <3> QED BY <2>1, <3>1, <3>3, <3>4
  <2>3. CASE ~(autoStarted /\ autoStops < MaxAutoStops)
    <3>1. UNCHANGED <<stopSenders, doubled>>
      BY <1>3, <2>3 DEF StopAutoPublish
    <3> QED BY <2>1, <3>1
  <2> QED BY <2>2, <2>3
<1>4. CASE sendStop
  <2>1. /\ stopSenders > 0 /\ ~autoStop /\ stopSenders' = stopSenders - 1
        /\ autoStop' = TRUE /\ UNCHANGED <<autoStarted, starting, loop, doubled>>
    BY <1>4 DEF sendStop
  <2> QED BY <2>1
<1>5. ASSUME NEW g \in DOMAIN loop, takeStop(g) PROVE LoopsInv'
  <2>1. /\ loop[g] = "run" /\ autoStop /\ autoStop' = FALSE
        /\ loop' = [loop EXCEPT ![g] = "wait"]
        /\ UNCHANGED <<autoStarted, stopSenders, starting, doubled>>
    BY <1>5 DEF takeStop
  <2>2. /\ DOMAIN loop' = DOMAIN loop /\ loop'[g] = "wait"
        /\ \A h \in DOMAIN loop \ {g} : loop'[h] = loop[h]
        /\ loop' \in [DOMAIN loop' -> {"run", "wait", "ended"}]
    BY <2>1
  <2>3. Runs' = Runs /\ g \in Runs
    BY <2>1, <2>2
  <2>4. ~doubled => stopSenders = 0 /\ autoStarted /\ ~starting
    BY <2>1
  <2> QED BY <2>1, <2>2, <2>3, <2>4
<1>6. ASSUME NEW g \in DOMAIN loop, endLoop(g) PROVE LoopsInv'
  <2>1. /\ loop[g] = "wait" /\ autoStarted' = FALSE
        /\ loop' = [loop EXCEPT ![g] = "ended"]
        /\ UNCHANGED <<autoStop, stopSenders, starting, doubled>>
    BY <1>6 DEF endLoop
  <2>2. /\ DOMAIN loop' = DOMAIN loop /\ loop'[g] = "ended"
        /\ \A h \in DOMAIN loop \ {g} : loop'[h] = loop[h]
        /\ loop' \in [DOMAIN loop' -> {"run", "wait", "ended"}]
    BY <2>1
  <2>3. ASSUME ~doubled
        PROVE  /\ Runs' = {} /\ ~StopPending' /\ stopSenders' = 0 /\ ~starting
    <3>1. g \in Runs /\ \A h \in Runs : h = g
      BY <2>1, <2>3
    <3>2. Runs' = {}
      BY <2>2, <3>1
    <3>3. stopSenders = 0 /\ ~autoStop /\ ~starting
      BY <2>1, <2>3, <3>1
    <3> QED BY <2>1, <3>2, <3>3
  <2>4. OneStop' /\ LoopIffStarted'
    BY <2>1, <2>3
  <2> QED BY <2>1, <2>2, <2>4
<1> QED BY <1>1, <1>2, <1>3, <1>4, <1>5, <1>6

(* Nobody else has to do with them.                                        *)
LEMMA LoopsFrame ==
    ASSUME LoopsInv, UNCHANGED <<signals, starts, history>>
    PROVE  LoopsInv'
BY DEF LoopsInv, OneStop, LoopIffStarted, StopPending, Runs, signals, starts, history

-----------------------------------------------------------------------------
(* A message is made of nothing, and put into the buffer or taken off it.  *)
LEMMA NothingMade ==
    ASSUME phantoms \in Nothings, NEW a \in 0 .. MaxPhantoms, NEW b \in Nat
    PROVE  /\ [phantoms EXCEPT !.made = a, !.converting = b] \in Nothings
           /\ [phantoms EXCEPT !.made = a, !.converting = b].made = a
BY DEF Nothings

LEMMA NothingPut ==
    ASSUME phantoms \in Nothings, NEW b \in Nat, NEW c \in Nat
    PROVE  /\ [phantoms EXCEPT !.converting = b, !.buffered = c] \in Nothings
           /\ [phantoms EXCEPT !.converting = b, !.buffered = c].made = phantoms.made
           /\ [phantoms EXCEPT !.converting = b, !.buffered = c].converting = b
BY DEF Nothings

LEMMA NothingTaken ==
    ASSUME phantoms \in Nothings, NEW c \in Nat
    PROVE  /\ [phantoms EXCEPT !.buffered = c] \in Nothings
           /\ [phantoms EXCEPT !.buffered = c].made = phantoms.made
           /\ [phantoms EXCEPT !.buffered = c].converting = phantoms.converting
BY DEF Nothings

(* One or two counters change.                                             *)
LEMMA CountKeeps ==
    ASSUME ConTypes, NEW c \in Counters, NEW k \in Nat, conCounts' = [conCounts EXCEPT ![c] = k]
    PROVE  /\ conCounts' \in [Counters -> Nat] /\ conCounts'[c] = k
           /\ \A d \in Counters \ {c} : conCounts'[d] = conCounts[d]
BY DEF ConTypes

LEMMA TwoCounts ==
    ASSUME ConTypes, NEW c \in Counters, NEW d \in Counters, c # d,
           NEW k \in Nat, NEW n \in Nat, conCounts' = [conCounts EXCEPT ![c] = k, ![d] = n]
    PROVE  /\ conCounts' \in [Counters -> Nat] /\ conCounts'[c] = k /\ conCounts'[d] = n
           /\ \A e \in Counters \ {c, d} : conCounts'[e] = conCounts[e]
BY DEF ConTypes

LEMMA HappensOnce ==
    ASSUME ConTypes, NEW c \in Counters \ {"events"}, Happens(c)
    PROVE  /\ conCounts' \in [Counters -> Nat] /\ conCounts'[c] = conCounts[c] + 1
           /\ \A d \in Counters \ {c, "events"} : conCounts'[d] = conCounts[d]
<1> DEFINE k == conCounts[c] + 1
           n == conCounts["events"] + 1
<1>1. conCounts' = [conCounts EXCEPT ![c] = k, !["events"] = n]
  BY DEF Happens
<1>2. k \in Nat /\ n \in Nat /\ "events" \in Counters
  BY DEF ConTypes, Counters
<1> HIDE DEF k, n
<1>3. /\ conCounts' \in [Counters -> Nat] /\ conCounts'[c] = k
      /\ \A d \in Counters \ {c, "events"} : conCounts'[d] = conCounts[d]
  BY <1>1, <1>2, TwoCounts
<1> QED BY <1>3 DEF k

(* The loop of the consumer before it has a channel, and at its end.       *)
LEMMA OuterStep ==
    ASSUME ConInv,
           \/ getChannel \/ getDeliveryChannel \/ consumeFails \/ qosFails
           \/ channelAfterShutdown \/ stopping \/ wait \/ finish
    PROVE  ConInv'
<1> USE DEF ConInv, ConTypes, Counters, Waits, ChannelUse, WhenStoppedNothingArrives,
            ChannelAccountedFor, PhantomsBounded, Holding, At, Converting, MsgsIn, config,
            run, stops, lock, accounts, pool
<1> phantoms.made \in 0 .. MaxPhantoms /\ phantoms.converting \in Nat /\ phantoms.buffered \in Nat
  BY DEF Nothings
<1>1. CASE getDeliveryChannel
  BY <1>1 DEF getDeliveryChannel, Take
<1>2. CASE consumeFails
  <2>1. /\ conCounts' = [conCounts EXCEPT !.events = @ + 1, !.losses = @ + 1, !.returns = @ + 1]
        /\ entries' = IF autoAck THEN entries ELSE entries + 1
        /\ UNCHANGED <<msg, phantoms, poolUp, Enabled, autoAck, channel, started,
                       stopImmediate>>
        /\ consumer = "get" /\ consumer' = "outer"
    BY <1>2 DEF consumeFails
  <2>2. /\ conCounts' \in [Counters -> Nat]
        /\ conCounts'.losses = conCounts.losses + 1
        /\ conCounts'.returns = conCounts.returns + 1
        /\ \A c \in {"unseen", "leaks", "hasty"} : conCounts'[c] = conCounts[c]
    <3> DEFINE k == conCounts.events + 1
               n == conCounts.losses + 1
               j == conCounts.returns + 1
    <3>1. k \in Nat /\ n \in Nat /\ j \in Nat
      OBVIOUS
    <3>2. conCounts' = [conCounts EXCEPT !["events"] = k, !["losses"] = n, !["returns"] = j]
      BY <2>1
    <3> HIDE DEF k, n, j
    <3>3. /\ conCounts' \in [Counters -> Nat] /\ conCounts'.losses = n /\ conCounts'.returns = j
          /\ \A c \in {"unseen", "leaks", "hasty"} : conCounts'[c] = conCounts[c]
      <4>1. conCounts \in [Counters -> Nat]
        OBVIOUS
      <4> QED BY ONLY <3>1, <3>2, <4>1 DEF Counters
    <3> QED BY <3>3 DEF n, j
  <2> QED BY <2>1, <2>2
<1>3. CASE qosFails
  <2>1. /\ entries > 0 /\ entries' = IF autoAck THEN entries - 1 ELSE entries
        /\ UNCHANGED <<msg, phantoms, poolUp, Enabled, autoAck, channel, started,
                       stopImmediate>>
        /\ consumer = "get" /\ consumer' = "outer"
    BY <1>3 DEF qosFails, Take
  <2>2. /\ conCounts' \in [Counters -> Nat]
        /\ conCounts'.leaks = conCounts.leaks + 1
        /\ \A c \in {"losses", "unseen", "returns", "hasty"} : conCounts'[c] = conCounts[c]
    BY <1>3, HappensOnce DEF qosFails
  <2> QED BY <2>1, <2>2
<1>7. CASE getChannel \/ channelAfterShutdown
  BY <1>7 DEF getChannel, channelAfterShutdown
<1>4. CASE stopping
  BY <1>4 DEF stopping
<1>5. CASE wait
  BY <1>5 DEF wait
<1>6. CASE finish
  BY <1>6 DEF finish
<1> QED BY <1>1, <1>2, <1>3, <1>4, <1>5, <1>6, <1>7

(* The loop while it has one, and when it gives it back.                   *)
LEMMA InnerStep ==
    ASSUME ConInv, StopSeen \/ closeError \/ delivery \/ noDelivery \/ goOn
    PROVE  ConInv'
<1> USE DEF ConInv, ConTypes, Counters, Waits, ChannelUse, WhenStoppedNothingArrives,
            ChannelAccountedFor, PhantomsBounded, Holding, At, Converting, MsgsIn, config,
            run, stops, lock, accounts, pool
<1> phantoms.made \in 0 .. MaxPhantoms /\ phantoms.converting \in Nat /\ phantoms.buffered \in Nat
  BY DEF Nothings
<1>1. ASSUME Return
      PROVE  /\ conCounts' \in [Counters -> Nat] /\ entries' = entries + 1
             /\ conCounts'.returns = conCounts.returns + 1
             /\ \A c \in {"losses", "unseen", "leaks", "hasty"} : conCounts'[c] = conCounts[c]
  <2>1. conCounts.returns + 1 \in Nat /\ "returns" \in Counters
    OBVIOUS
  <2> QED BY <1>1, <2>1, CountKeeps DEF Return
<1>2. CASE StopSeen
  <2>1. /\ consumer \in {"outer", "stop?"} /\ consumer' = "stopping"
        /\ channel' = "down"
        /\ UNCHANGED <<msg, phantoms, started, stopImmediate, poolUp, Enabled, autoAck>>
    BY <1>2 DEF StopSeen
  <2>2. CASE consumer = "stop?"
    <3>1. Return
      BY <1>2, <2>2 DEF StopSeen
    <3> QED BY <1>1, <2>1, <2>2, <3>1
  <2>3. CASE consumer = "outer"
    <3>1. UNCHANGED <<entries, conCounts>>
      BY <1>2, <2>3 DEF StopSeen
    <3> QED BY <2>1, <2>3, <3>1
  <2> QED BY <2>1, <2>2, <2>3
<1>3. CASE closeError
  <2>1. /\ consumer = "close?"
        /\ UNCHANGED <<msg, phantoms, poolUp, Enabled, autoAck, started, stopImmediate>>
    BY <1>3 DEF closeError
  <2>2. CASE channel = "lost"
    <3>1. consumer' = "outer" /\ channel' = "down" /\ Return
      BY <1>3, <2>2 DEF closeError
    <3> QED BY <1>1, <2>1, <3>1
  <2>3. CASE channel # "lost"
    <3>1. consumer' = "deliver" /\ UNCHANGED <<channel, entries, conCounts>>
      BY <1>3, <2>3 DEF closeError
    <3> QED BY <2>1, <2>3, <3>1
  <2> QED BY <2>2, <2>3
<1>4. CASE delivery
  <2>1. /\ consumer = "deliver" /\ consumer' = "stop?" /\ channel = "up"
        /\ UNCHANGED <<phantoms, channel, Enabled, autoAck, started, stopImmediate, entries,
                       conCounts, poolUp>>
        /\ DOMAIN msg' = Msg
    BY <1>4 DEF delivery
  <2> QED BY <2>1
<1>5. CASE noDelivery
  <2>1. /\ consumer = "deliver" /\ consumer' = "stop?" /\ channel # "up"
        /\ phantoms' = IF phantoms.made < MaxPhantoms
                       THEN [phantoms EXCEPT !.made = @ + 1, !.converting = @ + 1]
                       ELSE phantoms
        /\ UNCHANGED <<msg, channel, Enabled, autoAck, started, stopImmediate, entries,
                       conCounts, poolUp>>
    BY <1>5 DEF noDelivery
  <2>2. /\ phantoms' \in Nothings
        /\ phantoms'.made <= phantoms.made + 1
    <3>1. CASE phantoms.made < MaxPhantoms
      <4> DEFINE a == phantoms.made + 1
                 b == phantoms.converting + 1
      <4>1. phantoms' = [phantoms EXCEPT !.made = a, !.converting = b]
        BY <2>1, <3>1
      <4>2. a \in 0 .. MaxPhantoms /\ b \in Nat /\ phantoms \in Nothings
        BY <3>1, V1ConsumerAssumption
      <4> HIDE DEF a, b
      <4>3. phantoms' \in Nothings /\ phantoms'.made = a
        BY ONLY <4>1, <4>2, NothingMade
      <4> QED BY <4>3 DEF a
    <3>2. CASE ~(phantoms.made < MaxPhantoms)
      BY <2>1, <3>2
    <3> QED BY <3>1, <3>2
  <2> QED BY <2>1, <2>2
<1>6. CASE goOn
  BY <1>6 DEF goOn
<1> QED BY <1>2, <1>3, <1>4, <1>5, <1>6

(* Users, the goroutines that convert deliveries, the network, and the     *)
(* calls of StopConsuming.                                                 *)
LEMMA UserStep ==
    ASSUME ConInv,
           \/ ConUser \/ sendConsumeStop
           \/ \E caller, i, f : i \in BOOLEAN /\ StopConsuming(caller, i, f)
    PROVE  ConInv'
<1> USE DEF ConInv, ConTypes, Counters, Waits, ChannelUse, WhenStoppedNothingArrives,
            ChannelAccountedFor, PhantomsBounded, Holding, At, Converting, MsgsIn, config,
            run, stops, lock, accounts, pool
<1> phantoms.made \in 0 .. MaxPhantoms /\ phantoms.converting \in Nat /\ phantoms.buffered \in Nat
  BY DEF Nothings
<1>1. ASSUME NEW taken \in BOOLEAN, Get(taken) \/ GetNothing(taken) PROVE ConInv'
  <2> DEFINE u == IF taken THEN conCounts.unseen + 1 ELSE conCounts.unseen
  <2>1. /\ UNCHANGED <<phantoms, poolUp, Enabled, autoAck, consumer, started, stopImmediate>>
        /\ entries > 0 /\ channel' = IF taken THEN "closed" ELSE channel
    BY <1>1 DEF Get, GetNothing, Take, ReadCloseError
  <2>2. MsgsIn("converting")' \subseteq MsgsIn("converting") /\ DOMAIN msg' = Msg
    BY <1>1 DEF Get, GetNothing
  <2>3. /\ u \in Nat /\ (taken => u > 0) /\ (~taken => u = conCounts.unseen)
        /\ \A c \in Counters : conCounts[c] + 1 \in Nat
    OBVIOUS
  <2> HIDE DEF u
  <2>4. CASE Get(taken)
    <3>1. /\ conCounts' = [conCounts EXCEPT !.events = @ + 1, !.leaks = @ + 1, !.unseen = u]
          /\ entries' = IF autoAck THEN entries - 1 ELSE entries
      BY <2>4 DEF Get, Take, u
    <3>2. /\ conCounts' \in [Counters -> Nat]
          /\ conCounts'.leaks = conCounts.leaks + 1 /\ conCounts'.unseen = u
          /\ \A c \in {"losses", "returns", "hasty"} : conCounts'[c] = conCounts[c]
      <4> DEFINE k == conCounts.events + 1
                 n == conCounts.leaks + 1
      <4>1. k \in Nat /\ n \in Nat
        BY <2>3
      <4>2. conCounts' = [conCounts EXCEPT !["events"] = k, !["leaks"] = n, !["unseen"] = u]
        BY <3>1
      <4> HIDE DEF k, n
      <4>3. /\ conCounts' \in [Counters -> Nat]
            /\ conCounts'.leaks = n /\ conCounts'.unseen = u
            /\ \A c \in {"losses", "returns", "hasty"} : conCounts'[c] = conCounts[c]
        <5>1. conCounts \in [Counters -> Nat]
          OBVIOUS
        <5> QED BY ONLY <2>3, <4>1, <4>2, <5>1 DEF Counters
      <4> QED BY <4>3 DEF n
    <3> QED BY <2>1, <2>2, <2>3, <3>1, <3>2
  <2>5. CASE GetNothing(taken)
    <3>1. /\ conCounts' = [conCounts EXCEPT !.events = @ + 1, !.returns = @ + 1, !.unseen = u]
          /\ ~autoAck /\ entries' = entries + 1
      BY <2>5 DEF GetNothing, u
    <3>2. /\ conCounts' \in [Counters -> Nat]
          /\ conCounts'.returns = conCounts.returns + 1 /\ conCounts'.unseen = u
          /\ \A c \in {"losses", "leaks", "hasty"} : conCounts'[c] = conCounts[c]
      <4> DEFINE k == conCounts.events + 1
                 n == conCounts.returns + 1
      <4>1. k \in Nat /\ n \in Nat
        BY <2>3
      <4>2. conCounts' = [conCounts EXCEPT !["events"] = k, !["returns"] = n, !["unseen"] = u]
        BY <3>1
      <4> HIDE DEF k, n
      <4>3. /\ conCounts' \in [Counters -> Nat]
            /\ conCounts'.returns = n /\ conCounts'.unseen = u
            /\ \A c \in {"losses", "leaks", "hasty"} : conCounts'[c] = conCounts[c]
        <5>1. conCounts \in [Counters -> Nat]
          OBVIOUS
        <5> QED BY ONLY <2>3, <4>1, <4>2, <5>1 DEF Counters
      <4> QED BY <4>3 DEF n
    <3> QED BY <2>1, <2>2, <2>3, <3>1, <3>2
  <2> QED BY <1>1, <2>4, <2>5
<1>2. CASE StartConsuming
  <2>1. /\ ~started /\ consumer' = "outer" /\ started' = TRUE
        /\ conCounts' = [conCounts EXCEPT !.starts = @ + 1, !.hasty = 0]
        /\ UNCHANGED <<msg, phantoms, stopImmediate, channel, entries, poolUp, Enabled,
                       autoAck>>
    BY <1>2 DEF StartConsuming
  <2>2. /\ conCounts' \in [Counters -> Nat]
        /\ \A c \in {"losses", "unseen", "leaks", "returns"} : conCounts'[c] = conCounts[c]
    <3>1. conCounts.starts + 1 \in Nat /\ 0 \in Nat
      OBVIOUS
    <3> QED BY <2>1, <3>1, TwoCounts
  <2>3. consumer = "none" /\ ~stopImmediate
    BY <2>1
  <2> QED BY <2>1, <2>2, <2>3
<1>3. CASE loseChannel \/ cancelDeliveries
  <2>1. /\ Holding
        /\ UNCHANGED <<msg, phantoms, consumer, entries, poolUp, Enabled, autoAck, started,
                       stopImmediate>>
    BY <1>3 DEF loseChannel, cancelDeliveries
  <2>2. CASE loseChannel
    <3>1. channel' = "lost" /\ Happens("losses") /\ "losses" \in Counters
      BY <2>2 DEF loseChannel
    <3>2. /\ conCounts' \in [Counters -> Nat]
          /\ conCounts'.losses = conCounts.losses + 1
          /\ \A c \in {"unseen", "leaks", "returns", "hasty"} : conCounts'[c] = conCounts[c]
      BY <3>1, HappensOnce
    <3> QED BY <2>1, <3>1, <3>2
  <2>3. CASE cancelDeliveries
    <3>1. channel' = "cancelled" /\ Happens("unseen") /\ "unseen" \in Counters
      BY <2>3 DEF cancelDeliveries
    <3>2. /\ conCounts' \in [Counters -> Nat]
          /\ conCounts'.unseen = conCounts.unseen + 1
          /\ \A c \in {"losses", "leaks", "returns", "hasty"} : conCounts'[c] = conCounts[c]
      BY <3>1, HappensOnce
    <3> QED BY <2>1, <3>1, <3>2
  <2> QED BY <1>3, <2>2, <2>3
<1>4. ASSUME \/ \E m \in Msg : convertDelivery(m) \/ receive(m)
             \/ convertNothing \/ receiveNothing \/ sendConsumeStop
      PROVE  ConInv'
  <2>1. UNCHANGED <<Enabled, autoAck, consumer, channel, started, stopImmediate, entries,
                    conCounts, poolUp>>
    BY <1>4 DEF convertDelivery, receive, convertNothing, receiveNothing, sendConsumeStop
  <2>2. MsgsIn("converting")' \subseteq MsgsIn("converting") /\ DOMAIN msg' = Msg
    <3>1. CASE sendConsumeStop
      <4>1. PICK F \in SUBSET MsgsIn("converting") :
               msg' = [m \in Msg |-> IF flushing /\ m \in F \cup MsgsIn("messages")
                                   THEN "flushed" ELSE msg[m]]
        BY <3>1 DEF sendConsumeStop
      <4>2. \A m \in Msg : msg'[m] = "flushed" \/ msg'[m] = msg[m]
        BY <4>1
      <4>3. MsgsIn("converting")' = {m \in Msg : msg'[m] = "converting"}
        OBVIOUS
      <4> QED BY <4>1, <4>2, <4>3
    <3>2. CASE convertNothing \/ receiveNothing
      BY <3>2 DEF convertNothing, receiveNothing
    <3>3. ASSUME NEW m \in Msg, convertDelivery(m) \/ receive(m)
          PROVE  MsgsIn("converting")' \subseteq MsgsIn("converting") /\ DOMAIN msg' = Msg
      BY <3>3 DEF convertDelivery, receive
    <3> QED BY <1>4, <3>1, <3>2, <3>3
  <2>3. /\ phantoms' \in Nothings
        /\ phantoms'.made = phantoms.made
        /\ phantoms'.converting <= phantoms.converting
    <3>1. CASE convertNothing
      <4> DEFINE b == phantoms.converting - 1
                 c == phantoms.buffered + 1
      <4>1. phantoms' = [phantoms EXCEPT !.converting = b, !.buffered = c]
        BY <3>1 DEF convertNothing
      <4>2. b \in Nat /\ c \in Nat /\ b <= phantoms.converting /\ phantoms \in Nothings
        BY <3>1 DEF convertNothing
      <4> HIDE DEF b, c
      <4>3. /\ phantoms' \in Nothings /\ phantoms'.made = phantoms.made
            /\ phantoms'.converting = b
        BY ONLY <4>1, <4>2, NothingPut
      <4> QED BY <4>2, <4>3
    <3>2. CASE receiveNothing
      <4> DEFINE c == phantoms.buffered - 1
      <4>1. phantoms' = [phantoms EXCEPT !.buffered = c]
        BY <3>2 DEF receiveNothing
      <4>2. c \in Nat /\ phantoms \in Nothings
        BY <3>2 DEF receiveNothing
      <4> HIDE DEF c
      <4>3. /\ phantoms' \in Nothings /\ phantoms'.made = phantoms.made
            /\ phantoms'.converting = phantoms.converting
        BY ONLY <4>1, <4>2, NothingTaken
      <4> QED BY <4>3
    <3>3. CASE sendConsumeStop
      <4>1. CASE UNCHANGED phantoms
        BY <4>1
      <4>2. ASSUME NEW n \in 0 .. phantoms.converting,
                   phantoms' = [phantoms EXCEPT !.converting = n, !.buffered = 0]
            PROVE  phantoms' \in Nothings /\ phantoms'.made = phantoms.made
                   /\ phantoms'.converting <= phantoms.converting
        <5>1. n \in Nat /\ n <= phantoms.converting /\ phantoms \in Nothings
          OBVIOUS
        <5>2. /\ phantoms' \in Nothings /\ phantoms'.made = phantoms.made
              /\ phantoms'.converting = n
          BY ONLY <4>2, <5>1, NothingPut
        <5> QED BY <5>1, <5>2
      <4> QED BY <3>3, <4>1, <4>2 DEF sendConsumeStop
    <3>4. CASE \E m \in Msg : convertDelivery(m) \/ receive(m)
      <4>1. UNCHANGED phantoms
        BY <3>4 DEF convertDelivery, receive
      <4> QED BY <4>1
    <3> QED BY <1>4, <3>1, <3>2, <3>3, <3>4
  <2>4. Converting' => Converting
    <3>1. phantoms'.converting \in Nat
      BY <2>3 DEF Nothings
    <3> QED BY <2>2, <2>3, <3>1
  <2>5. WhenStoppedNothingArrives'
    BY <2>1, <2>4
  <2>6. ChannelUse' /\ ChannelAccountedFor' /\ PhantomsBounded'
    BY <2>1, <2>3
  <2>7. ConTypes' /\ Waits'
    BY <2>1, <2>2, <2>3, <2>4
  <2> QED BY ONLY <2>5, <2>6, <2>7 DEF ConInv
<1>5. CASE channelAfterShutdown
  BY <1>5, OuterStep
<1>6. ASSUME NEW caller, NEW i \in BOOLEAN, NEW f, StopConsuming(caller, i, f)
      PROVE  ConInv'
  <2>1. /\ started /\ stopImmediate' = i
        /\ UNCHANGED <<msg, phantoms, started, entries, poolUp, Enabled, autoAck, consumer,
                       channel>>
    BY <1>6 DEF StopConsuming
  <2>2. /\ conCounts' \in [Counters -> Nat]
        /\ \A c \in {"losses", "unseen", "leaks", "returns"} : conCounts'[c] = conCounts[c]
        /\ conCounts'.hasty = 0 => conCounts.hasty = 0
        /\ i => conCounts'.hasty > 0
    <3> DEFINE k == IF caller = "user" THEN conCounts.events + 1 ELSE conCounts.events
               n == IF i THEN 1 ELSE conCounts.hasty
    <3>1. conCounts' = [conCounts EXCEPT !["events"] = k, !["hasty"] = n]
      BY <1>6 DEF StopConsuming
    <3>2. k \in Nat /\ n \in Nat /\ (n = 0 => conCounts.hasty = 0) /\ (i => n > 0)
      OBVIOUS
    <3> HIDE DEF k, n
    <3> QED BY <3>1, <3>2, TwoCounts
  <2> QED BY <2>1, <2>2
<1> QED BY <1>1, <1>2, <1>3, <1>4, <1>5, <1>6 DEF ConUser

(* Others leave the consumer alone, until Shutdown closes the channels of  *)
(* the pool: what the accounts say is of a pool that is up.                *)
LEMMA ConFrame ==
    ASSUME ConInv, \/ UNCHANGED <<conVars, poolUp>>
                   \/ shutdownPools
    PROVE  ConInv'
<1> USE DEF ConInv, ConTypes, Counters, Waits, ChannelUse, WhenStoppedNothingArrives,
            ChannelAccountedFor, PhantomsBounded, Holding, At, Converting, MsgsIn, config,
            run, stops, lock, accounts
<1>1. CASE UNCHANGED <<conVars, poolUp>>
  BY <1>1 DEF conVars
<1>2. CASE shutdownPools
  BY <1>2 DEF shutdownPools
<1> QED BY <1>1, <1>2

-----------------------------------------------------------------------------
(* A step of the publisher is one of a letter or one of loops and stops.   *)
LEMMA PublisherStep ==
    ASSUME IInv, PubStep \/ \E l \in Letter : QueueLetter(l) \/ strandedGoesOn(l),
           UNCHANGED <<conVars, svcVars>>
    PROVE  IInv'
<1>1. LettersInv /\ LoopsInv /\ ConInv /\ CollectorsInv
  BY DEF IInv
<1>2. ASSUME NEW l \in Letter,
             \/ QueueLetter(l) \/ increaseLetterCount(l) \/ queueLetter(l) \/ LetterStep(l)
             \/ strandedGoesOn(l) \/ \E g \in DOMAIN loop : takeLetter(g, l)
      PROVE  LettersInv' /\ LoopsInv' /\ UNCHANGED poolUp
  <2>1. LettersInv'
    BY <1>1, <1>2, LettersStep
  <2>2. UNCHANGED <<signals, starts, history>> /\ UNCHANGED poolUp
    BY <1>2 DEF QueueLetter, increaseLetterCount, queueLetter, LetterStep, noChannel,
                enterGetChannel, getsChannel, strandedGoesOn, publishFails, publishSucceeds,
                reduceLetterCount, takeLetter
  <2> QED BY <1>1, <2>1, <2>2, LoopsFrame
<1>3. ASSUME \/ markStarted \/ sendStop
             \/ \E g \in DOMAIN loop : takeStop(g) \/ endLoop(g)
      PROVE  LettersInv' /\ LoopsInv' /\ UNCHANGED poolUp
  <2>1. LoopsInv'
    BY <1>1, <1>3, LoopsStep
  <2>2. UNCHANGED <<letters, publishing>> /\ UNCHANGED poolUp
    BY <1>3 DEF markStarted, sendStop, takeStop, endLoop
  <2> QED BY <1>1, <2>1, <2>2, LettersFrame
<1>4. LettersInv' /\ LoopsInv' /\ UNCHANGED poolUp
  BY <1>2, <1>3 DEF PubStep, QueueStep, LoopStep
<1>5. ConInv'
  BY <1>1, <1>4, ConFrame
<1>6. CollectorsInv'
  BY <1>1 DEF CollectorsInv, svcVars, background
<1> QED BY <1>4, <1>5, <1>6 DEF IInv

(* A step of the consumer, its users or a StopConsuming.                   *)
LEMMA ConsumerStep ==
    ASSUME IInv, UNCHANGED <<pubVars, svcVars>>,
           \/ ConLoop \/ ConUser \/ sendConsumeStop
           \/ \E i, f \in BOOLEAN : StopConsuming("user", i, f)
    PROVE  IInv'
<1>1. LettersInv /\ LoopsInv /\ ConInv /\ CollectorsInv
  BY DEF IInv
<1>2. CASE ConLoop
  <2>1. ConInv'
    BY <1>1, <1>2, OuterStep, InnerStep DEF ConLoop
  <2>2. UNCHANGED poolUp
    BY <1>2 DEF ConLoop, StopSeen, getChannel, getDeliveryChannel, consumeFails, qosFails,
                closeError, delivery, noDelivery, goOn, stopping, wait, finish, pool
  <2> QED BY <1>1, <2>1, <2>2, LettersFrame, LoopsFrame
          DEF IInv, CollectorsInv, pubVars, svcVars, background
<1>3. CASE \/ ConUser \/ sendConsumeStop
           \/ \E i, f \in BOOLEAN : StopConsuming("user", i, f)
  <2>1. ConInv'
    BY <1>1, <1>3, UserStep
  <2>2. UNCHANGED poolUp
    BY <1>3 DEF ConUser, sendConsumeStop, StopConsuming, Get, GetNothing, StartConsuming,
                loseChannel, cancelDeliveries, channelAfterShutdown, convertDelivery, receive,
                convertNothing, receiveNothing, pool
  <2> QED BY <1>1, <2>1, <2>2, LettersFrame, LoopsFrame
          DEF IInv, CollectorsInv, pubVars, svcVars, background
<1> QED BY <1>2, <1>3

(* A step of the service, which starts and stops the publisher, stops the  *)
(* consumer and shuts down the pool.                                       *)
LEMMA ServiceStep ==
    ASSUME IInv, StartService \/ StopService \/ SvcStep \/ collect \/ readCentralErr
    PROVE  IInv'
<1>1. LettersInv /\ LoopsInv /\ ConInv /\ CollectorsInv
  BY DEF IInv
<1>2. CASE StartService
  <2>1. StartAutoPublish /\ collectors' = collectors + 2 /\ UNCHANGED <<conVars, poolUp, carrying>>
    BY <1>2 DEF StartService
  <2>2. UNCHANGED <<letters, publishing>>
    BY <2>1 DEF StartAutoPublish
  <2>3. CollectorsInv'
    BY <1>1, <2>1 DEF CollectorsInv
  <2> QED BY <1>1, <2>1, <2>2, <2>3, LettersFrame, LoopsStep, ConFrame DEF IInv
<1>3. CASE StopService
  <2>1. StopAutoPublish /\ UNCHANGED <<conVars, poolUp, background>>
    BY <1>3 DEF StopService
  <2>2. UNCHANGED <<letters, publishing>>
    BY <2>1 DEF StopAutoPublish
  <2> QED BY <1>1, <2>1, <2>2, LettersFrame, LoopsStep, ConFrame
          DEF IInv, CollectorsInv, background
<1>4. CASE stopConsumers
  <2>1. UNCHANGED <<pubVars, background>>
    BY <1>4 DEF stopConsumers
  <2>2. StopConsuming("owner", TRUE, TRUE) \/ UNCHANGED <<conVars, poolUp>>
    BY <1>4 DEF stopConsumers
  <2>3. UNCHANGED poolUp
    BY <2>2 DEF StopConsuming
  <2>4. ConInv'
    BY <1>1, <2>2, UserStep, ConFrame
  <2> QED BY <1>1, <2>1, <2>3, <2>4, LettersFrame, LoopsFrame
          DEF IInv, CollectorsInv, pubVars, background
<1>5. CASE shutdownPools
  <2>1. UNCHANGED <<pubVars, background>> /\ poolUp' = FALSE
    BY <1>5 DEF shutdownPools
  <2>2. ConInv'
    BY <1>1, <1>5, ConFrame
  <2> QED BY <1>1, <2>1, <2>2, LettersFrame, LoopsFrame
          DEF IInv, CollectorsInv, pubVars, background
<1>6. CASE \/ signalStop \/ consumersStopped \/ tellError \/ monitorStopService
           \/ collectorEnds \/ putError \/ collect \/ readCentralErr
  <2>1. UNCHANGED <<pubVars, conVars, poolUp>>
    BY <1>6 DEF signalStop, consumersStopped, tellError, monitorStopService, collectorEnds,
                putError, collect, readCentralErr
  <2>2. CollectorsInv'
    BY <1>1, <1>6 DEF CollectorsInv, signalStop, consumersStopped, tellError,
                monitorStopService, collectorEnds, putError, collect, readCentralErr,
                background
  <2> QED BY <1>1, <2>1, <2>2, LettersFrame, LoopsFrame, ConFrame DEF IInv, pubVars
<1> QED BY <1>2, <1>3, <1>4, <1>5, <1>6 DEF SvcStep

(* Every step of the program and its surroundings keeps it.                *)
LEMMA IInvStep == IInv /\ [Next]_vars => IInv'
<1> SUFFICES ASSUME IInv, [Next]_vars PROVE IInv'
  OBVIOUS
<1>1. CASE UNCHANGED vars
  <2>1. UNCHANGED <<pubVars, conVars, svcVars, poolUp>>
    BY <1>1 DEF vars
  <2> QED BY <2>1, LettersFrame, LoopsFrame, ConFrame
          DEF IInv, CollectorsInv, pubVars, svcVars, background
<1>2. CASE Next
  BY <1>2, PublisherStep, ConsumerStep, ServiceStep DEF Next
<1> QED BY <1>1, <1>2

-----------------------------------------------------------------------------
(* letterCount is the number of those that are counted, no more than there *)
(* are letters.                                                            *)
LEMMA IInvTypes == IInv => TypeOK
<1> SUFFICES ASSUME IInv PROVE TypeOK
  OBVIOUS
<1>1. LettersInv /\ LoopsInv /\ ConTypes /\ CollectorsInv
  BY DEF IInv, ConInv
<1>2. letterCount \in 0 .. Cardinality(Letter)
  <2>1. letterCount = Cardinality(Counted)
    BY <1>1 DEF LettersInv, LettersAccountedFor, Counted
  <2>2. Counted \in SUBSET Letter
    BY DEF Counted, In
  <2>3. IsFiniteSet(Counted) /\ Cardinality(Counted) <= Cardinality(Letter)
    BY <2>2, V1PublisherAssumption, FS_Subset
  <2>4. Cardinality(Counted) \in Nat /\ Cardinality(Letter) \in Nat
    BY <2>3, V1PublisherAssumption, FS_CardinalityType
  <2> QED BY <2>1, <2>3, <2>4
<1> QED BY <1>1, <1>2 DEF TypeOK, LettersInv, LoopsInv, ConTypes, CollectorsInv, Nothings

(* The inductive invariant of version 1's service, with its publisher and  *)
(* its consumer, for any letters, messages, buffers and bounds.            *)
THEOREM V1Invariant == Spec => []IInv
<1> QED BY IInvInit, IInvStep, PTL DEF Spec

(* Publisher.letterCount counts what is between queueLetter and the end of *)
(* its publishing and never passes below zero, whoever is done with was    *)
(* notified unless retries met a pool shut down, and AutoPublishStarted    *)
(* tells of the loop.                                                      *)
THEOREM PublisherSafe == Spec => []Safety
<1>1. IInv => LettersAccountedFor /\ LoopIffStarted
  BY DEF IInv, LettersInv, LoopsInv
<1> QED BY <1>1, IInvTypes, V1Invariant, PTL DEF Safety

(* A StopConsuming that is not immediate: when the consumer is no longer   *)
(* started, every message it took is where its user may receive it.        *)
THEOREM GentleStops == Spec => []WhenStoppedNothingArrives
<1>1. IInv => WhenStoppedNothingArrives
  BY DEF IInv, ConInv
<1> QED BY <1>1, V1Invariant, PTL

(* A plain channel leaves the pool for good where Qos fails and where Get  *)
(* or GetBatch keeps it, and not on any way round startConsuming; an       *)
(* ackable one has one more entry each time it was given back.             *)
THEOREM ChannelAccounts == Spec => []ChannelAccountedFor
<1>1. IInv => ChannelAccountedFor
  BY DEF IInv, ConInv
<1> QED BY <1>1, V1Invariant, PTL

(* processDeliveries makes at most one message of nothing for each channel *)
(* that is lost, unless the pool was shut down, the broker cancelled a     *)
(* subscription, or GetAckableChannel took a close error.                  *)
THEOREM FewPhantoms == Spec => []PhantomsBounded
<1>1. IInv => PhantomsBounded
  BY DEF IInv, ConInv
<1> QED BY <1>1, V1Invariant, PTL

-----------------------------------------------------------------------------
(***************************************************************************)
(* The pools.                                                              *)
(***************************************************************************)
(* How often x is in a sequence, and how many goroutines have it.          *)
Times(s, x)  == Cardinality({k \in DOMAIN s : s[k] = x})
HeldBy(f, x) == Cardinality({t \in Thread : f[t] = x})

PlainHost(h) == host[h] \in ChannelHost /\ host[h].id \in PlainID
AckHost(h)   == host[h] \in ChannelHost /\ host[h].id \in AckID

(* The empty sequence, of anything.                                        *)
LEMMA EmptySeq == \A S : <<>> \in Seq(S)
OBVIOUS

(* What is queued or in a hand is a host of a channel, of the kind that    *)
(* belongs there.                                                          *)
InPlace ==
    /\ \A k \in DOMAIN channels : PlainHost(channels[k])
    /\ \A k \in DOMAIN ackChannels : AckHost(ackChannels[k])
    /\ \A t \in Thread : chan[t] # None =>
          \/ op[t] = "plain" /\ PlainHost(chan[t])
          \/ op[t] = "ack" /\ AckHost(chan[t])

(* What a goroutine has in hand, was called for and has locked, by its     *)
(* place.                                                                  *)
PlaceFor(t, p, o, h, i, n, holder) ==
    /\ i # None <=> p \in {"dial", "open"}
    /\ i # None => n <= 3
    /\ p \in {"use", "put back", "flag", "flag bad"} => h # None
    /\ p \in {"connection", "dial", "open"} /\ o # "Initialize" => h # None
    /\ p \in {"put back", "flag bad"} => o = "plain"
    /\ p \in {"idle", "take"} => h = None
    /\ p = "idle" <=> o = "none"
    /\ p \in {"channels", "connections"} <=> o = "Shutdown"
    /\ o = "Initialize" => p \in {"connection", "dial", "open"}
    /\ o \in {"Initialize", "Shutdown"} <=> holder = t

PlaceOf(t) == PlaceFor(t, pc[t], op[t], chan[t], conn[t], attempts[t], poolLock)

Places == \A t \in Thread : PlaceOf(t)

IDCount == MaxChannelCount + MaxAckChannelCount

(* Initialize runs before anybody uses the pool, and nothing that Shutdown *)
(* does happens before it is called.                                       *)
Phases ==
    /\ shutdowns \in Nat
    /\ \A t \in Thread : op[t] = "Initialize" =>
          shutdowns = 0 /\ ~initialized /\ connInitialized /\ channelID < IDCount
    /\ shutdowns = 0 =>
          /\ drain = [q \in Queues |-> "done"]
          /\ \A t \in Thread : op[t] # "Shutdown" /\ pc[t] # "stranded"
          /\ initialized => channelID = IDCount /\ connInitialized
          /\ ~initialized => \A t \in Thread : op[t] \in {"none", "Initialize"}
          /\ ~initialized /\ poolLock = None => channelID = 0
          /\ ~connInitialized => \A h \in Host : ~host[h].up

OneOwner == connInitialized =>
    \A i \in Connection : Times(connections, i) + HeldBy(conn, i) = 1

(* The plain channels by their IDs: those queued, those in hands.          *)
Queued == [k \in DOMAIN channels |-> host[channels[k]].id]
Held == [t \in Thread |-> IF op[t] = "plain" /\ HasChannel(t) THEN IDof(t) ELSE None]

PlainOnce ==
    \A c \in PlainID :
        Times(Queued, c) + HeldBy(Held, c) = IF c < channelID THEN 1 ELSE 0

Carried(i, k) ==
    {h \in Host : /\ host[h].up /\ host[h].current
                  /\ host[h].conn = i /\ Kind(host[h].id) = k}

Kinds == {"plain", "ack"}

RoomCounted ==
    \A i \in Connection, k \in Kinds : Cardinality(Carried(i, k)) <= count[i][k]

(* A dead channel that may be taken, or is about to be given back, has     *)
(* yet to tell of its error, is flagged, or is about to be.                *)
Usable(h) ==
    \/ \E k \in DOMAIN channels : channels[k] = h
    \/ \E t \in Thread : op[t] = "plain" /\ pc[t] = "use" /\ chan[t] = h

Flagging(h) == \E t \in Thread : pc[t] \in {"flag", "flag bad"} /\ chan[t] = h

DeadKnown ==
    \A h \in Host : Usable(h) /\ ~host[h].up =>
        host[h].err = "erred" \/ host[h].id \in flaggedChannels \/ Flagging(h)

PoolsInv ==
    /\ PoolsTypeOK /\ InPlace /\ Places /\ Phases
    /\ shutdowns = 0 => OneOwner /\ PlainOnce /\ RoomCounted /\ DeadKnown

-----------------------------------------------------------------------------
(* Positions of a sequence are finite in number.                           *)
LEMMA TimesType ==
    ASSUME NEW S, NEW s \in Seq(S), NEW x
    PROVE  /\ IsFiniteSet({i \in DOMAIN s : s[i] = x})
           /\ Times(s, x) \in Nat
           /\ \A i \in DOMAIN s : s[i] = x => Times(s, x) >= 1
           /\ \A i, j \in DOMAIN s : s[i] = x /\ s[j] = x /\ i # j => Times(s, x) >= 2
<1> DEFINE T == {i \in DOMAIN s : s[i] = x}
<1>1. IsFiniteSet(T)
  <2>1. DOMAIN s = 1 .. Len(s) /\ Len(s) \in Int /\ 1 \in Int
    OBVIOUS
  <2>2. IsFiniteSet(DOMAIN s)
    BY <2>1, FS_Interval
  <2> QED BY <2>2, FS_Subset
<1>2. Cardinality(T) \in Nat /\ (Cardinality(T) = 0 <=> T = {})
      /\ (Cardinality(T) = 1 <=> \E y : T = {y})
  BY <1>1, FS_CardinalityType, FS_EmptySet, FS_Singleton
<1>3. Times(s, x) = Cardinality(T)
  BY DEF Times
<1>4. ASSUME NEW i \in DOMAIN s, s[i] = x
      PROVE  Times(s, x) >= 1
  <2>1. T # {}
    BY <1>4
  <2> HIDE DEF T
  <2> QED BY <1>2, <1>3, <2>1
<1>5. ASSUME NEW i \in DOMAIN s, NEW j \in DOMAIN s, s[i] = x, s[j] = x, i # j
      PROVE  Times(s, x) >= 2
  <2>1. i \in T /\ j \in T
    BY <1>5
  <2>2. Cardinality(T) # 0 /\ Cardinality(T) # 1
    BY <1>2, <1>5, <2>1
  <2> QED BY <1>2, <1>3, <2>2
<1>6. Times(s, x) \in Nat
  BY <1>2, <1>3
<1> QED BY <1>1, <1>4, <1>5, <1>6

(* An element at the end of a sequence occurs once more.                   *)
LEMMA TimesAppend ==
    ASSUME NEW S, NEW s \in Seq(S), NEW e \in S, NEW x
    PROVE  Times(Append(s, e), x) = Times(s, x) + (IF e = x THEN 1 ELSE 0)
<1> DEFINE T == {i \in DOMAIN s : s[i] = x}
           U == {i \in DOMAIN Append(s, e) : Append(s, e)[i] = x}
           n == Len(s) + 1
<1>1. /\ Len(s) \in Nat /\ DOMAIN s = 1 .. Len(s) /\ DOMAIN Append(s, e) = 1 .. n
      /\ \A i \in 1 .. Len(s) : Append(s, e)[i] = s[i]
      /\ Append(s, e)[n] = e
  OBVIOUS
<1>2. U = IF e = x THEN T \cup {n} ELSE T
  BY <1>1
<1>3. Times(s, x) = Cardinality(T) /\ Times(Append(s, e), x) = Cardinality(U)
  BY DEF Times
<1>4. IsFiniteSet(T) /\ Times(s, x) \in Nat
  BY TimesType
<1>5. n \notin T
  BY <1>1
<1> HIDE DEF T, U, n
<1>6. Cardinality(T \cup {n}) = Cardinality(T) + 1
  BY <1>4, <1>5, FS_AddElement
<1> QED BY <1>2, <1>3, <1>4, <1>6

(* One taken off its head occurs once less.                                *)
LEMMA TimesTail ==
    ASSUME NEW S, NEW s \in Seq(S), s # <<>>, NEW x
    PROVE  Times(s, x) = Times(Tail(s), x) + (IF Head(s) = x THEN 1 ELSE 0)
<1> DEFINE T == {i \in DOMAIN s : s[i] = x}
           U == {i \in DOMAIN Tail(s) : Tail(s)[i] = x}
           f == [i \in U |-> i + 1]
<1>1. /\ Len(s) \in Nat /\ Len(s) >= 1 /\ DOMAIN s = 1 .. Len(s) /\ Head(s) = s[1]
      /\ DOMAIN Tail(s) = 1 .. Len(s) - 1 /\ Tail(s) \in Seq(S)
      /\ \A i \in 1 .. Len(s) - 1 : Tail(s)[i] = s[i + 1]
  OBVIOUS
<1>2. f \in Bijection(U, T \ {1})
  <2>1. f \in [U -> T \ {1}]
    BY <1>1
  <2>2. \A i, j \in U : f[i] = f[j] => i = j
    BY <1>1
  <2>3. \A j \in T \ {1} : \E i \in U : f[i] = j
    <3> SUFFICES ASSUME NEW j \in T \ {1} PROVE \E i \in U : f[i] = j
      OBVIOUS
    <3>1. j - 1 \in U /\ f[j - 1] = j
      BY <1>1
    <3> QED BY <3>1
  <2> QED BY <2>1, <2>2, <2>3 DEF Bijection, Injection, Surjection, IsInjective
<1>3. 1 \in T <=> Head(s) = x
  BY <1>1
<1>4. Times(s, x) = Cardinality(T) /\ Times(Tail(s), x) = Cardinality(U)
  BY DEF Times
<1>5. IsFiniteSet(T) /\ IsFiniteSet(U) /\ Times(s, x) \in Nat
  BY <1>1, TimesType
<1> HIDE DEF T, U, f
<1>6. Cardinality(T \ {1}) = Cardinality(U)
  BY <1>2, <1>5, FS_Bijection DEF ExistsBijection
<1>7. Cardinality(T \ {1}) = IF 1 \in T THEN Cardinality(T) - 1 ELSE Cardinality(T)
  BY <1>5, FS_RemoveElement
<1> QED BY <1>3, <1>4, <1>5, <1>6, <1>7

(* Goroutines with a value are finite in number, and two are at least two.    *)
LEMMA HeldByType ==
    ASSUME NEW f, NEW x
    PROVE  /\ IsFiniteSet({l \in Thread : f[l] = x})
           /\ HeldBy(f, x) \in Nat
           /\ \A l \in Thread : f[l] = x => HeldBy(f, x) >= 1
           /\ \A l, m \in Thread : f[l] = x /\ f[m] = x /\ l # m => HeldBy(f, x) >= 2
<1> DEFINE T == {l \in Thread : f[l] = x}
<1>1. IsFiniteSet(T)
  BY V1PoolsAssumption, FS_Subset
<1>2. Cardinality(T) \in Nat /\ (Cardinality(T) = 0 <=> T = {})
      /\ (Cardinality(T) = 1 <=> \E y : T = {y})
  BY <1>1, FS_CardinalityType, FS_EmptySet, FS_Singleton
<1>3. HeldBy(f, x) = Cardinality(T)
  BY DEF HeldBy
<1>4. ASSUME NEW l \in Thread, f[l] = x
      PROVE  HeldBy(f, x) >= 1
  BY <1>2, <1>3, <1>4
<1>5. ASSUME NEW l \in Thread, NEW m \in Thread, f[l] = x, f[m] = x, l # m
      PROVE  HeldBy(f, x) >= 2
  <2>1. l \in T /\ m \in T
    BY <1>5
  <2>2. Cardinality(T) # 0 /\ Cardinality(T) # 1
    BY <1>2, <1>5, <2>1
  <2> QED BY <1>2, <1>3, <2>2
<1> QED BY <1>1, <1>2, <1>3, <1>4, <1>5

(* Giving one goroutine another value moves it from one count to the other.   *)
LEMMA HeldByExcept ==
    ASSUME NEW f, NEW g, NEW l \in Thread, NEW x,
           \A m \in Thread \ {l} : g[m] = f[m]
    PROVE  /\ HeldBy(f, x) \in Nat /\ HeldBy(g, x) \in Nat
           /\ (f[l] = x <=> g[l] = x) => HeldBy(g, x) = HeldBy(f, x)
           /\ f[l] = x /\ g[l] # x => HeldBy(g, x) = HeldBy(f, x) - 1
           /\ f[l] # x /\ g[l] = x => HeldBy(g, x) = HeldBy(f, x) + 1
<1> DEFINE T == {m \in Thread : f[m] = x}
           U == {m \in Thread : g[m] = x}
<1>1. U = IF g[l] = x THEN (T \ {l}) \cup {l} ELSE T \ {l}
  OBVIOUS
<1>2. l \in T <=> f[l] = x
  OBVIOUS
<1>3. HeldBy(f, x) = Cardinality(T) /\ HeldBy(g, x) = Cardinality(U)
  BY DEF HeldBy
<1>4. IsFiniteSet(T) /\ HeldBy(f, x) \in Nat /\ HeldBy(g, x) \in Nat
  BY HeldByType
<1> HIDE DEF T, U
<1>5. IsFiniteSet(T \ {l})
      /\ Cardinality(T \ {l}) = IF l \in T THEN Cardinality(T) - 1 ELSE Cardinality(T)
  BY <1>4, FS_RemoveElement
<1>6. Cardinality((T \ {l}) \cup {l}) = Cardinality(T \ {l}) + 1
  BY <1>5, FS_AddElement
<1> QED BY <1>1, <1>2, <1>3, <1>4, <1>5, <1>6

(* The IDs of plain and of ackable channels differ, and nil is none.       *)
LEMMA IDFacts ==
    /\ PlainID \cap AckID = {} /\ PlainID \subseteq Nat /\ AckID \subseteq Nat
    /\ None \notin PlainID \cup AckID /\ None \notin Connection /\ None \notin Host
    /\ None \notin Thread /\ Connection \subseteq Nat
    /\ \A i \in PlainID : Kind(i) = "plain"
    /\ \A i \in AckID : Kind(i) = "ack"
    /\ \A n \in Nat : n < IDCount => n \in PlainID \cup AckID
    /\ \A i \in PlainID \cup AckID : i < IDCount
    /\ 0 \in Connection /\ NoHost \notin ChannelHost
    /\ 0 \in 0 .. IDCount /\ 0 < IDCount
<1>1. /\ MaxConnectionCount \in Nat \ {0} /\ MaxChannelCount \in Nat \ {0}
      /\ MaxAckChannelCount \in Nat \ {0}
      /\ None \notin Nat /\ None \notin Thread /\ Host \subseteq Nat
  BY V1PoolsAssumption
<1>2. None \notin PlainID \cup AckID
  BY <1>1 DEF PlainID, AckID
<1>3. NoHost \notin ChannelHost
  BY <1>2 DEF NoHost, ChannelHost
<1>4. /\ PlainID \cap AckID = {} /\ PlainID \subseteq Nat /\ AckID \subseteq Nat
      /\ Connection \subseteq Nat /\ 0 \in Connection
  BY <1>1 DEF PlainID, AckID, Connection
<1>5. /\ \A n \in Nat : n < IDCount => n \in PlainID \cup AckID
      /\ \A i \in PlainID \cup AckID : i < IDCount
  BY <1>1 DEF PlainID, AckID, IDCount
<1>6. /\ \A i \in PlainID : Kind(i) = "plain"
      /\ \A i \in AckID : Kind(i) = "ack"
  BY <1>4 DEF Kind
<1>7. None \notin Connection /\ None \notin Host
  BY <1>1, <1>4
<1>8. 0 \in 0 .. IDCount /\ 0 < IDCount
  BY <1>1 DEF IDCount
<1> QED BY <1>1, <1>2, <1>3, <1>4, <1>5, <1>6, <1>7, <1>8

(* The records of hosts that are.                                          *)
LEMMA HostRecords ==
    ASSUME NEW r \in ChannelHost
    PROVE  /\ r.id \in PlainID \cup AckID /\ r.conn \in Connection
           /\ r.current \in BOOLEAN /\ r.up \in BOOLEAN
           /\ r.err \in {"quiet", "erred", "closed"} /\ r # NoHost
           /\ \A q : \/ q = r \/ q = Read(r) \/ q = Lost(r) \/ q = Closed(r)
                    \/ q = [r EXCEPT !.current = FALSE]
                    => /\ q \in ChannelHost /\ q.id = r.id /\ q.conn = r.conn
                       /\ q.up => r.up
                       /\ q.current => r.current
<1>1. r # NoHost
  BY IDFacts
<1>2. /\ r.id \in PlainID \cup AckID /\ r.conn \in Connection
      /\ r.current \in BOOLEAN /\ r.up \in BOOLEAN
      /\ r.err \in {"quiet", "erred", "closed"}
  BY DEF ChannelHost
<1>3. ASSUME NEW q, \/ q = r \/ q = Read(r) \/ q = Lost(r) \/ q = Closed(r)
                    \/ q = [r EXCEPT !.current = FALSE]
      PROVE  /\ q \in ChannelHost /\ q.id = r.id /\ q.conn = r.conn
             /\ q.up => r.up
             /\ q.current => r.current
  BY <1>3 DEF ChannelHost, Read, Lost, Closed
<1> QED BY <1>1, <1>2, <1>3

(* A host that is none is dead and of no channel.                          *)
LEMMA NoHostRecord ==
    /\ NoHost.id = None /\ NoHost.up = FALSE /\ NoHost.current = FALSE
    /\ NoHost.err = "quiet" /\ Kind(NoHost.id) = "ack"
<1>1. Kind(None) = "ack"
  BY IDFacts DEF Kind
<1> QED BY <1>1 DEF NoHost

-----------------------------------------------------------------------------
InUse == Range(channels) \cup Range(ackChannels) \cup Range(chan)

(* What a queue has it has at a place of it.                               *)
LEMMA InRange ==
    ASSUME NEW s, NEW x
    PROVE  x \in Range(s) <=> \E k \in DOMAIN s : s[k] = x
BY DEF Range

(* What becomes of the hosts in a step that makes none: they are swept     *)
(* when nobody refers to them, and otherwise only get worse.               *)
HostsKept ==
    \A h \in Host :
        \/ host'[h] = NoHost /\ (host[h] = NoHost \/ h \notin InUse')
        \/ /\ host[h] \in ChannelHost /\ host'[h] \in ChannelHost
           /\ host'[h].id = host[h].id /\ host'[h].conn = host[h].conn
           /\ host'[h].up => host[h].up
           /\ host'[h].current => host[h].current

(* A sweep after some hosts got worse.                                     *)
LEMMA SweepKeeps ==
    ASSUME NEW f, Sweep(f), host \in [Host -> ChannelHost \cup {NoHost}],
           \A h \in Host :
              \/ f[h] = host[h]
              \/ /\ host[h] \in ChannelHost
                 /\ f[h] \in {Read(host[h]), Lost(host[h]), Closed(host[h])}
    PROVE  HostsKept /\ host' \in [Host -> ChannelHost \cup {NoHost}]
<1>1. ASSUME NEW h \in Host
      PROVE  \/ host'[h] = NoHost /\ (host[h] = NoHost \/ h \notin InUse')
             \/ /\ host[h] \in ChannelHost /\ host'[h] \in ChannelHost
                /\ host'[h].id = host[h].id /\ host'[h].conn = host[h].conn
                /\ host'[h].up => host[h].up
                /\ host'[h].current => host[h].current
  <2>1. host'[h] = IF h \in InUse' THEN f[h] ELSE NoHost
    BY DEF Sweep, InUse
  <2>2. CASE host[h] \in ChannelHost
    <3>1. /\ f[h] \in ChannelHost /\ f[h].id = host[h].id /\ f[h].conn = host[h].conn
          /\ f[h].up => host[h].up
          /\ f[h].current => host[h].current
      <4>1. \/ f[h] = host[h] \/ f[h] = Read(host[h]) \/ f[h] = Lost(host[h])
            \/ f[h] = Closed(host[h])
        OBVIOUS
      <4> QED BY <2>2, <4>1, HostRecords
    <3> QED BY <2>1, <2>2, <3>1
  <2>3. CASE host[h] = NoHost
    BY <2>1, <2>3, IDFacts
  <2> QED BY <2>2, <2>3
<1>2. host' = [h \in Host |-> host'[h]]
  BY DEF Sweep
<1> QED BY <1>1, <1>2 DEF HostsKept

(* A step of one goroutine, of those taken before Shutdown is called.      *)
StepOf(t) ==
    \/ Initialize(t) \/ GetChannel(t) \/ takeChannel(t) \/ takeAckable(t)
    \/ takeConnection(t) \/ dial(t) \/ passOver(t) \/ openFails(t) \/ noConnection(t)
    \/ putBack(t) \/ FlagChannel(t)
    \/ ReturnChannel(t) \/ FlagAndReturnChannel(t) \/ LetGoAckable(t)

LossOf == \/ \E h \in Host : loseChannelHost(h)
          \/ \E i \in Connection : loseConnection(i)

(* Steps that make no channel.                                             *)
QuietStep ==
    \/ \E t \in Thread :
          StepOf(t) \/ Shutdown(t) \/ resetChannels(t) \/ resetConnections(t)
    \/ \E q \in Queues : look(q) \/ getNothing(q) \/ get(q)
    \/ LossOf
    \/ UNCHANGED poolsVars

(* A step is quiet or makes a channel.                                     *)
LEMMA NextCases ==
    ASSUME PoolsNext \/ UNCHANGED poolsVars
    PROVE  QuietStep \/ \E t \in Thread, h \in Host : open(t, h)
BY DEF PoolsNext, Step, createChannelHost, QuietStep, StepOf, LossOf

(* The steps of all but open.                                              *)
LEMMA AllKeepHosts ==
    ASSUME PoolsInv, QuietStep
    PROVE  HostsKept /\ host' \in [Host -> ChannelHost \cup {NoHost}]
<1>1. host \in [Host -> ChannelHost \cup {NoHost}]
  BY DEF PoolsInv, PoolsTypeOK
<1>2. ASSUME Sweep(host)
      PROVE  HostsKept /\ host' \in [Host -> ChannelHost \cup {NoHost}]
  BY <1>1, <1>2, SweepKeeps
<1>3. ASSUME UNCHANGED host
      PROVE  HostsKept /\ host' \in [Host -> ChannelHost \cup {NoHost}]
  BY <1>1, <1>3 DEF HostsKept
<1>4. ASSUME host' = [h \in Host |-> host'[h]],
             \A h \in Host :
                \/ host'[h] = host[h]
                \/ /\ host[h] \in ChannelHost
                   /\ host'[h] \in {Read(host[h]), Lost(host[h]), Closed(host[h]),
                                    [host[h] EXCEPT !.current = FALSE]}
      PROVE  HostsKept /\ host' \in [Host -> ChannelHost \cup {NoHost}]
  <2>1. ASSUME NEW h \in Host
        PROVE  \/ host'[h] = NoHost /\ host[h] = NoHost
               \/ /\ host[h] \in ChannelHost /\ host'[h] \in ChannelHost
                  /\ host'[h].id = host[h].id /\ host'[h].conn = host[h].conn
                  /\ host'[h].up => host[h].up
                  /\ host'[h].current => host[h].current
    <3>1. CASE host'[h] = host[h]
      BY <1>1, <3>1, HostRecords
    <3>2. CASE host'[h] # host[h]
      <4>1. host[h] \in ChannelHost
        BY <1>4, <3>2
      <4>2. \/ host'[h] = Read(host[h]) \/ host'[h] = Lost(host[h])
            \/ host'[h] = Closed(host[h]) \/ host'[h] = [host[h] EXCEPT !.current = FALSE]
        BY <1>4, <3>2
      <4> QED BY <4>1, <4>2, HostRecords
    <3> QED BY <3>1, <3>2
  <2> QED BY <1>4, <2>1 DEF HostsKept
<1>5. \A h \in Host : host[h].up \/ host[h].current \/ host[h].err # "quiet" =>
         host[h] \in ChannelHost
  BY <1>1, NoHostRecord
<1>6. \A h \in Host : Read(host[h]) # host[h] => host[h] \in ChannelHost
  <2> SUFFICES ASSUME NEW h \in Host, host[h] = NoHost PROVE Read(NoHost) = NoHost
    BY <1>1
  <2> QED BY NoHostRecord DEF Read, NoHost
<1>7. ASSUME NEW t \in Thread, Initialize(t) \/ GetChannel(t) \/ Shutdown(t)
      PROVE  UNCHANGED host
  BY <1>7 DEF Initialize, GetChannel, Shutdown, chanPool
<1>8. ASSUME NEW t \in Thread,
             \/ takeConnection(t) \/ passOver(t) \/ putBack(t) \/ resetConnections(t)
      PROVE  UNCHANGED host
  BY <1>8 DEF takeConnection, passOver, putBack, resetConnections, chanPool
<1>9. ASSUME NEW t \in Thread,
             \/ openFails(t) \/ noConnection(t) \/ FlagChannel(t)
             \/ FlagAndReturnChannel(t) \/ LetGoAckable(t) \/ resetChannels(t)
      PROVE  Sweep(host) \/ UNCHANGED host
  BY <1>9 DEF openFails, noConnection, GiveUp, FlagChannel, FlagAndReturnChannel, LetGoAckable,
              resetChannels
<1>10. ASSUME NEW t \in Thread, takeChannel(t) \/ takeAckable(t)
       PROVE  HostsKept /\ host' \in [Host -> ChannelHost \cup {NoHost}]
  <2>1. /\ host' = [h \in Host |-> host'[h]]
        /\ \A h \in Host : host'[h] = host[h] \/ host'[h] = Read(host[h])
    BY <1>1, <1>10 DEF takeChannel, takeAckable
  <2> QED BY <1>4, <1>6, <2>1
<1>11. ASSUME NEW t \in Thread, ReturnChannel(t)
       PROVE  HostsKept /\ host' \in [Host -> ChannelHost \cup {NoHost}]
  <2>1. CASE Sweep(host)
    BY <1>2, <2>1
  <2>2. CASE ~Sweep(host)
    <3>1. /\ host' = [h \in Host |-> host'[h]]
          /\ \A h \in Host : host'[h] = host[h] \/ host'[h] = Read(host[h])
      BY <1>1, <1>11, <2>2 DEF ReturnChannel
    <3> QED BY <1>4, <1>6, <3>1
  <2> QED BY <2>1, <2>2
<1>12. ASSUME NEW t \in Thread, dial(t)
       PROVE  HostsKept /\ host' \in [Host -> ChannelHost \cup {NoHost}]
  BY <1>4, <1>5, <1>12 DEF dial
<1>13. ASSUME NEW q \in Queues, look(q) \/ getNothing(q)
       PROVE  UNCHANGED host
  BY <1>13 DEF look, getNothing, chanPool
<1>14. ASSUME NEW q \in Queues, get(q)
       PROVE  HostsKept /\ host' \in [Host -> ChannelHost \cup {NoHost}]
  <2> DEFINE f == [h \in Host |-> IF /\ host[h].up /\ host[h].current
                                    /\ host[h].conn \in Range(connections)
                                 THEN Closed(host[h]) ELSE host[h]]
             g == [h \in Host |->
                     IF h \in Range(IF q = "plain" THEN channels ELSE ackChannels)
                     THEN Closed(host[h]) ELSE host[h]]
  <2>1. Sweep(f) \/ (q # "connections" /\ Sweep(g))
    BY <1>14 DEF get
  <2>2. \A h \in Host : f[h] = host[h] \/ (host[h] \in ChannelHost /\ f[h] = Closed(host[h]))
    BY <1>5
  <2>3. ASSUME q # "connections", NEW h \in Host, g[h] # host[h]
        PROVE  host[h] \in ChannelHost /\ g[h] = Closed(host[h])
    <3>1. g[h] = IF h \in Range(IF q = "plain" THEN channels ELSE ackChannels)
                 THEN Closed(host[h]) ELSE host[h]
      OBVIOUS
    <3>2. h \in Range(channels) \/ h \in Range(ackChannels)
      BY <2>3, <3>1
    <3>3. \/ \E k \in DOMAIN channels : channels[k] = h
          \/ \E k \in DOMAIN ackChannels : ackChannels[k] = h
      BY <3>2, InRange
    <3>4. host[h] \in ChannelHost
      BY <3>3 DEF PoolsInv, InPlace, PlainHost, AckHost
    <3> QED BY <2>3, <3>1, <3>4
  <2> HIDE DEF f, g
  <2>4. CASE Sweep(f)
    BY <1>1, <2>2, <2>4, SweepKeeps
  <2>5. CASE q # "connections" /\ Sweep(g)
    BY <1>1, <2>3, <2>5, SweepKeeps
  <2> QED BY <2>1, <2>4, <2>5
<1>15. ASSUME NEW h \in Host, loseChannelHost(h)
       PROVE  HostsKept /\ host' \in [Host -> ChannelHost \cup {NoHost}]
  BY <1>1, <1>4, <1>5, <1>15 DEF loseChannelHost
<1>16. ASSUME NEW i \in Connection, loseConnection(i)
       PROVE  HostsKept /\ host' \in [Host -> ChannelHost \cup {NoHost}]
  BY <1>4, <1>5, <1>16 DEF loseConnection
<1>17. CASE UNCHANGED poolsVars
  BY <1>3, <1>17 DEF poolsVars, chanPool
<1> QED
  BY <1>2, <1>3, <1>7, <1>8, <1>9, <1>10, <1>11, <1>12, <1>13, <1>14, <1>15, <1>16, <1>17
     DEF QuietStep, StepOf, LossOf
-----------------------------------------------------------------------------
(* The same of the queues and hands after a step, of the hosts before it.  *)
QueuesKept ==
    /\ \A k \in DOMAIN channels' : PlainHost(channels'[k])
    /\ \A k \in DOMAIN ackChannels' : AckHost(ackChannels'[k])
    /\ \A t \in Thread : chan'[t] # None =>
          \/ op'[t] = "plain" /\ PlainHost(chan'[t])
          \/ op'[t] = "ack" /\ AckHost(chan'[t])

Kept == PoolsTypeOK' /\ Places' /\ Phases' /\ QueuesKept

HostsTyped == host' \in [Host -> ChannelHost \cup {NoHost}]

(* The parts of a pool's state.                                            *)
LEMMA Parts ==
    ASSUME PoolsInv
    PROVE  /\ PoolsTypeOK /\ InPlace /\ Places /\ Phases
           /\ \A t \in Thread : chan[t] # None => chan[t] \in Host
           /\ \A t \in Thread : conn[t] # None => conn[t] \in Connection
           /\ channels # <<>> => /\ Head(channels) \in Host /\ PlainHost(Head(channels))
                                 /\ Tail(channels) \in Seq(Host)
                                 /\ \A k \in DOMAIN Tail(channels) :
                                       PlainHost(Tail(channels)[k])
           /\ ackChannels # <<>> => /\ Head(ackChannels) \in Host
                                    /\ AckHost(Head(ackChannels))
                                    /\ Tail(ackChannels) \in Seq(Host)
                                    /\ \A k \in DOMAIN Tail(ackChannels) :
                                          AckHost(Tail(ackChannels)[k])
           /\ \A h \in Host : PlainHost(h) => Append(channels, h) \in Seq(Host)
                  /\ \A k \in DOMAIN Append(channels, h) : PlainHost(Append(channels, h)[k])
           /\ \A h \in Host : AckHost(h) => Append(ackChannels, h) \in Seq(Host)
                  /\ \A k \in DOMAIN Append(ackChannels, h) : AckHost(Append(ackChannels, h)[k])
<1>1. PoolsTypeOK /\ InPlace /\ Places /\ Phases
  BY DEF PoolsInv
<1>2. channels \in Seq(Host) /\ ackChannels \in Seq(Host)
  BY <1>1 DEF PoolsTypeOK
<1>3. /\ \A k \in DOMAIN channels : PlainHost(channels[k])
      /\ \A k \in DOMAIN ackChannels : AckHost(ackChannels[k])
  BY <1>1 DEF InPlace
<1>4. /\ \A t \in Thread : chan[t] # None => chan[t] \in Host
      /\ \A t \in Thread : conn[t] # None => conn[t] \in Connection
  BY <1>1 DEF PoolsTypeOK
<1>5. channels # <<>> => /\ Head(channels) \in Host /\ PlainHost(Head(channels))
                         /\ Tail(channels) \in Seq(Host)
                         /\ \A k \in DOMAIN Tail(channels) : PlainHost(Tail(channels)[k])
  BY <1>2, <1>3
<1>6. ackChannels # <<>> => /\ Head(ackChannels) \in Host /\ AckHost(Head(ackChannels))
                            /\ Tail(ackChannels) \in Seq(Host)
                            /\ \A k \in DOMAIN Tail(ackChannels) :
                                  AckHost(Tail(ackChannels)[k])
  BY <1>2, <1>3
<1>7. \A h \in Host : PlainHost(h) => Append(channels, h) \in Seq(Host)
         /\ \A k \in DOMAIN Append(channels, h) : PlainHost(Append(channels, h)[k])
  BY <1>2, <1>3
<1>8. \A h \in Host : AckHost(h) => Append(ackChannels, h) \in Seq(Host)
         /\ \A k \in DOMAIN Append(ackChannels, h) : AckHost(Append(ackChannels, h)[k])
  BY <1>2, <1>3
<1> QED BY <1>1, <1>4, <1>5, <1>6, <1>7, <1>8

PCs == {"idle", "take", "connection", "dial", "open", "use", "put back",
        "flag bad", "flag", "channels", "connections", "stranded"}
Ops == {"none", "Initialize", "plain", "ack", "Shutdown"}

(* The effect of most steps: goroutine t goes to p, called for o, with the *)
(* hosts h and i in hand and n full connections met.                       *)
Moves(t, p, o, h, i, n) ==
    /\ pc' = [pc EXCEPT ![t] = p] /\ op' = [op EXCEPT ![t] = o]
    /\ chan' = [chan EXCEPT ![t] = h] /\ conn' = [conn EXCEPT ![t] = i]
    /\ attempts' = [attempts EXCEPT ![t] = n]

ThreadTypes ==
    /\ pc \in [Thread -> PCs] /\ op \in [Thread -> Ops]
    /\ chan \in [Thread -> Host \cup {None}] /\ conn \in [Thread -> Connection \cup {None}]
    /\ attempts \in [Thread -> 0 .. 4]

PoolTypes ==
    /\ connections \in Seq(Connection) /\ connUp \in [Connection -> BOOLEAN]
    /\ count \in [Connection -> [plain : 0 .. MaxOn.plain, ack : 0 .. MaxOn.ack]]
    /\ flaggedConnections \in SUBSET Connection
    /\ channels \in Seq(Host) /\ ackChannels \in Seq(Host)
    /\ host \in [Host -> ChannelHost \cup {NoHost}]
    /\ flaggedChannels \in SUBSET (PlainID \cup AckID)
    /\ connInitialized \in BOOLEAN /\ initialized \in BOOLEAN
    /\ poolLock \in Thread \cup {None}
    /\ drain \in [Queues -> {"look", "get", "done"}]
    /\ channelID \in 0 .. IDCount

(* The type of the pools and that of the goroutines.                       *)
LEMMA TypesSplit ==
    /\ PoolsTypeOK <=> PoolTypes /\ ThreadTypes
    /\ PoolsTypeOK' <=> PoolTypes' /\ ThreadTypes'
BY DEF PoolsTypeOK, PoolTypes, ThreadTypes, PCs, Ops, IDCount

Values(p, o, h, i, n) ==
    /\ p \in PCs /\ o \in Ops /\ h \in Host \cup {None} /\ i \in Connection \cup {None}
    /\ n \in 0 .. 4

(* Only t locks and unlocks.                                               *)
LockOf(t) ==
    poolLock' = poolLock \/ (poolLock \in {t, None} /\ poolLock' \in {t, None})

(* A step of one goroutine keeps the rest of the types, the places and the *)
(* phases.                                                                 *)
LEMMA MoveStep ==
    ASSUME PoolsInv, NEW t \in Thread, NEW p, NEW o, NEW h, NEW i, NEW n,
           Moves(t, p, o, h, i, n), Values(p, o, h, i, n), PlaceFor(t, p, o, h, i, n, poolLock'),
           LockOf(t)
    PROVE  /\ ThreadTypes' /\ Places'
           /\ pc'[t] = p /\ op'[t] = o /\ chan'[t] = h /\ conn'[t] = i /\ attempts'[t] = n
           /\ \A u \in Thread : u # t =>
                 /\ pc'[u] = pc[u] /\ op'[u] = op[u] /\ chan'[u] = chan[u]
                 /\ conn'[u] = conn[u] /\ attempts'[u] = attempts[u]
<1>1. ThreadTypes /\ Places
  BY TypesSplit DEF PoolsInv
<1>2. ThreadTypes'
  BY <1>1 DEF ThreadTypes, Moves, Values
<1>3. /\ pc'[t] = p /\ op'[t] = o /\ chan'[t] = h /\ conn'[t] = i /\ attempts'[t] = n
      /\ \A u \in Thread : u # t =>
            /\ pc'[u] = pc[u] /\ op'[u] = op[u] /\ chan'[u] = chan[u]
            /\ conn'[u] = conn[u] /\ attempts'[u] = attempts[u]
  BY <1>1 DEF ThreadTypes, Moves
<1>4. \A u \in Thread : u # t => (poolLock' = u <=> poolLock = u)
  BY IDFacts DEF LockOf
<1>5. PlaceOf(t)'
  BY <1>3 DEF PlaceOf
<1>6. ASSUME NEW u \in Thread, u # t PROVE PlaceOf(u)'
  <2>1. PlaceOf(u)
    BY <1>1 DEF Places
  <2>2. (poolLock = u) = (poolLock' = u)
    BY <1>4, <1>6
  <2> QED BY <1>3, <1>6, <2>1, <2>2 DEF PlaceOf, PlaceFor
<1>7. Places'
  BY <1>5, <1>6 DEF Places
<1> QED BY <1>2, <1>3, <1>7

(* And the phase, if it is neither Initialize nor Shutdown.                *)
LEMMA PhaseStep ==
    ASSUME PoolsInv, HostsKept, NEW t \in Thread, NEW p, NEW o,
           pc'[t] = p /\ op'[t] = o,
           \A u \in Thread : u # t => pc'[u] = pc[u] /\ op'[u] = op[u],
           p # "stranded", o = op[t] \/ o = "none" \/ (initialized /\ o \in {"plain", "ack"}),
           UNCHANGED <<connInitialized, initialized, channelID, poolLock, drain, shutdowns>>
    PROVE  Phases'
<1>1. Phases
  BY DEF PoolsInv
<1>2. \A h \in Host : host'[h].up => host[h].up
  BY NoHostRecord DEF HostsKept
<1>3. \A u \in Thread : op'[u] = "Initialize" => op[u] = "Initialize"
  OBVIOUS
<1> QED BY <1>1, <1>2, <1>3 DEF Phases

(* What there is room for.                                                 *)
Counts == [plain : 0 .. MaxOn.plain, ack : 0 .. MaxOn.ack]

(* Rooms are numbers, and nothing is less than any.                        *)
LEMMA CountFacts ==
    /\ MaxOn["plain"] \in Nat /\ MaxOn["ack"] \in Nat
    /\ MaxOn.plain \in Nat /\ MaxOn.ack \in Nat
    /\ [plain |-> 0, ack |-> 0] \in Counts
<1>1. \A n \in Nat : Room(n) \in Nat
  BY V1PoolsAssumption DEF Room
<1>2. MaxOn.plain \in Nat /\ MaxOn.ack \in Nat
  BY <1>1, V1PoolsAssumption DEF MaxOn
<1>3. 0 \in 0 .. MaxOn.plain /\ 0 \in 0 .. MaxOn.ack
  BY <1>2
<1> QED BY <1>2, <1>3 DEF Counts, MaxOn

(* A new connection host has all its room.                                 *)
LEMMA CountTypes ==
    ASSUME PoolTypes, NEW S, NewConnectionHosts(S)
    PROVE  connUp' \in [Connection -> BOOLEAN] /\ count' \in [Connection -> Counts]
<1>1. connUp' \in [Connection -> BOOLEAN]
  BY DEF NewConnectionHosts, PoolTypes
<1>2. count \in [Connection -> Counts]
  BY DEF PoolTypes, Counts
<1> QED BY <1>1, <1>2, CountFacts DEF NewConnectionHosts

(* Calls and what they take.                                               *)
LEMMA TakeStep ==
    ASSUME PoolsInv, HostsTyped, HostsKept, NEW t \in Thread,
           GetChannel(t) \/ takeChannel(t) \/ takeAckable(t)
    PROVE  Kept
<1> USE DEF HostsTyped, AtPc, Goto
<1>t. PoolTypes /\ ThreadTypes /\ PlaceOf(t)
  BY Parts, TypesSplit DEF Places
<1>1. CASE GetChannel(t)
  <2>1. PICK k \in {"plain", "ack"} : Moves(t, "take", k, None, None, attempts[t])
    BY <1>1, <1>t DEF GetChannel, Moves, ThreadTypes, PlaceOf, PlaceFor
  <2>2. /\ initialized /\ chan[t] = None /\ pc[t] = "idle"
        /\ UNCHANGED <<connections, connUp, count, flaggedConnections, connInitialized,
                       channels, ackChannels, host, flaggedChannels, initialized,
                       channelID, poolLock, drain, shutdowns>>
    BY <1>1, <1>t DEF GetChannel, connPool, chanPool, control, counters, PlaceOf, PlaceFor
  <2>3. PlaceFor(t, "take", k, None, None, attempts[t], poolLock')
    BY <1>t, <2>2, IDFacts DEF PlaceOf, PlaceFor
  <2>4. "take" \in PCs /\ k \in Ops /\ attempts[t] \in 0 .. 4
    BY <1>t DEF PCs, Ops, ThreadTypes
  <2>5. /\ ThreadTypes' /\ Places' /\ pc'[t] = "take" /\ op'[t] = k /\ chan'[t] = None
        /\ \A u \in Thread : u # t => pc'[u] = pc[u] /\ op'[u] = op[u] /\ chan'[u] = chan[u]
    <3>1. Values("take", k, None, None, attempts[t]) /\ LockOf(t)
      <4>1. Values("take", k, None, None, attempts[t])
        BY <2>1, <2>2, <2>3, <2>4 DEF Values, PCs
      <4>2. LockOf(t)
        BY <2>1, <2>2, <2>3, <2>4 DEF LockOf
      <4> QED BY <4>1, <4>2
    <3> QED BY <2>1, <2>2, <2>3, <2>4, <3>1, MoveStep
  <2>6. Phases'
    BY <2>2, <2>5, PhaseStep
  <2>7. QueuesKept
    BY <2>2, <2>5, Parts DEF QueuesKept, InPlace
  <2>8. PoolTypes'
    BY <1>t, <2>2 DEF PoolTypes
  <2> QED BY <2>5, <2>6, <2>7, <2>8, TypesSplit DEF Kept
<1>2. CASE takeChannel(t)
  <2>1. PICK p \in {"connection", "use"} :
           Moves(t, p, "plain", Head(channels), None, 0)
    BY <1>2, <1>t DEF takeChannel, Moves, ThreadTypes, PlaceOf, PlaceFor
  <2>2. /\ channels # <<>> /\ channels' = Tail(channels) /\ pc[t] = "take" /\ op[t] = "plain"
        /\ UNCHANGED <<connections, connUp, count, flaggedConnections, connInitialized,
                       ackChannels, flaggedChannels, initialized, channelID, poolLock, drain,
                       shutdowns>>
    BY <1>2 DEF takeChannel, connPool, control, counters
  <2>3. PlaceFor(t, p, "plain", Head(channels), None, 0, poolLock')
    BY <1>t, <2>2, Parts, IDFacts DEF PlaceOf, PlaceFor
  <2>4. Head(channels) \in Host
    BY <2>2, Parts
  <2>5. p \in PCs /\ "plain" \in Ops
    BY DEF PCs, Ops
  <2>6. /\ ThreadTypes' /\ Places' /\ pc'[t] = p /\ op'[t] = "plain" /\ chan'[t] = Head(channels)
        /\ \A u \in Thread : u # t => pc'[u] = pc[u] /\ op'[u] = op[u] /\ chan'[u] = chan[u]
    <3>1. Values(p, "plain", Head(channels), None, 0) /\ LockOf(t)
      <4>1. Values(p, "plain", Head(channels), None, 0)
            BY <2>4, <2>5 DEF Values
      <4>2. LockOf(t)
        BY <2>1, <2>2, <2>3, <2>4, <2>5 DEF LockOf
      <4> QED BY <4>1, <4>2
    <3> QED BY <2>1, <2>2, <2>3, <2>4, <2>5, <3>1, MoveStep
  <2>7. Phases'
    BY <2>2, <2>6, PhaseStep
  <2>8. QueuesKept
    BY <2>2, <2>6, Parts DEF QueuesKept, InPlace
  <2>9. PoolTypes'
    BY <1>t, <2>2, Parts DEF PoolTypes
  <2> QED BY <2>6, <2>7, <2>8, <2>9, TypesSplit DEF Kept
<1>3. CASE takeAckable(t)
  <2> DEFINE h == Head(ackChannels)
  <2>1. PICK p \in {"connection", "use"} : Moves(t, p, "ack", h, None, 0)
    BY <1>3, <1>t DEF takeAckable, Moves, ThreadTypes, PlaceOf, PlaceFor
  <2>2. /\ ackChannels # <<>> /\ pc[t] = "take" /\ op[t] = "ack"
        /\ ackChannels' = Tail(ackChannels) \/ ackChannels' = Append(Tail(ackChannels), h)
        /\ \/ flaggedConnections' = flaggedConnections
           \/ flaggedConnections' = flaggedConnections \cup {host[h].conn}
        /\ UNCHANGED <<connections, connUp, count, connInitialized, channels, flaggedChannels,
                       initialized, channelID, poolLock, drain, shutdowns>>
    BY <1>3 DEF takeAckable, control, counters
  <2>3. PlaceFor(t, p, "ack", h, None, 0, poolLock')
    BY <1>t, <2>2, Parts, IDFacts DEF PlaceOf, PlaceFor
  <2>4. /\ h \in Host /\ AckHost(h) /\ Tail(ackChannels) \in Seq(Host)
        /\ \A k \in DOMAIN Tail(ackChannels) : AckHost(Tail(ackChannels)[k])
    BY <2>2, Parts
  <2>5. p \in PCs /\ "ack" \in Ops
    BY DEF PCs, Ops
  <2>6. host[h].conn \in Connection
    BY <2>4, HostRecords DEF AckHost
  <2> HIDE DEF h
  <2>7. /\ ThreadTypes' /\ Places' /\ pc'[t] = p /\ op'[t] = "ack" /\ chan'[t] = h
        /\ \A u \in Thread : u # t => pc'[u] = pc[u] /\ op'[u] = op[u] /\ chan'[u] = chan[u]
    <3>1. Values(p, "ack", h, None, 0) /\ LockOf(t)
      <4>1. Values(p, "ack", h, None, 0)
            BY <2>4, <2>5 DEF Values
      <4>2. LockOf(t)
        BY <2>1, <2>2, <2>3, <2>4, <2>5 DEF LockOf
      <4> QED BY <4>1, <4>2
    <3> QED BY <2>1, <2>2, <2>3, <2>4, <2>5, <3>1, MoveStep
  <2>8. Phases'
    BY <2>2, <2>7, PhaseStep
  <2>9. ackChannels' \in Seq(Host) /\ \A k \in DOMAIN ackChannels' : AckHost(ackChannels'[k])
    BY <2>2, <2>4
  <2>10. QueuesKept
    BY <2>2, <2>4, <2>7, <2>9, Parts DEF QueuesKept, InPlace
  <2>11. PoolTypes'
    BY <1>t, <2>2, <2>6, <2>9 DEF PoolTypes
  <2> QED BY <2>7, <2>8, <2>10, <2>11, TypesSplit DEF Kept
<1> QED BY <1>1, <1>2, <1>3

(* Where a connection is taken, dialled and passed over.                   *)
LEMMA ConnectStep ==
    ASSUME PoolsInv, HostsTyped, HostsKept, NEW t \in Thread,
           takeConnection(t) \/ dial(t) \/ passOver(t)
    PROVE  Kept
<1> USE DEF HostsTyped, AtPc, Goto
<1>t. PoolTypes /\ ThreadTypes /\ PlaceOf(t)
  BY Parts, TypesSplit DEF Places
<1>o. /\ op[t] \in Ops /\ chan[t] \in Host \cup {None} /\ attempts[t] \in 0 .. 4
      /\ conn[t] \in Connection \cup {None}
      /\ "connection" \in PCs /\ "open" \in PCs /\ "dial" \in PCs
  BY <1>t DEF ThreadTypes, PCs
<1>c. \A i \in Connection : Append(connections, i) \in Seq(Connection)
  BY <1>t DEF PoolTypes
<1>1. CASE takeConnection(t)
  <2>1. PICK p \in {"open", "dial"} :
           Moves(t, p, op[t], chan[t], Head(connections), attempts[t])
    BY <1>1, <1>t DEF takeConnection, Moves, ThreadTypes
  <2>2. /\ connections # <<>> /\ connections' = Tail(connections) /\ pc[t] = "connection"
        /\ attempts[t] <= 3
        /\ \/ flaggedConnections' = flaggedConnections
           \/ flaggedConnections' = flaggedConnections \cup {Head(connections)}
        /\ UNCHANGED <<connUp, count, connInitialized, channels, ackChannels, host,
                       flaggedChannels, initialized, channelID, poolLock, drain, shutdowns>>
    BY <1>1 DEF takeConnection, chanPool, control, counters
  <2>3. Head(connections) \in Connection /\ Tail(connections) \in Seq(Connection)
    BY <1>t, <2>2 DEF PoolTypes
  <2>4. PlaceFor(t, p, op[t], chan[t], Head(connections), attempts[t], poolLock')
    BY <1>t, <2>2, <2>3, IDFacts DEF PlaceOf, PlaceFor
  <2>5. /\ ThreadTypes' /\ Places' /\ pc'[t] = p /\ op'[t] = op[t] /\ chan'[t] = chan[t]
        /\ \A u \in Thread : u # t => pc'[u] = pc[u] /\ op'[u] = op[u] /\ chan'[u] = chan[u]
    <3>1. p \in PCs
      BY <1>o
    <3>2. Values(p, op[t], chan[t], Head(connections), attempts[t]) /\ LockOf(t)
      <4>1. Values(p, op[t], chan[t], Head(connections), attempts[t])
        BY <1>o, <2>1, <2>2, <2>3, <2>4, <3>1 DEF Values, PCs
      <4>2. LockOf(t)
        BY <1>o, <2>1, <2>2, <2>3, <2>4, <3>1 DEF LockOf
      <4> QED BY <4>1, <4>2
    <3> QED BY <2>1, <2>2, <2>3, <2>4, <3>2, MoveStep
  <2>6. Phases'
    BY <2>2, <2>5, PhaseStep
  <2>7. QueuesKept
    BY <2>2, <2>5, Parts DEF QueuesKept, InPlace
  <2>8. PoolTypes'
    BY <1>t, <2>2, <2>3 DEF PoolTypes
  <2> QED BY <2>5, <2>6, <2>7, <2>8, TypesSplit DEF Kept
<1>2. CASE dial(t)
  <2>1. Moves(t, "open", op[t], chan[t], conn[t], attempts[t])
    BY <1>2, <1>t DEF dial, Moves, ThreadTypes
  <2>2. /\ pc[t] = "dial" /\ NewConnectionHosts({conn[t]})
        /\ flaggedConnections' \subseteq flaggedConnections
        /\ UNCHANGED <<connections, connInitialized, channels, ackChannels, flaggedChannels,
                       initialized, channelID, poolLock, drain, shutdowns>>
    BY <1>2 DEF dial, control, counters
  <2>3. PlaceFor(t, "open", op[t], chan[t], conn[t], attempts[t], poolLock')
    BY <1>t, <2>2 DEF PlaceOf, PlaceFor
  <2>4. /\ ThreadTypes' /\ Places' /\ pc'[t] = "open" /\ op'[t] = op[t] /\ chan'[t] = chan[t]
        /\ \A u \in Thread : u # t => pc'[u] = pc[u] /\ op'[u] = op[u] /\ chan'[u] = chan[u]
    <3>1. Values("open", op[t], chan[t], conn[t], attempts[t]) /\ LockOf(t)
      <4>1. Values("open", op[t], chan[t], conn[t], attempts[t])
        BY <1>o, <2>1, <2>2, <2>3 DEF Values, PCs
      <4>2. LockOf(t)
        BY <1>o, <2>1, <2>2, <2>3 DEF LockOf
      <4> QED BY <4>1, <4>2
    <3> QED BY <2>1, <2>2, <2>3, <3>1, MoveStep
  <2>5. Phases'
    BY <2>2, <2>4, PhaseStep
  <2>6. QueuesKept
    BY <2>2, <2>4, Parts DEF QueuesKept, InPlace
  <2>7. connUp' \in [Connection -> BOOLEAN] /\ count' \in [Connection -> Counts]
    BY <1>t, <2>2, CountTypes
  <2>8. PoolTypes'
    BY <1>t, <2>2, <2>7 DEF PoolTypes, Counts
  <2> QED BY <2>4, <2>5, <2>6, <2>8, TypesSplit DEF Kept
<1>3. CASE passOver(t)
  <2>1. Moves(t, "connection", op[t], chan[t], None, attempts[t] + 1)
    BY <1>3, <1>t DEF passOver, ReturnConnection, Moves, ThreadTypes
  <2>2. /\ pc[t] = "open" /\ connections' = Append(connections, conn[t])
        /\ UNCHANGED <<connUp, count, flaggedConnections, connInitialized, channels, ackChannels,
                       host, flaggedChannels, initialized, channelID, poolLock, drain,
                       shutdowns>>
    BY <1>3 DEF passOver, ReturnConnection, chanPool, control, counters
  <2>3. conn[t] \in Connection /\ attempts[t] + 1 \in 0 .. 4
    BY <1>t, <1>o, <2>2 DEF PlaceOf, PlaceFor
  <2>4. PlaceFor(t, "connection", op[t], chan[t], None, attempts[t] + 1, poolLock')
    BY <1>t, <2>2 DEF PlaceOf, PlaceFor
  <2>5. /\ ThreadTypes' /\ Places' /\ pc'[t] = "connection" /\ op'[t] = op[t]
        /\ chan'[t] = chan[t]
        /\ \A u \in Thread : u # t => pc'[u] = pc[u] /\ op'[u] = op[u] /\ chan'[u] = chan[u]
    <3>1. Values("connection", op[t], chan[t], None, attempts[t] + 1) /\ LockOf(t)
      <4>1. Values("connection", op[t], chan[t], None, attempts[t] + 1)
        BY <1>o, <2>1, <2>2, <2>3, <2>4 DEF Values, PCs
      <4>2. LockOf(t)
        BY <1>o, <2>1, <2>2, <2>3, <2>4 DEF LockOf
      <4> QED BY <4>1, <4>2
    <3> QED BY <2>1, <2>2, <2>3, <2>4, <3>1, MoveStep
  <2>6. Phases'
    BY <2>2, <2>5, PhaseStep
  <2>7. QueuesKept
    BY <2>2, <2>5, Parts DEF QueuesKept, InPlace
  <2>8. PoolTypes'
    BY <1>t, <1>c, <2>2, <2>3 DEF PoolTypes
  <2> QED BY <2>5, <2>6, <2>7, <2>8, TypesSplit DEF Kept
<1> QED BY <1>1, <1>2, <1>3

(* The errors of createChannelHost: Initialize gives up, which leaves the  *)
(* pool as it was; the others start again.                                 *)
LEMMA GiveUpStep ==
    ASSUME PoolsInv, HostsTyped, HostsKept, NEW t \in Thread, openFails(t) \/ noConnection(t)
    PROVE  Kept
<1> USE DEF HostsTyped, AtPc, Goto
<1>t. PoolTypes /\ ThreadTypes /\ PlaceOf(t) /\ Phases
  BY Parts, TypesSplit DEF Places
<1>o. /\ op[t] \in Ops /\ chan[t] \in Host \cup {None} /\ attempts[t] \in 0 .. 4
      /\ conn[t] \in Connection \cup {None} /\ "none" \in Ops
      /\ "connection" \in PCs /\ "put back" \in PCs /\ "idle" \in PCs /\ 0 \in 0 .. 4
  <2>1. /\ op[t] \in Ops /\ chan[t] \in Host \cup {None} /\ attempts[t] \in 0 .. 4
        /\ conn[t] \in Connection \cup {None}
    BY <1>t DEF ThreadTypes
  <2>2. "none" \in Ops /\ "connection" \in PCs /\ "put back" \in PCs /\ "idle" \in PCs
    BY DEF PCs, Ops
  <2>3. 0 \in 0 .. 4
    OBVIOUS
  <2> QED BY <2>1, <2>2, <2>3
<1> DEFINE Effect ==
             /\ op[t] = "Initialize" =>
                   /\ channelID' = 0 /\ channels' = <<>> /\ poolLock' = None
                   /\ pc' = [pc EXCEPT ![t] = "idle"] /\ op' = [op EXCEPT ![t] = "none"]
                   /\ UNCHANGED attempts
             /\ op[t] # "Initialize" =>
                   /\ attempts' = [attempts EXCEPT ![t] = 0]
                   /\ \/ pc' = [pc EXCEPT ![t] = "connection"]
                      \/ pc' = [pc EXCEPT ![t] = "put back"] /\ op[t] = "plain"
                   /\ UNCHANGED <<channelID, channels, host, poolLock, op>>
<1>1. /\ \/ pc[t] = "open" /\ connections' = Append(connections, conn[t])
            /\ conn' = [conn EXCEPT ![t] = None]
         \/ pc[t] = "connection" /\ UNCHANGED <<connections, conn>>
      /\ UNCHANGED <<connUp, count, connInitialized, ackChannels, chan, flaggedChannels,
                     initialized, drain, shutdowns>>
      /\ flaggedConnections' \subseteq Connection
      /\ Effect
  <2>1. CASE openFails(t)
    <3>1. conn[t] \in Connection
      BY <1>o, <1>t, <2>1 DEF openFails, PlaceOf, PlaceFor
    <3>2. flaggedConnections' \subseteq Connection
      BY <1>t, <2>1, <3>1 DEF openFails, PoolTypes
    <3>3. Effect
      BY <2>1 DEF openFails, GiveUp, NextTry
    <3> HIDE DEF Effect
    <3> QED BY <2>1, <3>2, <3>3 DEF openFails, ReturnConnection, counters
  <2>2. CASE noConnection(t)
    <3>1. Effect
      BY <2>2 DEF noConnection, GiveUp, NextTry
    <3> HIDE DEF Effect
    <3> QED BY <1>t, <2>2, <3>1 DEF noConnection, PoolTypes, connPool, counters
  <2> QED BY <2>1, <2>2
<1> HIDE DEF Effect
<1>2. connections' \in Seq(Connection) /\ conn' = [conn EXCEPT ![t] = None]
  <2>1. CASE pc[t] = "open"
    <3>1. conn[t] \in Connection
      BY <1>o, <1>t, <2>1 DEF PlaceOf, PlaceFor
    <3>2. connections \in Seq(Connection)
      BY <1>t DEF PoolTypes
    <3>3. Append(connections, conn[t]) \in Seq(Connection)
      BY <3>1, <3>2
    <3> QED BY <1>1, <2>1, <3>3
  <2>2. CASE pc[t] = "connection"
    <3>1. conn[t] = None
      BY <1>t, <2>2 DEF PlaceOf, PlaceFor
    <3> QED BY <1>1, <1>t, <2>2, <3>1 DEF PoolTypes, ThreadTypes
  <2> QED BY <1>1, <2>1, <2>2
<1>3. CASE op[t] = "Initialize"
  <2>1. /\ Moves(t, "idle", "none", None, None, attempts[t])
        /\ channelID' = 0 /\ channels' = <<>> /\ poolLock' = None
    <3>1. chan[t] = None
      BY <1>3, Parts DEF InPlace
    <3> QED BY <1>1, <1>2, <1>3, <1>t, <3>1 DEF Moves, ThreadTypes, Effect
  <2>2. PlaceFor(t, "idle", "none", None, None, attempts[t], poolLock')
    BY <2>1, IDFacts DEF PlaceFor
  <2>3. poolLock = t
    BY <1>3, <1>t DEF PlaceOf, PlaceFor
  <2>4. /\ ThreadTypes' /\ Places' /\ pc'[t] = "idle" /\ op'[t] = "none" /\ chan'[t] = None
        /\ \A u \in Thread : u # t => pc'[u] = pc[u] /\ op'[u] = op[u] /\ chan'[u] = chan[u]
    <3>1. Values("idle", "none", None, None, attempts[t]) /\ LockOf(t)
      <4>1. Values("idle", "none", None, None, attempts[t])
        BY <1>o DEF Values
      <4>2. LockOf(t)
        BY <1>o, <2>1, <2>2, <2>3 DEF LockOf
      <4> QED BY <4>1, <4>2
    <3> QED BY <2>1, <2>2, <2>3, <3>1, MoveStep
  <2>5. \A u \in Thread : op'[u] # "Initialize"
    BY <2>1, <2>4, IDFacts DEF Places, PlaceOf, PlaceFor
  <2>6. \A h \in Host : host'[h].up => host[h].up
    BY NoHostRecord DEF HostsKept
  <2>7. Phases'
    <3>1. /\ shutdowns = 0 /\ ~initialized /\ connInitialized
          /\ drain = [q \in Queues |-> "done"]
          /\ \A u \in Thread : op[u] # "Shutdown" /\ pc[u] # "stranded"
          /\ \A u \in Thread : op[u] \in {"none", "Initialize"}
      BY <1>3, <1>t DEF Phases
    <3>2. \A u \in Thread : op'[u] \in {"none", "Initialize"} /\ pc'[u] # "stranded"
      BY <2>4, <3>1
    <3> QED BY <1>1, <2>1, <2>5, <3>1, <3>2 DEF Phases
  <2>8. QueuesKept
    <3>1. DOMAIN channels' = {}
      BY <2>1
    <3>2. \A u \in Thread : chan'[u] = chan[u] /\ (chan[u] # None => op'[u] = op[u])
      BY <1>1, <2>1, <2>4, <1>3, Parts DEF InPlace
    <3> QED BY <1>1, <3>1, <3>2, Parts DEF QueuesKept, InPlace
  <2>9. PoolTypes'
    BY <1>1, <1>2, <1>t, <2>1, V1PoolsAssumption DEF PoolTypes, IDCount
  <2> QED BY <2>4, <2>7, <2>8, <2>9, TypesSplit DEF Kept
<1>4. CASE op[t] # "Initialize"
  <2>1. PICK p \in {"put back", "connection"} :
           /\ Moves(t, p, op[t], chan[t], None, 0)
           /\ p = "put back" => op[t] = "plain"
    BY <1>1, <1>2, <1>4, <1>t DEF Moves, ThreadTypes, Effect
  <2>2. UNCHANGED <<channelID, channels, host, poolLock>>
    BY <1>1, <1>4 DEF Effect
  <2>3. PlaceFor(t, p, op[t], chan[t], None, 0, poolLock')
    BY <1>1, <1>4, <1>t, <2>1, <2>2 DEF PlaceOf, PlaceFor
  <2>4. /\ ThreadTypes' /\ Places' /\ pc'[t] = p /\ op'[t] = op[t] /\ chan'[t] = chan[t]
        /\ \A u \in Thread : u # t => pc'[u] = pc[u] /\ op'[u] = op[u] /\ chan'[u] = chan[u]
    <3>1. p \in PCs
      BY <1>o
    <3>2. Values(p, op[t], chan[t], None, 0) /\ LockOf(t)
      <4>1. Values(p, op[t], chan[t], None, 0)
        BY <1>o, <3>1 DEF Values
      <4>2. LockOf(t)
        BY <2>2 DEF LockOf
      <4> QED BY <4>1, <4>2
    <3>3. Moves(t, p, op[t], chan[t], None, 0)
      BY <2>1
    <3> QED BY <2>3, <3>2, <3>3, MoveStep
  <2>5. Phases'
    BY <1>1, <2>2, <2>4, PhaseStep
  <2>6. QueuesKept
    BY <1>1, <2>2, <2>4, Parts DEF QueuesKept, InPlace
  <2>7. PoolTypes'
    BY <1>1, <1>2, <1>t, <2>2 DEF PoolTypes
  <2> QED BY <2>4, <2>5, <2>6, <2>7, TypesSplit DEF Kept
<1> QED BY <1>3, <1>4

(* Where a channel is given back or let go of.                             *)
LEMMA ReturnStep ==
    ASSUME PoolsInv, HostsTyped, HostsKept, NEW t \in Thread,
           \/ ReturnChannel(t) \/ FlagAndReturnChannel(t) \/ LetGoAckable(t)
           \/ putBack(t) \/ FlagChannel(t)
    PROVE  Kept
<1> USE DEF HostsTyped, AtPc, Goto
<1>t. PoolTypes /\ ThreadTypes /\ PlaceOf(t)
  BY Parts, TypesSplit DEF Places
<1>1. /\ pc[t] \in {"use", "put back", "flag", "flag bad"} /\ chan[t] \in Host
      /\ conn[t] = None /\ op[t] \in {"plain", "ack"}
      /\ PlainHost(chan[t]) \/ AckHost(chan[t])
      /\ op[t] = "plain" => PlainHost(chan[t])
  <2>1. pc[t] \in {"use", "put back", "flag", "flag bad"}
    BY DEF ReturnChannel, FlagAndReturnChannel, LetGoAckable, putBack, FlagChannel
  <2>2. chan[t] # None /\ conn[t] = None
    BY <1>t, <2>1 DEF PlaceOf, PlaceFor
  <2> QED BY <2>1, <2>2, Parts DEF InPlace
<1>2. /\ UNCHANGED <<connections, connUp, count, flaggedConnections, connInitialized, conn,
                     attempts, initialized, channelID, poolLock, drain, shutdowns>>
      /\ \/ UNCHANGED flaggedChannels
         \/ flaggedChannels' = flaggedChannels \cup {IDof(t)}
      /\ PutChannel(t) \/ UNCHANGED <<channels, ackChannels>>
  BY DEF ReturnChannel, FlagAndReturnChannel, LetGoAckable, putBack, FlagChannel, connPool,
         control, counters
<1>3. /\ UNCHANGED <<conn, attempts>>
      /\ \/ /\ pc' = [pc EXCEPT ![t] = "idle"] /\ op' = [op EXCEPT ![t] = "none"]
            /\ chan' = [chan EXCEPT ![t] = None]
         \/ /\ pc' = [pc EXCEPT ![t] = "take"] /\ UNCHANGED op
            /\ chan' = [chan EXCEPT ![t] = None]
         \/ pc' = [pc EXCEPT ![t] = "flag"] /\ UNCHANGED <<op, chan>>
         \/ /\ pc[t] = "put back"
            /\ pc' = [pc EXCEPT ![t] = "flag bad"] /\ UNCHANGED <<op, chan>>
  <2>1. ASSUME ReturnChannel(t) PROVE <1>3!2
    BY <2>1 DEF ReturnChannel
  <2>2. ASSUME FlagAndReturnChannel(t) \/ LetGoAckable(t) \/ putBack(t) PROVE <1>3!2
    BY <2>2 DEF FlagAndReturnChannel, LetGoAckable, putBack
  <2>3. ASSUME FlagChannel(t) PROVE <1>3!2
    BY <2>3 DEF FlagChannel
  <2> QED BY <1>2, <2>1, <2>2, <2>3
<1>4. "idle" \in PCs /\ "take" \in PCs /\ "flag" \in PCs /\ "flag bad" \in PCs
      /\ "none" \in Ops
  BY DEF PCs, Ops
<1>5. /\ op[t] \in Ops /\ conn[t] \in Connection \cup {None} /\ attempts[t] \in 0 .. 4
      /\ chan[t] \in Host \cup {None}
  BY <1>t DEF ThreadTypes
<1>6. PICK p \in PCs, o \in Ops, h \in Host \cup {None} :
         /\ Moves(t, p, o, h, conn[t], attempts[t])
         /\ \/ p = "idle" /\ o = "none" /\ h = None
            \/ p = "take" /\ o = op[t] /\ h = None
            \/ p = "flag" /\ o = op[t] /\ h = chan[t]
            \/ p = "flag bad" /\ o = op[t] /\ h = chan[t] /\ pc[t] = "put back"
  <2>1. UNCHANGED <<conn, attempts>>
    BY <1>3
  <2>2. CASE /\ pc' = [pc EXCEPT ![t] = "idle"] /\ op' = [op EXCEPT ![t] = "none"]
             /\ chan' = [chan EXCEPT ![t] = None]
    <3>1. Moves(t, "idle", "none", None, conn[t], attempts[t])
      BY <1>t, <2>1, <2>2 DEF Moves, ThreadTypes
    <3> QED BY <1>4, <3>1
  <2>3. CASE /\ pc' = [pc EXCEPT ![t] = "take"] /\ UNCHANGED op
             /\ chan' = [chan EXCEPT ![t] = None]
    <3>1. Moves(t, "take", op[t], None, conn[t], attempts[t])
      BY <1>t, <2>1, <2>3 DEF Moves, ThreadTypes
    <3> QED BY <1>4, <1>5, <3>1
  <2>4. CASE pc' = [pc EXCEPT ![t] = "flag"] /\ UNCHANGED <<op, chan>>
    <3>1. Moves(t, "flag", op[t], chan[t], conn[t], attempts[t])
      BY <1>t, <2>1, <2>4 DEF Moves, ThreadTypes
    <3> QED BY <1>4, <1>5, <3>1
  <2>5. CASE /\ pc[t] = "put back"
             /\ pc' = [pc EXCEPT ![t] = "flag bad"] /\ UNCHANGED <<op, chan>>
    <3>1. Moves(t, "flag bad", op[t], chan[t], conn[t], attempts[t])
      BY <1>t, <2>1, <2>5 DEF Moves, ThreadTypes
    <3> QED BY <1>4, <1>5, <2>5, <3>1
  <2> QED BY <1>3, <2>2, <2>3, <2>4, <2>5
<1>7. /\ ThreadTypes' /\ Places' /\ pc'[t] = p /\ op'[t] = o /\ chan'[t] = h
      /\ \A u \in Thread : u # t => pc'[u] = pc[u] /\ op'[u] = op[u] /\ chan'[u] = chan[u]
  <2>1. Moves(t, p, o, h, conn[t], attempts[t])
    BY <1>6
  <2>2. Values(p, o, h, conn[t], attempts[t])
    BY <1>5 DEF Values
  <2>3. LockOf(t)
    BY <1>2 DEF LockOf
  <2>4. PlaceFor(t, p, o, h, conn[t], attempts[t], poolLock')
    BY <1>1, <1>2, <1>6, <1>t, IDFacts DEF PlaceOf, PlaceFor
  <2> QED BY <2>1, <2>2, <2>3, <2>4, MoveStep
<1>8. Phases'
  BY <1>2, <1>6, <1>7, PhaseStep
<1>9. /\ channels' \in Seq(Host) /\ \A k \in DOMAIN channels' : PlainHost(channels'[k])
      /\ ackChannels' \in Seq(Host) /\ \A k \in DOMAIN ackChannels' : AckHost(ackChannels'[k])
  <2>1. CASE UNCHANGED <<channels, ackChannels>>
    BY <1>t, <2>1, Parts DEF PoolTypes, InPlace
  <2>2. CASE PutChannel(t)
    <3>1. Kind(IDof(t)) = "ack" <=> AckHost(chan[t])
      BY <1>1, IDFacts DEF PlainHost, AckHost, IDof
    <3> QED BY <1>1, <1>t, <2>2, <3>1, Parts DEF PutChannel, PoolTypes, InPlace
  <2> QED BY <1>2, <2>1, <2>2
<1>10. IDof(t) \in PlainID \cup AckID
  BY <1>1 DEF PlainHost, AckHost, IDof
<1>11. QueuesKept
  BY <1>6, <1>7, <1>9, Parts DEF QueuesKept, InPlace
<1>12. PoolTypes'
  BY <1>2, <1>9, <1>10, <1>t DEF PoolTypes
<1> QED BY <1>7, <1>8, <1>11, <1>12, TypesSplit DEF Kept

(* Initialize and Shutdown begin.                                          *)
LEMMA BeginStep ==
    ASSUME PoolsInv, HostsTyped, HostsKept, NEW t \in Thread, Initialize(t) \/ Shutdown(t)
    PROVE  Kept
<1> USE DEF HostsTyped, AtPc, Goto
<1>t. PoolTypes /\ ThreadTypes /\ PlaceOf(t) /\ Phases
  BY Parts, TypesSplit DEF Places
<1>o. /\ attempts[t] \in 0 .. 4 /\ conn[t] = None /\ chan[t] = None /\ op[t] = "none"
  <2>1. pc[t] = "idle"
    BY DEF Initialize, Shutdown
  <2>2. conn[t] \in Connection \cup {None} /\ attempts[t] \in 0 .. 4
    BY <1>t DEF ThreadTypes
  <2> QED BY <1>t, <2>1, <2>2 DEF PlaceOf, PlaceFor
<1>1. CASE Initialize(t)
  <2>1. Moves(t, "connection", "Initialize", None, None, 0)
    BY <1>1, <1>t, <1>o DEF Initialize, Moves, ThreadTypes
  <2>2. /\ poolLock = None /\ poolLock' = t /\ ~initialized /\ shutdowns = 0
        /\ connInitialized' = TRUE
        /\ UNCHANGED <<flaggedConnections, channels, ackChannels, host, flaggedChannels,
                       initialized, channelID, drain, shutdowns>>
    BY <1>1 DEF Initialize, chanPool, counters
  <2>3. PlaceFor(t, "connection", "Initialize", None, None, 0, poolLock')
    BY <2>2 DEF PlaceFor
  <2>4. /\ ThreadTypes' /\ Places' /\ pc'[t] = "connection" /\ op'[t] = "Initialize"
        /\ chan'[t] = None
        /\ \A u \in Thread : u # t => pc'[u] = pc[u] /\ op'[u] = op[u] /\ chan'[u] = chan[u]
    <3>1. Values("connection", "Initialize", None, None, 0)
      BY DEF Values, PCs, Ops
    <3>2. LockOf(t)
      BY <2>2 DEF LockOf
    <3> QED BY <2>1, <2>3, <3>1, <3>2, MoveStep
  <2>5. Phases'
    <3>1. channelID = 0 /\ 0 < IDCount
      BY <1>t, <2>2, V1PoolsAssumption DEF Phases, IDCount
    <3>2. \A u \in Thread : op'[u] # "Shutdown" /\ pc'[u] # "stranded"
                             /\ op'[u] \in {"none", "Initialize"}
      BY <1>t, <2>2, <2>4 DEF Phases
    <3> QED BY <1>t, <2>2, <3>1, <3>2, IDFacts DEF Phases
  <2>6. QueuesKept
    BY <2>2, <2>4, Parts DEF QueuesKept, InPlace
  <2>7. /\ connections' \in Seq(Connection) /\ connUp' \in [Connection -> BOOLEAN]
        /\ count' \in [Connection -> Counts]
    <3>1. CASE UNCHANGED <<connections, connUp, count>>
      BY <1>t, <3>1 DEF PoolTypes, Counts
    <3>2. CASE ~UNCHANGED <<connections, connUp, count>>
      <4>1. /\ connections' = [k \in 1 .. MaxConnectionCount |-> k - 1]
            /\ NewConnectionHosts(Connection)
        BY <1>1, <3>2 DEF Initialize
      <4>2. connections' \in Seq(Connection)
        BY <4>1, V1PoolsAssumption DEF Connection
      <4> QED BY <1>t, <4>1, <4>2, CountTypes
    <3> QED BY <3>1, <3>2
  <2>8. PoolTypes'
    BY <1>t, <2>2, <2>7 DEF PoolTypes, Counts
  <2> QED BY <2>4, <2>5, <2>6, <2>8, TypesSplit DEF Kept
<1>2. CASE Shutdown(t)
  <2>1. Moves(t, "channels", "Shutdown", None, None, attempts[t])
    BY <1>2, <1>t, <1>o DEF Shutdown, Moves, ThreadTypes
  <2>2. /\ poolLock = None /\ poolLock' = t /\ initialized /\ shutdowns' = shutdowns + 1
        /\ drain' = [drain EXCEPT !["plain"] = "look", !["ack"] = "look"]
        /\ UNCHANGED <<connections, connUp, count, flaggedConnections, connInitialized,
                       channels, ackChannels, host, flaggedChannels, initialized, channelID>>
    BY <1>2 DEF Shutdown, connPool, chanPool
  <2>3. PlaceFor(t, "channels", "Shutdown", None, None, attempts[t], poolLock')
    BY <2>2 DEF PlaceFor
  <2>4. /\ ThreadTypes' /\ Places' /\ pc'[t] = "channels" /\ op'[t] = "Shutdown"
        /\ chan'[t] = None
        /\ \A u \in Thread : u # t => pc'[u] = pc[u] /\ op'[u] = op[u] /\ chan'[u] = chan[u]
    <3>1. Values("channels", "Shutdown", None, None, attempts[t])
      BY <1>o DEF Values, PCs, Ops
    <3>2. LockOf(t)
      BY <2>2 DEF LockOf
    <3> QED BY <2>1, <2>3, <3>1, <3>2, MoveStep
  <2>5. Phases'
    BY <1>t, <2>2, <2>4 DEF Phases
  <2>6. QueuesKept
    BY <2>2, <2>4, Parts DEF QueuesKept, InPlace
  <2>7. PoolTypes'
    BY <1>t, <2>2 DEF PoolTypes, Queues
  <2> QED BY <2>4, <2>5, <2>6, <2>7, TypesSplit DEF Kept
<1> QED BY <1>1, <1>2

(* While it is shut down nobody initializes a pool.                        *)
LEMMA DownPhase ==
    ASSUME PoolsInv, shutdowns # 0, UNCHANGED shutdowns,
           \A u \in Thread : op'[u] = "Initialize" => op[u] = "Initialize"
    PROVE  Phases'
BY DEF PoolsInv, Phases

(* The queues are emptied.                                                 *)
LEMMA DrainStep ==
    ASSUME PoolsInv, HostsTyped, HostsKept, NEW q \in Queues, look(q) \/ getNothing(q) \/ get(q)
    PROVE  Kept
<1> USE DEF HostsTyped
<1>t. PoolTypes /\ ThreadTypes /\ Places /\ Phases
  BY Parts, TypesSplit
<1>1. /\ drain[q] # "done"
      /\ UNCHANGED <<count, flaggedConnections, connInitialized, flaggedChannels, initialized,
                     channelID, poolLock, pc, op, chan, conn, attempts, shutdowns>>
      /\ channels' \in {channels, <<>>} /\ ackChannels' \in {ackChannels, <<>>}
      /\ connections' \in {connections, <<>>}
  <2>1. CASE look(q) \/ getNothing(q)
    BY <2>1 DEF look, getNothing, connPool, chanPool, threads, counters
  <2>2. CASE get(q)
    BY <2>2 DEF get, counters
  <2> QED BY <2>1, <2>2
<1>2. shutdowns # 0
  BY <1>t, <1>1 DEF Phases
<1>3. Phases'
  BY <1>1, <1>2, DownPhase
<1>4. ThreadTypes' /\ Places'
  BY <1>t, <1>1 DEF ThreadTypes, Places, PlaceOf
<1>5. QueuesKept
  BY <1>1, Parts DEF QueuesKept, InPlace
<1>6. connUp' \in [Connection -> BOOLEAN] /\ drain' \in [Queues -> {"look", "get", "done"}]
  <2>1. CASE look(q) \/ getNothing(q)
    BY <1>t, <2>1 DEF look, getNothing, connPool, PoolTypes
  <2>2. CASE get(q)
    BY <1>t, <2>2 DEF get, PoolTypes
  <2> QED BY <2>1, <2>2
<1>7. /\ channels' \in Seq(Host) /\ ackChannels' \in Seq(Host)
      /\ connections' \in Seq(Connection)
  <2>1. /\ channels \in Seq(Host) /\ ackChannels \in Seq(Host)
        /\ connections \in Seq(Connection)
    BY <1>t DEF PoolTypes
  <2> QED BY <1>1, <2>1, EmptySeq
<1>8. PoolTypes'
  <2>1. UNCHANGED <<count, flaggedConnections, connInitialized, flaggedChannels, initialized,
                    channelID, poolLock>>
    BY <1>1
  <2> QED BY <1>t, <1>6, <1>7, <2>1 DEF PoolTypes
<1> QED BY <1>3, <1>4, <1>5, <1>8, TypesSplit DEF Kept

(* And are replaced, under those who wait.                                 *)
LEMMA ResetStep ==
    ASSUME PoolsInv, HostsTyped, HostsKept, NEW t \in Thread,
           resetChannels(t) \/ resetConnections(t)
    PROVE  Kept
<1> USE DEF HostsTyped, AtPc
<1>t. PoolTypes /\ ThreadTypes /\ Places /\ Phases
  BY Parts, TypesSplit
<1>1. CASE resetChannels(t)
  <2>1. PICK s \in SUBSET {u \in Thread : pc[u] = "take" /\ op[u] = "plain"} :
           pc' = [u \in Thread |-> IF u = t THEN "connections"
                                   ELSE IF u \in s THEN "stranded" ELSE pc[u]]
    BY <1>1 DEF resetChannels
  <2>2. /\ pc[t] = "channels" /\ channels' = <<>> /\ flaggedChannels' = {} /\ channelID' = 0
        /\ initialized' = FALSE /\ drain' = [drain EXCEPT !["connections"] = "look"]
        /\ UNCHANGED <<connections, connUp, count, flaggedConnections, connInitialized,
                       ackChannels, poolLock, op, chan, conn, attempts, shutdowns>>
    BY <1>1 DEF resetChannels, connPool, counters
  <2>3. op[t] = "Shutdown" /\ shutdowns # 0
    BY <1>t, <2>2 DEF Places, PlaceOf, PlaceFor, Phases
  <2>4. Phases'
    BY <2>2, <2>3, DownPhase
  <2>5. ASSUME NEW u \in Thread PROVE PlaceOf(u)'
    <3>1. PlaceOf(u)
      BY <1>t DEF Places
    <3>2. CASE u = t
      BY <2>1, <2>2, <2>3, <3>1, <3>2 DEF PlaceOf, PlaceFor
    <3>3. CASE u # t /\ u \in s
      BY <2>1, <2>2, <3>1, <3>3 DEF PlaceOf, PlaceFor
    <3>4. CASE u # t /\ u \notin s
      BY <2>1, <2>2, <3>1, <3>4 DEF PlaceOf, PlaceFor
    <3> QED BY <3>2, <3>3, <3>4
  <2>6. ThreadTypes'
    BY <1>t, <2>1, <2>2 DEF ThreadTypes, PCs
  <2>7. QueuesKept
    BY <2>2, Parts DEF QueuesKept, InPlace
  <2>8. PoolTypes'
    <3>1. channels' \in Seq(Host) /\ channelID' \in 0 .. IDCount
          /\ flaggedChannels' \in SUBSET (PlainID \cup AckID) /\ initialized' \in BOOLEAN
      BY <2>2, EmptySeq, IDFacts
    <3>2. drain' \in [Queues -> {"look", "get", "done"}]
      BY <1>t, <2>2 DEF PoolTypes
    <3>3. UNCHANGED <<connections, connUp, count, flaggedConnections, connInitialized,
                      ackChannels, poolLock>>
      BY <2>2
    <3> QED BY <1>t, <3>1, <3>2, <3>3 DEF PoolTypes
  <2> QED BY <2>4, <2>5, <2>6, <2>7, <2>8, TypesSplit DEF Kept, Places
<1>2. CASE resetConnections(t)
  <2>1. PICK s \in SUBSET {u \in Thread : pc[u] = "connection"} :
           pc' = [u \in Thread |-> IF u = t THEN "idle"
                                   ELSE IF u \in s THEN "stranded" ELSE pc[u]]
    BY <1>2 DEF resetConnections
  <2>2. /\ pc[t] = "connections" /\ connections' = <<>> /\ flaggedConnections' = {}
        /\ connInitialized' = FALSE /\ poolLock' = None
        /\ op' = [op EXCEPT ![t] = "none"]
        /\ UNCHANGED <<connUp, count, channels, ackChannels, host, flaggedChannels, initialized,
                       channelID, drain, chan, conn, attempts, shutdowns>>
    BY <1>2 DEF resetConnections, chanPool, counters
  <2>3. op[t] = "Shutdown" /\ shutdowns # 0 /\ poolLock = t /\ chan[t] = None
    BY <1>t, <2>2, Parts DEF Places, PlaceOf, PlaceFor, Phases, InPlace
  <2>4. op'[t] = "none" /\ \A u \in Thread : u # t => op'[u] = op[u]
    BY <1>t, <2>2 DEF ThreadTypes
  <2>5. Phases'
    BY <2>2, <2>3, <2>4, DownPhase
  <2>6. ASSUME NEW u \in Thread PROVE PlaceOf(u)'
    <3>1. PlaceOf(u) /\ op[u] # "Initialize"
      BY <1>t, <2>3 DEF Places, Phases
    <3>2. CASE u = t
      BY <2>1, <2>2, <2>3, <2>4, <3>1, <3>2, IDFacts DEF PlaceOf, PlaceFor
    <3>3. CASE u # t /\ u \in s
      BY <2>1, <2>2, <2>3, <2>4, <3>1, <3>3, IDFacts DEF PlaceOf, PlaceFor
    <3>4. CASE u # t /\ u \notin s
      BY <2>1, <2>2, <2>3, <2>4, <3>1, <3>4, IDFacts DEF PlaceOf, PlaceFor
    <3> QED BY <3>2, <3>3, <3>4
  <2>7. ThreadTypes'
    BY <1>t, <2>1, <2>2 DEF ThreadTypes, PCs, Ops
  <2>8. QueuesKept
    BY <2>2, <2>3, <2>4, Parts DEF QueuesKept, InPlace
  <2>9. PoolTypes'
    <3>1. /\ connections' \in Seq(Connection) /\ flaggedConnections' \in SUBSET Connection
          /\ connInitialized' \in BOOLEAN /\ poolLock' \in Thread \cup {None}
      BY <2>2, EmptySeq
    <3>2. UNCHANGED <<connUp, count, channels, ackChannels, host, flaggedChannels, initialized,
                      channelID, drain>>
      BY <2>2
    <3> QED BY <1>t, <3>1, <3>2 DEF PoolTypes
  <2> QED BY <2>5, <2>6, <2>7, <2>8, <2>9, TypesSplit DEF Kept, Places
<1> QED BY <1>1, <1>2

(* Channels and connections are lost; or nothing happens.                  *)
LEMMA LossStep ==
    ASSUME PoolsInv, HostsTyped, HostsKept,
           \/ \E h \in Host : loseChannelHost(h)
           \/ \E i \in Connection : loseConnection(i)
           \/ UNCHANGED poolsVars
    PROVE  Kept
<1> USE DEF HostsTyped
<1>t. PoolTypes /\ ThreadTypes /\ Places /\ Phases
  BY Parts, TypesSplit
<1>1. /\ UNCHANGED <<connections, count, flaggedConnections, connInitialized, channels,
                     ackChannels, flaggedChannels, initialized, channelID, poolLock, drain,
                     shutdowns>>
      /\ UNCHANGED <<pc, op, chan, conn, attempts>>
  BY DEF loseChannelHost, loseConnection, poolsVars, connPool, chanPool, control, threads,
         counters
<1>2. connUp' \in [Connection -> BOOLEAN]
  BY <1>t DEF loseChannelHost, loseConnection, poolsVars, connPool, PoolTypes
<1>3. \A h \in Host : host'[h].up => host[h].up
  BY NoHostRecord DEF HostsKept
<1>4. Phases'
  BY <1>t, <1>1, <1>3 DEF Phases
<1>5. ThreadTypes' /\ Places'
  BY <1>t, <1>1 DEF ThreadTypes, Places, PlaceOf
<1>6. QueuesKept
  BY <1>1, Parts DEF QueuesKept, InPlace
<1>7. PoolTypes'
  BY <1>t, <1>1, <1>2 DEF PoolTypes
<1> QED BY <1>4, <1>5, <1>6, <1>7, TypesSplit DEF Kept

(* All steps but open.                                                     *)
LEMMA AllKeep ==
    ASSUME PoolsInv, QuietStep
    PROVE  /\ HostsKept /\ HostsTyped /\ Kept /\ InPlace'
           /\ \A x \in Host : x \in InUse' =>
                 /\ host[x] \in ChannelHost /\ host'[x] \in ChannelHost
                 /\ host'[x].id = host[x].id /\ host'[x].conn = host[x].conn
                 /\ host'[x].up => host[x].up
<1>1. HostsKept /\ HostsTyped
  BY AllKeepHosts DEF HostsTyped
<1>2. Kept
  BY <1>1, TakeStep, ConnectStep, GiveUpStep, ReturnStep, BeginStep, DrainStep, ResetStep, LossStep
     DEF QuietStep, StepOf, LossOf
<1>3. ASSUME NEW x \in Host, x \in InUse' PROVE host[x] \in ChannelHost
  <2>1. \/ \E k \in DOMAIN channels' : channels'[k] = x
        \/ \E k \in DOMAIN ackChannels' : ackChannels'[k] = x
        \/ \E t \in DOMAIN chan' : chan'[t] = x
    BY <1>3, InRange DEF InUse
  <2>2. DOMAIN chan' = Thread /\ x # None
    BY <1>2, IDFacts DEF Kept, PoolsTypeOK
  <2> QED BY <1>2, <2>1, <2>2 DEF Kept, QueuesKept, PlainHost, AckHost
<1>4. ASSUME NEW x \in Host, x \in InUse'
      PROVE  /\ host[x] \in ChannelHost /\ host'[x] \in ChannelHost
             /\ host'[x].id = host[x].id /\ host'[x].conn = host[x].conn
             /\ host'[x].up => host[x].up
  BY <1>1, <1>3, <1>4, IDFacts DEF HostsKept
<1>5. InPlace'
  <2>1. /\ \A k \in DOMAIN channels' : channels'[k] \in Host /\ channels'[k] \in InUse'
        /\ \A k \in DOMAIN ackChannels' : ackChannels'[k] \in Host /\ ackChannels'[k] \in InUse'
        /\ \A t \in Thread : chan'[t] # None => chan'[t] \in Host /\ chan'[t] \in InUse'
    <3>1. /\ channels' \in Seq(Host) /\ ackChannels' \in Seq(Host)
          /\ chan' \in [Thread -> Host \cup {None}]
      BY <1>2 DEF Kept, PoolsTypeOK
    <3> QED BY <3>1, InRange DEF InUse
  <2>2. \A x \in Host : x \in InUse' =>
           (PlainHost(x) => PlainHost(x)') /\ (AckHost(x) => AckHost(x)')
    BY <1>4 DEF PlainHost, AckHost
  <2> QED BY <1>2, <2>1, <2>2 DEF Kept, QueuesKept, InPlace
<1> QED BY <1>1, <1>2, <1>4, <1>5

(* The channel that open makes: a host nobody had, on the connection in    *)
(* hand, which has one more.                                               *)
Opened(t, h) ==
    /\ host'[h] = NewChannelHost(Needed(t), conn[t]) /\ h \in InUse'
    /\ \A x \in Host : x # h =>
          host'[x] = host[x] \/ (host'[x] = NoHost /\ x \notin InUse')

(* open keeps types and places, and makes a channel of the ID it needs.    *)
LEMMA OpenStep ==
    ASSUME PoolsInv, NEW t \in Thread, NEW h \in Host, open(t, h)
    PROVE  /\ PoolsTypeOK' /\ Places' /\ Phases' /\ InPlace' /\ Opened(t, h)
           /\ host[h] = NoHost /\ h \notin InUse
           /\ conn[t] \in Connection /\ Needed(t) \in PlainID \cup AckID
           /\ op[t] # "Initialize" => op[t] = Kind(Needed(t)) /\ chan[t] \in Host
<1> USE DEF AtPc, Goto
<1>t. PoolTypes /\ ThreadTypes /\ PlaceOf(t) /\ Phases
  BY Parts, TypesSplit DEF Places
<1>1. /\ pc[t] = "open" /\ conn[t] \in Connection /\ attempts[t] \in 0 .. 4
      /\ op[t] \in {"Initialize", "plain", "ack"}
      /\ op[t] # "Initialize" => chan[t] \in Host
  <2>1. pc[t] = "open"
    BY DEF open
  <2>2. conn[t] # None /\ (op[t] # "Initialize" => chan[t] # None)
    BY <1>t, <2>1 DEF PlaceOf, PlaceFor
  <2> QED BY <1>t, <2>1, <2>2, Parts DEF ThreadTypes, InPlace
<1>2. /\ Needed(t) \in PlainID \cup AckID
      /\ op[t] = "plain" => Needed(t) \in PlainID
      /\ op[t] = "ack" => Needed(t) \in AckID
  <2>1. CASE op[t] = "Initialize"
    <3>1. channelID \in Nat /\ channelID < IDCount
      BY <1>t, <2>1 DEF Phases, PoolTypes
    <3> QED BY <2>1, <3>1, IDFacts DEF Needed
  <2>2. CASE op[t] # "Initialize"
    <3>1. Needed(t) = host[chan[t]].id /\ chan[t] # None
      BY <1>1, <2>2, IDFacts DEF Needed, IDof
    <3> QED BY <1>1, <2>2, <3>1, Parts DEF InPlace, PlainHost, AckHost
  <2> QED BY <2>1, <2>2
<1>3. host[h] = NoHost /\ h \notin InUse
  <2>1. host[h] = NoHost
    BY DEF open, Fresh
  <2>2. ~PlainHost(h) /\ ~AckHost(h)
    BY <2>1, IDFacts DEF PlainHost, AckHost
  <2>3. DOMAIN chan = Thread /\ h # None
    BY <1>t, IDFacts DEF ThreadTypes
  <2> QED BY <2>1, <2>2, <2>3, InRange, Parts DEF InUse, InPlace
<1> DEFINE id == Needed(t)
           keep == Kind(id) = "ack"
           last == op[t] = "Initialize" /\ id + 1 = MaxChannelCount + MaxAckChannelCount
<1>4. /\ AddChannel(conn[t], Kind(id))
      /\ connections' = Append(connections, conn[t]) /\ conn' = [conn EXCEPT ![t] = None]
      /\ ackChannels' = IF keep THEN Append(ackChannels, h) ELSE ackChannels
      /\ attempts' = [attempts EXCEPT ![t] = 0]
      /\ Sweep([host EXCEPT ![h] = NewChannelHost(id, conn[t])])
      /\ UNCHANGED <<connUp, flaggedConnections, connInitialized, drain, shutdowns>>
      /\ HasRoom(t)
  BY DEF open, ReturnConnection, counters
<1>5. op[t] = "Initialize" =>
         /\ channels' = IF keep THEN channels ELSE Append(channels, h)
         /\ channelID' = channelID + 1
         /\ initialized' = last
         /\ poolLock' = IF last THEN None ELSE t
         /\ op' = IF last THEN [op EXCEPT ![t] = "none"] ELSE op
         /\ pc' = [pc EXCEPT ![t] = IF last THEN "idle" ELSE "connection"]
         /\ UNCHANGED <<chan, flaggedChannels>>
  BY DEF open
<1>6. op[t] # "Initialize" =>
         /\ chan' = [chan EXCEPT ![t] = h]
         /\ flaggedChannels' = flaggedChannels \ {id}
         /\ pc' = [pc EXCEPT ![t] = "use"]
         /\ UNCHANGED <<channels, channelID, initialized, poolLock, op>>
  BY DEF open
<1> HIDE DEF id, keep, last
<1>7. /\ connections' \in Seq(Connection) /\ conn' \in [Thread -> Connection \cup {None}]
      /\ channels' \in Seq(Host) /\ ackChannels' \in Seq(Host)
  <2>1. /\ connections \in Seq(Connection) /\ conn \in [Thread -> Connection \cup {None}]
        /\ channels \in Seq(Host) /\ ackChannels \in Seq(Host)
    BY <1>t DEF PoolTypes, ThreadTypes
  <2>2. Append(connections, conn[t]) \in Seq(Connection)
    BY <1>1, <2>1
  <2>3. Append(channels, h) \in Seq(Host) /\ Append(ackChannels, h) \in Seq(Host)
    BY <2>1
  <2>4. conn' \in [Thread -> Connection \cup {None}]
    BY <1>4, <2>1
  <2> QED BY <1>4, <1>5, <1>6, <2>1, <2>2, <2>3, <2>4
<1>8. count' \in [Connection -> Counts]
  <2>1. count \in [Connection -> Counts]
    BY <1>t DEF PoolTypes, Counts
  <2>2. Kind(id) \in {"plain", "ack"}
    BY DEF Kind
  <2>3. CASE Kind(id) = "plain"
    <3>1. count' = [count EXCEPT ![conn[t]]["plain"] = @ + 1]
      BY <1>4, <2>3 DEF AddChannel
    <3>2. count[conn[t]].plain < MaxOn.plain
      BY <1>4, <2>3 DEF HasRoom, id
    <3> QED BY <1>1, <2>1, <3>1, <3>2, CountFacts DEF Counts
  <2>4. CASE Kind(id) = "ack"
    <3>1. count' = [count EXCEPT ![conn[t]]["ack"] = @ + 1]
      BY <1>4, <2>4 DEF AddChannel
    <3>2. count[conn[t]].ack < MaxOn.ack
      BY <1>4, <2>4 DEF HasRoom, id
    <3> QED BY <1>1, <2>1, <3>1, <3>2, CountFacts DEF Counts
  <2> QED BY <2>2, <2>3, <2>4
<1>9. /\ ThreadTypes' /\ Places' /\ Phases'
      /\ chan'[t] = IF op[t] = "Initialize" THEN None ELSE h
      /\ \A u \in Thread : u # t => chan'[u] = chan[u] /\ op'[u] = op[u]
      /\ op[t] # "Initialize" => op'[t] = op[t]
      /\ UNCHANGED shutdowns
  <2>1. shutdowns = 0 => connInitialized
    BY <1>1, <1>t DEF Phases
  <2>2. CASE op[t] = "Initialize"
    <3>1. /\ chan[t] = None /\ poolLock = t /\ shutdowns = 0 /\ ~initialized
          /\ channelID < IDCount /\ channelID \in Nat /\ id = channelID
          /\ last <=> channelID + 1 = IDCount
      <4>1. chan[t] = None
        BY <2>2, Parts DEF InPlace
      <4>2. poolLock = t
        BY <1>t, <2>2 DEF PlaceOf, PlaceFor
      <4>3. shutdowns = 0 /\ ~initialized /\ channelID < IDCount
        BY <1>t, <2>2 DEF Phases
      <4>4. channelID \in Nat
        BY <1>t DEF PoolTypes
      <4>5. id = channelID
        BY <2>2 DEF id, Needed
      <4>6. last <=> channelID + 1 = IDCount
        BY <2>2, <4>5 DEF last, IDCount
      <4> QED BY <4>1, <4>2, <4>3, <4>4, <4>5, <4>6
    <3>2. \A u \in Thread : u # t => op[u] # "Initialize"
      BY <3>1, Parts DEF Places, PlaceOf, PlaceFor
    <3>3. LockOf(t)
      BY <1>5, <2>2, <3>1 DEF LockOf
    <3>4. \A u \in Thread : op[u] \in {"none", "Initialize"} /\ pc[u] # "stranded"
      BY <1>t, <3>1 DEF Phases
    <3>5. CASE last
      <4>1. Moves(t, "idle", "none", None, None, 0)
        BY <1>4, <1>5, <1>t, <2>2, <3>1, <3>5 DEF Moves, ThreadTypes
      <4>2. Values("idle", "none", None, None, 0)
        BY DEF Values, PCs, Ops
      <4>3. PlaceFor(t, "idle", "none", None, None, 0, poolLock')
        BY <1>5, <2>2, <3>5, IDFacts DEF PlaceFor
      <4>4. /\ ThreadTypes' /\ Places' /\ pc'[t] = "idle" /\ op'[t] = "none" /\ chan'[t] = None
            /\ \A u \in Thread : u # t =>
                  pc'[u] = pc[u] /\ op'[u] = op[u] /\ chan'[u] = chan[u]
        BY <3>3, <4>1, <4>2, <4>3, MoveStep
      <4>5. Phases'
        <5>1. initialized' = TRUE /\ channelID' = IDCount
          BY <1>5, <2>2, <3>1, <3>5
        <5>2. \A u \in Thread : op'[u] = "none" /\ pc'[u] # "stranded"
          BY <3>2, <3>4, <4>4
        <5> QED BY <1>4, <1>t, <2>1, <3>1, <5>1, <5>2 DEF Phases
      <4> QED BY <1>4, <2>2, <4>4, <4>5
    <3>6. CASE ~last
      <4>1. Moves(t, "connection", "Initialize", None, None, 0)
        BY <1>4, <1>5, <1>t, <2>2, <3>1, <3>6 DEF Moves, ThreadTypes
      <4>2. Values("connection", "Initialize", None, None, 0)
        BY DEF Values, PCs, Ops
      <4>3. PlaceFor(t, "connection", "Initialize", None, None, 0, poolLock')
        BY <1>5, <2>2, <3>6, IDFacts DEF PlaceFor
      <4>4. /\ ThreadTypes' /\ Places' /\ pc'[t] = "connection" /\ op'[t] = "Initialize"
            /\ chan'[t] = None
            /\ \A u \in Thread : u # t =>
                  pc'[u] = pc[u] /\ op'[u] = op[u] /\ chan'[u] = chan[u]
        BY <3>3, <4>1, <4>2, <4>3, MoveStep
      <4>5. Phases'
        <5>1. ~initialized' /\ channelID' < IDCount /\ poolLock' = t
          BY <1>5, <2>2, <3>1, <3>6, V1PoolsAssumption DEF IDCount
        <5>2. \A u \in Thread : op'[u] \in {"none", "Initialize"} /\ pc'[u] # "stranded"
          BY <3>4, <4>4
        <5> QED BY <1>4, <1>t, <2>1, <3>1, <5>1, <5>2, IDFacts DEF Phases
      <4> QED BY <1>4, <2>2, <4>4, <4>5
    <3> QED BY <3>5, <3>6
  <2>3. CASE op[t] # "Initialize"
    <3>1. Moves(t, "use", op[t], h, None, 0)
      BY <1>4, <1>6, <1>t, <2>3 DEF Moves, ThreadTypes
    <3>2. Values("use", op[t], h, None, 0)
      BY <1>1 DEF Values, PCs, Ops
    <3>3. PlaceFor(t, "use", op[t], h, None, 0, poolLock')
      BY <1>1, <1>6, <1>t, <2>3, IDFacts DEF PlaceOf, PlaceFor
    <3>4. LockOf(t)
      BY <1>6, <2>3 DEF LockOf
    <3>5. /\ ThreadTypes' /\ Places' /\ pc'[t] = "use" /\ op'[t] = op[t] /\ chan'[t] = h
          /\ \A u \in Thread : u # t => pc'[u] = pc[u] /\ op'[u] = op[u] /\ chan'[u] = chan[u]
      BY <3>1, <3>2, <3>3, <3>4, MoveStep
    <3>6. Phases'
      BY <1>1, <1>4, <1>6, <1>t, <2>1, <2>3, <3>5 DEF Phases
    <3> QED BY <1>4, <2>3, <3>5, <3>6
  <2> QED BY <2>2, <2>3
<1>10. h \in InUse'
  <2>1. CASE op[t] = "Initialize"
    <3>1. /\ Append(channels, h)[Len(channels) + 1] = h
          /\ Len(channels) + 1 \in DOMAIN Append(channels, h)
      BY <1>t DEF PoolTypes
    <3>2. /\ Append(ackChannels, h)[Len(ackChannels) + 1] = h
          /\ Len(ackChannels) + 1 \in DOMAIN Append(ackChannels, h)
      BY <1>t DEF PoolTypes
    <3> QED BY <1>4, <1>5, <2>1, <3>1, <3>2, InRange DEF InUse
  <2>2. CASE op[t] # "Initialize"
    <3>1. chan'[t] = h /\ t \in DOMAIN chan'
      BY <1>9, <2>2 DEF ThreadTypes
    <3> QED BY <3>1, InRange DEF InUse
  <2> QED BY <2>1, <2>2
<1>11. Opened(t, h) /\ host' \in [Host -> ChannelHost \cup {NoHost}]
  <2>1. host \in [Host -> ChannelHost \cup {NoHost}]
    BY <1>t DEF PoolTypes
  <2>2. NewChannelHost(id, conn[t]) \in ChannelHost
    BY <1>1, <1>2 DEF NewChannelHost, ChannelHost, id
  <2>3. host' = [x \in Host |->
                   IF x \in InUse' THEN [host EXCEPT ![h] = NewChannelHost(id, conn[t])][x]
                   ELSE NoHost]
    BY <1>4 DEF Sweep, InUse
  <2>4. host' \in [Host -> ChannelHost \cup {NoHost}]
    BY <2>1, <2>2, <2>3
  <2> QED BY <1>10, <2>1, <2>3, <2>4 DEF Opened, id
<1>12. \A x \in Host : x \in InUse' => x = h \/ host'[x] = host[x]
  BY <1>11 DEF Opened
<1> DEFINE Plain(x) == host'[x] \in ChannelHost /\ host'[x].id \in PlainID
           Ackable(x) == host'[x] \in ChannelHost /\ host'[x].id \in AckID
<1>13. /\ Needed(t) \in PlainID => Plain(h)
       /\ Needed(t) \in AckID => Ackable(h)
  BY <1>1, <1>2, <1>11 DEF Opened, NewChannelHost, ChannelHost
<1>14. InPlace'
  <2>1. ASSUME NEW k \in DOMAIN channels' PROVE Plain(channels'[k])
    <3>1. channels'[k] \in Host /\ channels'[k] \in InUse'
      BY <1>7, <2>1, InRange DEF InUse
    <3>2. CASE channels'[k] = h
      <4>1. \A j \in DOMAIN channels : channels[j] # h
        BY <1>3, InRange DEF InUse
      <4>2. op[t] = "Initialize" /\ ~keep
        BY <1>5, <1>6, <2>1, <3>2, <4>1
      <4>3. Needed(t) \in PlainID
        BY <1>2, <4>2, IDFacts DEF keep, id
      <4> QED BY <1>13, <3>2, <4>3
    <3>3. CASE channels'[k] # h
      <4>1. k \in DOMAIN channels /\ channels'[k] = channels[k]
        <5>1. channels' = channels \/ channels' = Append(channels, h)
          BY <1>5, <1>6
        <5>2. channels \in Seq(Host)
          BY <1>t DEF PoolTypes
        <5> QED BY <2>1, <3>3, <5>1, <5>2
      <4> QED BY <1>12, <3>1, <3>3, <4>1, Parts DEF InPlace, PlainHost
    <3> QED BY <3>2, <3>3
  <2>2. ASSUME NEW k \in DOMAIN ackChannels' PROVE Ackable(ackChannels'[k])
    <3>1. ackChannels'[k] \in Host /\ ackChannels'[k] \in InUse'
      BY <1>7, <2>2, InRange DEF InUse
    <3>2. CASE ackChannels'[k] = h
      <4>1. \A j \in DOMAIN ackChannels : ackChannels[j] # h
        BY <1>3, InRange DEF InUse
      <4>2. keep
        BY <1>4, <2>2, <3>2, <4>1
      <4>3. Needed(t) \in AckID
        BY <1>2, <4>2, IDFacts DEF keep, id
      <4> QED BY <1>13, <3>2, <4>3
    <3>3. CASE ackChannels'[k] # h
      <4>1. k \in DOMAIN ackChannels /\ ackChannels'[k] = ackChannels[k]
        BY <1>4, <1>t, <2>2, <3>3 DEF PoolTypes
      <4> QED BY <1>12, <3>1, <3>3, <4>1, Parts DEF InPlace, AckHost
    <3> QED BY <3>2, <3>3
  <2>3. ASSUME NEW u \in Thread, chan'[u] # None
        PROVE  \/ op'[u] = "plain" /\ Plain(chan'[u])
               \/ op'[u] = "ack" /\ Ackable(chan'[u])
    <3>1. CASE u = t
      BY <1>1, <1>2, <1>9, <1>13, <2>3, <3>1
    <3>2. CASE u # t
      <4>1. chan'[u] = chan[u] /\ op'[u] = op[u]
        BY <1>9, <3>2
      <4>2. chan[u] \in Host /\ chan[u] \in InUse'
        <5>1. DOMAIN chan' = Thread
          BY <1>9 DEF ThreadTypes
        <5> QED BY <2>3, <4>1, <5>1, InRange, Parts DEF InUse
      <4>3. chan[u] # h
        BY <1>3, <1>t, InRange DEF InUse, ThreadTypes
      <4> QED BY <1>12, <2>3, <4>1, <4>2, <4>3, Parts DEF InPlace, PlainHost, AckHost
    <3> QED BY <3>1, <3>2
  <2> QED BY <2>1, <2>2, <2>3 DEF InPlace, PlainHost, AckHost
<1>15. PoolTypes'
  <2>1. /\ flaggedChannels' \subseteq flaggedChannels
        /\ initialized' \in BOOLEAN
        /\ poolLock' \in Thread \cup {None} /\ channelID' \in 0 .. IDCount
    <3>1. CASE op[t] = "Initialize"
      <4>1. channelID < IDCount /\ channelID \in 0 .. IDCount /\ IDCount \in Nat
        BY <1>t, <3>1, V1PoolsAssumption DEF Phases, PoolTypes, IDCount
      <4>2. channelID + 1 \in 0 .. IDCount
        BY <4>1
      <4>3. last \in BOOLEAN
        BY DEF last
      <4> QED BY <1>5, <3>1, <4>2, <4>3
    <3>2. CASE op[t] # "Initialize"
      BY <1>6, <1>t, <3>2 DEF PoolTypes
    <3> QED BY <3>1, <3>2
  <2>2. UNCHANGED <<connUp, flaggedConnections, connInitialized, drain>>
    BY <1>4
  <2> QED BY <1>7, <1>8, <1>11, <1>t, <2>1, <2>2 DEF PoolTypes, Counts
<1>16. op[t] # "Initialize" => op[t] = Kind(Needed(t)) /\ chan[t] \in Host
  BY <1>1, <1>2, IDFacts
<1> QED BY <1>1, <1>2, <1>3, <1>9, <1>11, <1>14, <1>15, <1>16, TypesSplit

-----------------------------------------------------------------------------
(* What goes from a queue into a hand and back is counted once all along.  *)
LEMMA Taken ==
    ASSUME NEW S, NEW s \in Seq(S), s # <<>>, NEW f, NEW g, NEW t \in Thread, NEW x, f[t] # x,
           g[t] = Head(s), \A u \in Thread \ {t} : g[u] = f[u]
    PROVE  Times(Tail(s), x) + HeldBy(g, x) = Times(s, x) + HeldBy(f, x)
<1>1. Times(s, x) = Times(Tail(s), x) + (IF Head(s) = x THEN 1 ELSE 0)
  BY TimesTail
<1>2. /\ HeldBy(f, x) \in Nat /\ HeldBy(g, x) \in Nat
      /\ g[t] # x => HeldBy(g, x) = HeldBy(f, x)
      /\ g[t] = x => HeldBy(g, x) = HeldBy(f, x) + 1
  BY HeldByExcept
<1>3. Times(s, x) \in Nat /\ Times(Tail(s), x) \in Nat
  <2>1. Tail(s) \in Seq(S)
    OBVIOUS
  <2> QED BY <2>1, TimesType
<1> QED BY <1>1, <1>2, <1>3

(* Who gives a thing back has it no more.                                  *)
LEMMA GivenBack ==
    ASSUME NEW f, NEW g, NEW t \in Thread, NEW x, g[t] # x,
           \A u \in Thread \ {t} : g[u] = f[u]
    PROVE  /\ HeldBy(f, x) \in Nat /\ HeldBy(g, x) \in Nat
           /\ HeldBy(f, x) = HeldBy(g, x) + (IF f[t] = x THEN 1 ELSE 0)
<1> DEFINE T == {u \in Thread : f[u] = x}
           U == {u \in Thread : g[u] = x}
<1>1. U = T \ {t} /\ (t \in T <=> f[t] = x)
  OBVIOUS
<1>2. HeldBy(f, x) = Cardinality(T) /\ HeldBy(g, x) = Cardinality(U)
  BY DEF HeldBy
<1>3. IsFiniteSet(T) /\ HeldBy(f, x) \in Nat /\ HeldBy(g, x) \in Nat
  BY HeldByType
<1> HIDE DEF T, U
<1>4. Cardinality(U) = IF t \in T THEN Cardinality(T) - 1 ELSE Cardinality(T)
  BY <1>1, <1>3, FS_RemoveElement
<1> QED BY <1>1, <1>2, <1>3, <1>4

(* Hands that hold the same count the same.                                *)
LEMMA HeldAlike ==
    ASSUME NEW f, NEW g, NEW x, \A u \in Thread : g[u] = f[u]
    PROVE  HeldBy(g, x) = HeldBy(f, x)
<1>1. {u \in Thread : g[u] = x} = {u \in Thread : f[u] = x}
  OBVIOUS
<1> QED BY <1>1 DEF HeldBy

(* Nobody holds what no hand has.                                          *)
LEMMA NoneHeld ==
    ASSUME NEW f, NEW x, \A u \in Thread : f[u] # x
    PROVE  HeldBy(f, x) = 0
<1>1. {u \in Thread : f[u] = x} = {}
  OBVIOUS
<1> QED BY <1>1, FS_EmptySet DEF HeldBy

(* An empty queue has nothing.                                             *)
LEMMA NoneQueued ==
    ASSUME NEW x
    PROVE  Times(<<>>, x) = 0
<1>1. {k \in DOMAIN <<>> : <<>>[k] = x} = {}
  OBVIOUS
<1> QED BY <1>1, FS_EmptySet DEF Times

-----------------------------------------------------------------------------
(* Before Shutdown is called only these steps are taken.                   *)
LEMMA UpSteps ==
    ASSUME PoolsInv, PoolsNext, shutdowns' = 0
    PROVE  /\ shutdowns = 0
           /\ \/ \E t \in Thread :
                    \/ Initialize(t) \/ GetChannel(t) \/ takeChannel(t) \/ takeAckable(t)
                    \/ createChannelHost(t) \/ putBack(t) \/ FlagChannel(t)
                    \/ ReturnChannel(t) \/ FlagAndReturnChannel(t) \/ LetGoAckable(t)
              \/ \E h \in Host : loseChannelHost(h)
              \/ \E i \in Connection : loseConnection(i)
<1>1. Phases /\ Places
  BY DEF PoolsInv
<1>2. ASSUME NEW t \in Thread, Shutdown(t)
      PROVE  FALSE
  BY <1>1, <1>2 DEF Shutdown, Phases
<1>3. ASSUME NEW t \in Thread, resetChannels(t) \/ resetConnections(t)
      PROVE  FALSE
  <2>1. op[t] = "Shutdown" /\ shutdowns' = shutdowns
    BY <1>1, <1>3 DEF resetChannels, resetConnections, AtPc, Places, PlaceOf, PlaceFor, counters
  <2> QED BY <1>1, <2>1 DEF Phases
<1>4. ASSUME NEW q \in Queues, look(q) \/ getNothing(q) \/ get(q)
      PROVE  FALSE
  <2>1. drain[q] # "done" /\ shutdowns' = shutdowns
    BY <1>4 DEF look, getNothing, get, counters
  <2> QED BY <1>1, <2>1 DEF Phases
<1>5. shutdowns = 0
  <2>1. UNCHANGED shutdowns
    <3>1. ASSUME NEW t \in Thread, Initialize(t) \/ GetChannel(t) \/ Step(t)
          PROVE  UNCHANGED shutdowns
      BY <3>1 DEF Step, createChannelHost, Initialize, GetChannel, takeChannel, takeAckable,
         takeConnection, dial, passOver, openFails, noConnection, open, putBack, FlagChannel,
         ReturnChannel, FlagAndReturnChannel, LetGoAckable, resetChannels, resetConnections,
         counters
    <3>2. ASSUME \/ \E h \in Host : loseChannelHost(h)
                 \/ \E i \in Connection : loseConnection(i)
          PROVE  UNCHANGED shutdowns
      BY <3>2 DEF loseChannelHost, loseConnection
    <3> QED BY <1>2, <1>4, <3>1, <3>2 DEF PoolsNext
  <2> QED BY <2>1
<1> QED BY <1>2, <1>3, <1>4, <1>5 DEF PoolsNext, Step

(* A new pool's connections are in its queue, each once.                   *)
LEMMA DialledOnce ==
    ASSUME NEW i \in Connection
    PROVE  Times([k \in 1 .. MaxConnectionCount |-> k - 1], i) = 1
<1> DEFINE s == [k \in 1 .. MaxConnectionCount |-> k - 1]
<1>1. {k \in DOMAIN s : s[k] = i} = {i + 1}
  BY V1PoolsAssumption DEF Connection
<1>2. Cardinality({i + 1}) = 1
  BY FS_Singleton
<1> QED BY <1>1, <1>2 DEF Times

(* Each connection has one owner.                                          *)
LEMMA OwnerStep ==
    ASSUME PoolsInv, PoolsNext, shutdowns' = 0
    PROVE  OneOwner'
<1> USE DEF AtPc, Goto
<1>t. /\ shutdowns = 0 /\ OneOwner /\ Places /\ Phases
      /\ connections \in Seq(Connection) /\ conn \in [Thread -> Connection \cup {None}]
  BY UpSteps DEF PoolsInv, PoolsTypeOK
<1> SUFFICES ASSUME connInitialized', NEW i \in Connection
             PROVE  Times(connections', i) + HeldBy(conn', i) = 1
  BY DEF OneOwner, Times, HeldBy
<1>1. CASE UNCHANGED <<connections, conn, connInitialized>>
  BY <1>1, <1>t DEF OneOwner
<1>2. ASSUME NEW t \in Thread, takeConnection(t)
      PROVE  Times(connections', i) + HeldBy(conn', i) = 1
  <2>1. /\ connections # <<>> /\ connections' = Tail(connections) /\ connInitialized
        /\ conn' = [conn EXCEPT ![t] = Head(connections)] /\ pc[t] = "connection"
    BY <1>2 DEF takeConnection
  <2>2. conn[t] = None
    BY <1>t, <2>1 DEF Places, PlaceOf, PlaceFor
  <2>3. conn[t] # i
    BY <2>2, IDFacts
  <2>4. conn'[t] = Head(connections) /\ \A u \in Thread \ {t} : conn'[u] = conn[u]
    BY <1>t, <2>1
  <2>5. Times(Tail(connections), i) + HeldBy(conn', i) = Times(connections, i) + HeldBy(conn, i)
    <3>1. connections \in Seq(Connection) /\ connections # <<>>
      BY <1>t, <2>1
    <3> QED BY <2>3, <2>4, <3>1, Taken
  <2> QED BY <1>t, <2>1, <2>5 DEF OneOwner
<1>3. ASSUME NEW t \in Thread,
             passOver(t) \/ openFails(t) \/ \E h \in Host : open(t, h)
      PROVE  Times(connections', i) + HeldBy(conn', i) = 1
  <2>1. /\ connections' = Append(connections, conn[t]) /\ connInitialized
        /\ conn' = [conn EXCEPT ![t] = None] /\ pc[t] = "open"
    BY <1>3 DEF passOver, openFails, open, ReturnConnection
  <2>2. conn[t] \in Connection
    BY <1>t, <2>1 DEF Places, PlaceOf, PlaceFor
  <2>3. conn'[t] # i /\ \A u \in Thread \ {t} : conn'[u] = conn[u]
    BY <1>t, <2>1, IDFacts
  <2>4. Times(connections', i) = Times(connections, i) + (IF conn[t] = i THEN 1 ELSE 0)
    BY <1>t, <2>1, <2>2, TimesAppend
  <2>5. /\ HeldBy(conn', i) \in Nat
        /\ (conn[t] = i <=> conn'[t] = i) => HeldBy(conn', i) = HeldBy(conn, i)
        /\ conn[t] = i /\ conn'[t] # i => HeldBy(conn', i) = HeldBy(conn, i) - 1
    BY <2>3, HeldByExcept
  <2>6. /\ Times(connections, i) \in Nat /\ HeldBy(conn, i) \in Nat
        /\ Times(connections, i) + HeldBy(conn, i) = 1
    BY <1>t, <2>1, TimesType, HeldByType DEF OneOwner
  <2> QED BY <2>3, <2>4, <2>5, <2>6
<1>4. ASSUME NEW t \in Thread, Initialize(t), ~connInitialized
      PROVE  Times(connections', i) + HeldBy(conn', i) = 1
  <2>1. /\ connections' = [k \in 1 .. MaxConnectionCount |-> k - 1] /\ conn' = conn
        /\ poolLock = None /\ ~initialized
    BY <1>4 DEF Initialize
  <2>2. ASSUME NEW u \in Thread PROVE conn'[u] # i
    <3>1. op[u] \in {"none", "Initialize"} /\ PlaceOf(u)
      BY <1>t, <2>1 DEF Phases, Places
    <3>2. op[u] = "none"
      BY <2>1, <3>1, IDFacts DEF PlaceOf, PlaceFor
    <3>3. conn[u] = None
      BY <3>1, <3>2 DEF PlaceOf, PlaceFor
    <3> QED BY <2>1, <3>3, IDFacts
  <2>3. HeldBy(conn', i) = 0
    BY <2>2, NoneHeld
  <2> QED BY <2>1, <2>3, DialledOnce
<1>5. ASSUME NEW t \in Thread,
             \/ (Initialize(t) /\ connInitialized) \/ GetChannel(t) \/ takeChannel(t)
             \/ takeAckable(t) \/ dial(t) \/ noConnection(t) \/ putBack(t) \/ FlagChannel(t)
             \/ ReturnChannel(t) \/ FlagAndReturnChannel(t) \/ LetGoAckable(t)
      PROVE  UNCHANGED <<connections, conn, connInitialized>>
  BY <1>5 DEF Initialize, GetChannel, takeChannel, takeAckable, dial, noConnection, putBack,
     FlagChannel, ReturnChannel, FlagAndReturnChannel, LetGoAckable, connPool
<1>6. ASSUME \/ \E h \in Host : loseChannelHost(h)
             \/ \E j \in Connection : loseConnection(j)
      PROVE  UNCHANGED <<connections, conn, connInitialized>>
  BY <1>6 DEF loseChannelHost, loseConnection, connPool, threads
<1> QED BY <1>1, <1>2, <1>3, <1>4, <1>5, <1>6, UpSteps DEF createChannelHost

-----------------------------------------------------------------------------
(* A goroutine that has a plain channel, to use or to replace.             *)
HasPlain(t) == op[t] = "plain" /\ HasChannel(t)

(* A sequence is a function, and so is one with an element more.           *)
LEMMA SeqIs ==
    ASSUME NEW S, NEW s \in Seq(S)
    PROVE  s = [k \in 1 .. Len(s) |-> s[k]]
OBVIOUS

(* An element at the end.                                                  *)
LEMMA AppendIs ==
    ASSUME NEW S, NEW s \in Seq(S), NEW e \in S, NEW n, n = Len(s)
    PROVE  Append(s, e) = [k \in 1 .. n + 1 |-> IF k \in 1 .. n THEN s[k] ELSE e]
<1>1. Append(s, e) \in Seq(S) /\ Len(Append(s, e)) = n + 1 /\ n \in Nat
  OBVIOUS
<1>2. \A k \in 1 .. n + 1 : Append(s, e)[k] = IF k \in 1 .. n THEN s[k] ELSE e
  OBVIOUS
<1>3. Append(s, e) = [k \in 1 .. n + 1 |-> Append(s, e)[k]]
  BY <1>1, SeqIs
<1> QED BY <1>2, <1>3

(* Queued and Held by what is queued and held; before Shutdown, each plain *)
(* channel that has been made is in one of them, once.                     *)
LEMMA HeldIs ==
    ASSUME PoolsInv
    PROVE  /\ Queued \in Seq(PlainID) /\ DOMAIN Queued = DOMAIN channels
           /\ \A k \in DOMAIN channels : Queued[k] = host[channels[k]].id
           /\ channels # <<>> => /\ Queued # <<>> /\ Head(Queued) = host[Head(channels)].id
                                 /\ Tail(Queued) = [k \in DOMAIN Tail(channels) |->
                                                       host[Tail(channels)[k]].id]
           /\ \A h \in Host : Append(Queued, host[h].id)
                 = [k \in DOMAIN Append(channels, h) |-> host[Append(channels, h)[k]].id]
           /\ \A t \in Thread : HasPlain(t) =>
                 Held[t] = host[chan[t]].id /\ chan[t] \in Host /\ host[chan[t]].id \in PlainID
           /\ \A t \in Thread : ~HasPlain(t) => Held[t] = None
           /\ shutdowns = 0 => \A c \in PlainID :
                 Times(Queued, c) + HeldBy(Held, c) = IF c < channelID THEN 1 ELSE 0
<1>1. channels \in Seq(Host) /\ \A k \in DOMAIN channels : PlainHost(channels[k])
  BY Parts DEF PoolsTypeOK, InPlace
<1>2. Queued \in Seq(PlainID)
  <2>1. \A k \in 1 .. Len(channels) : host[channels[k]].id \in PlainID
    BY <1>1 DEF PlainHost
  <2>2. Queued = [k \in 1 .. Len(channels) |-> host[channels[k]].id] /\ Len(channels) \in Nat
    BY <1>1 DEF Queued
  <2> QED BY <2>1, <2>2
<1>3. /\ DOMAIN Queued = DOMAIN channels
      /\ \A k \in DOMAIN channels : Queued[k] = host[channels[k]].id
  BY DEF Queued
<1>4. ASSUME channels # <<>>
      PROVE  /\ Queued # <<>> /\ Head(Queued) = host[Head(channels)].id
             /\ Tail(Queued) = [k \in DOMAIN Tail(channels) |-> host[Tail(channels)[k]].id]
  <2>1. Len(Queued) = Len(channels)
    BY <1>1, <1>2, <1>3
  <2>2. Queued # <<>> /\ Head(Queued) = host[Head(channels)].id
    BY <1>1, <1>2, <1>3, <1>4, <2>1
  <2>3. /\ DOMAIN Tail(Queued) = 1 .. Len(channels) - 1
        /\ DOMAIN Tail(channels) = 1 .. Len(channels) - 1
        /\ \A k \in 1 .. Len(channels) - 1 :
              Tail(Queued)[k] = Queued[k + 1] /\ Tail(channels)[k] = channels[k + 1]
    BY <1>1, <1>2, <1>4, <2>1, <2>2
  <2>4. \A k \in 1 .. Len(channels) - 1 : Tail(Queued)[k] = host[Tail(channels)[k]].id
    BY <1>1, <1>3, <2>3
  <2>5. Tail(Queued) = [k \in 1 .. Len(channels) - 1 |-> Tail(Queued)[k]]
    <3>1. Tail(Queued) \in Seq(PlainID)
      BY <1>2, <2>2
    <3>2. Tail(Queued) = [k \in 1 .. Len(Tail(Queued)) |-> Tail(Queued)[k]]
      BY <3>1, SeqIs
    <3>3. Len(Tail(Queued)) = Len(channels) - 1
      BY <1>1, <1>2, <2>1, <2>2
    <3> QED BY <3>2, <3>3
  <2> QED BY <2>2, <2>3, <2>4, <2>5
<1>5. ASSUME NEW h \in Host
      PROVE  Append(Queued, host[h].id)
               = [k \in DOMAIN Append(channels, h) |-> host[Append(channels, h)[k]].id]
  <2>1. Len(Queued) = Len(channels) /\ Len(channels) \in Nat
    BY <1>1, <1>2, <1>3
  <2>2. /\ Append(Queued, host[h].id)
             = [k \in 1 .. Len(channels) + 1 |->
                   IF k \in 1 .. Len(channels) THEN Queued[k] ELSE host[h].id]
        /\ DOMAIN Append(channels, h) = 1 .. Len(channels) + 1
        /\ \A k \in 1 .. Len(channels) + 1 :
              Append(channels, h)[k] = IF k \in 1 .. Len(channels) THEN channels[k] ELSE h
    BY <1>1, <1>2, <2>1
  <2>3. \A k \in 1 .. Len(channels) : Queued[k] = host[channels[k]].id
    BY <1>1, <1>3
  <2> QED BY <2>2, <2>3
<1>6. ASSUME NEW t \in Thread, HasPlain(t)
      PROVE  Held[t] = host[chan[t]].id /\ chan[t] \in Host /\ host[chan[t]].id \in PlainID
  <2>1. chan[t] # None
    BY <1>6, Parts DEF HasPlain, HasChannel, Places, PlaceOf, PlaceFor
  <2> QED BY <1>6, <2>1, Parts DEF Held, HasPlain, IDof, InPlace, PlainHost
<1>7. \A t \in Thread : ~HasPlain(t) => Held[t] = None
  BY DEF Held, HasPlain
<1>8. shutdowns = 0 => PlainOnce
  BY DEF PoolsInv
<1> QED BY <1>2, <1>3, <1>4, <1>5, <1>6, <1>7, <1>8 DEF PlainOnce

(* Before Shutdown is called: a step of a goroutine, a new channel, a      *)
(* loss.                                                                   *)
LEMMA UpCases ==
    ASSUME PoolsInv, PoolsNext, shutdowns' = 0
    PROVE  /\ shutdowns = 0
           /\ \/ \E t \in Thread : StepOf(t)
              \/ \E t \in Thread, h \in Host : open(t, h)
              \/ LossOf
BY UpSteps DEF StepOf, LossOf, createChannelHost

(* It leaves the other goroutines alone.                                   *)
LEMMA OthersAlone ==
    ASSUME PoolsInv, NEW t \in Thread, StepOf(t) \/ \E h \in Host : open(t, h)
    PROVE  \A u \in Thread \ {t} : pc'[u] = pc[u] /\ op'[u] = op[u] /\ chan'[u] = chan[u]
<1> USE DEF Goto
<1>t. /\ pc = [u \in Thread |-> pc[u]] /\ op = [u \in Thread |-> op[u]]
      /\ chan = [u \in Thread |-> chan[u]]
  BY DEF PoolsInv, PoolsTypeOK
<1>1. \/ UNCHANGED pc
      \/ \E p : pc' = [pc EXCEPT ![t] = p]
  BY DEF StepOf, Initialize, GetChannel, takeChannel, takeAckable, takeConnection, dial, passOver,
     openFails, noConnection, GiveUp, open, putBack, FlagChannel, ReturnChannel,
     FlagAndReturnChannel, LetGoAckable
<1>2. \/ UNCHANGED op
      \/ \E o : op' = [op EXCEPT ![t] = o]
  BY DEF StepOf, Initialize, GetChannel, takeChannel, takeAckable, takeConnection, dial, passOver,
     openFails, noConnection, GiveUp, open, putBack, FlagChannel, ReturnChannel,
     FlagAndReturnChannel, LetGoAckable
<1>3. \/ UNCHANGED chan
      \/ \E h : chan' = [chan EXCEPT ![t] = h]
  BY DEF StepOf, Initialize, GetChannel, takeChannel, takeAckable, takeConnection, dial, passOver,
     openFails, noConnection, GiveUp, open, putBack, FlagChannel, ReturnChannel,
     FlagAndReturnChannel, LetGoAckable
<1> QED BY <1>t, <1>1, <1>2, <1>3

(* After a step that makes no channel the IDs are those of before.         *)
LEMMA KeptIDs ==
    ASSUME PoolsInv, QuietStep
    PROVE  /\ Queued' = [k \in DOMAIN channels' |-> host[channels'[k]].id]
           /\ \A t \in Thread : HasPlain(t)' => Held'[t] = host[chan'[t]].id
           /\ \A t \in Thread : ~HasPlain(t)' => Held'[t] = None
<1>1. /\ PoolsTypeOK' /\ Places'
      /\ \A x \in Host : x \in InUse' => host'[x].id = host[x].id
  BY AllKeep DEF Kept
<1>2. ASSUME NEW k \in DOMAIN channels'
      PROVE  host'[channels'[k]].id = host[channels'[k]].id
  <2>1. channels' \in Seq(Host)
    BY <1>1 DEF PoolsTypeOK
  <2>2. channels'[k] \in Host /\ channels'[k] \in InUse'
    BY <1>2, <2>1, InRange DEF InUse
  <2> QED BY <1>1, <2>2
<1>3. Queued' = [k \in DOMAIN channels' |-> host[channels'[k]].id]
  BY <1>2 DEF Queued
<1>4. ASSUME NEW t \in Thread, HasPlain(t)'
      PROVE  Held'[t] = host[chan'[t]].id
  <2>1. chan'[t] # None
    BY <1>1, <1>4 DEF HasPlain, HasChannel, Places, PlaceOf, PlaceFor
  <2>2. chan'[t] \in Host /\ DOMAIN chan' = Thread
    BY <1>1, <2>1 DEF PoolsTypeOK
  <2>3. chan'[t] \in InUse'
    BY <2>2, InRange DEF InUse
  <2>4. Held'[t] = host'[chan'[t]].id
    BY <1>4 DEF Held, HasPlain, IDof
  <2> QED BY <1>1, <2>2, <2>3, <2>4
<1>5. \A t \in Thread : ~HasPlain(t)' => Held'[t] = None
  BY DEF Held, HasPlain
<1> QED BY <1>3, <1>4, <1>5

(* Each plain channel is in one place, by its ID.                          *)
LEMMA OnceStep ==
    ASSUME PoolsInv, QuietStep, (\E t \in Thread : StepOf(t)) \/ LossOf, shutdowns = 0
    PROVE  PlainOnce'
<1> USE DEF AtPc, Goto
<1>t. /\ PoolsTypeOK /\ Places /\ Phases /\ InPlace
  BY DEF PoolsInv
<1> SUFFICES ASSUME NEW c \in PlainID
             PROVE  Times(Queued', c) + HeldBy(Held', c) = IF c < channelID' THEN 1 ELSE 0
  BY DEF PlainOnce, Times, HeldBy
<1>c. /\ Times(Queued, c) + HeldBy(Held, c) = IF c < channelID THEN 1 ELSE 0
      /\ Times(Queued, c) \in Nat /\ HeldBy(Held, c) \in Nat /\ c # None
  BY HeldIs, TimesType, HeldByType, IDFacts
<1>s. ASSUME UNCHANGED <<channels, channelID>>, \A u \in Thread : Held'[u] = Held[u]
      PROVE  Times(Queued', c) + HeldBy(Held', c) = IF c < channelID' THEN 1 ELSE 0
  <2>1. Queued' = Queued
    BY <1>s, KeptIDs DEF Queued
  <2>2. HeldBy(Held', c) = HeldBy(Held, c)
    BY <1>s, HeldAlike
  <2> QED BY <1>c, <1>s, <2>1, <2>2
<1>1. ASSUME NEW t \in Thread, StepOf(t)
      PROVE  Times(Queued', c) + HeldBy(Held', c) = IF c < channelID' THEN 1 ELSE 0
  <2>o. \A u \in Thread \ {t} : Held'[u] = Held[u]
    <3> SUFFICES ASSUME NEW u \in Thread \ {t} PROVE Held'[u] = Held[u]
      OBVIOUS
    <3>1. pc'[u] = pc[u] /\ op'[u] = op[u] /\ chan'[u] = chan[u]
      BY <1>1, OthersAlone
    <3>2. HasPlain(u)' <=> HasPlain(u)
      BY <3>1 DEF HasPlain, HasChannel
    <3>3. CASE HasPlain(u)
      BY <3>1, <3>2, <3>3, HeldIs, KeptIDs
    <3>4. CASE ~HasPlain(u)
      BY <3>2, <3>4, HeldIs, KeptIDs
    <3> QED BY <3>3, <3>4
  <2>s. ASSUME UNCHANGED <<channels, channelID>>,
               \/ ~HasPlain(t) /\ ~HasPlain(t)'
               \/ HasPlain(t) /\ HasPlain(t)' /\ chan'[t] = chan[t]
        PROVE  Times(Queued', c) + HeldBy(Held', c) = IF c < channelID' THEN 1 ELSE 0
    <3>1. Held'[t] = Held[t]
      BY <2>s, HeldIs, KeptIDs
    <3> QED BY <1>s, <2>o, <2>s, <3>1
  <2>p. PlaceOf(t) /\ pc \in [Thread -> PCs] /\ op \in [Thread -> Ops]
        /\ chan \in [Thread -> Host \cup {None}]
    BY <1>t, TypesSplit DEF Places, ThreadTypes
  <2>1. CASE takeChannel(t)
    <3>1. /\ channels # <<>> /\ channels' = Tail(channels) /\ channelID' = channelID
          /\ chan' = [chan EXCEPT ![t] = Head(channels)] /\ op' = op /\ op[t] = "plain"
          /\ pc[t] = "take" /\ pc' \in {[pc EXCEPT ![t] = "connection"], [pc EXCEPT ![t] = "use"]}
      BY <2>1 DEF takeChannel
    <3>2. ~HasPlain(t) /\ HasPlain(t)' /\ chan'[t] = Head(channels)
      BY <2>p, <3>1 DEF HasPlain, HasChannel
    <3>3. Queued' = Tail(Queued) /\ Queued # <<>> /\ Queued \in Seq(PlainID)
      BY <3>1, HeldIs, KeptIDs
    <3>4. Held[t] # c /\ Held'[t] = Head(Queued)
      BY <1>c, <3>1, <3>2, HeldIs, KeptIDs
    <3>5. Times(Tail(Queued), c) + HeldBy(Held', c) = Times(Queued, c) + HeldBy(Held, c)
      BY <2>o, <3>3, <3>4, Taken
    <3> QED BY <1>c, <3>1, <3>3, <3>5
  <2>2. CASE /\ ReturnChannel(t) \/ FlagAndReturnChannel(t) \/ putBack(t)
             /\ Kind(IDof(t)) = "plain"
    <3>1. /\ channels' = Append(channels, chan[t]) /\ channelID' = channelID
          /\ pc[t] \in {"use", "put back"}
          /\ pc' \in {[pc EXCEPT ![t] = "idle"], [pc EXCEPT ![t] = "flag"],
                      [pc EXCEPT ![t] = "flag bad"]}
      BY <2>2 DEF ReturnChannel, FlagAndReturnChannel, putBack, PutChannel
    <3>2. op[t] = "plain"
      <4>1. chan[t] # None
        BY <2>p, <3>1 DEF PlaceOf, PlaceFor
      <4>2. ~AckHost(chan[t])
        BY <2>2, IDFacts DEF AckHost, IDof
      <4> QED BY <1>t, <4>1, <4>2 DEF InPlace
    <3>3. HasPlain(t) /\ ~HasPlain(t)'
      BY <2>p, <3>1, <3>2 DEF HasPlain, HasChannel
    <3>4. /\ Held[t] = host[chan[t]].id /\ host[chan[t]].id \in PlainID /\ chan[t] \in Host
          /\ Held'[t] # c
      BY <1>c, <3>3, HeldIs, KeptIDs
    <3>5. Queued' = Append(Queued, host[chan[t]].id)
      <4>1. Append(Queued, host[chan[t]].id)
              = [k \in DOMAIN Append(channels, chan[t]) |->
                   host[Append(channels, chan[t])[k]].id]
        BY <3>4, HeldIs
      <4>2. Queued' = [k \in DOMAIN channels' |-> host[channels'[k]].id]
        BY KeptIDs
      <4> QED BY <3>1, <4>1, <4>2
    <3> DEFINE e == host[chan[t]].id
    <3>6. Times(Queued', c) = Times(Queued, c) + (IF e = c THEN 1 ELSE 0)
      <4>1. Queued \in Seq(PlainID) /\ e \in PlainID /\ Queued' = Append(Queued, e)
        BY <3>4, <3>5, HeldIs
      <4> HIDE DEF e
      <4> QED BY <4>1, TimesAppend
    <3>7. /\ HeldBy(Held, c) = HeldBy(Held', c) + (IF Held[t] = c THEN 1 ELSE 0)
          /\ HeldBy(Held', c) \in Nat
      <4> DEFINE held == Held'
      <4>1. held[t] # c /\ \A u \in Thread \ {t} : held[u] = Held[u]
        BY <2>o, <3>4
      <4> HIDE DEF held
      <4>2. /\ HeldBy(Held, c) = HeldBy(held, c) + (IF Held[t] = c THEN 1 ELSE 0)
            /\ HeldBy(held, c) \in Nat
        BY <4>1, GivenBack
      <4> QED BY <4>2 DEF held
    <3>8. Held[t] = e
      BY <3>4
    <3> HIDE DEF e
    <3>9. ASSUME NEW m \in Nat, NEW n \in Nat, NEW k \in Nat, NEW j \in Nat,
                 NEW d \in {0, 1}, m = n + d, k = j + d
          PROVE  m + j = n + k
      BY <3>9
    <3>10. Times(Queued', c) + HeldBy(Held', c) = Times(Queued, c) + HeldBy(Held, c)
      <4> DEFINE d == IF e = c THEN 1 ELSE 0
      <4>1. /\ Times(Queued', c) = Times(Queued, c) + d /\ d \in {0, 1}
            /\ HeldBy(Held, c) = HeldBy(Held', c) + d
        BY <3>6, <3>7, <3>8
      <4> HIDE DEF d
      <4>2. Times(Queued', c) \in Nat
        BY <1>c, <4>1
      <4> QED BY <1>c, <3>7, <3>9, <4>1, <4>2
    <3> QED BY <1>c, <3>1, <3>10
  <2>3. CASE (openFails(t) \/ noConnection(t)) /\ op[t] = "Initialize"
    <3>1. channels' = <<>> /\ channelID' = 0 /\ op' = [op EXCEPT ![t] = "none"]
      BY <2>3 DEF openFails, noConnection, GiveUp
    <3>2. \A u \in Thread : op[u] \in {"none", "Initialize"}
      BY <1>t, <2>3 DEF Phases
    <3>3. \A u \in Thread : ~HasPlain(u)'
      BY <2>p, <3>1, <3>2 DEF HasPlain
    <3>4. HeldBy(Held', c) = 0
      <4>1. \A u \in Thread : Held'[u] # c
        BY <1>c, <3>3, KeptIDs
      <4> QED BY <4>1, NoneHeld
    <3>5. Queued' = <<>>
      BY <3>1, KeptIDs
    <3>6. ~(c < 0)
      BY IDFacts
    <3> QED BY <3>1, <3>4, <3>5, <3>6, NoneQueued
  <2>4. CASE (openFails(t) \/ noConnection(t)) /\ op[t] # "Initialize"
    <3>1. /\ UNCHANGED <<channels, channelID, op, chan>> /\ pc[t] \in {"open", "connection"}
          /\ pc' \in {[pc EXCEPT ![t] = "put back"], [pc EXCEPT ![t] = "connection"]}
      BY <2>4 DEF openFails, noConnection, GiveUp, NextTry
    <3>2. HasPlain(t) <=> HasPlain(t)'
      BY <2>p, <3>1 DEF HasPlain, HasChannel
    <3> QED BY <2>s, <3>1, <3>2
  <2>5. CASE takeConnection(t) \/ dial(t) \/ passOver(t)
    <3>1. /\ UNCHANGED <<channels, channelID, op, chan>>
          /\ pc[t] \in {"open", "connection", "dial"}
          /\ pc' \in {[pc EXCEPT ![t] = "open"], [pc EXCEPT ![t] = "dial"],
                      [pc EXCEPT ![t] = "connection"]}
      BY <2>5 DEF takeConnection, dial, passOver, chanPool
    <3>2. HasPlain(t) <=> HasPlain(t)'
      BY <2>p, <3>1 DEF HasPlain, HasChannel
    <3> QED BY <2>s, <3>1, <3>2
  <2>6. CASE Initialize(t) \/ GetChannel(t)
    <3>1. /\ UNCHANGED <<channels, channelID>> /\ pc[t] = "idle"
          /\ \/ op' = [op EXCEPT ![t] = "Initialize"]
             \/ pc' = [pc EXCEPT ![t] = "take"]
      BY <2>6 DEF Initialize, GetChannel, chanPool
    <3>2. ~HasPlain(t) /\ ~HasPlain(t)'
      BY <2>p, <3>1 DEF HasPlain, HasChannel
    <3> QED BY <2>s, <3>1, <3>2
  <2>7. CASE FlagChannel(t)
    <3>1. /\ UNCHANGED <<channels, channelID>> /\ pc[t] \in {"flag", "flag bad"}
          /\ pc' \in {[pc EXCEPT ![t] = "idle"], [pc EXCEPT ![t] = "take"]}
      BY <2>7 DEF FlagChannel
    <3>2. ~HasPlain(t) /\ ~HasPlain(t)'
      BY <2>p, <3>1 DEF HasPlain, HasChannel
    <3> QED BY <2>s, <3>1, <3>2
  <2>8. CASE \/ takeAckable(t) \/ LetGoAckable(t)
             \/ /\ ReturnChannel(t) \/ FlagAndReturnChannel(t) \/ putBack(t)
                /\ Kind(IDof(t)) # "plain"
    <3>1. /\ UNCHANGED <<channels, channelID>>
          /\ op' = op \/ op' = [op EXCEPT ![t] = "none"]
      BY <2>8 DEF takeAckable, LetGoAckable, ReturnChannel, FlagAndReturnChannel, putBack,
         PutChannel, Kind
    <3>2. op[t] # "plain"
      <4>1. CASE takeAckable(t)
        BY <4>1 DEF takeAckable
      <4>2. CASE ~takeAckable(t)
        <5>1. Kind(IDof(t)) # "plain" /\ pc[t] \in {"use", "put back"}
          BY <2>8, <4>2 DEF LetGoAckable, ReturnChannel, FlagAndReturnChannel, putBack
        <5>2. chan[t] # None
          BY <2>p, <5>1 DEF PlaceOf, PlaceFor
        <5>3. ~PlainHost(chan[t])
          BY <5>1, IDFacts DEF PlainHost, IDof
        <5> QED BY <1>t, <5>2, <5>3 DEF InPlace
      <4> QED BY <4>1, <4>2
    <3>3. ~HasPlain(t) /\ ~HasPlain(t)'
      BY <2>p, <3>1, <3>2 DEF HasPlain
    <3> QED BY <2>s, <3>1, <3>3
  <2> QED BY <1>1, <2>1, <2>2, <2>3, <2>4, <2>5, <2>6, <2>7, <2>8 DEF StepOf
<1>2. ASSUME LossOf
      PROVE  Times(Queued', c) + HeldBy(Held', c) = IF c < channelID' THEN 1 ELSE 0
  <2>1. UNCHANGED <<channels, channelID, pc, op, chan>>
    BY <1>2 DEF LossOf, loseChannelHost, loseConnection, threads
  <2>2. ASSUME NEW u \in Thread PROVE Held'[u] = Held[u]
    <3>1. HasPlain(u)' <=> HasPlain(u)
      BY <2>1 DEF HasPlain, HasChannel
    <3>2. CASE HasPlain(u)
      BY <2>1, <3>1, <3>2, HeldIs, KeptIDs
    <3>3. CASE ~HasPlain(u)
      BY <3>1, <3>3, HeldIs, KeptIDs
    <3> QED BY <3>2, <3>3
  <2> QED BY <1>s, <2>1, <2>2
<1> QED BY <1>1, <1>2

(* The same when a channel is made: Initialize's is the next one, another  *)
(* has the ID of the one it replaces.                                      *)
LEMMA OnceOpen ==
    ASSUME PoolsInv, NEW t \in Thread, NEW h \in Host, open(t, h), shutdowns = 0
    PROVE  PlainOnce'
<1> USE DEF AtPc, Goto
<1>t. /\ PoolsTypeOK /\ Places /\ Phases /\ InPlace
      /\ PoolsTypeOK' /\ Places' /\ InPlace' /\ Opened(t, h) /\ h \notin InUse
      /\ Needed(t) \in PlainID \cup AckID
      /\ op[t] # "Initialize" => op[t] = Kind(Needed(t)) /\ chan[t] \in Host
  BY OpenStep DEF PoolsInv
<1>p. /\ channels \in Seq(Host) /\ channels' \in Seq(Host)
      /\ pc \in [Thread -> PCs] /\ op \in [Thread -> Ops] /\ channelID \in 0 .. IDCount
      /\ chan \in [Thread -> Host \cup {None}] /\ chan' \in [Thread -> Host \cup {None}]
  BY <1>t, TypesSplit DEF ThreadTypes, PoolTypes
<1> SUFFICES ASSUME NEW c \in PlainID
             PROVE  Times(Queued', c) + HeldBy(Held', c) = IF c < channelID' THEN 1 ELSE 0
  BY DEF PlainOnce, Times, HeldBy
<1>c. /\ Times(Queued, c) + HeldBy(Held, c) = IF c < channelID THEN 1 ELSE 0
      /\ Times(Queued, c) \in Nat /\ HeldBy(Held, c) \in Nat /\ c # None
  BY HeldIs, TimesType, HeldByType, IDFacts
<1>h. host'[h].id = Needed(t)
  BY <1>t DEF Opened, NewChannelHost
<1>i. \A x \in Host : x \in InUse' /\ x # h => host'[x].id = host[x].id
  BY <1>t DEF Opened
<1>q. /\ \A k \in DOMAIN channels : channels[k] \in Host /\ channels[k] # h
      /\ \A k \in DOMAIN channels' : channels'[k] \in Host /\ channels'[k] \in InUse'
      /\ \A u \in Thread : chan[u] # h /\ (chan'[u] # None => chan'[u] \in InUse')
  BY <1>t, <1>p, InRange DEF InUse
<1>o. \A u \in Thread \ {t} : Held'[u] = Held[u]
  <2> SUFFICES ASSUME NEW u \in Thread \ {t} PROVE Held'[u] = Held[u]
    OBVIOUS
  <2>1. pc'[u] = pc[u] /\ op'[u] = op[u] /\ chan'[u] = chan[u]
    BY OthersAlone
  <2>2. HasPlain(u)' <=> HasPlain(u)
    BY <2>1 DEF HasPlain, HasChannel
  <2>3. CASE HasPlain(u)
    <3>1. Held[u] = host[chan[u]].id /\ chan[u] \in Host
      BY <2>3, HeldIs
    <3>2. chan'[u] # None /\ chan'[u] # h
      BY <1>q, <2>1, <3>1, IDFacts
    <3>3. host'[chan'[u]].id = host[chan[u]].id
      BY <1>i, <1>q, <2>1, <3>1, <3>2
    <3> QED BY <2>2, <2>3, <3>1, <3>3 DEF Held, HasPlain, IDof
  <2>4. CASE ~HasPlain(u)
    BY <2>2, <2>4 DEF Held, HasPlain
  <2> QED BY <2>3, <2>4
<1>s. ASSUME channels' = channels PROVE Queued' = Queued
  <2>1. \A k \in DOMAIN channels : host'[channels'[k]].id = host[channels[k]].id
    BY <1>i, <1>q, <1>s
  <2> QED BY <1>s, <2>1 DEF Queued
<1>1. CASE op[t] = "Initialize"
  <2>1. /\ channelID' = channelID + 1 /\ Needed(t) = channelID
        /\ channels' = IF Kind(channelID) = "ack" THEN channels ELSE Append(channels, h)
        /\ op' = op \/ op' = [op EXCEPT ![t] = "none"]
    BY <1>1 DEF open, Needed
  <2>2. \A u \in Thread : ~HasPlain(u) /\ ~HasPlain(u)'
    <3>1. \A u \in Thread : op[u] \in {"none", "Initialize"}
      BY <1>t, <1>1 DEF Phases
    <3> QED BY <1>p, <2>1, <3>1 DEF HasPlain
  <2>3. HeldBy(Held, c) = 0 /\ HeldBy(Held', c) = 0
    <3>1. \A u \in Thread : Held[u] # c /\ Held'[u] # c
      BY <1>c, <2>2 DEF Held, HasPlain
    <3> QED BY <3>1, NoneHeld
  <2>4. CASE Kind(channelID) = "ack"
    <3>1. Queued' = Queued /\ channelID # c
      BY <1>s, <2>1, <2>4, IDFacts
    <3>2. c < channelID <=> c < channelID + 1
      BY <1>p, <3>1, IDFacts
    <3> QED BY <1>c, <2>1, <2>3, <3>1, <3>2
  <2>5. CASE Kind(channelID) # "ack"
    <3>1. channelID \in PlainID /\ channels' = Append(channels, h)
      BY <2>1, <2>5 DEF Kind
    <3>2. Queued' = Append(Queued, channelID)
      <4>1. /\ Len(channels) \in Nat /\ DOMAIN channels = 1 .. Len(channels)
            /\ DOMAIN channels' = 1 .. Len(channels) + 1
            /\ \A k \in 1 .. Len(channels) : channels'[k] = channels[k]
            /\ channels'[Len(channels) + 1] = h
        BY <1>p, <3>1
      <4>2. \A k \in 1 .. Len(channels) : host'[channels'[k]].id = Queued[k]
        BY <1>i, <1>q, <4>1 DEF Queued
      <4>3. Queued \in Seq(PlainID) /\ Len(Queued) = Len(channels)
        BY <4>1, HeldIs
      <4>4. Append(Queued, channelID)
              = [k \in 1 .. Len(channels) + 1 |->
                    IF k \in 1 .. Len(channels) THEN Queued[k] ELSE channelID]
        BY <3>1, <4>3, AppendIs
      <4>5. \A k \in 1 .. Len(channels) + 1 : host'[channels'[k]].id
              = IF k \in 1 .. Len(channels) THEN Queued[k] ELSE channelID
        BY <1>h, <2>1, <4>1, <4>2
      <4> QED BY <4>1, <4>4, <4>5 DEF Queued
    <3>3. Times(Queued', c) = Times(Queued, c) + (IF channelID = c THEN 1 ELSE 0)
      BY <3>1, <3>2, HeldIs, TimesAppend
    <3>4. channelID \in Nat /\ c \in Nat
      BY <1>p, IDFacts
    <3> QED BY <1>c, <2>1, <2>3, <3>3, <3>4
  <2> QED BY <2>4, <2>5
<1>2. CASE op[t] # "Initialize"
  <2>1. /\ UNCHANGED <<channels, channelID, op>> /\ chan' = [chan EXCEPT ![t] = h]
        /\ pc[t] = "open" /\ pc' = [pc EXCEPT ![t] = "use"]
        /\ Needed(t) = host[chan[t]].id
    BY <1>2 DEF open, Needed, IDof
  <2>2. HasPlain(t)' <=> HasPlain(t)
    BY <1>p, <2>1 DEF HasPlain, HasChannel
  <2>3. Held'[t] = Held[t]
    BY <1>h, <1>p, <2>1, <2>2 DEF Held, HasPlain, IDof
  <2>4. HeldBy(Held', c) = HeldBy(Held, c)
    BY <1>o, <2>3, HeldAlike
  <2>5. Queued' = Queued
    BY <1>s, <2>1
  <2> QED BY <1>c, <2>1, <2>4, <2>5
<1> QED BY <1>1, <1>2

(* No connection carries more channels than it has counted.                *)
LEMMA CarriedFinite ==
    ASSUME NEW i, NEW k
    PROVE  IsFiniteSet(Carried(i, k)) /\ IsFiniteSet(Carried(i, k)')
<1>1. \A S : S \subseteq Host => IsFiniteSet(S)
  BY V1PoolsAssumption, FS_Subset
<1>2. Carried(i, k) \subseteq Host /\ Carried(i, k)' \subseteq Host
  BY DEF Carried
<1> QED BY <1>1, <1>2

(* Counts are numbers, of each kind of channel.                            *)
LEMMA CountIs ==
    /\ PoolsTypeOK => /\ DOMAIN count = Connection
                      /\ \A i \in Connection : DOMAIN count[i] = Kinds
                      /\ \A i \in Connection, k \in Kinds : count[i][k] \in Nat
    /\ PoolsTypeOK' => \A i \in Connection, k \in Kinds : count'[i][k] \in Nat
<1> DEFINE C == [plain : 0 .. MaxOn.plain, ack : 0 .. MaxOn.ack]
<1>1. \A r \in C : /\ DOMAIN r = Kinds /\ r["plain"] \in 0 .. MaxOn.plain
                   /\ r["ack"] \in 0 .. MaxOn.ack
  BY DEF Kinds
<1>2. \A r \in C : DOMAIN r = Kinds /\ \A k \in Kinds : r[k] \in Nat
  BY <1>1, CountFacts DEF Kinds
<1>3. /\ PoolsTypeOK => count \in [Connection -> C]
      /\ PoolsTypeOK' => count' \in [Connection -> C]
  BY DEF PoolsTypeOK
<1> HIDE DEF C
<1> QED BY <1>2, <1>3

(* Only dialling and new channels change the counts.                       *)
LEMMA CountKept ==
    ASSUME PoolsInv, NEW t \in Thread, StepOf(t) \/ LossOf, ~Initialize(t), ~dial(t)
    PROVE  UNCHANGED count
<1>1. CASE StepOf(t)
  BY <1>1 DEF StepOf, GetChannel, takeChannel, takeAckable, takeConnection,
     passOver, openFails, noConnection, putBack, FlagChannel, ReturnChannel,
     FlagAndReturnChannel, LetGoAckable, connPool
<1>2. CASE LossOf
  BY <1>2 DEF LossOf, loseChannelHost, loseConnection, connPool
<1> QED BY <1>1, <1>2

(* A channel that goes stale or dies makes room for none.                  *)
LEMMA RoomStep ==
    ASSUME PoolsInv, QuietStep, (\E t \in Thread : StepOf(t)) \/ LossOf, shutdowns = 0
    PROVE  RoomCounted'
<1>t. /\ PoolsTypeOK /\ Phases /\ RoomCounted /\ PoolsTypeOK' /\ HostsKept
  BY AllKeep DEF PoolsInv, Kept
<1> SUFFICES ASSUME NEW i \in Connection, NEW k \in Kinds
             PROVE  Cardinality(Carried(i, k)') <= count'[i][k]
  BY DEF RoomCounted
<1>c. /\ count'[i][k] \in Nat /\ count[i][k] \in Nat
      /\ Cardinality(Carried(i, k)) <= count[i][k]
      /\ Cardinality(Carried(i, k)) \in Nat /\ Cardinality(Carried(i, k)') \in Nat
  <2>1. count'[i][k] \in Nat /\ count[i][k] \in Nat
    BY <1>t, CountIs
  <2>2. Cardinality(Carried(i, k)) <= count[i][k]
    BY <1>t DEF RoomCounted
  <2> QED BY <2>1, <2>2, CarriedFinite, FS_CardinalityType
<1>s. Carried(i, k)' \subseteq Carried(i, k)
  <2> SUFFICES ASSUME NEW h \in Host, host'[h].up, host'[h].current, host'[h].conn = i,
                      Kind(host'[h].id) = k
               PROVE  /\ host[h].up /\ host[h].current /\ host[h].conn = i
                      /\ Kind(host[h].id) = k
    BY DEF Carried
  <2>1. host'[h] # NoHost
    BY NoHostRecord
  <2> QED BY <1>t, <2>1 DEF HostsKept
<1>u. ASSUME count'[i] = count[i]
      PROVE  Cardinality(Carried(i, k)') <= count'[i][k]
  <2>1. Cardinality(Carried(i, k)') <= Cardinality(Carried(i, k))
    BY <1>s, CarriedFinite, FS_Subset
  <2> QED BY <1>c, <1>u, <2>1
<1>e. ASSUME \A h \in Host : host'[h].up /\ host'[h].conn = i => ~host'[h].current
      PROVE  Cardinality(Carried(i, k)') <= count'[i][k]
  <2>1. Carried(i, k)' = {}
    BY <1>e DEF Carried
  <2> QED BY <1>c, <2>1, FS_EmptySet
<1>1. ASSUME NEW t \in Thread, Initialize(t)
      PROVE  Cardinality(Carried(i, k)') <= count'[i][k]
  <2>1. CASE connInitialized
    BY <1>1, <1>u, <2>1 DEF Initialize
  <2>2. CASE ~connInitialized
    <3>1. \A h \in Host : ~host'[h].up
      BY <1>1, <1>t, <2>2 DEF Initialize, chanPool, Phases
    <3> QED BY <1>e, <3>1
  <2> QED BY <2>1, <2>2
<1>2. ASSUME NEW t \in Thread, dial(t)
      PROVE  Cardinality(Carried(i, k)') <= count'[i][k]
  <2>1. CASE i = conn[t]
    <3>1. \A h \in Host : host'[h].current => ~(host'[h].conn = i)
      <4> SUFFICES ASSUME NEW h \in Host, host'[h].current, host'[h].conn = i PROVE FALSE
        OBVIOUS
      <4>1. host'[h] = IF host[h].current /\ host[h].conn = conn[t]
                       THEN [host[h] EXCEPT !.current = FALSE] ELSE host[h]
        BY <1>2 DEF dial
      <4>2. host[h] \in ChannelHost \cup {NoHost}
        BY <1>t DEF PoolsTypeOK
      <4> QED BY <2>1, <4>1, <4>2 DEF ChannelHost, NoHost
    <3> QED BY <1>e, <3>1
  <2>2. CASE i # conn[t]
    <3>1. count'[i] = count[i]
      BY <1>2, <2>2 DEF dial, NewConnectionHosts
    <3> QED BY <1>u, <3>1
  <2> QED BY <2>1, <2>2
<1>3. ASSUME NEW t \in Thread, StepOf(t), ~Initialize(t), ~dial(t)
      PROVE  Cardinality(Carried(i, k)') <= count'[i][k]
  BY <1>3, <1>u, CountKept
<1>4. ASSUME LossOf
      PROVE  Cardinality(Carried(i, k)') <= count'[i][k]
  <2>1. UNCHANGED count
    BY <1>4 DEF LossOf, loseChannelHost, loseConnection, connPool
  <2> QED BY <1>u, <2>1
<1> QED BY <1>1, <1>2, <1>3, <1>4

(* A new channel is carried, and counted.                                  *)
LEMMA RoomOpen ==
    ASSUME PoolsInv, NEW t \in Thread, NEW h \in Host, open(t, h), shutdowns = 0
    PROVE  RoomCounted'
<1>t. /\ PoolsTypeOK /\ RoomCounted /\ PoolsTypeOK' /\ Opened(t, h) /\ host[h] = NoHost
      /\ conn[t] \in Connection /\ Needed(t) \in PlainID \cup AckID
  BY OpenStep DEF PoolsInv
<1> SUFFICES ASSUME NEW i \in Connection, NEW k \in Kinds
             PROVE  Cardinality(Carried(i, k)') <= count'[i][k]
  BY DEF RoomCounted
<1>c. /\ count'[i][k] \in Nat /\ count[i][k] \in Nat
      /\ Cardinality(Carried(i, k)) <= count[i][k]
      /\ Cardinality(Carried(i, k)) \in Nat /\ Cardinality(Carried(i, k)') \in Nat
  <2>1. count'[i][k] \in Nat /\ count[i][k] \in Nat
    BY <1>t, CountIs
  <2>2. Cardinality(Carried(i, k)) <= count[i][k]
    BY <1>t DEF RoomCounted
  <2> QED BY <2>1, <2>2, CarriedFinite, FS_CardinalityType
<1>1. count' = [count EXCEPT ![conn[t]][Kind(Needed(t))] = @ + 1]
  BY DEF open, AddChannel
<1>2. ASSUME NEW x \in Carried(i, k)', x # h
      PROVE  x \in Carried(i, k)
  <2>1. x \in Host /\ host'[x].up
    BY <1>2 DEF Carried
  <2>2. host'[x] = host[x]
    BY <1>2, <1>t, <2>1, NoHostRecord DEF Opened
  <2> QED BY <1>2, <2>1, <2>2 DEF Carried
<1>3. CASE i = conn[t] /\ k = Kind(Needed(t))
  <2>1. count'[i][k] = count[i][k] + 1
    <3>1. DOMAIN count = Connection /\ \A j \in Connection : DOMAIN count[j] = Kinds
      BY <1>t, CountIs
    <3> QED BY <1>1, <1>3, <3>1
  <2>2. Carried(i, k)' \subseteq Carried(i, k) \cup {h}
    BY <1>2
  <2>3. h \notin Carried(i, k)
    BY <1>t, NoHostRecord DEF Carried
  <2>4. /\ IsFiniteSet(Carried(i, k) \cup {h})
        /\ Cardinality(Carried(i, k) \cup {h}) = Cardinality(Carried(i, k)) + 1
    BY <2>3, CarriedFinite, FS_AddElement
  <2>5. Cardinality(Carried(i, k)') <= Cardinality(Carried(i, k) \cup {h})
    BY <2>2, <2>4, FS_Subset
  <2> QED BY <1>c, <2>1, <2>4, <2>5
<1>4. CASE ~(i = conn[t] /\ k = Kind(Needed(t)))
  <2>1. count'[i][k] = count[i][k]
    <3>1. DOMAIN count = Connection /\ \A j \in Connection : DOMAIN count[j] = Kinds
      BY <1>t, CountIs
    <3> QED BY <1>1, <1>4, <3>1
  <2>2. h \notin Carried(i, k)'
    BY <1>t, <1>4 DEF Carried, Opened, NewChannelHost
  <2>3. Cardinality(Carried(i, k)') <= Cardinality(Carried(i, k))
    BY <1>2, <2>2, CarriedFinite, FS_Subset
  <2> QED BY <1>c, <2>1, <2>3
<1> QED BY <1>3, <1>4

-----------------------------------------------------------------------------
(* Plain channels in different places are different channels.              *)
LEMMA Unique ==
    ASSUME PoolsInv, shutdowns = 0
    PROVE  /\ \A k, j \in DOMAIN channels :
                 host[channels[k]].id = host[channels[j]].id => k = j
           /\ \A k \in DOMAIN channels, t \in Thread :
                 HasPlain(t) => host[channels[k]].id # host[chan[t]].id
           /\ \A t, u \in Thread :
                 HasPlain(t) /\ HasPlain(u) /\ host[chan[t]].id = host[chan[u]].id => t = u
<1>1. /\ Queued \in Seq(PlainID) /\ DOMAIN Queued = DOMAIN channels
      /\ \A k \in DOMAIN channels : Queued[k] = host[channels[k]].id /\ Queued[k] \in PlainID
      /\ \A t \in Thread : HasPlain(t) =>
            Held[t] = host[chan[t]].id /\ host[chan[t]].id \in PlainID
  <2>1. \A k \in DOMAIN channels : host[channels[k]].id \in PlainID
    BY Parts DEF InPlace, PlainHost
  <2> QED BY <2>1, HeldIs
<1>2. ASSUME NEW c \in PlainID
      PROVE  /\ Times(Queued, c) + HeldBy(Held, c) <= 1
             /\ Times(Queued, c) \in Nat /\ HeldBy(Held, c) \in Nat
  <2>1. Times(Queued, c) + HeldBy(Held, c) = IF c < channelID THEN 1 ELSE 0
    BY HeldIs
  <2>2. Times(Queued, c) \in Nat /\ HeldBy(Held, c) \in Nat
    BY <1>1, TimesType, HeldByType
  <2> QED BY <2>1, <2>2
<1>3. ASSUME NEW k \in DOMAIN channels, NEW j \in DOMAIN channels,
             host[channels[k]].id = host[channels[j]].id, k # j
      PROVE  FALSE
  <2> DEFINE c == host[channels[k]].id
  <2>1. c \in PlainID /\ Queued[k] = c /\ Queued[j] = c
    BY <1>1, <1>3
  <2> HIDE DEF c
  <2>2. Times(Queued, c) >= 2
    BY <1>1, <1>3, <2>1, TimesType
  <2> QED BY <1>2, <2>1, <2>2
<1>4. ASSUME NEW k \in DOMAIN channels, NEW t \in Thread, HasPlain(t),
             host[channels[k]].id = host[chan[t]].id
      PROVE  FALSE
  <2> DEFINE c == host[channels[k]].id
  <2>1. c \in PlainID /\ Queued[k] = c /\ Held[t] = c
    BY <1>1, <1>4
  <2> HIDE DEF c
  <2>2. Times(Queued, c) >= 1 /\ HeldBy(Held, c) >= 1
    BY <1>1, <2>1, TimesType, HeldByType
  <2> QED BY <1>2, <2>1, <2>2
<1>5. ASSUME NEW t \in Thread, NEW u \in Thread, HasPlain(t), HasPlain(u),
             host[chan[t]].id = host[chan[u]].id, t # u
      PROVE  FALSE
  <2> DEFINE c == host[chan[t]].id
  <2>1. c \in PlainID /\ Held[t] = c /\ Held[u] = c
    BY <1>1, <1>5
  <2> HIDE DEF c
  <2>2. HeldBy(Held, c) >= 2
    BY <1>5, <2>1, HeldByType
  <2> QED BY <1>2, <2>1, <2>2
<1> QED BY <1>3, <1>4, <1>5

(* What may be taken is a plain channel, somebody refers to it.            *)
LEMMA UsableIs ==
    /\ PoolsInv => \A h \in Host : Usable(h) => PlainHost(h) /\ h \in InUse
    /\ PoolsTypeOK' /\ InPlace' => \A h \in Host : Usable(h)' => h \in InUse'
<1>1. ASSUME PoolsInv, NEW h \in Host, Usable(h)
      PROVE  PlainHost(h) /\ h \in InUse
  <2>1. /\ \A k \in DOMAIN channels : PlainHost(channels[k])
        /\ \A t \in Thread : chan[t] # None /\ op[t] = "plain" => PlainHost(chan[t])
        /\ DOMAIN chan = Thread /\ h # None
    BY <1>1, Parts, IDFacts DEF InPlace, PoolsTypeOK
  <2> QED BY <1>1, <2>1, InRange DEF Usable, InUse
<1>2. ASSUME PoolsTypeOK', NEW h \in Host, Usable(h)'
      PROVE  h \in InUse'
  <2>1. DOMAIN chan' = Thread
    BY <1>2 DEF PoolsTypeOK
  <2> QED BY <1>2, <2>1, InRange DEF Usable, InUse
<1> QED BY <1>1, <1>2

(* A new channel is up, and the flag it removes was of the channel it      *)
(* replaces.                                                               *)
LEMMA DeadOpen ==
    ASSUME PoolsInv, NEW t \in Thread, NEW n \in Host, open(t, n), shutdowns = 0
    PROVE  DeadKnown'
<1> USE DEF AtPc, Goto
<1>t. /\ PoolsTypeOK /\ Places /\ DeadKnown /\ PoolsTypeOK' /\ InPlace' /\ Opened(t, n)
      /\ op[t] # "Initialize" => op[t] = Kind(Needed(t)) /\ chan[t] \in Host
      /\ pc[t] = "open"
  BY OpenStep DEF PoolsInv, open
<1>p. /\ channels \in Seq(Host) /\ pc \in [Thread -> PCs] /\ op \in [Thread -> Ops]
      /\ chan \in [Thread -> Host \cup {None}]
  BY <1>t, TypesSplit DEF ThreadTypes, PoolTypes
<1> SUFFICES ASSUME NEW h \in Host, Usable(h)', ~host'[h].up
             PROVE  \/ host'[h].err = "erred" \/ host'[h].id \in flaggedChannels'
                    \/ Flagging(h)'
  BY DEF DeadKnown
<1>1. h # n /\ h \in InUse' /\ host'[h] = host[h]
  BY <1>t, UsableIs DEF Opened, NewChannelHost
<1>o. \A u \in Thread \ {t} : pc'[u] = pc[u] /\ op'[u] = op[u] /\ chan'[u] = chan[u]
  BY OthersAlone
<1>2. /\ \A k \in DOMAIN channels' : channels'[k] = h =>
            \E j \in DOMAIN channels : channels[j] = h
      /\ pc'[t] = "use" => op[t] # "Initialize" /\ chan'[t] = n
  <2>1. channels' = channels \/ channels' = Append(channels, n)
    BY DEF open
  <2>2. pc'[t] = "use" => op[t] # "Initialize" /\ chan'[t] = n
    BY <1>p DEF open
  <2> QED BY <1>p, <1>1, <2>1, <2>2
<1>3. Usable(h)
  BY <1>1, <1>2, <1>o DEF Usable
<1>4. Flagging(h) => Flagging(h)'
  BY <1>t, <1>o DEF Flagging
<1>5. host[h].id \in flaggedChannels => host[h].id \in flaggedChannels'
  <2>1. CASE op[t] = "Initialize"
    BY <2>1 DEF open
  <2>2. CASE op[t] # "Initialize"
    <3>1. flaggedChannels' = flaggedChannels \ {host[chan[t]].id} /\ UNCHANGED channels
          /\ Needed(t) = host[chan[t]].id /\ op' = op /\ chan'[t] = n
      BY <2>2, <1>p DEF open, Needed, IDof
    <3>2. host[h].id # host[chan[t]].id
      <4>1. CASE op[t] = "plain"
        <5>1. HasPlain(t)
          BY <1>t, <4>1 DEF HasPlain, HasChannel
        <5>2. \/ \E k \in DOMAIN channels : channels[k] = h
              \/ \E u \in Thread \ {t} : HasPlain(u) /\ chan[u] = h
          BY <1>1, <1>o, <3>1 DEF Usable, HasPlain, HasChannel
        <5> QED BY <5>1, <5>2, Unique
      <4>2. CASE op[t] # "plain"
        <5>1. host[chan[t]].id \notin PlainID
          BY <1>t, <2>2, <3>1, <4>2, IDFacts
        <5> QED BY <1>3, <5>1, UsableIs DEF PlainHost
      <4> QED BY <4>1, <4>2
    <3> QED BY <3>1, <3>2
  <2> QED BY <2>1, <2>2
<1> QED BY <1>t, <1>1, <1>3, <1>4, <1>5 DEF DeadKnown

(* A dead channel that may be taken is known to be dead.                   *)
LEMMA DeadStep ==
    ASSUME PoolsInv, QuietStep, (\E t \in Thread : StepOf(t)) \/ LossOf, shutdowns = 0
    PROVE  DeadKnown'
<1> USE DEF AtPc, Goto
<1>t. /\ PoolsTypeOK /\ Places /\ InPlace /\ DeadKnown /\ PoolsTypeOK' /\ InPlace'
      /\ \A x \in Host : x \in InUse' =>
            /\ host[x] \in ChannelHost /\ host'[x] \in ChannelHost
            /\ host'[x].id = host[x].id /\ (host'[x].up => host[x].up)
  BY AllKeep DEF PoolsInv, Kept
<1>p. /\ channels \in Seq(Host) /\ pc \in [Thread -> PCs] /\ op \in [Thread -> Ops]
      /\ chan \in [Thread -> Host \cup {None}] /\ host \in [Host -> ChannelHost \cup {NoHost}]
      /\ \A t \in Thread : PlaceOf(t)
  BY <1>t, TypesSplit DEF ThreadTypes, PoolTypes, Places
<1> SUFFICES ASSUME NEW h \in Host, Usable(h)', ~host'[h].up
             PROVE  \/ host'[h].err = "erred" \/ host'[h].id \in flaggedChannels'
                    \/ Flagging(h)'
  BY DEF DeadKnown
<1> DEFINE Known == \/ host'[h].err = "erred" \/ host'[h].id \in flaggedChannels'
                    \/ Flagging(h)'
<1>h. /\ h \in InUse' /\ host[h] \in ChannelHost /\ host'[h] \in ChannelHost
      /\ host'[h].id = host[h].id /\ host[h].up \in BOOLEAN
  BY <1>t, UsableIs, HostRecords
<1>k. ASSUME Usable(h), flaggedChannels \subseteq flaggedChannels',
             \/ host'[h] = Lost(host[h])
             \/ host'[h].up = host[h].up /\ host'[h].err = host[h].err,
             Flagging(h) => Flagging(h)' \/ host[h].id \in flaggedChannels'
      PROVE  Known
  <2>1. CASE host[h].up
    <3>1. host'[h] = Lost(host[h])
      BY <1>k, <2>1
    <3>2. host'[h].err = "erred"
      BY <1>h, <3>1 DEF Lost, ChannelHost
    <3> QED BY <3>2
  <2>2. CASE ~host[h].up
    <3>1. host[h].err = "erred" \/ host[h].id \in flaggedChannels \/ Flagging(h)
      BY <1>k, <1>t, <2>2 DEF DeadKnown
    <3>2. host[h].err = "erred" => host'[h].err = "erred"
      BY <1>h, <1>k DEF Lost, ChannelHost
    <3> QED BY <1>h, <1>k, <3>1, <3>2
  <2> QED BY <2>1, <2>2
<1>v. ASSUME Sweep(host) \/ UNCHANGED host
      PROVE  host'[h] = host[h]
  BY <1>h, <1>v DEF Sweep, InUse
<1>1. ASSUME NEW t \in Thread, StepOf(t)
      PROVE  Known
  <2>o. \A u \in Thread \ {t} : pc'[u] = pc[u] /\ op'[u] = op[u] /\ chan'[u] = chan[u]
    BY <1>1, OthersAlone
  <2>f. pc[t] \notin {"flag", "flag bad"} => (Flagging(h) => Flagging(h)')
    BY <2>o DEF Flagging
  <2>u. ASSUME channels' = channels \/ channels' = <<>>,
               op'[t] # "plain" \/ pc'[t] # "use" \/ chan'[t] # h
        PROVE  Usable(h)
    <3>1. \A k \in DOMAIN channels' : channels'[k] = h => \E j \in DOMAIN channels : channels[j] = h
      BY <2>u
    <3> QED BY <2>o, <2>u, <3>1 DEF Usable
  <2>p. PlaceOf(t)
    BY <1>p
  <2>1. CASE Initialize(t) \/ GetChannel(t)
    <3>1. /\ UNCHANGED <<channels, host, flaggedChannels>> /\ pc[t] = "idle"
          /\ pc' \in {[pc EXCEPT ![t] = "take"], [pc EXCEPT ![t] = "connection"]}
      BY <2>1 DEF Initialize, GetChannel, chanPool
    <3>2. pc'[t] # "use"
      BY <1>p, <3>1
    <3> QED BY <1>k, <2>f, <2>u, <3>1, <3>2
  <2>2. CASE takeChannel(t)
    <3> DEFINE b == Head(channels)
    <3>1. /\ channels # <<>> /\ channels' = Tail(channels) /\ op[t] = "plain" /\ op' = op
          /\ chan' = [chan EXCEPT ![t] = b] /\ host' = [host EXCEPT ![b] = Read(@)]
          /\ pc' = [pc EXCEPT ![t] = IF Bad(b) THEN "connection" ELSE "use"]
          /\ pc[t] = "take" /\ UNCHANGED flaggedChannels
      BY <2>2 DEF takeChannel
    <3>2. /\ b \in Host /\ b = channels[1] /\ 1 \in DOMAIN channels
          /\ \A k \in DOMAIN channels' :
                k + 1 \in DOMAIN channels /\ k + 1 # 1 /\ channels'[k] = channels[k + 1]
      BY <1>p, <3>1
    <3>3. chan'[t] = b /\ pc'[t] = IF Bad(b) THEN "connection" ELSE "use"
      BY <1>p, <3>1
    <3>4. Usable(h)
      BY <2>o, <3>2, <3>3 DEF Usable
    <3>5. CASE h # b
      <4>1. host'[h] = host[h]
        BY <1>p, <3>1, <3>5
      <4> QED BY <1>k, <2>f, <3>1, <3>4, <4>1
    <3>6. CASE h = b
      <4>1. ~Bad(b)
        <5> SUFFICES ASSUME Bad(b) PROVE FALSE
          OBVIOUS
        <5>1. \/ \E k \in DOMAIN channels : k # 1 /\ channels[k] = b
              \/ \E u \in Thread : HasPlain(u) /\ chan[u] = b
          BY <2>o, <3>2, <3>3, <3>6 DEF Usable, HasPlain, HasChannel
        <5> QED BY <3>2, <5>1, Unique
      <4>2. host[b].err # "erred"
        BY <4>1 DEF Bad
      <4>3. host'[h] = Read(host[h])
        BY <1>p, <3>1, <3>6
      <4>4. host'[h].up = host[h].up /\ host'[h].err = host[h].err
        BY <1>h, <3>6, <4>2, <4>3 DEF Read, ChannelHost
      <4> QED BY <1>k, <2>f, <3>1, <3>4, <4>4
    <3> QED BY <3>5, <3>6
  <2>3. CASE takeAckable(t)
    <3> DEFINE b == Head(ackChannels)
    <3>1. /\ UNCHANGED <<channels, op, flaggedChannels>> /\ op[t] = "ack" /\ pc[t] = "take"
          /\ host' = [host EXCEPT ![b] = Read(@)] /\ ackChannels # <<>>
      BY <2>3 DEF takeAckable
    <3>2. Usable(h)
      BY <2>u, <3>1
    <3>3. h # b
      <4>1. AckHost(b) /\ PlainHost(h)
        BY <3>1, <3>2, Parts, UsableIs
      <4> QED BY <4>1, IDFacts DEF AckHost, PlainHost
    <3>4. host'[h] = host[h]
      BY <1>p, <3>1, <3>3
    <3> QED BY <1>k, <2>f, <3>1, <3>2, <3>4
  <2>4. CASE takeConnection(t) \/ dial(t) \/ passOver(t)
    <3>1. /\ UNCHANGED <<channels, flaggedChannels>>
          /\ pc[t] \in {"connection", "dial", "open"}
          /\ pc' \in {[pc EXCEPT ![t] = "open"], [pc EXCEPT ![t] = "dial"],
                      [pc EXCEPT ![t] = "connection"]}
          /\ host'[h] = host[h] \/ host'[h] = [host[h] EXCEPT !.current = FALSE]
      BY <2>4 DEF takeConnection, dial, passOver, chanPool
    <3>2. pc'[t] # "use"
      BY <1>p, <3>1
    <3>3. host'[h].up = host[h].up /\ host'[h].err = host[h].err
      BY <1>h, <3>1 DEF ChannelHost
    <3> QED BY <1>k, <2>f, <2>u, <3>1, <3>2, <3>3
  <2>5. CASE openFails(t) \/ noConnection(t)
    <3>1. /\ UNCHANGED flaggedChannels
          /\ channels' = channels \/ channels' = <<>>
          /\ pc[t] \in {"connection", "open"}
          /\ Sweep(host) \/ UNCHANGED host
          /\ pc' \in {[pc EXCEPT ![t] = "idle"], [pc EXCEPT ![t] = "put back"],
                      [pc EXCEPT ![t] = "connection"]}
      BY <2>5 DEF openFails, noConnection, GiveUp, NextTry
    <3>2. pc'[t] # "use"
      BY <1>p, <3>1
    <3> QED BY <1>k, <1>v, <2>f, <2>u, <3>1, <3>2
  <2>6. CASE putBack(t)
    <3>1. /\ UNCHANGED <<host, flaggedChannels, chan>> /\ pc[t] = "put back"
          /\ pc' = [pc EXCEPT ![t] = "flag bad"]
          /\ channels' = channels \/ channels' = Append(channels, chan[t])
      BY <2>6 DEF putBack, PutChannel
    <3>2. pc'[t] = "flag bad"
      BY <1>p, <3>1
    <3>3. CASE h = chan[t]
      BY <3>1, <3>2, <3>3 DEF Flagging
    <3>4. CASE h # chan[t]
      <4>1. chan[t] \in Host
        BY <1>p, <2>p, <3>1 DEF PlaceOf, PlaceFor
      <4>2. \A k \in DOMAIN channels' : channels'[k] = h =>
               \E j \in DOMAIN channels : channels[j] = h
        <5>1. CASE channels' = channels
          BY <5>1
        <5>2. CASE channels' = Append(channels, chan[t])
          <6> DEFINE n == chan[t]
          <6>1. n \in Host /\ n # h /\ channels' = Append(channels, n)
            BY <3>4, <4>1, <5>2
          <6> HIDE DEF n
          <6> QED BY <1>p, <6>1
        <5> QED BY <3>1, <5>1, <5>2
      <4>3. Usable(h)
        BY <2>o, <3>2, <4>2 DEF Usable
      <4> QED BY <1>k, <2>f, <3>1, <4>3
    <3> QED BY <3>3, <3>4
  <2>7. CASE FlagChannel(t)
    <3>1. /\ UNCHANGED channels /\ flaggedChannels' = flaggedChannels \cup {host[chan[t]].id}
          /\ Sweep(host)
          /\ pc' \in {[pc EXCEPT ![t] = "idle"], [pc EXCEPT ![t] = "take"]}
      BY <2>7 DEF FlagChannel, IDof
    <3>2. pc'[t] # "use"
      BY <1>p, <3>1
    <3>3. Flagging(h) => Flagging(h)' \/ host[h].id \in flaggedChannels'
      BY <2>o, <3>1 DEF Flagging
    <3> QED BY <1>k, <1>v, <2>u, <3>1, <3>2, <3>3
  <2>8. CASE ReturnChannel(t) \/ FlagAndReturnChannel(t) \/ LetGoAckable(t)
    <3>1. /\ pc[t] = "use" /\ flaggedChannels \subseteq flaggedChannels'
          /\ \/ channels' = channels
             \/ channels' = Append(channels, chan[t]) /\ Kind(host[chan[t]].id) # "ack"
          /\ \/ Sweep(host) /\ pc' = [pc EXCEPT ![t] = "idle"]
             \/ /\ pc' = [pc EXCEPT ![t] = "flag"] /\ chan' = chan
                /\ \/ UNCHANGED host
                   \/ host' = [host EXCEPT ![chan[t]] = host'[chan[t]]]
      BY <1>p, <2>8 DEF ReturnChannel, FlagAndReturnChannel, LetGoAckable, PutChannel, IDof
    <3>2. /\ chan[t] \in Host /\ pc'[t] # "use"
          /\ Kind(host[chan[t]].id) # "ack" => op[t] = "plain"
      <4>1. chan[t] \in Host
        BY <1>p, <2>p, <3>1 DEF PlaceOf, PlaceFor
      <4>2. op[t] = "plain" \/ AckHost(chan[t])
        BY <1>t, <4>1, IDFacts DEF InPlace
      <4> QED BY <1>p, <3>1, <4>1, <4>2, IDFacts DEF AckHost
    <3>3. Usable(h)
      <4>1. \A k \in DOMAIN channels' : channels'[k] = h =>
               \/ \E j \in DOMAIN channels : channels[j] = h
               \/ h = chan[t] /\ Kind(host[chan[t]].id) # "ack"
        BY <1>p, <3>1, <3>2
      <4> QED BY <2>o, <3>1, <3>2, <4>1 DEF Usable
    <3>4. CASE pc' = [pc EXCEPT ![t] = "flag"] /\ chan' = chan /\ h = chan[t]
      <4>1. pc'[t] = "flag"
        BY <1>p, <3>4
      <4> QED BY <3>4, <4>1 DEF Flagging
    <3>5. CASE ~(pc' = [pc EXCEPT ![t] = "flag"] /\ chan' = chan /\ h = chan[t])
      <4>1. host'[h] = host[h]
        <5>1. CASE Sweep(host) \/ UNCHANGED host
          BY <1>v, <5>1
        <5>2. CASE h # chan[t] /\ host' = [host EXCEPT ![chan[t]] = host'[chan[t]]]
          <6> DEFINE r == host'[chan[t]]
          <6>1. host' = [host EXCEPT ![chan[t]] = r]
            BY <5>2
          <6> HIDE DEF r
          <6> QED BY <1>p, <5>2, <6>1
        <5> QED BY <3>1, <3>5, <5>1, <5>2
      <4> QED BY <1>k, <2>f, <3>1, <3>3, <4>1
    <3> QED BY <3>4, <3>5
  <2> QED BY <1>1, <2>1, <2>2, <2>3, <2>4, <2>5, <2>6, <2>7, <2>8 DEF StepOf
<1>2. ASSUME LossOf
      PROVE  Known
  <2>1. /\ UNCHANGED <<channels, pc, op, chan, flaggedChannels>>
        /\ host'[h] = host[h] \/ host'[h] = Lost(host[h])
    BY <1>p, <1>2 DEF LossOf, loseChannelHost, loseConnection, threads
  <2>2. Usable(h) /\ (Flagging(h) => Flagging(h)')
    BY <2>1 DEF Usable, Flagging
  <2> QED BY <1>k, <2>1, <2>2
<1> QED BY <1>1, <1>2

-----------------------------------------------------------------------------

(* New pools: nothing is queued, held or counted.                          *)
LEMMA PoolsInvInit == PoolsInit => PoolsInv
<1> SUFFICES ASSUME PoolsInit PROVE PoolsInv
  OBVIOUS
<1> USE DEF PoolsInit
<1>1. PoolsTypeOK
  <2>1. /\ count \in [Connection -> [plain : 0 .. MaxOn.plain, ack : 0 .. MaxOn.ack]]
        /\ channelID \in 0 .. IDCount
    BY CountFacts, IDFacts
  <2>2. /\ connections \in Seq(Connection) /\ channels \in Seq(Host) /\ ackChannels \in Seq(Host)
        /\ poolLock \in Thread \cup {None}
    BY EmptySeq
  <2>3. ThreadTypes
    BY DEF ThreadTypes, PCs, Ops
  <2>4. drain \in [Queues -> {"look", "get", "done"}] /\ connUp \in [Connection -> BOOLEAN]
        /\ host \in [Host -> ChannelHost \cup {NoHost}]
    OBVIOUS
  <2> QED BY <2>1, <2>2, <2>3, <2>4, TypesSplit DEF PoolTypes
<1>2. InPlace
  BY DEF InPlace
<1>3. Places
  BY IDFacts DEF Places, PlaceOf, PlaceFor
<1>4. Phases
  BY IDFacts, NoHostRecord DEF Phases
<1>5. OneOwner
  BY DEF OneOwner
<1>6. PlainOnce
  <2> SUFFICES ASSUME NEW c \in PlainID
               PROVE  Times(Queued, c) + HeldBy(Held, c) = 0 /\ ~(c < channelID)
    BY DEF PlainOnce
  <2>1. Queued = <<>>
    BY DEF Queued
  <2>2. \A t \in Thread : Held[t] # c
    BY IDFacts DEF Held
  <2> QED BY <2>1, <2>2, NoneQueued, NoneHeld, IDFacts
<1>7. RoomCounted
  <2> SUFFICES ASSUME NEW i \in Connection, NEW k \in Kinds
               PROVE  Cardinality(Carried(i, k)) <= count[i][k]
    BY DEF RoomCounted
  <2>1. Carried(i, k) = {}
    BY NoHostRecord DEF Carried
  <2>2. count[i][k] \in Nat
    BY <1>1, CountIs
  <2> QED BY <2>1, <2>2, FS_EmptySet
<1>8. DeadKnown
  BY DEF DeadKnown, Usable
<1> QED BY <1>1, <1>2, <1>3, <1>4, <1>5, <1>6, <1>7, <1>8 DEF PoolsInv

(* Every step keeps the invariant.                                         *)
LEMMA PoolsInvStep == PoolsInv /\ [PoolsNext]_poolsVars => PoolsInv'
<1> SUFFICES ASSUME PoolsInv, [PoolsNext]_poolsVars PROVE PoolsInv'
  OBVIOUS
<1>1. PoolsTypeOK' /\ InPlace' /\ Places' /\ Phases'
  <2>1. CASE QuietStep
    BY <2>1, AllKeep DEF Kept
  <2>2. ASSUME NEW t \in Thread, NEW h \in Host, open(t, h)
        PROVE  PoolsTypeOK' /\ InPlace' /\ Places' /\ Phases'
    BY <2>2, OpenStep
  <2> QED BY <2>1, <2>2, NextCases
<1>2. ASSUME PoolsNext, shutdowns' = 0
      PROVE  OneOwner' /\ PlainOnce' /\ RoomCounted' /\ DeadKnown'
  <2>1. OneOwner' /\ shutdowns = 0
    BY <1>2, OwnerStep, UpCases
  <2>2. ASSUME (\E t \in Thread : StepOf(t)) \/ LossOf
        PROVE  PlainOnce' /\ RoomCounted' /\ DeadKnown'
    <3>1. QuietStep
      BY <2>2 DEF QuietStep
    <3> QED BY <2>1, <2>2, <3>1, OnceStep, RoomStep, DeadStep
  <2>3. ASSUME NEW t \in Thread, NEW h \in Host, open(t, h)
        PROVE  PlainOnce' /\ RoomCounted' /\ DeadKnown'
    BY <2>1, <2>3, OnceOpen, RoomOpen, DeadOpen
  <2> QED BY <1>2, <2>1, <2>2, <2>3, UpCases
<1>3. ASSUME UNCHANGED poolsVars, shutdowns' = 0
      PROVE  OneOwner' /\ PlainOnce' /\ RoomCounted' /\ DeadKnown'
  <2> USE <1>3 DEF poolsVars, connPool, chanPool, threads, counters
  <2>1. OneOwner /\ PlainOnce /\ RoomCounted /\ DeadKnown
    BY DEF PoolsInv
  <2>2. OneOwner'
    BY <2>1 DEF OneOwner, Times, HeldBy
  <2>3. PlainOnce'
    <3>1. Queued' = Queued /\ Held' = Held
      BY DEF Queued, Held, HasChannel, IDof
    <3> QED BY <2>1, <3>1 DEF PlainOnce, Times, HeldBy
  <2>4. RoomCounted'
    BY <2>1 DEF RoomCounted, Carried
  <2>5. DeadKnown'
    BY <2>1 DEF DeadKnown, Usable, Flagging
  <2> QED BY <2>2, <2>3, <2>4, <2>5
<1> QED BY <1>1, <1>2, <1>3 DEF PoolsInv

(* The invariant of the pools: what is queued or held is a channel of the  *)
(* right kind, each goroutine has and is called for what its place says,   *)
(* and before Shutdown each connection and plain channel is in one place,  *)
(* counts are not exceeded and dead channels are known.                    *)
THEOREM PoolsInvariant == PoolsSpec => []PoolsInv
BY PoolsInvInit, PoolsInvStep, PTL DEF PoolsSpec

(* Both pools, their queues, hosts and goroutines keep their types; in     *)
(* particular the count of no connection exceeds its room.                 *)
THEOREM PoolsTypeCorrect == PoolsSpec => []PoolsTypeOK
<1>1. PoolsInv => PoolsTypeOK
  BY DEF PoolsInv
<1> QED BY <1>1, PoolsInvariant, PTL

(* Before Shutdown no path through takes, replacements, "-1" and returns   *)
(* loses or doubles a connection or a plain channel, and connections carry *)
(* no more channels than counted (channelpool.go:143, GetChannel,          *)
(* ReturnChannel).                                                         *)
THEOREM PoolsAreConserved == PoolsSpec => []PoolsConserved
<1>1. ASSUME PoolsInv, shutdowns = 0
      PROVE  /\ \A i \in Connection : connInitialized =>
                   Cardinality({k \in DOMAIN connections : connections[k] = i})
                     + Cardinality({t \in Thread : conn[t] = i}) = 1
             /\ \A c \in PlainID : initialized =>
                   Cardinality({k \in DOMAIN channels : host[channels[k]].id = c})
                     + Cardinality({t \in Thread : /\ op[t] = "plain" /\ HasChannel(t)
                                                   /\ IDof(t) = c}) = 1
             /\ \A i \in Connection, k \in {"plain", "ack"} :
                   Cardinality({h \in Host : /\ host[h].up /\ host[h].current
                                             /\ host[h].conn = i /\ Kind(host[h].id) = k})
                     <= count[i][k]
  <2>1. OneOwner /\ PlainOnce /\ RoomCounted /\ Phases
    BY <1>1 DEF PoolsInv
  <2>2. \A i \in Connection : connInitialized =>
           Cardinality({k \in DOMAIN connections : connections[k] = i})
             + Cardinality({t \in Thread : conn[t] = i}) = 1
    BY <2>1 DEF OneOwner, Times, HeldBy
  <2>3. ASSUME NEW c \in PlainID, initialized
        PROVE  Cardinality({k \in DOMAIN channels : host[channels[k]].id = c})
                 + Cardinality({t \in Thread : /\ op[t] = "plain" /\ HasChannel(t)
                                               /\ IDof(t) = c}) = 1
    <3>1. Times(Queued, c) + HeldBy(Held, c) = 1
      BY <1>1, <2>1, <2>3, IDFacts DEF PlainOnce, Phases
    <3>2. {k \in DOMAIN channels : host[channels[k]].id = c}
            = {k \in DOMAIN Queued : Queued[k] = c}
      BY DEF Queued
    <3>3. {t \in Thread : op[t] = "plain" /\ HasChannel(t) /\ IDof(t) = c}
            = {t \in Thread : Held[t] = c}
      BY IDFacts DEF Held
    <3> QED BY <3>1, <3>2, <3>3 DEF Times, HeldBy
  <2>4. \A i \in Connection, k \in {"plain", "ack"} :
           Cardinality({h \in Host : /\ host[h].up /\ host[h].current
                                     /\ host[h].conn = i /\ Kind(host[h].id) = k})
             <= count[i][k]
    BY <2>1 DEF RoomCounted, Carried, Kinds
  <2> QED BY <2>2, <2>3, <2>4
<1>2. PoolsInv => PoolsConserved
  BY <1>1 DEF PoolsConserved
<1> QED BY <1>2, PoolsInvariant, PTL

(* Only takeChannel gives a goroutine a plain channel to use.              *)
LEMMA TakenBy ==
    ASSUME PoolsInv, PoolsNext, NEW t \in Thread, pc[t] = "take", op[t] = "plain",
           pc'[t] = "use"
    PROVE  takeChannel(t)
<1> USE DEF AtPc, Goto
<1>p. pc \in [Thread -> PCs]
  BY Parts, TypesSplit DEF ThreadTypes
<1>1. ASSUME UNCHANGED pc PROVE FALSE
  BY <1>1
<1>2. ASSUME NEW u \in Thread, StepOf(u) \/ \E h \in Host : open(u, h), u # t PROVE FALSE
  BY <1>2, OthersAlone
<1>3. ASSUME StepOf(t), ~takeChannel(t) PROVE FALSE
  BY <1>3, <1>p DEF StepOf, Initialize, GetChannel, takeAckable, takeConnection, dial, passOver,
     openFails, noConnection, putBack, FlagChannel, ReturnChannel, FlagAndReturnChannel,
     LetGoAckable
<1>4. ASSUME NEW h \in Host, open(t, h) PROVE FALSE
  BY <1>4 DEF open
<1>5. ASSUME NEW u \in Thread, Shutdown(u) \/ resetChannels(u) \/ resetConnections(u)
      PROVE  FALSE
  BY <1>5, <1>p DEF Shutdown, resetChannels, resetConnections
<1>6. ASSUME NEW q \in Queues, look(q) \/ getNothing(q) \/ get(q) PROVE FALSE
  BY <1>6 DEF look, getNothing, get, threads
<1>7. ASSUME LossOf PROVE FALSE
  BY <1>7 DEF LossOf, loseChannelHost, loseConnection, threads
<1>8. \/ \E u \in Thread : StepOf(u) \/ \E h \in Host : open(u, h)
      \/ \E u \in Thread : Shutdown(u) \/ resetChannels(u) \/ resetConnections(u)
      \/ \E q \in Queues : look(q) \/ getNothing(q) \/ get(q)
      \/ LossOf
  BY DEF PoolsNext, Step, createChannelHost, StepOf, LossOf
<1> QED BY <1>2, <1>3, <1>4, <1>5, <1>6, <1>7, <1>8

(* GetChannel (channelpool.go:206) hands out a dead plain channel only     *)
(* while the one who gave it back has yet to flag it.                      *)
THEOREM DeadChannelsAreFlagged == PoolsSpec => DeadOnlyBeforeFlag
<1> DEFINE Good(t) == AtPc(t, "take") /\ op[t] = "plain" /\ pc'[t] = "use" =>
                         \/ host[chan'[t]].up \/ shutdowns > 0
                         \/ \E u \in Thread :
                               pc[u] \in {"flag", "flag bad"} /\ chan[u] = chan'[t]
<1>1. ASSUME PoolsInv, PoolsNext, NEW t \in Thread PROVE Good(t)
  <2> SUFFICES ASSUME pc[t] = "take", op[t] = "plain", pc'[t] = "use", ~host[chan'[t]].up,
                      ~(shutdowns > 0)
               PROVE  \E u \in Thread :
                         pc[u] \in {"flag", "flag bad"} /\ chan[u] = chan'[t]
    BY DEF AtPc
  <2>1. shutdowns = 0 /\ DeadKnown
    BY <1>1, Parts DEF PoolsInv, Phases
  <2> DEFINE b == Head(channels)
  <2>2. /\ channels # <<>> /\ chan' = [chan EXCEPT ![t] = b]
        /\ pc' = [pc EXCEPT ![t] = IF Bad(b) THEN "connection" ELSE "use"]
    BY <1>1, TakenBy DEF takeChannel, Goto
  <2>3. /\ pc \in [Thread -> PCs] /\ chan \in [Thread -> Host \cup {None}]
        /\ channels \in Seq(Host)
    BY <1>1, Parts, TypesSplit DEF ThreadTypes, PoolTypes
  <2>4. chan'[t] = b /\ ~Bad(b) /\ b \in Host /\ Usable(b)
    BY <2>2, <2>3 DEF Usable
  <2>5. Flagging(b)
    BY <2>1, <2>4 DEF DeadKnown, Bad
  <2> QED BY <2>4, <2>5 DEF Flagging
<1>2. PoolsInv /\ [PoolsNext]_poolsVars => [\A t \in Thread : Good(t)]_poolsVars
  BY <1>1
<1> QED BY <1>2, PoolsInvariant, PTL DEF PoolsSpec, DeadOnlyBeforeFlag
===============================================================================
