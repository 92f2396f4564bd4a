-------------------------- MODULE RabbitServiceProofs --------------------------
(***************************************************************************)
(* Proofs about RabbitService, for any letters, consumers, callers of      *)
(* Shutdown, capacities and retries: every accepted letter is in one place *)
(* until it is settled or given up.                                        *)
(***************************************************************************)
EXTENDS RabbitService, FiniteSetTheorems, TLAPS

(* How often x is in the sequence s.                                       *)
Times(s, x) == Cardinality({i \in DOMAIN s : s[i] = x})

(* Positions of a sequence are finite in number.                           *)
LEMMA TimesType ==
    ASSUME NEW S, NEW s \in Seq(S), NEW x
    PROVE  /\ IsFiniteSet({i \in DOMAIN s : s[i] = x})
           /\ Times(s, x) \in Nat
           /\ \A i \in DOMAIN s : s[i] = x => Times(s, x) >= 1
<1> DEFINE T == {i \in DOMAIN s : s[i] = x}
<1>1. IsFiniteSet(T)
  <2>1. DOMAIN s = 1 .. Len(s) /\ Len(s) \in Int /\ 1 \in Int
    OBVIOUS
  <2>2. IsFiniteSet(DOMAIN s)
    BY <2>1, FS_Interval
  <2> QED BY <2>2, FS_Subset
<1>2. Cardinality(T) \in Nat /\ (Cardinality(T) = 0 <=> T = {})
  BY <1>1, FS_CardinalityType, FS_EmptySet
<1>3. Times(s, x) = Cardinality(T)
  BY DEF Times
<1>4. ASSUME NEW i \in DOMAIN s, s[i] = x
      PROVE  Times(s, x) >= 1
  <2>1. T # {}
    BY <1>4
  <2> HIDE DEF T
  <2> QED BY <1>2, <1>3, <2>1
<1>5. Times(s, x) \in Nat
  BY <1>2, <1>3
<1> QED BY <1>1, <1>4, <1>5

(* An element at the end of a sequence occurs once more.                   *)
(* An element at the end of a sequence occurs once more.                   *)
LEMMA TimesAppend ==
    ASSUME NEW S, NEW s \in Seq(S), NEW e \in S, NEW x
    PROVE  Times(Append(s, e), x) = Times(s, x) + (IF e = x THEN 1 ELSE 0)
<1> DEFINE T == {i \in DOMAIN s : s[i] = x}
           U == {i \in DOMAIN Append(s, e) : Append(s, e)[i] = x}
           n == Len(s) + 1
<1>1. /\ Len(s) \in Nat /\ DOMAIN s = 1 .. Len(s) /\ DOMAIN Append(s, e) = 1 .. n
      /\ \A i \in 1 .. Len(s) : Append(s, e)[i] = s[i]
      /\ Append(s, e)[n] = e
  OBVIOUS
<1>2. U = IF e = x THEN T \cup {n} ELSE T
  BY <1>1
<1>3. Times(s, x) = Cardinality(T) /\ Times(Append(s, e), x) = Cardinality(U)
  BY DEF Times
<1>4. IsFiniteSet(T) /\ Times(s, x) \in Nat
  BY TimesType
<1>5. n \notin T
  BY <1>1
<1> HIDE DEF T, U, n
<1>6. Cardinality(T \cup {n}) = Cardinality(T) + 1
  BY <1>4, <1>5, FS_AddElement
<1> QED BY <1>2, <1>3, <1>4, <1>6

(* One taken off its head occurs once less.                                *)
(* One taken off its head occurs once less.                                *)
LEMMA TimesTail ==
    ASSUME NEW S, NEW s \in Seq(S), s # <<>>, NEW x
    PROVE  Times(s, x) = Times(Tail(s), x) + (IF Head(s) = x THEN 1 ELSE 0)
<1> DEFINE T == {i \in DOMAIN s : s[i] = x}
           U == {i \in DOMAIN Tail(s) : Tail(s)[i] = x}
           f == [i \in U |-> i + 1]
<1>1. /\ Len(s) \in Nat /\ Len(s) >= 1 /\ DOMAIN s = 1 .. Len(s) /\ Head(s) = s[1]
      /\ DOMAIN Tail(s) = 1 .. Len(s) - 1 /\ Tail(s) \in Seq(S)
      /\ \A i \in 1 .. Len(s) - 1 : Tail(s)[i] = s[i + 1]
  OBVIOUS
<1>2. f \in Bijection(U, T \ {1})
  <2>1. f \in [U -> T \ {1}]
    BY <1>1
  <2>2. \A i, j \in U : f[i] = f[j] => i = j
    BY <1>1
  <2>3. \A j \in T \ {1} : \E i \in U : f[i] = j
    <3> SUFFICES ASSUME NEW j \in T \ {1} PROVE \E i \in U : f[i] = j
      OBVIOUS
    <3>1. j - 1 \in U /\ f[j - 1] = j
      BY <1>1
    <3> QED BY <3>1
  <2> QED BY <2>1, <2>2, <2>3 DEF Bijection, Injection, Surjection, IsInjective
<1>3. 1 \in T <=> Head(s) = x
  BY <1>1
<1>4. Times(s, x) = Cardinality(T) /\ Times(Tail(s), x) = Cardinality(U)
  BY DEF Times
<1>5. IsFiniteSet(T) /\ IsFiniteSet(U) /\ Times(s, x) \in Nat
  BY <1>1, TimesType
<1> HIDE DEF T, U, f
<1>6. Cardinality(T \ {1}) = Cardinality(U)
  BY <1>2, <1>5, FS_Bijection DEF ExistsBijection
<1>7. Cardinality(T \ {1}) = IF 1 \in T THEN Cardinality(T) - 1 ELSE Cardinality(T)
  BY <1>5, FS_RemoveElement
<1> QED BY <1>3, <1>4, <1>5, <1>6, <1>7

-----------------------------------------------------------------------------
(* The handler of receipts has a letter while it deals with its failure.   *)
FailedInHand ==
    failed # None <=> receiptPc \in {"retrying", "requeue", "refused", "exhausted"}

EndedWereAccepted == \A l \in settled \cup givenUp : queued[l] = "true"

EndsOnce == settled \cap givenUp = {}

(* The nil letter comes out of a closed queue only.                        *)
NilAfterClose ==
    (loop = "semaphore" /\ hand = None) \/ None \in publishing \cup older \/ crashed
       => closed

IInv ==
    /\ ServiceTypeOK /\ LettersAccountedFor /\ LoopIffStarted
    /\ stoppers <= stops /\ FailedInHand /\ EndedWereAccepted /\ EndsOnce /\ NilAfterClose

ServiceStep == [ServiceNext]_allVars

-----------------------------------------------------------------------------
Told(l) == Cardinality({r \in receipts : r.letter = l})
One(p) == IF p THEN 1 ELSE 0

(* The places that may hold a letter, counted.                             *)
Places(l) ==
    Times(letters, l) + Told(l) + One(hand = l) + One(l \in publishing) + One(l \in older)
      + One(failed = l)

(* LettersAccountedFor counts these places, now and after a step.          *)
LEMMA PlacesAre ==
    /\ LettersAccountedFor <=> \A l \in Letter : Places(l) = One(l \in Pending)
    /\ LettersAccountedFor' <=> \A l \in Letter : Places(l)' = One(l \in Pending)'
<1>1. \A l \in Letter : Copies(l) + (IF failed = l THEN 1 ELSE 0) = Places(l)
  BY DEF Copies, Places, Times, Told, One
<1>2. \A l \in Letter : Copies(l)' + (IF failed' = l THEN 1 ELSE 0) = Places(l)'
  BY DEF Copies, Places, Times, Told, One
<1> QED BY <1>1, <1>2 DEF LettersAccountedFor, One

(* A letter has at most two receipts.                                      *)
LEMMA ToldType ==
    ASSUME NEW R \in SUBSET Receipt, NEW l \in Letter
    PROVE  /\ IsFiniteSet({r \in R : r.letter = l})
           /\ Cardinality({r \in R : r.letter = l}) \in Nat
           /\ Cardinality({r \in R : r.letter = l}) = 0 <=> \A r \in R : r.letter # l
<1> DEFINE S == {r \in R : r.letter = l}
           yes == [letter |-> l, success |-> TRUE]
           no == [letter |-> l, success |-> FALSE]
<1>1. S \subseteq {yes, no}
  BY DEF Receipt
<1>2. IsFiniteSet({yes, no})
  <2>1. IsFiniteSet({yes}) /\ IsFiniteSet({no})
    BY FS_Singleton
  <2>2. {yes, no} = {yes} \cup {no}
    OBVIOUS
  <2> HIDE DEF yes, no
  <2> QED BY <2>1, <2>2, FS_Union
<1>3. IsFiniteSet(S)
  BY <1>1, <1>2, FS_Subset
<1>4. Cardinality(S) \in Nat /\ (Cardinality(S) = 0 <=> S = {})
  BY <1>3, FS_CardinalityType, FS_EmptySet
<1>5. S = {} <=> \A r \in R : r.letter # l
  OBVIOUS
<1> QED BY <1>3, <1>4, <1>5

(* The steps of the publisher, as the service runs them.                   *)
PublisherStep ==
    /\ \/ \E l \in Letter : QueueLetter(l) \/ finishPublish(l)
       \/ StartAutoPublishing \/ sendStop \/ Loop \/ publishNil
    /\ UNCHANGED service

(* Of Shutdown, the goroutines for errors and the monitor, which touch no  *)
(* letter.                                                                 *)
OtherStep ==
    \/ handleError \/ endErrors \/ collectError \/ passError \/ endCollector
    \/ endHandler \/ reportRetry
    \/ \E u \in User : Shutdown(u) \/ CallerStep(u)
    \/ monitorForShutdown

(* The steps of the service, sorted by what they do to letters.            *)
LEMMA Steps ==
    ASSUME [ServiceNext]_allVars
    PROVE  \/ PublisherStep \/ OtherStep
           \/ \E l \in Letter : queueAfterShutdown(l)
           \/ \E r \in receipts : settleReceipt(r) \/ retryReceipt(r)
           \/ requeue \/ reportFailure
           \/ UNCHANGED allVars
BY DEF ServiceNext, publish, HandleReceipt, HandlerStep, PublisherStep, OtherStep

(* What the letters' places are made of, and a step of the rest leaves.    *)
LEMMA OthersLeave ==
    ASSUME OtherStep
    PROVE  UNCHANGED <<letters, closed, autoStarted, loop, hand, starts, publishing, older,
                       receipts, queued, settled, crashed, retries, failed, givenUp>>
<1> USE DEF allVars, service, publisher, vars, channel, stopping, running, work, retrying,
            reporting, signals, callers, Handling
<1>1. CASE handleError \/ endErrors \/ collectError \/ passError \/ endCollector
  BY <1>1 DEF handleError, endErrors, collectError, passError, endCollector
<1>2. CASE endHandler \/ reportRetry
  BY <1>2 DEF endHandler, reportRetry
<1>3. ASSUME NEW u \in User, Shutdown(u)
      PROVE  UNCHANGED <<letters, closed, autoStarted, loop, hand, starts, publishing, older,
                         receipts, queued, settled, crashed, retries, failed, givenUp>>
  BY <1>3 DEF Shutdown, stopAutoPublish
<1>4. ASSUME NEW u \in User, CallerStep(u)
      PROVE  UNCHANGED <<letters, closed, autoStarted, loop, hand, starts, publishing, older,
                         receipts, queued, settled, crashed, retries, failed, givenUp>>
  BY <1>4 DEF CallerStep, sendSignal, stopConsumer, reportStop, shutdownPool
<1>5. CASE monitorForShutdown
  BY <1>5 DEF monitorForShutdown
<1> QED BY <1>1, <1>2, <1>3, <1>4, <1>5 DEF OtherStep

(* The publisher keeps its types, queue and numbers of stops within bounds.*)
LEMMA PublisherTypeStep ==
    ASSUME TypeOK, stoppers <= stops, PublisherStep
    PROVE  TypeOK' /\ stoppers' <= stops'
<1> USE AutoAssumption DEF TypeOK, channel, stopping, running, work, Sent, Refused, LoopPCs
<1>1. letters # <<>> => /\ Head(letters) \in Letter /\ Tail(letters) \in Seq(Letter)
                        /\ Len(Tail(letters)) <= LettersCap
  OBVIOUS
<1>2. ASSUME NEW l \in Letter, QueueLetter(l)
      PROVE  TypeOK' /\ stoppers' <= stops'
  <2>1. Append(letters, l) \in Seq(Letter) /\ Len(Append(letters, l)) = Len(letters) + 1
    OBVIOUS
  <2>2. letters' \in Seq(Letter) /\ Len(letters') <= LettersCap /\ closed' \in BOOLEAN
    BY <1>2, <2>1 DEF QueueLetter
  <2>3. queued' \in [Letter -> {"no", "true", "false"}]
    BY <1>2 DEF QueueLetter
  <2> QED BY <1>2, <2>2, <2>3 DEF QueueLetter
<1>3. ASSUME NEW l \in Letter, finishPublish(l)
      PROVE  TypeOK' /\ stoppers' <= stops'
  <2>1. receipts' \in SUBSET Receipt
    BY <1>3 DEF finishPublish, Receipt
  <2> QED BY <1>3, <2>1 DEF finishPublish
<1>4. CASE StartAutoPublishing
  BY <1>4 DEF StartAutoPublishing
<1>5. CASE sendStop
  BY <1>5 DEF sendStop
<1>6. CASE publishNil
  BY <1>6 DEF publishNil
<1>7. CASE receiveLetter
  BY <1>1, <1>7 DEF receiveLetter
<1>8. CASE Loop /\ ~receiveLetter
  BY <1>8 DEF Loop, stopAtTop, enterDeliver, receiveNil, drained, spawnPublish, stopAtCheck,
     goOn, exitLoop
<1> QED BY <1>2, <1>3, <1>4, <1>5, <1>6, <1>7, <1>8 DEF PublisherStep, Loop

(* The service keeps its types, the retries and centralErr their limits.   *)
LEMMA TypeStep ==
    ASSUME ServiceTypeOK, stoppers <= stops, FailedInHand, [ServiceNext]_allVars
    PROVE  ServiceTypeOK' /\ stoppers' <= stops'
<1> USE AutoAssumption, ServiceAssumption
        DEF ServiceTypeOK, service, publisher, vars, channel, stopping, running, work,
            retrying, reporting, signals, callers, Handling, Receive
<1>0. MaxStops \in Nat /\ Cardinality(Consumer) \in Nat
  BY FS_CardinalityType
<1>1. CASE PublisherStep
  <2>1. TypeOK' /\ stoppers' <= stops'
    BY <1>1, PublisherTypeStep
  <2> QED BY <1>1, <2>1 DEF PublisherStep
<1>2. ASSUME NEW l \in Letter, queueAfterShutdown(l)
      PROVE  ServiceTypeOK' /\ stoppers' <= stops'
  BY <1>2 DEF queueAfterShutdown, TypeOK
<1>3. ASSUME NEW r \in receipts, settleReceipt(r)
      PROVE  ServiceTypeOK' /\ stoppers' <= stops'
  <2>1. r.letter \in Letter
    BY DEF TypeOK, Receipt
  <2> QED BY <1>3, <2>1 DEF settleReceipt, receiveReceipt, TypeOK
<1>4. ASSUME NEW r \in receipts, retryReceipt(r)
      PROVE  ServiceTypeOK' /\ stoppers' <= stops'
  <2>1. r.letter \in Letter
    BY DEF TypeOK, Receipt
  <2>2. retries' \in [Letter -> 0 .. MaxRetryCount]
    BY <1>4, <2>1 DEF retryReceipt
  <2>3. UNCHANGED <<letters, closed, token, stoppers, stops, autoStarted, loop, hand, starts,
                    publishing, older, queued, settled, crashed, givenUp, centralErr, errorPc,
                    collectorPc, shutdownSignal, shutdown, monitoring, callerPc, toStop>>
    BY <1>4 DEF retryReceipt
  <2>4. receipts' \subseteq receipts /\ failed' = r.letter
        /\ receiptPc' \in {"retrying", "exhausted"}
    BY <1>4 DEF retryReceipt
  <2>5. TypeOK'
    BY <2>3, <2>4 DEF TypeOK
  <2>6. failed' \in Letter \cup {None} /\ receiptPc' \in {"top", "retrying", "requeue",
                                                        "refused", "exhausted", "off"}
    BY <2>1, <2>4
  <2> QED BY <2>2, <2>3, <2>5, <2>6
<1>5. CASE requeue
  <2>1. failed \in Letter
    BY <1>5 DEF requeue, FailedInHand
  <2>2. letters' \in Seq(Letter) /\ Len(letters') <= LettersCap /\ closed' \in BOOLEAN
    <3>1. Append(letters, failed) \in Seq(Letter)
          /\ Len(Append(letters, failed)) = Len(letters) + 1
      BY <2>1 DEF TypeOK
    <3>2. CASE Refused
      BY <3>2 DEF Refused, TypeOK
    <3>3. CASE Sent(failed)
      BY <3>1, <3>3 DEF Sent, TypeOK
    <3> QED BY <1>5, <3>2, <3>3 DEF requeue
  <2>3. failed' \in Letter \cup {None} /\ receiptPc' \in {"top", "refused"}
    BY <1>5, <2>1 DEF requeue
  <2>4. UNCHANGED <<token, stoppers, stops, autoStarted, loop, hand, starts, publishing, older,
                    receipts, queued, settled, crashed, retries, givenUp, centralErr, errorPc,
                    collectorPc, shutdownSignal, shutdown, monitoring, callerPc, toStop>>
    BY <1>5 DEF requeue
  <2> QED BY <2>2, <2>3, <2>4 DEF TypeOK
<1>6. CASE reportFailure
  <2>1. failed \in Letter
    BY <1>6 DEF reportFailure, FailedInHand
  <2> QED BY <1>6, <2>1 DEF reportFailure, TypeOK
<1>7. CASE OtherStep
  <2>1. UNCHANGED <<letters, closed, autoStarted, loop, hand, starts, publishing, older,
                    receipts, queued, settled, crashed, retries, failed, givenUp>>
    BY <1>7, OthersLeave
  <2> DEFINE Rest == /\ token' \in BOOLEAN
                     /\ stoppers' \in 0 .. MaxStops /\ stops' \in 0 .. MaxStops
                     /\ stoppers' <= stops'
                     /\ receiptPc' \in {"top", "retrying", "requeue", "refused", "exhausted",
                                        "off"}
                     /\ centralErr' \in 0 .. CentralCap /\ errorPc' \in {"on", "off"}
                     /\ collectorPc' \in {"on", "send", "off"}
                     /\ shutdownSignal' \in BOOLEAN /\ shutdown' \in BOOLEAN
                     /\ monitoring' \in BOOLEAN
                     /\ callerPc' \in [User -> {"idle", "signal", "consumers", "report", "blocked", "done"}]
                     /\ toStop' \in [User -> 0 .. Cardinality(Consumer)]
  <2>2. ASSUME handleError \/ endErrors \/ collectError \/ passError \/ endCollector
        PROVE  Rest
    BY <2>2 DEF handleError, endErrors, collectError, passError, endCollector, TypeOK
  <2>3. ASSUME endHandler \/ reportRetry PROVE Rest
    BY <2>3 DEF endHandler, reportRetry, TypeOK
  <2>4. ASSUME NEW u \in User, Shutdown(u) PROVE Rest
    <3>1. stoppers' \in 0 .. MaxStops /\ stops' \in 0 .. MaxStops /\ stoppers' <= stops'
          /\ token' = token
      BY <2>4 DEF Shutdown, stopAutoPublish, TypeOK
    <3> QED BY <2>4, <3>1 DEF Shutdown, TypeOK
  <2>5. ASSUME NEW u \in User, sendSignal(u) PROVE Rest
    <3>1. toStop' \in [User -> 0 .. Cardinality(Consumer)]
      BY <1>0, <2>5 DEF sendSignal
    <3> QED BY <2>5, <3>1 DEF sendSignal, TypeOK
  <2>6. ASSUME NEW u \in User, stopConsumer(u) PROVE Rest
    <3>1. toStop' \in [User -> 0 .. Cardinality(Consumer)]
      BY <1>0, <2>6 DEF stopConsumer
    <3>2. callerPc' \in [User -> {"idle", "signal", "consumers", "report", "blocked", "done"}]
      BY <2>6 DEF stopConsumer
    <3> QED BY <2>6, <3>1, <3>2 DEF stopConsumer, TypeOK
  <2>7. ASSUME NEW u \in User, reportStop(u) \/ shutdownPool(u) PROVE Rest
    <3>1. callerPc' \in [User -> {"idle", "signal", "consumers", "report", "blocked", "done"}]
      BY <2>7 DEF reportStop, shutdownPool
    <3>2. centralErr' \in 0 .. CentralCap
      BY <2>7 DEF reportStop, shutdownPool
    <3>3. UNCHANGED <<token, stoppers, stops, receiptPc, errorPc, collectorPc, shutdownSignal,
                      shutdown, monitoring, toStop>>
      BY <2>7 DEF reportStop, shutdownPool
    <3> QED BY <3>1, <3>2, <3>3 DEF TypeOK
  <2>8. ASSUME monitorForShutdown PROVE Rest
    BY <2>8 DEF monitorForShutdown, TypeOK
  <2>9. ASSUME Rest PROVE ServiceTypeOK' /\ stoppers' <= stops'
    BY <2>1, <2>9 DEF TypeOK
  <2> QED BY <1>7, <2>2, <2>3, <2>4, <2>5, <2>6, <2>7, <2>8, <2>9 DEF OtherStep, CallerStep
<1>8. CASE UNCHANGED allVars
  BY <1>8 DEF allVars, TypeOK
<1> QED BY <1>1, <1>2, <1>3, <1>4, <1>5, <1>6, <1>7, <1>8, Steps

-----------------------------------------------------------------------------
(* startAutoPublishingLoop has started the one loop there is, and only a   *)
(* loop that waits for its semaphore has a letter.                         *)
LEMMA LoopStep ==
    ASSUME ServiceTypeOK, LoopIffStarted, [ServiceNext]_allVars
    PROVE  LoopIffStarted'
<1> USE DEF LoopIffStarted, channel, stopping, running, work, publisher, vars, service, retrying,
            Receive
<1>1. CASE PublisherStep
  <2>1. CASE \E l \in Letter : QueueLetter(l) \/ finishPublish(l)
    BY <2>1 DEF QueueLetter, finishPublish
  <2>2. CASE StartAutoPublishing \/ sendStop \/ publishNil
    BY <2>2 DEF StartAutoPublishing, sendStop, publishNil
  <2>3. CASE Loop
    BY <2>3 DEF Loop, stopAtTop, enterDeliver, receiveLetter, receiveNil, drained, spawnPublish,
       stopAtCheck, goOn, exitLoop
  <2> QED BY <1>1, <2>1, <2>2, <2>3 DEF PublisherStep
<1>2. CASE OtherStep
  BY <1>2, OthersLeave
<1>3. CASE \E l \in Letter : queueAfterShutdown(l)
  BY <1>3 DEF queueAfterShutdown
<1>4. CASE \E r \in receipts : settleReceipt(r) \/ retryReceipt(r)
  BY <1>4 DEF settleReceipt, receiveReceipt, retryReceipt
<1>5. CASE requeue \/ reportFailure
  BY <1>5 DEF requeue, reportFailure
<1>6. CASE UNCHANGED allVars
  BY <1>6 DEF allVars
<1> QED BY <1>1, <1>2, <1>3, <1>4, <1>5, <1>6, Steps

(* The handler of receipts lets go of its letter when it queues or reports *)
(* it, and of none before.                                                 *)
LEMMA FailedStep ==
    ASSUME ServiceTypeOK, FailedInHand, [ServiceNext]_allVars
    PROVE  FailedInHand'
<1> USE AutoAssumption DEF FailedInHand, Handling, publisher, service, retrying
<1>1. CASE PublisherStep
  BY <1>1 DEF PublisherStep
<1>2. CASE OtherStep
  <2>1. failed' = failed
    BY <1>2, OthersLeave
  <2>2. receiptPc' = receiptPc \/ endHandler \/ reportRetry
    BY <1>2 DEF OtherStep, handleError, endErrors, collectError, passError, endCollector,
       Shutdown, CallerStep, sendSignal, stopConsumer, reportStop, shutdownPool,
       monitorForShutdown
  <2> QED BY <2>1, <2>2 DEF endHandler, reportRetry
<1>3. CASE \E l \in Letter : queueAfterShutdown(l)
  BY <1>3 DEF queueAfterShutdown
<1>4. ASSUME NEW r \in receipts, settleReceipt(r) PROVE FailedInHand'
  BY <1>4 DEF settleReceipt
<1>5. ASSUME NEW r \in receipts, retryReceipt(r) PROVE FailedInHand'
  <2>1. r.letter \in Letter
    BY DEF ServiceTypeOK, TypeOK, Receipt
  <2> QED BY <1>5, <2>1 DEF retryReceipt
<1>6. CASE requeue
  BY <1>6 DEF requeue
<1>7. CASE reportFailure
  BY <1>7 DEF reportFailure
<1>8. CASE UNCHANGED allVars
  BY <1>8 DEF allVars
<1> QED BY <1>1, <1>2, <1>3, <1>4, <1>5, <1>6, <1>7, <1>8, Steps

(* Only the loop hands out the nil letter, and it has it from a queue that *)
(* a stop has closed, which stays closed.                                  *)
LEMMA NilStep ==
    ASSUME ServiceTypeOK, NilAfterClose, [ServiceNext]_allVars
    PROVE  NilAfterClose'
<1> USE AutoAssumption DEF NilAfterClose, channel, stopping, running, work, publisher, vars,
            service, retrying, Receive
<1>1. CASE PublisherStep
  <2>1. CASE \E l \in Letter : QueueLetter(l) \/ finishPublish(l)
    BY <2>1 DEF QueueLetter, finishPublish, Sent, Refused
  <2>2. CASE StartAutoPublishing \/ sendStop \/ publishNil
    BY <2>2 DEF StartAutoPublishing, sendStop, publishNil
  <2>3. CASE receiveLetter
    <3>1. Head(letters) \in Letter
      BY <2>3 DEF receiveLetter, ServiceTypeOK, TypeOK
    <3> QED BY <2>3, <3>1 DEF receiveLetter
  <2>4. CASE Loop /\ ~receiveLetter
    BY <2>4 DEF Loop, stopAtTop, enterDeliver, receiveNil, drained, spawnPublish,
       stopAtCheck, goOn, exitLoop
  <2> QED BY <1>1, <2>1, <2>2, <2>3, <2>4 DEF PublisherStep
<1>2. CASE OtherStep
  BY <1>2, OthersLeave
<1>3. CASE \E l \in Letter : queueAfterShutdown(l)
  BY <1>3 DEF queueAfterShutdown
<1>4. CASE \E r \in receipts : settleReceipt(r) \/ retryReceipt(r)
  BY <1>4 DEF settleReceipt, receiveReceipt, retryReceipt
<1>5. CASE requeue \/ reportFailure
  BY <1>5 DEF requeue, reportFailure, Sent, Refused
<1>6. CASE UNCHANGED allVars
  BY <1>6 DEF allVars
<1> QED BY <1>1, <1>2, <1>3, <1>4, <1>5, <1>6, Steps

-----------------------------------------------------------------------------
(* The numbers that make up the places of a letter, and who is pending.    *)
LEMMA Counts ==
    ASSUME ServiceTypeOK, LettersAccountedFor, NEW l \in Letter
    PROVE  /\ Times(letters, l) \in Nat /\ Told(l) \in Nat
           /\ l \in Pending <=> /\ queued[l] = "true" /\ l \notin settled /\ l \notin givenUp
           /\ Places(l) = One(l \in Pending)
<1>1. Times(letters, l) \in Nat
  BY TimesType DEF ServiceTypeOK, TypeOK
<1>2. Told(l) \in Nat
  <2>1. receipts \in SUBSET Receipt
    BY DEF ServiceTypeOK, TypeOK
  <2>2. Cardinality({r \in receipts : r.letter = l}) \in Nat
    BY <2>1, ToldType
  <2> QED BY <2>2 DEF Told
<1> QED BY <1>1, <1>2, PlacesAre DEF Pending

(* A receipt that is taken, or sent.                                       *)
LEMMA ToldLess ==
    ASSUME ServiceTypeOK, NEW r \in receipts, receipts' = receipts \ {r}
    PROVE  \A l \in Letter : Told(l)' = IF r.letter = l THEN Told(l) - 1 ELSE Told(l)
<1> SUFFICES ASSUME NEW l \in Letter
             PROVE  Told(l)' = IF r.letter = l THEN Told(l) - 1 ELSE Told(l)
  OBVIOUS
<1> DEFINE S == {x \in receipts : x.letter = l}
           Then == {x \in receipts' : x.letter = l}
<1>1. Then = S \ {r} /\ (r \in S <=> r.letter = l)
  OBVIOUS
<1>2. Told(l) = Cardinality(S) /\ Told(l)' = Cardinality(Then)
  BY DEF Told
<1>3. IsFiniteSet(S)
  BY ToldType DEF ServiceTypeOK, TypeOK
<1> HIDE DEF S, Then
<1>4. Cardinality(S \ {r}) = IF r \in S THEN Cardinality(S) - 1 ELSE Cardinality(S)
  BY <1>3, FS_RemoveElement
<1> QED BY <1>1, <1>2, <1>4

LEMMA ToldMore ==
    ASSUME ServiceTypeOK, NEW n \in Letter, NEW b \in BOOLEAN,
           receipts' = receipts \cup {[letter |-> n, success |-> b]}, Told(n) = 0
    PROVE  \A l \in Letter : Told(l)' = IF l = n THEN 1 ELSE Told(l)
<1> DEFINE new == [letter |-> n, success |-> b]
<1>1. ASSUME NEW l \in Letter, l # n
      PROVE  Told(l)' = Told(l)
  <2>1. {x \in receipts' : x.letter = l} = {x \in receipts : x.letter = l}
    BY <1>1
  <2> QED BY <2>1 DEF Told
<1>2. Told(n)' = 1
  <2>1. \A r \in receipts : r.letter # n
    BY ToldType DEF ServiceTypeOK, TypeOK, Told
  <2>2. {x \in receipts' : x.letter = n} = {new}
    BY <2>1
  <2>3. Cardinality({new}) = 1
    BY FS_Singleton
  <2> HIDE DEF new
  <2>4. Cardinality({x \in receipts' : x.letter = n}) = 1
    BY <2>2, <2>3, Zenon
  <2> QED BY <2>4 DEF Told
<1> QED BY <1>1, <1>2

(* What each step must show of a letter.                                   *)
Kept(l) ==
    /\ Places(l)' = One(l \in Pending)'
    /\ l \in settled' \cup givenUp' => queued'[l] = "true"
    /\ ~(l \in settled' /\ l \in givenUp')

(* A step that leaves a letter where it is.                                *)
LEMMA KeptInPlace ==
    ASSUME ServiceTypeOK, LettersAccountedFor, EndedWereAccepted, EndsOnce, NEW l \in Letter,
           Times(letters', l) = Times(letters, l), Told(l)' = Told(l),
           hand' = l <=> hand = l, failed' = l <=> failed = l,
           l \in publishing' \cup older' <=> l \in publishing \cup older,
           ~(l \in publishing' /\ l \in older'),
           l \in settled' <=> l \in settled, l \in givenUp' <=> l \in givenUp,
           queued'[l] = queued[l] \/ (queued[l] = "no" /\ queued'[l] = "false")
    PROVE  Kept(l)
<1>1. /\ Times(letters, l) \in Nat /\ Told(l) \in Nat
      /\ l \in Pending <=> /\ queued[l] = "true" /\ l \notin settled /\ l \notin givenUp
      /\ Places(l) = One(l \in Pending)
  BY Counts
<1>2. (l \in Pending)' <=> /\ queued'[l] = "true" /\ l \notin settled' /\ l \notin givenUp'
  BY DEF Pending
<1>3. (l \in Pending)' <=> l \in Pending
  BY <1>1, <1>2 DEF EndedWereAccepted
<1> DEFINE rest == Times(letters, l) + Told(l) + One(hand = l) + One(failed = l)
<1>4. Places(l) = rest + One(l \in publishing) + One(l \in older)
      /\ Places(l)' = rest + One(l \in publishing') + One(l \in older')
  BY <1>1 DEF Places, One
<1>5. Places(l)' = Places(l)
  BY <1>1, <1>4 DEF One
<1>6. Places(l)' = One(l \in Pending)'
  BY <1>1, <1>3, <1>5 DEF One
<1> QED BY <1>6 DEF Kept, EndedWereAccepted, EndsOnce

(* A letter that is somewhere is pending, and in no second place.          *)
LEMMA OnePlace ==
    ASSUME ServiceTypeOK, LettersAccountedFor, NEW l \in Letter
    PROVE  /\ ~(l \in publishing /\ l \in older)
           /\ l \in publishing \cup older \/ hand = l \/ failed = l
                \/ Times(letters, l) >= 1 \/ Told(l) >= 1 => l \in Pending
           /\ l \in publishing \cup older =>
                 Times(letters, l) = 0 /\ Told(l) = 0 /\ hand # l /\ failed # l
           /\ hand = l =>
                 /\ Times(letters, l) = 0 /\ Told(l) = 0 /\ failed # l
                 /\ l \notin publishing \cup older
           /\ failed = l =>
                 /\ Times(letters, l) = 0 /\ Told(l) = 0 /\ hand # l
                 /\ l \notin publishing \cup older
           /\ Times(letters, l) >= 1 =>
                 /\ Times(letters, l) = 1 /\ Told(l) = 0 /\ hand # l /\ failed # l
                 /\ l \notin publishing \cup older
           /\ Told(l) >= 1 =>
                 /\ Told(l) = 1 /\ Times(letters, l) = 0 /\ hand # l /\ failed # l
                 /\ l \notin publishing \cup older
           /\ l \notin Pending =>
                 /\ Times(letters, l) = 0 /\ Told(l) = 0 /\ hand # l /\ failed # l
                 /\ l \notin publishing \cup older
<1>1. /\ Times(letters, l) \in Nat /\ Told(l) \in Nat
      /\ Places(l) = One(l \in Pending)
  BY Counts
<1> DEFINE t == Times(letters, l)
           d == Told(l)
<1>2. t + d + One(hand = l) + One(l \in publishing) + One(l \in older) + One(failed = l)
        = One(l \in Pending)
  BY <1>1 DEF Places
<1>3. t \in Nat /\ d \in Nat
  BY <1>1
<1> HIDE DEF t, d
<1>4. /\ ~(l \in publishing /\ l \in older)
      /\ l \notin Pending =>
            t = 0 /\ d = 0 /\ hand # l /\ failed # l /\ l \notin publishing /\ l \notin older
  BY <1>2, <1>3 DEF One
<1>5. l \in publishing \/ l \in older => t = 0 /\ d = 0 /\ hand # l /\ failed # l
  BY <1>2, <1>3 DEF One
<1>6. hand = l => t = 0 /\ d = 0 /\ failed # l /\ l \notin publishing /\ l \notin older
  BY <1>2, <1>3 DEF One
<1>7. failed = l => t = 0 /\ d = 0 /\ hand # l /\ l \notin publishing /\ l \notin older
  BY <1>2, <1>3 DEF One
<1>8. t >= 1 => t = 1 /\ d = 0 /\ hand # l /\ failed # l /\ l \notin publishing /\ l \notin older
  BY <1>2, <1>3 DEF One
<1>9. d >= 1 => d = 1 /\ t = 0 /\ hand # l /\ failed # l /\ l \notin publishing /\ l \notin older
  BY <1>2, <1>3 DEF One
<1> QED BY <1>4, <1>5, <1>6, <1>7, <1>8, <1>9 DEF t, d

(* A letter that goes to the one place p, or, with p = "none", ends.       *)
LEMMA KeptMoved ==
    ASSUME NEW l \in Letter, NEW p \in {"queue", "receipt", "hand", "goroutine", "failed", "none"},
           Times(letters', l) = One(p = "queue"), Told(l)' = One(p = "receipt"),
           hand' = l <=> p = "hand", failed' = l <=> p = "failed",
           l \in publishing' <=> p = "goroutine", l \notin older',
           queued'[l] = "true", ~(l \in settled' /\ l \in givenUp'),
           l \in settled' \cup givenUp' <=> p = "none"
    PROVE  Kept(l)
<1>1. (l \in Pending)' <=> p # "none"
  BY DEF Pending
<1>2. Places(l)' = One(p = "queue") + One(p = "receipt") + One(p = "hand")
                     + One(p = "goroutine") + 0 + One(p = "failed")
  BY DEF Places, One
<1>3. Places(l)' = One(p # "none")
  BY <1>2 DEF One
<1> QED BY <1>1, <1>3 DEF Kept, One

(* The publisher: QueueLetter, the loop, and the goroutines that publish.  *)
LEMMA PublisherKeeps ==
    ASSUME IInv, PublisherStep, NEW l \in Letter
    PROVE  Kept(l)
<1> USE AutoAssumption
        DEF channel, stopping, running, work, service, retrying
<1>1. /\ ServiceTypeOK /\ LettersAccountedFor /\ EndedWereAccepted /\ EndsOnce /\ LoopIffStarted
      /\ letters \in Seq(Letter) /\ queued \in [Letter -> {"no", "true", "false"}]
  BY DEF IInv, ServiceTypeOK, TypeOK
<1>2. UNCHANGED <<failed, givenUp>>
  BY DEF PublisherStep
<1>3. ASSUME UNCHANGED <<letters, receipts, publishing, older, settled>>,
             hand' = l <=> hand = l,
             queued'[l] = queued[l] \/ (queued[l] = "no" /\ queued'[l] = "false")
      PROVE  Kept(l)
  <2>1. Told(l)' = Told(l)
    BY <1>3 DEF Told
  <2>2. ~(l \in publishing /\ l \in older)
    BY <1>1, OnePlace
  <2> QED BY <1>1, <1>2, <1>3, <2>1, <2>2, KeptInPlace
<1>4. ASSUME NEW n \in Letter, QueueLetter(n) PROVE Kept(l)
  <2>1. UNCHANGED <<hand, receipts, publishing, older, settled>>
        /\ \/ Sent(n) /\ queued' = [queued EXCEPT ![n] = "true"]
           \/ Refused /\ queued' = [queued EXCEPT ![n] = "false"]
        /\ queued[n] = "no"
    BY <1>4 DEF QueueLetter
  <2>2. CASE Refused /\ queued' = [queued EXCEPT ![n] = "false"]
    BY <1>1, <1>3, <2>1, <2>2 DEF Refused
  <2>3. CASE Sent(n) /\ queued' = [queued EXCEPT ![n] = "true"]
    <3>1. Times(letters', l) = Times(letters, l) + (IF n = l THEN 1 ELSE 0)
          /\ Times(letters, l) \in Nat
      <4>1. letters \in Seq(Letter) /\ letters' = Append(letters, n)
        BY <1>1, <2>3 DEF Sent
      <4>2. Times(Append(letters, n), l) = Times(letters, l) + (IF n = l THEN 1 ELSE 0)
        BY <4>1, TimesAppend
      <4> QED BY <4>1, <4>2, TimesType
    <3>2. Told(l)' = Told(l)
      BY <2>1 DEF Told
    <3>3. CASE l # n
      <4>1. ~(l \in publishing /\ l \in older)
        BY <1>1, OnePlace
      <4> QED BY <1>1, <1>2, <2>1, <2>3, <3>1, <3>2, <3>3, <4>1, KeptInPlace
    <3>4. CASE l = n
      <4>1. l \notin Pending /\ l \notin settled \cup givenUp
        BY <1>1, <2>1, <3>4 DEF Pending, EndedWereAccepted
      <4>2. Times(letters, l) = 0 /\ Told(l) = 0 /\ hand # l /\ failed # l
            /\ l \notin publishing \cup older
        BY <1>1, <4>1, OnePlace
      <4>3. Times(letters', l) = One("queue" = "queue") /\ Told(l)' = One("queue" = "receipt")
        BY <3>1, <3>2, <3>4, <4>2 DEF One
      <4>4. queued'[l] = "true"
        BY <1>1, <2>3, <3>4
      <4> QED BY <1>2, <2>1, <4>1, <4>2, <4>3, <4>4, KeptMoved
    <3> QED BY <3>3, <3>4
  <2> QED BY <2>1, <2>2, <2>3
<1>5. ASSUME NEW n \in Letter, finishPublish(n) PROVE Kept(l)
  <2>1. /\ n \in publishing \cup older /\ publishing' = publishing \ {n} /\ older' = older \ {n}
        /\ UNCHANGED <<letters, hand, queued, settled>>
    BY <1>5 DEF finishPublish
  <2>2. PICK b \in BOOLEAN : receipts' = receipts \cup {[letter |-> n, success |-> b]}
    BY <1>5 DEF finishPublish
  <2>3. Times(letters, n) = 0 /\ Told(n) = 0 /\ hand # n /\ failed # n /\ n \in Pending
    BY <1>1, <2>1, OnePlace
  <2>4. Told(l)' = IF l = n THEN 1 ELSE Told(l)
    BY <1>1, <2>2, <2>3, ToldMore
  <2>5. CASE l # n
    <3>1. ~(l \in publishing /\ l \in older)
      BY <1>1, OnePlace
    <3> QED BY <1>1, <1>2, <2>1, <2>4, <2>5, <3>1, KeptInPlace
  <2>6. CASE l = n
    <3>1. Times(letters', l) = One("receipt" = "queue") /\ Told(l)' = One("receipt" = "receipt")
      BY <2>1, <2>3, <2>4, <2>6 DEF One
    <3>2. queued'[l] = "true" /\ l \notin settled' /\ l \notin givenUp'
      BY <1>2, <2>1, <2>3, <2>6 DEF Pending
    <3> QED BY <1>2, <2>1, <2>3, <2>6, <3>1, <3>2, KeptMoved
  <2> QED BY <2>5, <2>6
<1>6. CASE receiveLetter
  <2> DEFINE h == Head(letters)
  <2>1. /\ letters # <<>> /\ letters' = Tail(letters) /\ hand' = h /\ hand = None
        /\ UNCHANGED <<receipts, publishing, older, queued, settled>>
    BY <1>1, <1>6 DEF receiveLetter, LoopIffStarted
  <2>2. Times(letters, l) = Times(letters', l) + (IF h = l THEN 1 ELSE 0)
        /\ Times(letters', l) \in Nat
    <3>1. Tail(letters) \in Seq(Letter)
      BY <1>1, <2>1
    <3> QED BY <1>1, <2>1, <3>1, TimesTail, TimesType
  <2>3. Told(l)' = Told(l)
    BY <2>1 DEF Told
  <2>4. CASE l # h
    <3>1. ~(l \in publishing /\ l \in older)
      BY <1>1, OnePlace
    <3> QED BY <1>1, <1>2, <2>1, <2>2, <2>3, <2>4, <3>1, KeptInPlace
  <2>5. CASE l = h
    <3>1. Times(letters, l) >= 1
      BY <2>2, <2>5
    <3>2. /\ Times(letters, l) = 1 /\ Told(l) = 0 /\ failed # l
          /\ l \notin publishing \cup older /\ l \in Pending
      BY <1>1, <3>1, OnePlace
    <3>3. Times(letters', l) = One("hand" = "queue") /\ Told(l)' = One("hand" = "receipt")
      BY <2>2, <2>3, <2>5, <3>2 DEF One
    <3>4. queued'[l] = "true" /\ l \notin settled' /\ l \notin givenUp'
      BY <1>2, <2>1, <3>2 DEF Pending
    <3> QED BY <1>2, <2>1, <2>5, <3>2, <3>3, <3>4, KeptMoved
  <2> QED BY <2>4, <2>5
<1>7. CASE enterDeliver
  <2>1. /\ older' = older \cup publishing /\ publishing' = {}
        /\ UNCHANGED <<letters, hand, receipts, queued, settled>>
    BY <1>7 DEF enterDeliver
  <2>2. Told(l)' = Told(l)
    BY <2>1 DEF Told
  <2> QED BY <1>1, <1>2, <2>1, <2>2, KeptInPlace
<1>8. CASE spawnPublish
  <2>1. /\ publishing' = publishing \cup {hand} /\ hand' = None
        /\ UNCHANGED <<letters, older, receipts, queued, settled>>
    BY <1>8 DEF spawnPublish
  <2>2. Told(l)' = Told(l)
    BY <2>1 DEF Told
  <2>3. CASE l # hand
    <3>1. ~(l \in publishing /\ l \in older)
      BY <1>1, OnePlace
    <3> QED BY <1>1, <1>2, <2>1, <2>2, <2>3, <3>1, KeptInPlace
  <2>4. CASE l = hand
    <3>1. /\ Times(letters, l) = 0 /\ Told(l) = 0 /\ failed # l
          /\ l \notin publishing \cup older /\ l \in Pending
      BY <1>1, <2>4, OnePlace
    <3>2. Times(letters', l) = One("goroutine" = "queue") /\ Told(l)' = One("goroutine" = "receipt")
      BY <2>1, <2>2, <3>1 DEF One
    <3>3. queued'[l] = "true" /\ l \notin settled' /\ l \notin givenUp'
      BY <1>2, <2>1, <3>1 DEF Pending
    <3> QED BY <1>2, <2>1, <2>4, <3>1, <3>2, <3>3, KeptMoved
  <2> QED BY <2>3, <2>4
<1>9. CASE receiveNil
  BY <1>1, <1>3, <1>9 DEF receiveNil, LoopIffStarted
<1>10. CASE StartAutoPublishing \/ sendStop \/ publishNil
  BY <1>3, <1>10 DEF StartAutoPublishing, sendStop, publishNil
<1>11. CASE stopAtTop \/ drained \/ stopAtCheck \/ goOn \/ exitLoop
  BY <1>3, <1>11 DEF stopAtTop, drained, stopAtCheck, goOn, exitLoop
<1> QED BY <1>4, <1>5, <1>6, <1>7, <1>8, <1>9, <1>10, <1>11 DEF PublisherStep, Loop

(* The handler of receipts: a letter goes from its receipt to the handler, *)
(* from there back to the queue, or is reported.                           *)
LEMMA HandlerKeeps ==
    ASSUME IInv, NEW l \in Letter,
           \/ \E r \in receipts : settleReceipt(r) \/ retryReceipt(r)
           \/ requeue \/ reportFailure
    PROVE  Kept(l)
<1> USE AutoAssumption
        DEF channel, stopping, running, work, service, retrying, Receive
<1>1. /\ ServiceTypeOK /\ LettersAccountedFor /\ EndedWereAccepted /\ EndsOnce /\ FailedInHand
      /\ letters \in Seq(Letter) /\ receipts \in SUBSET Receipt
  BY DEF IInv, ServiceTypeOK, TypeOK
<1>2. ~(l \in publishing /\ l \in older)
  BY <1>1, OnePlace
<1>3. ASSUME NEW r \in receipts, receipts' = receipts \ {r}
      PROVE  /\ r.letter \in Letter
             /\ Told(l)' = IF r.letter = l THEN Told(l) - 1 ELSE Told(l)
             /\ r.letter = l =>
                   /\ Told(l)' = 0 /\ Times(letters, l) = 0 /\ hand # l /\ failed # l
                   /\ l \notin publishing \cup older /\ l \in Pending
  <2>1. r.letter \in Letter
    BY <1>1 DEF Receipt
  <2>2. Told(l)' = IF r.letter = l THEN Told(l) - 1 ELSE Told(l)
    BY <1>1, <1>3, ToldLess
  <2>3. ASSUME r.letter = l
        PROVE  Told(l) >= 1
    <3>1. Cardinality({x \in receipts : x.letter = l}) # 0
      BY <1>1, <2>3, ToldType
    <3>2. Told(l) \in Nat
      BY <1>1, Counts
    <3> QED BY <3>1, <3>2 DEF Told
  <2>4. ASSUME r.letter = l
        PROVE  /\ Told(l)' = 0 /\ Times(letters, l) = 0 /\ hand # l /\ failed # l
               /\ l \notin publishing \cup older /\ l \in Pending
    <3>1. /\ Told(l) = 1 /\ Times(letters, l) = 0 /\ hand # l /\ failed # l
          /\ l \notin publishing \cup older /\ l \in Pending
      BY <1>1, <2>3, <2>4, OnePlace
    <3> QED BY <2>2, <2>4, <3>1
  <2> QED BY <2>1, <2>2, <2>4
<1>4. ASSUME NEW r \in receipts, settleReceipt(r) PROVE Kept(l)
  <2>1. /\ receipts' = receipts \ {r} /\ settled' = settled \cup {r.letter}
        /\ UNCHANGED <<letters, hand, publishing, older, queued, failed, givenUp>>
    BY <1>4 DEF settleReceipt, receiveReceipt
  <2>2. CASE r.letter # l
    BY <1>1, <1>2, <1>3, <2>1, <2>2, KeptInPlace
  <2>3. CASE r.letter = l
    <3>1. /\ Told(l)' = 0 /\ Times(letters, l) = 0 /\ hand # l /\ failed # l
          /\ l \notin publishing \cup older /\ l \in Pending
      BY <1>3, <2>1, <2>3
    <3>2. Times(letters', l) = One("none" = "queue") /\ Told(l)' = One("none" = "receipt")
      BY <2>1, <3>1 DEF One
    <3>3. queued'[l] = "true" /\ l \in settled' /\ l \notin givenUp'
      BY <2>1, <2>3, <3>1 DEF Pending
    <3> QED BY <2>1, <3>1, <3>2, <3>3, KeptMoved
  <2> QED BY <2>2, <2>3
<1>5. ASSUME NEW r \in receipts, retryReceipt(r) PROVE Kept(l)
  <2>1. /\ receipts' = receipts \ {r} /\ failed' = r.letter /\ failed = None
        /\ UNCHANGED <<letters, hand, publishing, older, queued, settled, givenUp>>
    BY <1>1, <1>5 DEF retryReceipt, FailedInHand
  <2>2. CASE r.letter # l
    BY <1>1, <1>2, <1>3, <2>1, <2>2, KeptInPlace
  <2>3. CASE r.letter = l
    <3>1. /\ Told(l)' = 0 /\ Times(letters, l) = 0 /\ hand # l
          /\ l \notin publishing \cup older /\ l \in Pending
      BY <1>3, <2>1, <2>3
    <3>2. Times(letters', l) = One("failed" = "queue") /\ Told(l)' = One("failed" = "receipt")
      BY <2>1, <3>1 DEF One
    <3>3. queued'[l] = "true" /\ l \notin settled' /\ l \notin givenUp'
      BY <2>1, <3>1 DEF Pending
    <3> QED BY <2>1, <2>3, <3>1, <3>2, <3>3, KeptMoved
  <2> QED BY <2>2, <2>3
<1>6. CASE requeue
  <2>1. /\ failed \in Letter
        /\ UNCHANGED <<hand, publishing, older, receipts, queued, settled, givenUp>>
        /\ (Sent(failed) /\ failed' = None) \/ (Refused /\ failed' = failed)
    BY <1>1, <1>6 DEF requeue, FailedInHand, ServiceTypeOK
  <2>2. Told(l)' = Told(l)
    BY <2>1 DEF Told
  <2>3. CASE Refused /\ failed' = failed
    BY <1>1, <1>2, <2>1, <2>2, <2>3, KeptInPlace DEF Refused
  <2>4. CASE Sent(failed) /\ failed' = None
    <3>1. Times(letters', l) = Times(letters, l) + (IF failed = l THEN 1 ELSE 0)
          /\ Times(letters, l) \in Nat
      BY <1>1, <2>1, <2>4, TimesAppend, TimesType DEF Sent
    <3>2. CASE failed # l
      BY <1>1, <1>2, <2>1, <2>2, <2>4, <3>1, <3>2, KeptInPlace
    <3>3. CASE failed = l
      <4>1. /\ Times(letters, l) = 0 /\ Told(l) = 0 /\ hand # l
            /\ l \notin publishing \cup older /\ l \in Pending
        BY <1>1, <3>3, OnePlace
      <4>2. Times(letters', l) = One("queue" = "queue") /\ Told(l)' = One("queue" = "receipt")
        BY <2>2, <3>1, <3>3, <4>1 DEF One
      <4>3. queued'[l] = "true" /\ l \notin settled' /\ l \notin givenUp'
        BY <2>1, <4>1 DEF Pending
      <4> QED BY <2>1, <2>4, <4>1, <4>2, <4>3, KeptMoved
    <3> QED BY <3>2, <3>3
  <2> QED BY <2>1, <2>3, <2>4
<1>7. CASE reportFailure
  <2>1. /\ failed \in Letter /\ failed' = None /\ givenUp' = givenUp \cup {failed}
        /\ UNCHANGED <<letters, hand, publishing, older, receipts, queued, settled>>
    BY <1>1, <1>7 DEF reportFailure, FailedInHand, ServiceTypeOK, publisher, vars
  <2>2. Told(l)' = Told(l)
    BY <2>1 DEF Told
  <2>3. CASE failed # l
    BY <1>1, <1>2, <2>1, <2>2, <2>3, KeptInPlace
  <2>4. CASE failed = l
    <3>1. /\ Times(letters, l) = 0 /\ Told(l) = 0 /\ hand # l
          /\ l \notin publishing \cup older /\ l \in Pending
      BY <1>1, <2>4, OnePlace
    <3>2. Times(letters', l) = One("none" = "queue") /\ Told(l)' = One("none" = "receipt")
      BY <2>1, <2>2, <3>1 DEF One
    <3>3. queued'[l] = "true" /\ l \notin settled' /\ l \in givenUp'
      BY <2>1, <2>4, <3>1 DEF Pending
    <3> QED BY <2>1, <3>1, <3>2, <3>3, KeptMoved
  <2> QED BY <2>3, <2>4
<1> QED BY <1>4, <1>5, <1>6, <1>7

(* No step moves a letter but from one place to another.                   *)
LEMMA LettersStep ==
    ASSUME IInv, ServiceTypeOK', [ServiceNext]_allVars
    PROVE  LettersAccountedFor' /\ EndedWereAccepted' /\ EndsOnce'
<1>1. /\ ServiceTypeOK /\ LettersAccountedFor /\ EndedWereAccepted /\ EndsOnce
      /\ queued \in [Letter -> {"no", "true", "false"}]
  BY DEF IInv, ServiceTypeOK, TypeOK
<1>2. ASSUME NEW l \in Letter PROVE Kept(l)
  <2>1. ASSUME UNCHANGED <<letters, receipts, hand, publishing, older, settled, failed, givenUp>>,
               queued'[l] = queued[l] \/ (queued[l] = "no" /\ queued'[l] = "false")
        PROVE  Kept(l)
    <3>1. Told(l)' = Told(l)
      BY <2>1 DEF Told
    <3>2. ~(l \in publishing /\ l \in older)
      BY <1>1, OnePlace
    <3> QED BY <1>1, <2>1, <3>1, <3>2, KeptInPlace
  <2>2. CASE PublisherStep
    BY <2>2, PublisherKeeps
  <2>3. CASE OtherStep
    BY <2>1, <2>3, OthersLeave
  <2>4. ASSUME NEW n \in Letter, queueAfterShutdown(n) PROVE Kept(l)
    BY <1>1, <2>1, <2>4 DEF queueAfterShutdown, channel, work, running, service, retrying
  <2>5. CASE \/ \E r \in receipts : settleReceipt(r) \/ retryReceipt(r)
             \/ requeue \/ reportFailure
    BY <2>5, HandlerKeeps
  <2>6. CASE UNCHANGED allVars
    BY <2>1, <2>6 DEF allVars, publisher, vars, channel, running, work, service, retrying
  <2> QED BY <2>2, <2>3, <2>4, <2>5, <2>6, Steps
<1>3. LettersAccountedFor'
  BY <1>2, PlacesAre DEF Kept
<1>4. \A l \in settled' \cup givenUp' : l \in Letter
  BY DEF ServiceTypeOK, TypeOK
<1> QED BY <1>2, <1>3, <1>4 DEF Kept, EndedWereAccepted, EndsOnce

(* Nothing is queued yet when the service is made.                         *)
LEMMA IInvInit == ServiceInit => IInv
<1> SUFFICES ASSUME ServiceInit PROVE IInv
  OBVIOUS
<1> USE DEF ServiceInit, Init
<1>1. Cardinality(Consumer) \in Nat
  BY ServiceAssumption, FS_CardinalityType
<1>2. ServiceTypeOK
  <2>1. letters \in Seq(Letter) /\ Len(letters) <= LettersCap
    <3>1. letters = <<>> /\ LettersCap \in Nat
      BY AutoAssumption
    <3>2. <<>> \in Seq(Letter) /\ Len(<<>>) = 0
      OBVIOUS
    <3> HIDE DEF ServiceInit, Init
    <3> QED BY <3>1, <3>2
  <2>2. token \in BOOLEAN /\ closed \in BOOLEAN /\ autoStarted \in BOOLEAN /\ crashed \in BOOLEAN
        /\ loop \in LoopPCs /\ hand \in Letter \cup {None}
    BY DEF LoopPCs
  <2>3. stoppers \in 0 .. MaxStops /\ stops \in 0 .. MaxStops /\ starts \in 0 .. MaxStarts
    BY AutoAssumption
  <2>4. /\ publishing \in SUBSET (Letter \cup {None}) /\ older \in SUBSET (Letter \cup {None})
        /\ receipts \in SUBSET Receipt /\ settled \in SUBSET Letter /\ givenUp \in SUBSET Letter
    OBVIOUS
  <2>5. queued \in [Letter -> {"no", "true", "false"}]
    OBVIOUS
  <2>6. TypeOK
    <3> HIDE DEF ServiceInit, Init
    <3> QED BY <2>1, <2>2, <2>3, <2>4, <2>5 DEF TypeOK
  <2>7. retries \in [Letter -> 0 .. MaxRetryCount] /\ centralErr \in 0 .. CentralCap
    BY ServiceAssumption
  <2>8. callerPc \in [User -> {"idle", "signal", "consumers", "report", "blocked", "done"}]
        /\ toStop \in [User -> 0 .. Cardinality(Consumer)]
    BY <1>1
  <2>9. /\ receiptPc \in {"top", "retrying", "requeue", "refused", "exhausted", "off"}
        /\ failed \in Letter \cup {None} /\ errorPc \in {"on", "off"}
        /\ collectorPc \in {"on", "send", "off"}
        /\ shutdownSignal \in BOOLEAN /\ shutdown \in BOOLEAN /\ monitoring \in BOOLEAN
    OBVIOUS
  <2> HIDE DEF ServiceInit, Init
  <2> QED BY <2>4, <2>6, <2>7, <2>8, <2>9 DEF ServiceTypeOK
<1>3. ASSUME NEW l \in Letter PROVE Places(l) = One(l \in Pending)
  <2>1. Times(letters, l) = 0
    <3>1. {i \in DOMAIN letters : letters[i] = l} = {}
      OBVIOUS
    <3>2. Cardinality({i \in DOMAIN letters : letters[i] = l}) = 0
      BY <3>1, FS_EmptySet, Zenon
    <3> QED BY <3>2 DEF Times
  <2>2. Told(l) = 0
    <3>1. {r \in receipts : r.letter = l} = {}
      OBVIOUS
    <3>2. Cardinality({r \in receipts : r.letter = l}) = 0
      BY <3>1, FS_EmptySet, Zenon
    <3> QED BY <3>2 DEF Told
  <2>3. hand # l /\ failed # l /\ l \notin publishing /\ l \notin older /\ l \notin Pending
    BY AutoAssumption DEF Pending
  <2> QED BY <2>1, <2>2, <2>3 DEF Places, One
<1>4. LettersAccountedFor
  BY <1>3, PlacesAre
<1> QED BY <1>2, <1>4
        DEF IInv, LoopIffStarted, FailedInHand, EndedWereAccepted, EndsOnce, NilAfterClose

(* Every step of the publisher, the handlers, the callers of Shutdown and  *)
(* the monitor keeps the invariant.                                        *)
LEMMA IInvStep == IInv /\ [ServiceNext]_allVars => IInv'
<1> SUFFICES ASSUME IInv, [ServiceNext]_allVars PROVE IInv'
  OBVIOUS
<1>1. ServiceTypeOK' /\ stoppers' <= stops'
  BY TypeStep DEF IInv
<1>2. LoopIffStarted' /\ FailedInHand' /\ NilAfterClose'
  BY LoopStep, FailedStep, NilStep DEF IInv
<1>3. LettersAccountedFor' /\ EndedWereAccepted' /\ EndsOnce'
  BY <1>1, LettersStep
<1> QED BY <1>1, <1>2, <1>3 DEF IInv

(* The inductive invariant of the service, for any letters, consumers,     *)
(* callers, capacities and retries.                                        *)
THEOREM ServiceInvariant == ServiceSpec => []IInv
<1> QED BY IInvInit, IInvStep, PTL DEF ServiceSpec

(* QueueLetter, the loop, the goroutines that publish and                  *)
(* processPublishReceipts with its retries neither lose nor double an      *)
(* accepted letter, through every start, stop and closed queue.            *)
THEOREM LettersSafe == ServiceSpec => []Safety
<1>1. IInv => Safety
  BY DEF IInv, Safety
<1> QED BY <1>1, ServiceInvariant, PTL

(* No letter is both settled and reported as given up, and each was        *)
(* accepted: what processPublishReceipts tells of a letter is final.       *)
THEOREM OutcomesFinal == ServiceSpec => [](EndsOnce /\ EndedWereAccepted)
<1>1. IInv => EndsOnce /\ EndedWereAccepted
  BY DEF IInv
<1> QED BY <1>1, ServiceInvariant, PTL

(* PublishWithConfirmation is given the nil letter, and the process        *)
(* panics, only after stopAutoPublish has had the queue closed.            *)
THEOREM CrashOnlyAfterClose == ServiceSpec => [](crashed => closed)
<1>1. IInv => (crashed => closed)
  BY DEF IInv, NilAfterClose
<1> QED BY <1>1, ServiceInvariant, PTL
=============================================================================
