----------------------------- MODULE RabbitService -----------------------------
(***************************************************************************)
(* RabbitService (v2/pkg/tcr/rabbitservice.go) over its publisher: failed  *)
(* letters are queued again a bounded number of times, errors of all parts *)
(* meet in centralErr, and Shutdown stops the parts in an order of its own.*)
(*                                                                         *)
(* A consumer, from here, may have an error at any time, and may be        *)
(* started or not when it is told to stop; module Consumer has the rest.   *)
(*                                                                         *)
(* `shutdown' is a plain field that one goroutine writes and the others    *)
(* read again and again without a lock: a reader may find it false for a   *)
(* while after it was set, so reading it false restricts no step.          *)
(***************************************************************************)
EXTENDS AutoPublisher

CONSTANTS
    User,           \* goroutines that call Shutdown, once each
    Consumer,       \* the configured consumers
    MaxRetryCount,  \* PublisherConfig.MaxRetryCount
    CentralCap,     \* capacity of centralErr (1000)
    OwnHandler      \* the user gave processPublishReceipts: nothing is retried

ASSUME ServiceAssumption ==
    /\ OwnHandler \in BOOLEAN /\ MaxRetryCount \in Nat /\ CentralCap \in Nat \ {0}
    /\ IsFiniteSet(Consumer) /\ Cardinality(User) <= MaxStops

VARIABLES
    retries,        \* Letter.RetryCount
    receiptPc, failed,      \* the goroutine that handles receipts; its letter
    givenUp,        \* letters it has reported as not published
    centralErr,     \* how many errors are in it
    errorPc,        \* the goroutine that handles errors
    collectorPc,    \* the goroutine that collects the errors of consumers
    shutdownSignal, shutdown, monitoring,
    callerPc, toStop        \* per caller of Shutdown: consumers it is to stop

publisher == vars
retrying  == <<retries, receiptPc, failed, givenUp>>
reporting == <<centralErr, errorPc, collectorPc>>
signals   == <<shutdownSignal, shutdown, monitoring>>
callers   == <<callerPc, toStop>>
service   == <<retrying, reporting, signals, callers>>
allVars   == <<publisher, service>>

ServiceInit ==
    /\ Init
    /\ retries = [l \in Letter |-> 0]
    /\ receiptPc = "top" /\ failed = None /\ givenUp = {}
    /\ centralErr = 0 /\ errorPc = "on" /\ collectorPc = "on"
    /\ shutdownSignal = FALSE /\ shutdown = FALSE /\ monitoring = TRUE
    /\ callerPc = [u \in User |-> "idle"] /\ toStop = [u \in User |-> 0]

-----------------------------------------------------------------------------
(* QueueLetter looks at shutdown first, and sends afterwards.              *)
queueAfterShutdown(l) ==
    /\ queued[l] = "no" /\ shutdown
    /\ queued' = [queued EXCEPT ![l] = "false"]
    /\ UNCHANGED <<channel, stopping, running, work, receipts, settled, crashed, service>>

(* What the publisher does by itself.  The constructor starts it last; a   *)
(* user may start it again after a stop.                                   *)
publish ==
    /\ \/ starts > 0 /\ \E l \in Letter : QueueLetter(l)
       \/ \E l \in Letter : finishPublish(l)
       \/ StartAutoPublishing \/ sendStop \/ Loop \/ publishNil
    /\ UNCHANGED service

-----------------------------------------------------------------------------
(* processPublishReceipts, or invokeProcessPublishReceipts.                *)

Receive(r) ==
    /\ receipts' = receipts \ {r}
    /\ UNCHANGED <<channel, stopping, running, work, queued, crashed>>

Handling(p) ==
    /\ receiptPc' = p
    /\ UNCHANGED <<collectorPc, signals, callers>>

endHandler ==
    /\ receiptPc = "top" /\ shutdown
    /\ Handling("off")
    /\ UNCHANGED <<publisher, retries, failed, givenUp, centralErr, errorPc>>

(* A failure carries its letter (FailedLetter); the branches for one that  *)
(* does not are dead.                                                      *)
settleReceipt(r) ==
    /\ receiptPc = "top" /\ (OwnHandler \/ r.success)
    /\ receiveReceipt(r)
    /\ UNCHANGED service

(* A slip: the letter goes back with the RetryCount it had.                *)
retryForever(r) ==
    /\ receiptPc = "top" /\ ~OwnHandler /\ ~r.success
    /\ Receive(r)
    /\ failed' = r.letter
    /\ Handling(IF retries[r.letter] < MaxRetryCount THEN "retrying" ELSE "exhausted")
    /\ UNCHANGED <<settled, retries, givenUp, centralErr, errorPc>>

retryReceipt(r) ==
    /\ receiptPc = "top" /\ ~OwnHandler /\ ~r.success
    /\ Receive(r)
    /\ failed' = r.letter
    /\ IF retries[r.letter] < MaxRetryCount
       THEN /\ retries' = [retries EXCEPT ![r.letter] = @ + 1]
            /\ Handling("retrying")
       ELSE Handling("exhausted") /\ UNCHANGED retries
    /\ UNCHANGED <<settled, givenUp, centralErr, errorPc>>

(* centralErr is sent to before the letter is queued again, and after it   *)
(* has been given up.                                                      *)
reportRetry ==
    /\ receiptPc = "retrying" /\ centralErr < CentralCap
    /\ centralErr' = centralErr + 1
    /\ Handling("requeue")
    /\ UNCHANGED <<publisher, errorPc, retries, failed, givenUp>>

(* A slip: what a closed queue answers is not looked at.                   *)
requeueUnseen ==
    /\ receiptPc = "requeue"
    /\ Sent(failed) \/ Refused
    /\ failed' = None
    /\ Handling("top")
    /\ UNCHANGED <<stopping, running, work, receipts, queued, settled, crashed,
                   retries, givenUp, centralErr, errorPc>>

requeue ==
    /\ receiptPc = "requeue"
    /\ \/ Sent(failed) /\ failed' = None /\ Handling("top")
       \/ Refused /\ UNCHANGED failed /\ Handling("refused")
    /\ UNCHANGED <<stopping, running, work, receipts, queued, settled, crashed,
                   retries, givenUp, centralErr, errorPc>>

reportFailure ==
    /\ receiptPc \in {"refused", "exhausted"} /\ centralErr < CentralCap
    /\ centralErr' = centralErr + 1
    /\ givenUp' = givenUp \cup {failed}
    /\ failed' = None
    /\ Handling("top")
    /\ UNCHANGED <<publisher, errorPc, retries>>

HandleReceipt == \E r \in receipts : settleReceipt(r) \/ retryReceipt(r)

Reporting == {"retrying", "refused", "exhausted"}

HandlerStep == endHandler \/ reportRetry \/ requeue \/ reportFailure

-----------------------------------------------------------------------------
(* processErrors, or invokeProcessError.                                   *)
handleError ==
    /\ errorPc = "on" /\ centralErr > 0
    /\ centralErr' = centralErr - 1
    /\ UNCHANGED <<publisher, retrying, errorPc, collectorPc, signals, callers>>

endErrors ==
    /\ errorPc = "on" /\ shutdown
    /\ errorPc' = "off"
    /\ UNCHANGED <<publisher, retrying, centralErr, collectorPc, signals, callers>>

(* collectConsumerErrors.                                                  *)
collectError ==
    /\ collectorPc = "on" /\ Consumer # {}
    /\ collectorPc' = "send"
    /\ UNCHANGED <<publisher, retrying, centralErr, errorPc, signals, callers>>

passError ==
    /\ collectorPc = "send" /\ centralErr < CentralCap
    /\ centralErr' = centralErr + 1
    /\ collectorPc' = "on"
    /\ UNCHANGED <<publisher, retrying, errorPc, signals, callers>>

(* A slip: the break leaves the loop over one consumer, not MonitorLoop.   *)
endInnerLoop == collectorPc = "on" /\ Consumer # {} /\ shutdown /\ UNCHANGED allVars

(* It reads shutdown where it looks at a consumer: without any, never.     *)
endCollector ==
    /\ collectorPc = "on" /\ Consumer # {} /\ shutdown
    /\ collectorPc' = "off"
    /\ UNCHANGED <<publisher, retrying, centralErr, errorPc, signals, callers>>

-----------------------------------------------------------------------------
(* Shutdown.                                                               *)

Shutdown(u) ==
    /\ callerPc[u] = "idle" /\ starts > 0
    /\ callerPc' = [callerPc EXCEPT ![u] = "signal"]
    /\ stopAutoPublish \/ (~autoStarted /\ UNCHANGED publisher)
    /\ UNCHANGED <<retrying, reporting, signals, toStop>>

(* A slip: shutdownSignal has no buffer, the monitor has to take it.       *)
sendSignalUnbuffered(u) ==
    /\ callerPc[u] = "signal" /\ ~shutdownSignal /\ monitoring
    /\ shutdownSignal' = TRUE
    /\ callerPc' = [callerPc EXCEPT ![u] = "consumers"]
    /\ \E n \in {0, Cardinality(Consumer)} : toStop' = [toStop EXCEPT ![u] = n]
    /\ UNCHANGED <<publisher, retrying, reporting, shutdown, monitoring>>

(* shutdownSignal has capacity 1.  With stopConsumers, all are stopped.    *)
sendSignal(u) ==
    /\ callerPc[u] = "signal" /\ ~shutdownSignal
    /\ shutdownSignal' = TRUE
    /\ callerPc' = [callerPc EXCEPT ![u] = "consumers"]
    /\ \E n \in {0, Cardinality(Consumer)} : toStop' = [toStop EXCEPT ![u] = n]
    /\ UNCHANGED <<publisher, retrying, reporting, shutdown, monitoring>>

(* StopConsuming errs on a consumer that is not started, and one that has  *)
(* been stopped several times may keep it for ever (consumer.go:306).      *)
stopConsumer(u) ==
    /\ callerPc[u] = "consumers" /\ toStop[u] > 0
    /\ toStop' = [toStop EXCEPT ![u] = @ - 1]
    /\ \E p \in {"consumers", "report", "blocked"} :
          callerPc' = [callerPc EXCEPT ![u] = p]
    /\ UNCHANGED <<publisher, retrying, reporting, signals>>

reportStop(u) ==
    /\ callerPc[u] = "report" /\ centralErr < CentralCap
    /\ centralErr' = centralErr + 1
    /\ callerPc' = [callerPc EXCEPT ![u] = "consumers"]
    /\ UNCHANGED <<publisher, retrying, errorPc, collectorPc, signals, toStop>>

shutdownPool(u) ==
    /\ callerPc[u] = "consumers" /\ toStop[u] = 0
    /\ callerPc' = [callerPc EXCEPT ![u] = "done"]
    /\ UNCHANGED <<publisher, retrying, reporting, signals, toStop>>

PoolOpen == \A u \in User : callerPc[u] # "done"

CallerStep(u) ==
    sendSignal(u) \/ stopConsumer(u) \/ reportStop(u) \/ shutdownPool(u)

monitorForShutdown ==
    /\ monitoring /\ shutdownSignal
    /\ shutdownSignal' = FALSE /\ shutdown' = TRUE /\ monitoring' = FALSE
    /\ UNCHANGED <<publisher, retrying, reporting, callers>>

-----------------------------------------------------------------------------
ServiceNext ==
    /\ ~crashed
    /\ \/ publish
       \/ \E l \in Letter : queueAfterShutdown(l)
       \/ HandleReceipt \/ HandlerStep
       \/ handleError \/ endErrors \/ collectError \/ passError \/ endCollector
       \/ \E u \in User : Shutdown(u) \/ CallerStep(u)
       \/ monitorForShutdown

ServiceSpec == ServiceInit /\ [][ServiceNext]_allVars

(* The goroutines run, and who waits to use a Go channel is served in      *)
(* turn.  A publish ends as long as the pool is open; afterwards it may    *)
(* wait for a channel for ever.  What each goroutine does only a bounded   *)
(* number of times is fair together.  Nobody has to call Shutdown.         *)
Publishing ==
    \/ sendStop \/ publishNil \/ (starts = 0 /\ StartAutoPublishing)
    \/ PoolOpen /\ \E l \in Letter : finishPublish(l)

FairServiceSpec ==
    /\ ServiceSpec
    /\ WF_publisher(~crashed /\ Publishing)
    /\ SF_publisher(~crashed /\ Loop)
    /\ SF_allVars(~crashed /\ (HandleReceipt \/ HandlerStep))
    /\ SF_allVars(~crashed /\ (handleError \/ endErrors))
    /\ SF_allVars(~crashed /\ passError) /\ SF_allVars(~crashed /\ endCollector)
    /\ WF_allVars(~crashed /\ monitorForShutdown)
    /\ \A u \in User : SF_allVars(~crashed /\ CallerStep(u))

-----------------------------------------------------------------------------
ServiceTypeOK ==
    /\ TypeOK
    /\ retries \in [Letter -> 0 .. MaxRetryCount]
    /\ receiptPc \in {"top", "retrying", "requeue", "refused", "exhausted", "off"}
    /\ failed \in Letter \cup {None} /\ givenUp \in SUBSET Letter
    /\ centralErr \in 0 .. CentralCap /\ errorPc \in {"on", "off"}
    /\ collectorPc \in {"on", "send", "off"}
    /\ shutdownSignal \in BOOLEAN /\ shutdown \in BOOLEAN /\ monitoring \in BOOLEAN
    /\ callerPc \in [User -> {"idle", "signal", "consumers", "report", "blocked", "done"}]
    /\ toStop \in [User -> 0 .. Cardinality(Consumer)]

(* Who sends to centralErr waits there for good.                           *)
NobodyReadsErrors == centralErr = CentralCap /\ errorPc = "off"

Pending == {l \in Letter : queued[l] = "true" /\ l \notin settled \cup givenUp}

(* A letter that was accepted is in one place, through every retry, start  *)
(* and stop, until it is settled or reported as given up; so a letter is   *)
(* never published by two goroutines, and none gets lost between receipt   *)
(* and queue.                                                              *)
LettersAccountedFor ==
    \A l \in Letter :
        Copies(l) + (IF failed = l THEN 1 ELSE 0)
          = IF l \in Pending THEN 1 ELSE 0

(* Every accepted letter is in one place, queues and centralErr within     *)
(* their capacities, and autoStarted tells of the one loop: together, the  *)
(* retries neither lose nor double what the service was given.             *)
Safety == ServiceTypeOK /\ LettersAccountedFor /\ LoopIffStarted

(* While nobody shuts the service down, each letter it has accepted gets   *)
(* published or is reported, however often its publish fails: the retries  *)
(* end, and handlers, queue and centralErr do not block each other for     *)
(* good.                                                                   *)
SettledUnlessShutdown == Pending # {} ~> Pending = {} \/ stops > 0

(* Two calls of Shutdown get to the pool (of shutdownSignal one signal is  *)
(* received and one fits in; a third call would wait for ever), unless     *)
(* StopConsuming of a consumer does not return, or a consumer that was not *)
(* started is to be reported and centralErr is full, the goroutine that    *)
(* empties it having ended before.                                         *)
ShutdownReachesPool ==
    \A u \in User :
        callerPc[u] = "signal" ~> \/ callerPc[u] \in {"done", "blocked"} \/ crashed
                                  \/ callerPc[u] = "report" /\ NobodyReadsErrors

(* Every slot of the semaphore is with a goroutine that wants a channel of *)
(* a pool that has been shut down: the loop waits for a slot, and does not *)
(* look for a stop.                                                        *)
WaitsForSlot ==
    loop = "semaphore" /\ Cardinality(publishing) = Parallel /\ ~PoolOpen

(* A running loop that has been told to stop ends, with letters arriving;  *)
(* unless the pool was shut down first and the loop stays without a slot,  *)
(* or it was started after a stop had closed `letters', and the nil letter *)
(* crashes the process.                                                    *)
LoopEnds == token /\ loop # "off" ~> loop = "off" \/ crashed \/ []WaitsForSlot

(* rabbitservice.go:418, "Prevent leaking goroutine": after a shutdown the *)
(* handler of receipts ends, unless it stays at a queue whose letters no   *)
(* loop takes, or has to report one to a full centralErr.                  *)
HandlerEnds ==
    shutdown ~> \/ crashed \/ receiptPc = "off"
                \/ [](/\ receiptPc = "requeue" /\ Len(letters) = LettersCap
                      /\ loop = "off" \/ WaitsForSlot)
                \/ [](receiptPc \in Reporting /\ NobodyReadsErrors)

(* A stop ends the loop and the handler of receipts, apart from the two    *)
(* places each where they wait for good.                                   *)
StopEnds == LoopEnds /\ HandlerEnds

(* rabbitservice.go:379 says so of the collector: it ends, unless it waits *)
(* to pass on the error of a consumer.                                     *)
CollectorEnds ==
    shutdown ~> \/ crashed \/ collectorPc = "off"
                \/ collectorPc = "send" /\ NobodyReadsErrors
=============================================================================
