-------------------------------- MODULE V1Service --------------------------------
(***************************************************************************)
(* Version 1's RabbitService: it starts and stops the auto-publisher, its  *)
(* own background goroutines and, at Shutdown, the consumer and the pools. *)
(* One goroutine, the owner, calls the service; others use the publisher   *)
(* and the consumer.  A bound: either letters are published or, if the     *)
(* consumer is Enabled, messages consumed, never both in one behaviour;    *)
(* they meet only in the channel pool.                                     *)
(***************************************************************************)
EXTENDS V1Publisher, V1Consumer

CONSTANTS
    ErrorBuffer,        \* ServiceConfig: of centralErr
    MaxErrors,          \* bound: errors of the channel pool and of the consumer
    MaxStopServices     \* bound: calls of StopService, by Shutdown too

ASSUME V1ServiceAssumption == {ErrorBuffer, MaxErrors, MaxStopServices} \subseteq Nat

VARIABLES
    owner,              \* where the owner is
    shutdown,           \* it is in Shutdown, with stopConsumers or not, or has been
    stopServiceSignal, stop,
    monitors,           \* goroutines in monitorStopService,
    collectors,         \* in either collector, and of those the ones that
    carrying,           \* wait to put an error
    centralErr,         \* errors in it
    errors,             \* errors so far
    stopServices

background == <<stop, monitors, collectors, carrying>>
calls      == <<shutdown, stopServices>>
errs       == <<centralErr, errors>>
svcVars    == <<owner, stopServiceSignal, background, calls, errs>>
vars == <<pubVars, conVars, svcVars, poolUp>>

Init ==
    /\ PubInit /\ ConInit /\ poolUp = TRUE
    /\ Enabled => ~allowRetry
    /\ owner = "ready" /\ shutdown = "no"
    /\ stopServiceSignal = FALSE /\ stop = FALSE
    /\ monitors = 0 /\ collectors = 0 /\ carrying = 0
    /\ centralErr = 0 /\ errors = 0 /\ stopServices = 0

-----------------------------------------------------------------------------
StartService ==
    /\ owner = "ready" /\ poolUp /\ ~Enabled
    /\ StartAutoPublish
    /\ monitors' = monitors + 1 /\ collectors' = collectors + 2
    /\ UNCHANGED <<conVars, owner, stopServiceSignal, stop, carrying, poolUp, calls,
                   errs>>

(* StopService, alone or as the first part of Shutdown.                    *)
StopService ==
    /\ owner = "ready" /\ poolUp /\ stopServices < MaxStopServices
    /\ stopServices' = stopServices + 1
    /\ StopAutoPublish
    /\ \E s \in {"no", "pools", "all"} : shutdown' = s
    /\ owner' = "signal"
    /\ UNCHANGED <<conVars, stopServiceSignal, poolUp, background, errs>>

signalStop ==
    /\ owner = "signal" /\ ~stopServiceSignal
    /\ stopServiceSignal' = TRUE
    /\ owner' = CASE shutdown = "no" -> "ready"
                  [] shutdown = "pools" -> "pools"
                  [] shutdown = "all" -> "consumers"
    /\ UNCHANGED <<pubVars, conVars, poolUp, background, calls, errs>>

(* Shutdown: StopConsuming(true, true), or its error to centralErr.        *)
stopConsumers ==
    /\ owner = "consumers" /\ conLock = {}
    /\ \/ started /\ StopConsuming("owner", TRUE, TRUE) /\ owner' = "stopping"
       \/ ~started /\ owner' = "error" /\ UNCHANGED <<conVars, poolUp>>
    /\ UNCHANGED <<pubVars, stopServiceSignal, background, calls, errs>>

consumersStopped ==
    /\ owner = "stopping" /\ "owner" \notin conLock
    /\ owner' = "pools"
    /\ UNCHANGED <<pubVars, conVars, stopServiceSignal, poolUp, background, calls,
                   errs>>

tellError ==
    /\ owner = "error" /\ centralErr < ErrorBuffer
    /\ centralErr' = centralErr + 1
    /\ owner' = "pools"
    /\ UNCHANGED <<pubVars, conVars, stopServiceSignal, errors, poolUp, background,
                   calls>>

(* ChannelPool.Shutdown closes the channels, without an error, whoever has *)
(* them.                                                                   *)
shutdownPools ==
    /\ owner = "pools"
    /\ poolUp' = FALSE /\ entries' = 0
    /\ channel' = IF channel \in {"up", "cancelled"} THEN "closed" ELSE channel
    /\ owner' = "down"
    /\ UNCHANGED <<pubVars, config, msg, phantoms, stops, lock, consumer, conCounts,
                   stopServiceSignal, background, calls, errs>>

-----------------------------------------------------------------------------
(* A slip: the signal is taken, and nobody is told. *)
MonitorUntold ==
    /\ monitors > 0 /\ stopServiceSignal
    /\ stopServiceSignal' = FALSE
    /\ monitors' = monitors - 1
    /\ UNCHANGED <<pubVars, conVars, owner, stop, collectors, carrying, poolUp, calls,
                   errs>>

monitorStopService ==
    /\ monitors > 0 /\ stopServiceSignal
    /\ stopServiceSignal' = FALSE /\ stop' = TRUE
    /\ monitors' = monitors - 1
    /\ UNCHANGED <<pubVars, conVars, owner, collectors, carrying, poolUp, calls,
                   errs>>

(* collectChannelPoolErrors and collectConsumerErrors.  What they do when  *)
(* a service has no consumers is not modelled.                             *)
collectorEnds ==
    /\ collectors > carrying /\ stop
    /\ collectors' = collectors - 1
    /\ UNCHANGED <<pubVars, conVars, owner, stopServiceSignal, stop, monitors,
                   carrying, poolUp, calls, errs>>

collect ==
    /\ collectors > carrying /\ ~stop /\ errors < MaxErrors
    /\ carrying' = carrying + 1 /\ errors' = errors + 1
    /\ UNCHANGED <<pubVars, conVars, owner, stopServiceSignal, stop, monitors,
                   collectors, centralErr, poolUp, calls>>

putError ==
    /\ carrying > 0 /\ centralErr < ErrorBuffer
    /\ carrying' = carrying - 1 /\ centralErr' = centralErr + 1
    /\ UNCHANGED <<pubVars, conVars, owner, stopServiceSignal, stop, monitors,
                   collectors, errors, poolUp, calls>>

(* The user of CentralErr.                                                 *)
readCentralErr ==
    /\ centralErr > 0
    /\ centralErr' = centralErr - 1
    /\ UNCHANGED <<pubVars, conVars, owner, stopServiceSignal, errors, poolUp,
                   background, calls>>

-----------------------------------------------------------------------------
SvcStep ==
    \/ signalStop \/ stopConsumers \/ consumersStopped \/ tellError \/ shutdownPools
    \/ monitorStopService \/ collectorEnds \/ putError

Next ==
    \/ StartService \/ StopService \/ SvcStep \/ collect \/ readCentralErr
    \/ /\ \/ PubStep
          \/ \E l \in Letter : ~Enabled /\ QueueLetter(l)
          \/ \E l \in Letter : strandedGoesOn(l)
       /\ UNCHANGED <<conVars, svcVars>>
    \/ /\ Enabled
       /\ \/ ConLoop \/ ConUser \/ sendConsumeStop
          \/ \E i, f \in BOOLEAN : StopConsuming("user", i, f)
       /\ UNCHANGED <<pubVars, svcVars>>

Spec == Init /\ [][Next]_vars

(* Goroutines run, outages end as long as the pool is up, and somebody     *)
(* reads CentralErr.  The loop sees a stop before it takes another letter. *)
FairSpec ==
    /\ Spec
    /\ WF_vars(PubStep /\ UNCHANGED <<conVars, svcVars>>)
    /\ WF_vars(ConLoop /\ UNCHANGED <<pubVars, svcVars>>)
    /\ WF_vars(sendConsumeStop /\ UNCHANGED <<pubVars, svcVars>>)
    /\ WF_vars(SvcStep) /\ WF_vars(readCentralErr)
-----------------------------------------------------------------------------
(* Every variable stays in its type; letterCount, an unsigned number,      *)
(* never passes below zero.                                                *)
TypeOK ==
    /\ place \in [Letter -> {"new", "admitted", "counted", "queued", "publishing",
                             "done"}]
    /\ letterCount \in 0 .. Cardinality(Letter)
    /\ tries \in [Letter -> 0 .. RetryCount + 1]
    /\ pubChannel \in [Letter -> {"none", "waits", "has"}]
    /\ loop \in [DOMAIN loop -> {"run", "wait", "ended"}]
    /\ phantoms \in [made : 0 .. MaxPhantoms, converting : Nat, buffered : Nat]
    /\ entries \in Nat
    /\ consumer \in {"none", "outer", "get", "close?", "deliver", "stop?", "stopping",
                     "wait", "finish"}
    /\ channel \in {"down", "up", "cancelled", "lost", "closed"}
    /\ carrying \in 0 .. collectors

(* letterCount counts the letters between queueLetter and the end of       *)
(* their publishing, whatever fails; and one that is done with has been    *)
(* notified, but where retries found no channel because the pool is down.  *)
LettersAccountedFor ==
    /\ letterCount = Cardinality(In("counted") \cup In("queued") \cup In("publishing"))
    /\ \A l \in In("done") :
          \/ notified[l] # {}
          \/ allowRetry /\ ~poolUp

(* A consumer that was told to stop, and not at once, is not stopped       *)
(* before each message it has taken reached the buffer.                    *)
WhenStoppedNothingArrives ==
    ~started /\ conCounts.hasty = 0 => ~Converting

(* A plain channel leaves the pool for good where Qos fails, where Get     *)
(* returns a message, and with every GetBatch that does not fail, one of   *)
(* an empty queue too, and nowhere else: not with a lost channel, a failed *)
(* Consume or a stop.  An ackable channel stays in the pool, with one more *)
(* entry for each time it was given back.                                  *)
ChannelAccountedFor ==
    poolUp =>
        IF autoAck THEN entries + conCounts.leaks + (IF Holding THEN 1 ELSE 0) = 1
        ELSE entries = 1 + conCounts.returns

(* At most one message is made of nothing for each channel lost: the next  *)
(* round sees the close error.  Three things end the deliveries and leave  *)
(* the loop no error to see: the pool was shut down, the broker cancelled  *)
(* the subscription, or GetAckableChannel took the error.                  *)
PhantomsBounded ==
    phantoms.made > conCounts.losses => ~poolUp \/ conCounts.unseen > 0

(* AutoPublishStarted tells of the loop, unless it was started while it    *)
(* ran or told to stop twice (StopService, then Shutdown).                 *)
LoopIffStarted ==
    ~doubled => /\ autoStarted => Runs # {}
                /\ Runs # {} => autoStarted \/ starting

(* No letter is lost or left out of the count that QueueLetter waits by,   *)
(* wherever its publishing fails, and autoStarted is right meanwhile.      *)
Safety == TypeOK /\ LettersAccountedFor /\ LoopIffStarted

(* GetChannel errs once the pool is down, but not for those who wait in it *)
(* already: these stay.                                                    *)
Stranded == ~poolUp /\ \E l \in Letter : pubChannel[l] = "waits"

(* A StopConsuming waits for room in consumeStop with the lock that the    *)
(* loop, which has taken a stop, needs to end.                             *)
StopDeadlock == conLock # {} /\ consumeStop /\ consumer \in {"stopping", "finish"}

(* After Shutdown the loop and the service's goroutines end, but for a     *)
(* loop that waits for the goroutine of a letter stranded in GetChannel;   *)
(* and so does a consumer that was stopped at once, unless its loop waits  *)
(* in GetChannel, or for those who receive its messages, or it was stopped *)
(* so often that the last stop and its loop wait for each other.           *)
ServiceEnds ==
    owner = "down" ~>
        \/ doubled
        \/ /\ monitors = 0 /\ collectors = 0
           /\ \A g \in Runs : loop[g] = "wait" /\ Stranded
           /\ conCounts.hasty > 0 =>
                 consumer \in {"none", "get", "wait"} \/ StopDeadlock
=============================================================================
