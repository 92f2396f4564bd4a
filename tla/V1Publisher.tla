------------------------------- MODULE V1Publisher -------------------------------
(***************************************************************************)
(* Version 1's Publisher: letters are queued, a loop takes them off the    *)
(* queue, each is published by a goroutine of its own, with retries on     *)
(* channels of the channel pool, and what came of it goes to the           *)
(* notifications.                                                          *)
(***************************************************************************)
EXTENDS Naturals, FiniteSets, V1PoolState

CONSTANTS
    Letter,
    LetterBuffer, MaxOverBuffer,    \* PublisherConfig
    RetryCount,     \* of every letter
    MaxStarts,      \* bound: calls of StartAutoPublish
    MaxAutoStops    \* bound: calls of StopAutoPublish that find it started

ASSUME V1PublisherAssumption ==
    /\ IsFiniteSet(Letter)
    /\ {LetterBuffer, MaxOverBuffer, RetryCount, MaxStarts, MaxAutoStops} \subseteq Nat

VARIABLES
    place,          \* where each letter is
    letterCount,
    tries,          \* tries left, while it is published
    pubChannel,     \* its goroutine has a channel, waits for one, or neither
    notified,       \* per letter: what notifications say of it
    allowRetry, autoStop, autoStarted,
    stopSenders,    \* goroutines that send to autoStop
    loop,           \* the loops that were started
    starting,       \* a StartAutoPublish has yet to set autoStarted
    autoStops,
    doubled         \* history: started while a loop ran, or stopped twice

letters    == <<place, letterCount>>
publishing == <<tries, pubChannel, notified, allowRetry>>
signals    == <<autoStop, stopSenders>>
starts     == <<autoStarted, starting, loop>>
history    == <<autoStops, doubled>>
pubVars    == <<letters, publishing, signals, starts, history>>

Limit == LetterBuffer + MaxOverBuffer
In(p) == {l \in Letter : place[l] = p}
Runs  == {g \in DOMAIN loop : loop[g] # "ended"}

PubInit ==
    /\ place = [l \in Letter |-> "new"]
    /\ tries = [l \in Letter |-> 0]
    /\ pubChannel = [l \in Letter |-> "none"]
    /\ notified = [l \in Letter |-> {}]
    /\ letterCount = 0 /\ stopSenders = 0 /\ autoStops = 0
    /\ loop = <<>>
    /\ autoStop = FALSE /\ autoStarted = FALSE /\ starting = FALSE
    /\ doubled = FALSE
    /\ allowRetry \in BOOLEAN

-----------------------------------------------------------------------------
(* QueueLetter, or one round of QueueLetters.  First it waits for room.    *)
QueueLetter(l) ==
    /\ place[l] = "new" /\ letterCount < Limit
    /\ place' = [place EXCEPT ![l] = "admitted"]
    /\ UNCHANGED <<letterCount, poolUp, publishing, signals, starts, history>>

increaseLetterCount(l) ==
    /\ place[l] = "admitted"
    /\ letterCount' = letterCount + 1
    /\ place' = [place EXCEPT ![l] = "counted"]
    /\ UNCHANGED <<poolUp, publishing, signals, starts, history>>

queueLetter(l) ==
    /\ place[l] = "counted" /\ Cardinality(In("queued")) < LetterBuffer
    /\ place' = [place EXCEPT ![l] = "queued"]
    /\ UNCHANGED <<letterCount, poolUp, publishing, signals, starts, history>>

-----------------------------------------------------------------------------
(* Nothing keeps a second loop from being started.                         *)
StartAutoPublish ==
    /\ ~starting /\ Cardinality(DOMAIN loop) < MaxStarts
    /\ autoStop' = FALSE                            \* FlushStops
    /\ loop' = [g \in 1 .. Cardinality(DOMAIN loop) + 1 |->
                  IF g \in DOMAIN loop THEN loop[g] ELSE "run"]
    /\ starting' = TRUE
    /\ doubled' = (doubled \/ Runs # {})
    /\ UNCHANGED <<autoStarted, stopSenders, autoStops, publishing, letters>>

(* StartAutoPublish, after the loop was let loose.                         *)
markStarted ==
    /\ starting
    /\ starting' = FALSE /\ autoStarted' = TRUE
    /\ UNCHANGED <<loop, poolUp, publishing, letters, signals, history>>

StopPending == stopSenders > 0 \/ autoStop \/ \E g \in Runs : loop[g] = "wait"

StopAutoPublish ==
    /\ ~starting
    /\ IF autoStarted /\ autoStops < MaxAutoStops
       THEN /\ stopSenders' = stopSenders + 1 /\ autoStops' = autoStops + 1
            /\ doubled' = (doubled \/ StopPending)
       ELSE UNCHANGED <<stopSenders, history>>
    /\ UNCHANGED <<autoStop, publishing, letters, starts>>

sendStop ==
    /\ stopSenders > 0 /\ ~autoStop
    /\ stopSenders' = stopSenders - 1 /\ autoStop' = TRUE
    /\ UNCHANGED <<poolUp, publishing, letters, starts, history>>

takeStop(g) ==
    /\ loop[g] = "run" /\ autoStop
    /\ autoStop' = FALSE
    /\ loop' = [loop EXCEPT ![g] = "wait"]
    /\ UNCHANGED <<autoStarted, stopSenders, starting, poolUp, publishing, letters,
                   history>>

(* Each letter has a goroutine, so their order is not kept.                *)
takeLetter(g, l) ==
    /\ loop[g] = "run" /\ place[l] = "queued"
    /\ place' = [place EXCEPT ![l] = "publishing"]
    /\ tries' = [tries EXCEPT ![l] = IF allowRetry THEN RetryCount + 1 ELSE 1]
    /\ UNCHANGED <<letterCount, pubChannel, notified, allowRetry, poolUp, signals,
                   starts, history>>

(* The last publishing goroutine is waited for.                            *)
endLoop(g) ==
    /\ loop[g] = "wait" /\ In("publishing") = {}
    /\ loop' = [loop EXCEPT ![g] = "ended"]
    /\ autoStarted' = FALSE
    /\ UNCHANGED <<starting, poolUp, publishing, letters, signals, history>>

-----------------------------------------------------------------------------
(* Publish and PublishWithRetry, one try.  Notifications have goroutines   *)
(* of their own: they hold up nobody, and arrive in any order.             *)
Trying(l, c) == place[l] = "publishing" /\ tries[l] > 0 /\ pubChannel[l] = c

(* Without a channel PublishWithRetry notifies nobody.                     *)
noChannel(l) ==
    /\ Trying(l, "none") /\ ~poolUp
    /\ tries' = [tries EXCEPT ![l] = @ - 1]
    /\ notified' = IF allowRetry THEN notified
                   ELSE [notified EXCEPT ![l] = @ \cup {"failure"}]
    /\ UNCHANGED <<pubChannel, allowRetry, poolUp, letters, signals, starts, history>>

(* GetChannel looks at the pool once, and then waits at its queue.         *)
enterGetChannel(l) ==
    /\ Trying(l, "none") /\ poolUp
    /\ pubChannel' = [pubChannel EXCEPT ![l] = "waits"]
    /\ UNCHANGED <<tries, notified, allowRetry, poolUp, letters, signals, starts,
                   history>>

getsChannel(l) ==
    /\ Trying(l, "waits")
    /\ pubChannel' = [pubChannel EXCEPT ![l] = "has"]
    /\ UNCHANGED <<tries, notified, allowRetry, poolUp, letters, signals, starts,
                   history>>

(* A slip: only what was published is told of. *)
FailsUntold(l) ==
    /\ Trying(l, "has")
    /\ tries' = [tries EXCEPT ![l] = @ - 1]
    /\ pubChannel' = [pubChannel EXCEPT ![l] = "none"]
    /\ UNCHANGED <<notified, allowRetry, poolUp, letters, signals, starts, history>>

(* simplePublish fails: its channel goes back flagged.                     *)
publishFails(l) ==
    /\ Trying(l, "has")
    /\ tries' = [tries EXCEPT ![l] = @ - 1]
    /\ pubChannel' = [pubChannel EXCEPT ![l] = "none"]
    /\ notified' = [notified EXCEPT ![l] = @ \cup {"failure"}]
    /\ UNCHANGED <<allowRetry, poolUp, letters, signals, starts, history>>

publishSucceeds(l) ==
    /\ Trying(l, "has") /\ poolUp
    /\ tries' = [tries EXCEPT ![l] = 0]
    /\ pubChannel' = [pubChannel EXCEPT ![l] = "none"]
    /\ notified' = [notified EXCEPT ![l] = @ \cup {"success"}]
    /\ UNCHANGED <<allowRetry, poolUp, letters, signals, starts, history>>

reduceLetterCount(l) ==
    /\ place[l] = "publishing" /\ tries[l] = 0
    /\ letterCount' = letterCount - 1
    /\ place' = [place EXCEPT ![l] = "done"]
    /\ UNCHANGED <<poolUp, publishing, signals, starts, history>>

-----------------------------------------------------------------------------
QueueStep   == \E l \in Letter : increaseLetterCount(l) \/ queueLetter(l)
LoopStep(g) == takeStop(g) \/ (\E l \in Letter : takeLetter(g, l)) \/ endLoop(g)
LetterStep(l) ==
    \/ noChannel(l) \/ enterGetChannel(l) \/ (poolUp /\ getsChannel(l))
    \/ publishFails(l) \/ publishSucceeds(l) \/ reduceLetterCount(l)

PubStep ==
    \/ QueueStep \/ markStarted \/ sendStop
    \/ \E g \in DOMAIN loop : LoopStep(g)
    \/ \E l \in Letter : LetterStep(l)

(* A Shutdown replaces the queue, and who waited at the one before stays   *)
(* there, unless somebody still returns a channel to it: nobody has to.    *)
strandedGoesOn(l) == ~poolUp /\ getsChannel(l)
=============================================================================
