------------------------------ MODULE FlowControl ------------------------------
(***************************************************************************)
(* ConnectionHost.PauseOnFlowControl (v2/pkg/tcr/connectionhost.go): the   *)
(* broker blocks and unblocks a connection, the amqp library's reader      *)
(* hands each notification to the channel Blockers, and goroutines read    *)
(* Blockers under connLock, only when they take the connection.            *)
(***************************************************************************)
EXTENDS Naturals, Sequences

CONSTANTS
    Thread,
    None,
    BlockersCap,    \* capacity of Blockers (10)
    MaxAlarms       \* bound: how often the broker changes its mind

ASSUME FlowAssumption ==
    BlockersCap \in Nat \ {0} /\ MaxAlarms \in Nat /\ None \notin Thread

VARIABLES
    blocked,        \* the broker has the connection blocked
    wire,           \* notifications the library's reader has yet to hand over
    Blockers,       \* Active of each Blocking in the Go channel
    closed,         \* the connection is gone, and Blockers closed
    connLock, pc,
    alarms

vars == <<blocked, wire, Blockers, closed, connLock, pc, alarms>>

Init ==
    /\ blocked = FALSE /\ wire = <<>> /\ Blockers = <<>> /\ closed = FALSE
    /\ connLock = None
    /\ pc = [t \in Thread |-> "idle"]
    /\ alarms = 0

-----------------------------------------------------------------------------
(* connection.blocked, connection.unblocked.                               *)
brokerNotifies ==
    /\ ~closed /\ alarms < MaxAlarms
    /\ alarms' = alarms + 1
    /\ blocked' = ~blocked
    /\ wire' = Append(wire, ~blocked)
    /\ UNCHANGED <<Blockers, closed, connLock, pc>>

(* The reader hands frames on in order, and waits for room in Blockers.    *)
readerNotifies ==
    /\ ~closed /\ wire # <<>> /\ Len(Blockers) < BlockersCap
    /\ Blockers' = Append(Blockers, Head(wire))
    /\ wire' = Tail(wire)
    /\ UNCHANGED <<blocked, closed, connLock, pc, alarms>>

loseConnection ==
    /\ ~closed
    /\ closed' = TRUE /\ wire' = <<>> /\ blocked' = FALSE
    /\ UNCHANGED <<Blockers, connLock, pc, alarms>>

-----------------------------------------------------------------------------
call(t) ==
    /\ pc[t] = "idle"
    /\ pc' = [pc EXCEPT ![t] = "lock"]
    /\ UNCHANGED <<blocked, wire, Blockers, closed, connLock, alarms>>

(* A slip: the mutex is per goroutine.                                     *)
lockAnyway(t) ==
    /\ pc[t] = "lock"
    /\ connLock' = t
    /\ pc' = [pc EXCEPT ![t] = "closed?"]
    /\ UNCHANGED <<blocked, wire, Blockers, closed, alarms>>

lock(t) ==
    /\ pc[t] = "lock" /\ connLock = None
    /\ connLock' = t
    /\ pc' = [pc EXCEPT ![t] = "closed?"]
    /\ UNCHANGED <<blocked, wire, Blockers, closed, alarms>>

return(t) ==
    /\ connLock' = None
    /\ pc' = [pc EXCEPT ![t] = "idle"]

checkClosed(t) ==
    /\ pc[t] = "closed?"
    /\ IF closed THEN return(t) ELSE pc' = [pc EXCEPT ![t] = "select"] /\ UNCHANGED connLock
    /\ UNCHANGED <<blocked, wire, Blockers, closed, alarms>>

(* A slip: the notification is not taken from Blockers.                    *)
sleepOnHead(t) ==
    /\ pc[t] = "select" /\ Blockers # <<>> /\ Head(Blockers)
    /\ pc' = [pc EXCEPT ![t] = "closed?"]
    /\ UNCHANGED <<blocked, wire, Blockers, closed, connLock, alarms>>

(* An Active notification: sleep for a second, and from the top.           *)
sleep(t) ==
    /\ pc[t] = "select" /\ Blockers # <<>> /\ Head(Blockers)
    /\ Blockers' = Tail(Blockers)
    /\ pc' = [pc EXCEPT ![t] = "closed?"]
    /\ UNCHANGED <<blocked, wire, closed, connLock, alarms>>

(* Any other, also the zero Blocking of a closed channel.                  *)
unblocked(t) ==
    /\ pc[t] = "select"
    /\ IF Blockers = <<>> THEN closed ELSE ~Head(Blockers)
    /\ Blockers' = IF Blockers = <<>> THEN Blockers ELSE Tail(Blockers)
    /\ return(t)
    /\ UNCHANGED <<blocked, wire, closed, alarms>>

(* default: nothing to read.                                               *)
nothing(t) ==
    /\ pc[t] = "select" /\ Blockers = <<>> /\ ~closed
    /\ return(t)
    /\ UNCHANGED <<blocked, wire, Blockers, closed, alarms>>

-----------------------------------------------------------------------------
Pause(t) == checkClosed(t) \/ sleep(t) \/ unblocked(t) \/ nothing(t)

Next ==
    \/ \E t \in Thread : call(t) \/ lock(t) \/ Pause(t)
    \/ brokerNotifies \/ readerNotifies \/ loseConnection

Spec == Init /\ [][Next]_vars

(* Goroutines run and waiters for the mutex are served in turn. Nothing is *)
(* asked of the callers: a publisher that keeps to cached channels never   *)
(* takes the connection again, so that nobody need ever read Blockers.     *)
FairSpec ==
    /\ Spec
    /\ \A t \in Thread : SF_vars(lock(t)) /\ WF_vars(Pause(t))

-----------------------------------------------------------------------------
TypeOK ==
    /\ blocked \in BOOLEAN /\ wire \in Seq(BOOLEAN) /\ Blockers \in Seq(BOOLEAN)
    /\ Len(Blockers) <= BlockersCap
    /\ closed \in BOOLEAN
    /\ connLock \in Thread \cup {None}
    /\ pc \in [Thread -> {"idle", "lock", "closed?", "select"}]
    /\ alarms \in 0 .. MaxAlarms

Paused(t) == pc[t] \in {"closed?", "select"}

(* connLock keeps two goroutines from reading Blockers at the same time,   *)
(* also when one returns from the middle of the loop.                      *)
OnePausing ==
    \A t, u \in Thread : Paused(t) /\ Paused(u) => t = u

(* The notifications keep to the room of Blockers, and of the goroutines   *)
(* that call PauseOnFlowControl one at a time reads them.                  *)
Safety == TypeOK /\ OnePausing

(* A goroutine that pauses holds the lock that a reconnection needs: every *)
(* pause ends, and the goroutines waiting behind it have their turn.       *)
PauseEnds == \A t \in Thread : pc[t] = "lock" ~> pc[t] = "idle"
=============================================================================
