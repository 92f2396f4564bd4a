--------------------------- MODULE ConnectionPool ---------------------------
(***************************************************************************)
(* The pool of AMQP connections and of cached ackable channels shared by   *)
(* every publisher and consumer (v2/pkg/tcr/connectionpool.go, with the    *)
(* connection host and the part of the channel host that the pool drives). *)
(*                                                                         *)
(* Each goroutine that calls the pool is a Thread with a program counter;  *)
(* a step is the code between two points at which another goroutine can    *)
(* be observed.  `conn' and `chan' are the host a goroutine has in hand.   *)
(*                                                                         *)
(* A connection taken from the queue is owned by its taker, but a cached   *)
(* channel keeps a pointer to its ConnectionHost for ever, so a goroutine  *)
(* that reconnects a channel works on a connection that somebody else may  *)
(* own: connLock, flaggedConnections and Errors are shared by both.        *)
(***************************************************************************)
EXTENDS Naturals, Sequences, Functions

CONSTANTS
    MaxConnectionCount,     \* PoolConfig.MaxConnectionCount
    MaxCacheChannelCount,   \* PoolConfig.MaxCacheChannelCount
    Thread,                 \* goroutines that use the pool
    Main,                   \* the goroutine that runs NewConnectionPool
    None,                   \* nil
    MaxFaults               \* bound: lost connections and failed channel calls

ASSUME PoolAssumption ==
    /\ MaxConnectionCount \in Nat \ {0}     \* checked by the constructor
    /\ MaxCacheChannelCount \in Nat
    /\ MaxFaults \in Nat
    /\ Main \in Thread
    /\ None \notin Nat \cup Thread

Conn == 0 .. MaxConnectionCount - 1         \* ConnectionIDs
Chan == 0 .. MaxCacheChannelCount - 1       \* cached ChannelHost IDs

VARIABLES
    connections,    \* the queue of idle ConnectionHosts
    channels,       \* the buffered Go channel of idle cached ChannelHosts
    created,        \* how many cached channels the constructor has pooled
    flagged,        \* flaggedConnections
    connState,      \* per host: life of its current amqp.Connection
    errors,         \* per host: its current Errors channel
    connLock,       \* per host: the holder of connLock
    hostOf,         \* per channel: ChannelHost.connHost
    chanState,      \* per channel: what the last use or MakeChannel left in it
    pc, op,         \* per thread: where it is, in which exported call
    conn, chan,     \* per thread: the hosts in hand
    ok,             \* per thread: `healthy', or err == nil
    faults          \* faults so far

pool    == <<connections, channels, created, flagged>>
hosts   == <<connState, errors, connLock>>
chans   == <<hostOf, chanState>>
threads == <<pc, op, conn, chan, ok>>
vars    == <<pool, hosts, chans, threads, faults>>

-----------------------------------------------------------------------------
Calls == {"none", "GetConnection", "GetTransientChannel", "createCacheChannel",
          "GetChannelFromPool", "ReturnChannel"}     \* "none" is for an idle thread

VerifyPCs  == {"errors", "flagged?", "closed?", "connect", "lock", "recheck",
               "dial", "install", "flush", "unflag", "pause", "paused"}
LockedPCs  == {"recheck", "dial", "install", "paused"}
OwnerPCs   == VerifyPCs \cup {"use", "make", "flag", "put"}

PCs == OwnerPCs \cup {"idle", "get", "confirm", "usechan", "putchan"}

(* amqp.Connection: IsClosed is FALSE only in "open".  shutdown first sets *)
(* the closed flag ("closing"), then sends the error to the registered     *)
(* Errors channel ("notified"), then closes that channel ("down").         *)
ConnStates == {"open", "closing", "notified", "down"}

(* Errors as a receiver sees it: empty, one error buffered, or closed,     *)
(* from which a receive never blocks again.                                *)
ErrStates == {"quiet", "erred", "closed"}

ChanStates == {"nil", "unconfirmed", "erred", "made"}

IsClosed(h) == connState[h] # "open"
Initialized == created = MaxCacheChannelCount

(* Between ch.Connection = amqpConn and NotifyClose the Errors field is    *)
(* not yet the channel the new connection will report to.                  *)
Installing(h) == \E t \in Thread : pc[t] = "install" /\ conn[t] = h

Goto(t, l) == pc' = [pc EXCEPT ![t] = l]

(* The exported call returns; its locals are gone.                         *)
Done(t) == Goto(t, "idle") /\ op' = [op EXCEPT ![t] = "none"]

(* The queue holds every ConnectionHost, all dialled, and Main goes on     *)
(* to create the cached channels.                                          *)
Init ==
    /\ connections = [i \in 1 .. MaxConnectionCount |-> i - 1]
    /\ channels = <<>>
    /\ created = 0
    /\ flagged = [h \in Conn |-> FALSE]
    /\ connState = [h \in Conn |-> "open"]
    /\ errors = [h \in Conn |-> "quiet"]
    /\ connLock = [h \in Conn |-> None]
    /\ hostOf = [c \in Chan |-> None]
    /\ chanState = [c \in Chan |-> "nil"]
    /\ pc = [t \in Thread |-> IF t = Main /\ ~Initialized THEN "get" ELSE "idle"]
    /\ op = [t \in Thread |-> IF t = Main /\ ~Initialized
                               THEN "createCacheChannel" ELSE "none"]
    /\ conn = [t \in Thread |-> None]
    /\ chan = [t \in Thread |-> None]
    /\ ok = [t \in Thread |-> TRUE]
    /\ faults = 0

-----------------------------------------------------------------------------
(* Calls made by the users of the pool.                                    *)

CallGetConnection(t) ==
    /\ pc[t] = "idle" /\ Initialized
    /\ \E o \in {"GetConnection", "GetTransientChannel"} :
          op' = [op EXCEPT ![t] = o]
    /\ Goto(t, "get")
    /\ UNCHANGED <<pool, hosts, chans, conn, chan, ok, faults>>

(* <-cp.channels: blocks while the cache is empty.                         *)
GetChannelFromPool(t) ==
    /\ pc[t] = "idle" /\ Initialized
    /\ channels # <<>>
    /\ chan' = [chan EXCEPT ![t] = Head(channels)]
    /\ channels' = Tail(channels)
    /\ op' = [op EXCEPT ![t] = "GetChannelFromPool"]
    /\ Goto(t, "usechan")
    /\ UNCHANGED <<connections, created, flagged, hosts, chans, conn, ok, faults>>

(* ReturnChannel of a cached channel that served its caller well.          *)
ReturnChannel(t) ==
    /\ pc[t] = "usechan"
    /\ op' = [op EXCEPT ![t] = "ReturnChannel"]
    /\ Goto(t, "putchan")
    /\ UNCHANGED <<pool, hosts, chans, conn, chan, ok, faults>>

(* An erred one is reconnected, on the ConnectionHost it was created with. *)
ReturnErredChannel(t) ==
    /\ pc[t] = "usechan"
    /\ op' = [op EXCEPT ![t] = "ReturnChannel"]
    /\ chanState' = [chanState EXCEPT ![chan[t]] = "erred"]
    /\ conn' = [conn EXCEPT ![t] = hostOf[chan[t]]]
    /\ Goto(t, "errors")
    /\ UNCHANGED <<pool, hosts, hostOf, chan, ok, faults>>

(* ReturnConnection: its caller decides whether to flag it.                *)
ReturnConnection(t) ==
    /\ pc[t] = "use"
    /\ Goto(t, "put")
    /\ UNCHANGED <<pool, hosts, chans, op, conn, chan, ok, faults>>

ReturnFlagged(t) ==
    /\ pc[t] = "use"
    /\ Goto(t, "flag")
    /\ UNCHANGED <<pool, hosts, chans, op, conn, chan, ok, faults>>

-----------------------------------------------------------------------------
(* getConnectionFromPool and verifyHealthyConnection.                      *)

getConnectionFromPool(t) ==
    /\ pc[t] = "get"
    /\ connections # <<>>
    /\ conn' = [conn EXCEPT ![t] = Head(connections)]
    /\ connections' = Tail(connections)
    /\ Goto(t, "errors")
    /\ UNCHANGED <<channels, created, flagged, hosts, chans, op, chan, ok, faults>>

(* A receive on Errors with a default branch: it takes the buffered error, *)
(* if there is one; a closed channel stays ready.                          *)
Receive(h) ==
    errors' = [errors EXCEPT ![h] = IF @ = "erred" THEN "quiet" ELSE @]

checkErrors(t) ==
    /\ pc[t] = "errors"
    /\ ok' = [ok EXCEPT ![t] = errors[conn[t]] = "quiet"]
    /\ Receive(conn[t])
    /\ Goto(t, "flagged?")
    /\ UNCHANGED <<pool, connState, connLock, chans, op, conn, chan, faults>>

(* A slip: the flag is not looked at.                                      *)
flagIgnored(t) ==
    /\ pc[t] = "flagged?"
    /\ Goto(t, IF ~ok[t] THEN "connect" ELSE "closed?")
    /\ ok' = [ok EXCEPT ![t] = TRUE]
    /\ UNCHANGED <<pool, hosts, chans, op, conn, chan, faults>>

isConnectionFlagged(t) ==
    /\ pc[t] = "flagged?"
    /\ Goto(t, IF flagged[conn[t]] \/ ~ok[t] THEN "connect" ELSE "closed?")
    /\ ok' = [ok EXCEPT ![t] = TRUE]
    /\ UNCHANGED <<pool, hosts, chans, op, conn, chan, faults>>

checkClosed(t) ==
    /\ pc[t] = "closed?"
    /\ Goto(t, IF IsClosed(conn[t]) THEN "connect" ELSE "pause")
    /\ UNCHANGED <<pool, hosts, chans, op, conn, chan, ok, faults>>

-----------------------------------------------------------------------------
(* triggerConnectionRecovery and ConnectWithErrorHandler.                  *)

(* Compare: nothing to do when the connection is open.                     *)
connectCompare(t) ==
    /\ pc[t] = "connect"
    /\ Goto(t, IF IsClosed(conn[t]) THEN "lock" ELSE "flush")
    /\ UNCHANGED <<pool, hosts, chans, op, conn, chan, ok, faults>>

Lock(t) == 
    /\ connLock[conn[t]] = None
    /\ connLock' = [connLock EXCEPT ![conn[t]] = t]
Unlock(t) == connLock' = [connLock EXCEPT ![conn[t]] = None]

(* A slip: no second look once the lock is held.                           *)
connectLockAndDial(t) ==
    /\ pc[t] = "lock"
    /\ Lock(t)
    /\ Goto(t, "dial")
    /\ UNCHANGED <<pool, connState, errors, chans, op, conn, chan, ok, faults>>

connectLock(t) ==
    /\ pc[t] = "lock"
    /\ Lock(t)
    /\ Goto(t, "recheck")
    /\ UNCHANGED <<pool, connState, errors, chans, op, conn, chan, ok, faults>>

(* Recompare: still closed now that the lock is held ...                   *)
recompareClosed(t) ==
    /\ pc[t] = "recheck"
    /\ IsClosed(conn[t])
    /\ Goto(t, "dial")
    /\ UNCHANGED <<pool, hosts, chans, op, conn, chan, ok, faults>>

(* A slip: the early return does not unlock.                               *)
recompareOpenLocked(t) ==
    /\ pc[t] = "recheck"
    /\ ~IsClosed(conn[t])
    /\ Goto(t, "flush")
    /\ UNCHANGED <<pool, hosts, chans, op, conn, chan, ok, faults>>

(* ... or another goroutine has reconnected meanwhile.                     *)
recompareOpen(t) ==
    /\ pc[t] = "recheck"
    /\ ~IsClosed(conn[t])
    /\ Unlock(t)
    /\ Goto(t, "flush")
    /\ UNCHANGED <<pool, connState, errors, chans, op, conn, chan, ok, faults>>

(* DialConfig fails: the loop in triggerConnectionRecovery tries again.    *)
dialFails(t) ==
    /\ pc[t] = "dial"
    /\ Unlock(t)
    /\ Goto(t, "connect")
    /\ UNCHANGED <<pool, connState, errors, chans, op, conn, chan, ok, faults>>

(* DialConfig succeeds and ch.Connection becomes the new connection.       *)
dialSucceeds(t) ==
    /\ pc[t] = "dial"
    /\ connState' = [connState EXCEPT ![conn[t]] = "open"]
    /\ Goto(t, "install")
    /\ UNCHANGED <<pool, errors, connLock, chans, op, conn, chan, ok, faults>>

(* New Errors and Blockers, NotifyClose and NotifyBlocked.  NotifyClose on *)
(* a connection that has already shut down closes Errors at once.          *)
install(t) ==
    /\ pc[t] = "install"
    /\ errors' = [errors EXCEPT ![conn[t]] =
                    IF connState[conn[t]] = "down" THEN "closed" ELSE "quiet"]
    /\ Unlock(t)
    /\ Goto(t, "flush")
    /\ UNCHANGED <<pool, connState, chans, op, conn, chan, ok, faults>>

(* A slip: the default branch breaks out of the select only.               *)
flushErrorsBreak(t) ==
    /\ pc[t] = "flush"
    /\ Receive(conn[t])
    /\ Goto(t, "flush")
    /\ UNCHANGED <<pool, connState, connLock, chans, op, conn, chan, ok, faults>>

(* One turn of the loop that empties Errors; it leaves only by the default *)
(* branch, which a closed channel never takes.                             *)
flushErrors(t) ==
    /\ pc[t] = "flush"
    /\ Receive(conn[t])
    /\ Goto(t, IF errors[conn[t]] = "quiet" THEN "unflag" ELSE "flush")
    /\ UNCHANGED <<pool, connState, connLock, chans, op, conn, chan, ok, faults>>

unflagConnection(t) ==
    /\ pc[t] = "unflag"
    /\ flagged' = [flagged EXCEPT ![conn[t]] = FALSE]
    /\ Goto(t, "pause")
    /\ UNCHANGED <<connections, channels, created, hosts, chans, op, conn, chan,
                   ok, faults>>

(* PauseOnFlowControl holds connLock for as long as it sleeps; what it     *)
(* reads from Blockers is the subject of module FlowControl.               *)
pauseLock(t) ==
    /\ pc[t] = "pause"
    /\ Lock(t)
    /\ Goto(t, "paused")
    /\ UNCHANGED <<pool, connState, errors, chans, op, conn, chan, ok, faults>>

pauseUnlock(t) ==
    /\ pc[t] = "paused"
    /\ Unlock(t)
    /\ Goto(t, IF op[t] = "GetConnection" THEN "use" ELSE "make")
    /\ UNCHANGED <<pool, connState, errors, chans, op, conn, chan, ok, faults>>

-----------------------------------------------------------------------------
(* Creating channels, and giving connections and channels back.            *)

(* A channel call on host h may fail when its connection is closed, or by  *)
(* a fault of its own (channel-max, a reply that never came).              *)
CallFails(h) ==
    \/ IsClosed(h) /\ UNCHANGED faults
    \/ faults < MaxFaults /\ faults' = faults + 1

CallSucceeds(h) == ~IsClosed(h) /\ UNCHANGED faults

(* createCacheChannel: NewChannelHost makes a ChannelHost on the           *)
(* connection in hand; on an error the connection goes back flagged.       *)
newChannelHost(t) ==
    /\ pc[t] = "make" /\ op[t] = "createCacheChannel"
    /\ CallSucceeds(conn[t])
    /\ hostOf' = [hostOf EXCEPT ![created] = conn[t]]
    /\ chanState' = [chanState EXCEPT ![created] = "made"]
    /\ chan' = [chan EXCEPT ![t] = created]
    /\ Goto(t, "put")
    /\ UNCHANGED <<pool, hosts, op, conn, ok>>

(* GetTransientChannel: Connection.Channel() on the connection in hand.    *)
openTransient(t) ==
    /\ pc[t] = "make" /\ op[t] = "GetTransientChannel"
    /\ CallSucceeds(conn[t])
    /\ Goto(t, "put")
    /\ UNCHANGED <<pool, hosts, chans, op, conn, chan, ok>>

(* A slip: continue without ReturnConnection.                              *)
openFailsKeeping(t) ==
    /\ pc[t] = "make" /\ op[t] # "ReturnChannel"
    /\ CallFails(conn[t])
    /\ conn' = [conn EXCEPT ![t] = None]
    /\ Goto(t, "get")
    /\ UNCHANGED <<pool, hosts, chans, op, chan, ok>>

(* Either call fails: ReturnConnection(connHost, true) and once more.      *)
openFails(t) ==
    /\ pc[t] = "make" /\ op[t] # "ReturnChannel"
    /\ CallFails(conn[t])
    /\ ok' = [ok EXCEPT ![t] = FALSE]
    /\ Goto(t, "flag")
    /\ UNCHANGED <<pool, hosts, chans, op, conn, chan>>

(* channel.Confirm(false), after the connection has been given back: an    *)
(* error starts over and flags nothing.                                    *)
confirmTransient(t) ==
    /\ pc[t] = "confirm"
    /\ CallSucceeds(conn[t])
    /\ conn' = [conn EXCEPT ![t] = None]
    /\ Done(t)
    /\ UNCHANGED <<pool, hosts, chans, chan, ok>>

(* A channel that need not be ackable is returned without it.              *)
returnUnconfirmed(t) ==
    /\ pc[t] = "confirm"
    /\ conn' = [conn EXCEPT ![t] = None]
    /\ Done(t)
    /\ UNCHANGED <<pool, hosts, chans, chan, ok, faults>>

confirmFails(t) ==
    /\ pc[t] = "confirm"
    /\ CallFails(conn[t])
    /\ conn' = [conn EXCEPT ![t] = None]
    /\ Goto(t, "get")
    /\ UNCHANGED <<pool, hosts, chans, op, chan, ok>>

(* reconnectChannel: MakeChannel, and back to verifyHealthyConnection      *)
(* until it succeeds.                                                      *)
reconnectChannel(t) ==
    /\ pc[t] = "make" /\ op[t] = "ReturnChannel"
    /\ CallSucceeds(conn[t])
    /\ chanState' = [chanState EXCEPT ![chan[t]] = "made"]
    /\ conn' = [conn EXCEPT ![t] = None]
    /\ Goto(t, "putchan")
    /\ UNCHANGED <<pool, hosts, hostOf, op, chan, ok>>

(* A slip: reconnecting gives up, and the channel is not put back.         *)
reconnectGivesUp(t) ==
    /\ pc[t] = "make" /\ op[t] = "ReturnChannel"
    /\ CallFails(conn[t])
    /\ conn' = [conn EXCEPT ![t] = None]
    /\ chan' = [chan EXCEPT ![t] = None]
    /\ Done(t)
    /\ UNCHANGED <<pool, hosts, chans, ok>>

(* Channel() returning an error leaves Channel nil; Confirm returning one  *)
(* leaves a channel that is not in confirm mode.                           *)
reconnectFails(t) ==
    /\ pc[t] = "make" /\ op[t] = "ReturnChannel"
    /\ CallFails(conn[t])
    /\ \E left \in {"nil", "unconfirmed"} :
          chanState' = [chanState EXCEPT ![chan[t]] = left]
    /\ Goto(t, "errors")
    /\ UNCHANGED <<pool, hosts, hostOf, op, conn, chan, ok>>

flagConnection(t) ==
    /\ pc[t] = "flag"
    /\ flagged' = [flagged EXCEPT ![conn[t]] = TRUE]
    /\ Goto(t, "put")
    /\ UNCHANGED <<connections, channels, created, hosts, chans, op, conn, chan,
                   ok, faults>>

(* connections.Put by ReturnConnection, called by a user of the pool.      *)
putConnection(t) ==
    /\ pc[t] = "put" /\ op[t] = "GetConnection"
    /\ connections' = Append(connections, conn[t])
    /\ conn' = [conn EXCEPT ![t] = None]
    /\ Done(t)
    /\ UNCHANGED <<channels, created, flagged, hosts, chans, chan, ok, faults>>

(* The same, called after a failure to open a channel: continue.           *)
putAndRetry(t) ==
    /\ pc[t] = "put" /\ op[t] # "GetConnection" /\ ~ok[t]
    /\ connections' = Append(connections, conn[t])
    /\ conn' = [conn EXCEPT ![t] = None]
    /\ ok' = [ok EXCEPT ![t] = TRUE]
    /\ Goto(t, "get")
    /\ UNCHANGED <<channels, created, flagged, hosts, chans, op, chan, faults>>

(* The same, with the channel open; Confirm still needs its connection.    *)
putAfterCreate(t) ==
    /\ pc[t] = "put" /\ op[t] = "createCacheChannel" /\ ok[t]
    /\ connections' = Append(connections, conn[t])
    /\ conn' = [conn EXCEPT ![t] = None]
    /\ Goto(t, "putchan")
    /\ UNCHANGED <<channels, created, flagged, hosts, chans, op, chan, ok, faults>>

putAfterOpen(t) ==
    /\ pc[t] = "put" /\ op[t] = "GetTransientChannel" /\ ok[t]
    /\ connections' = Append(connections, conn[t])
    /\ Goto(t, "confirm")
    /\ UNCHANGED <<channels, created, flagged, hosts, chans, op, conn, chan, ok,
                   faults>>

(* cp.channels <- chanHost at the end of ReturnChannel.                    *)
putChannel(t) ==
    /\ pc[t] = "putchan" /\ op[t] = "ReturnChannel"
    /\ Len(channels) < MaxCacheChannelCount
    /\ channels' = Append(channels, chan[t])
    /\ chan' = [chan EXCEPT ![t] = None]
    /\ Done(t)
    /\ UNCHANGED <<connections, created, flagged, hosts, chans, conn, ok, faults>>

(* The same in the loop of initializeConnections: the next one ...         *)
poolCreatedChannel(t) ==
    /\ pc[t] = "putchan" /\ op[t] = "createCacheChannel"
    /\ created + 1 < MaxCacheChannelCount
    /\ Len(channels) < MaxCacheChannelCount
    /\ channels' = Append(channels, chan[t])
    /\ chan' = [chan EXCEPT ![t] = None]
    /\ created' = created + 1
    /\ Goto(t, "get")
    /\ UNCHANGED <<connections, flagged, hosts, chans, op, conn, ok, faults>>

(* ... and the last one, with which NewConnectionPool returns.             *)
poolLastChannel(t) ==
    /\ pc[t] = "putchan" /\ op[t] = "createCacheChannel"
    /\ created + 1 = MaxCacheChannelCount
    /\ Len(channels) < MaxCacheChannelCount
    /\ channels' = Append(channels, chan[t])
    /\ chan' = [chan EXCEPT ![t] = None]
    /\ created' = created + 1
    /\ Done(t)
    /\ UNCHANGED <<connections, flagged, hosts, chans, conn, ok, faults>>

-----------------------------------------------------------------------------
(* The amqp library: a connection is lost, and its shutdown proceeds.      *)

loseConnection(h) ==
    /\ connState[h] = "open" /\ faults < MaxFaults
    /\ connState' = [connState EXCEPT ![h] = "closing"]
    /\ faults' = faults + 1
    /\ UNCHANGED <<pool, errors, connLock, chans, threads>>

notifyError(h) ==
    /\ connState[h] = "closing" /\ ~Installing(h)
    /\ connState' = [connState EXCEPT ![h] = "notified"]
    /\ errors' = [errors EXCEPT ![h] = "erred"]
    /\ UNCHANGED <<pool, connLock, chans, threads, faults>>

closeErrors(h) ==
    /\ connState[h] = "notified"
    /\ connState' = [connState EXCEPT ![h] = "down"]
    /\ errors' = [errors EXCEPT ![h] = "closed"]
    /\ UNCHANGED <<pool, connLock, chans, threads, faults>>

(* The new connection is lost before NotifyClose: nobody is told.          *)
shutdownUnnoticed(h) ==
    /\ connState[h] = "closing" /\ Installing(h)
    /\ connState' = [connState EXCEPT ![h] = "down"]
    /\ UNCHANGED <<pool, errors, connLock, chans, threads, faults>>

(* The replaced connection finishes its shutdown after the new one is      *)
(* assigned and before the new Errors is.                                  *)
closeStaleErrors(h) ==
    /\ Installing(h) /\ errors[h] # "closed"
    /\ errors' = [errors EXCEPT ![h] = "closed"]
    /\ UNCHANGED <<pool, connState, connLock, chans, threads, faults>>

amqpStep(h) ==
    notifyError(h) \/ closeErrors(h) \/ shutdownUnnoticed(h) \/ closeStaleErrors(h)

-----------------------------------------------------------------------------
UserCall(t) == CallGetConnection(t) \/ GetChannelFromPool(t)

Verify(t) ==
    \/ checkErrors(t) \/ isConnectionFlagged(t) \/ checkClosed(t)
    \/ connectCompare(t) \/ recompareClosed(t) \/ recompareOpen(t)
    \/ dialFails(t) \/ dialSucceeds(t) \/ install(t)
    \/ flushErrors(t) \/ unflagConnection(t) \/ pauseUnlock(t)

Return(t) ==
    \/ ReturnChannel(t) \/ ReturnErredChannel(t)
    \/ ReturnConnection(t) \/ ReturnFlagged(t)
    \/ newChannelHost(t) \/ openTransient(t) \/ openFails(t)
    \/ confirmTransient(t) \/ returnUnconfirmed(t) \/ confirmFails(t)
    \/ reconnectChannel(t) \/ reconnectFails(t) \/ flagConnection(t)
    \/ putConnection(t) \/ putAndRetry(t) \/ putAfterCreate(t) \/ putAfterOpen(t)
    \/ putChannel(t) \/ poolCreatedChannel(t) \/ poolLastChannel(t)

Acquire(t) == getConnectionFromPool(t) \/ connectLock(t) \/ pauseLock(t)

Next ==
    \/ \E t \in Thread : UserCall(t) \/ Acquire(t) \/ Verify(t) \/ Return(t)
    \/ \E h \in Conn : loseConnection(h) \/ amqpStep(h)

Spec == Init /\ [][Next]_vars

(* A goroutine that can run does; the waiters of the queue and of a Go     *)
(* mutex are served in turn; an outage ends, so a goroutine that keeps     *)
(* dialling gets through; the amqp library completes a shutdown.           *)
Fairness ==
    /\ \A t \in Thread :
          /\ WF_vars(Verify(t) \/ Return(t))
          /\ SF_vars(Acquire(t))
          /\ SF_vars(dialSucceeds(t))
    /\ \A h \in Conn : WF_vars(amqpStep(h))

FairSpec == Spec /\ Fairness

-----------------------------------------------------------------------------
(* Every variable keeps to the values the code can give it.                *)
TypeOK ==
    /\ connections \in Seq(Conn)
    /\ channels \in Seq(Chan)
    /\ created \in 0 .. MaxCacheChannelCount
    /\ flagged \in [Conn -> BOOLEAN]
    /\ connState \in [Conn -> ConnStates]
    /\ errors \in [Conn -> ErrStates]
    /\ connLock \in [Conn -> Thread \cup {None}]
    /\ hostOf \in [Chan -> Conn \cup {None}]
    /\ chanState \in [Chan -> ChanStates]
    /\ pc \in [Thread -> PCs]
    /\ op \in [Thread -> Calls]
    /\ conn \in [Thread -> Conn \cup {None}]
    /\ chan \in [Thread -> Chan \cup {None}]
    /\ ok \in [Thread -> BOOLEAN]
    /\ faults \in 0 .. MaxFaults

(* Who took connection h from the queue and has not put it back.  A thread *)
(* reconnecting a channel works on a connection it does not own.           *)
Owns(t, h) == op[t] # "ReturnChannel" /\ pc[t] \in OwnerPCs /\ conn[t] = h

Queued(h) == h \in Range(connections)
Cached(c) == c \in Range(channels)

(* No retry, early continue or error branch loses a connection or puts it  *)
(* back twice: each is idle in the queue, once, or owned by one goroutine. *)
ConnectionsConserved ==
    /\ IsInjective(connections)
    /\ \A h \in Conn : Queued(h) <=> ~ \E t \in Thread : Owns(t, h)
    /\ \A h \in Conn, t, u \in Thread : Owns(t, h) /\ Owns(u, h) => t = u

(* The same of the cached channels that were pooled: ReturnChannel gives   *)
(* back the one it was given, also after a failed reconnection.            *)
ChannelsConserved ==
    /\ IsInjective(channels)
    /\ \A c \in Chan : Cached(c) => ~ \E t \in Thread : chan[t] = c
    /\ \A c \in Chan : c < created => Cached(c) \/ \E t \in Thread : chan[t] = c
    /\ \A t, u \in Thread : chan[t] = chan[u] /\ chan[t] # None => t = u

(* Compare, Lock, Recompare: a goroutine that is dialling overwrites a     *)
(* connection that is closed, never a live one another has just made.      *)
DialOnlyWhenClosed ==
    \A t \in Thread : pc[t] = "dial" => IsClosed(conn[t])

(* A connection that was returned flagged is handed out, or used to open a *)
(* channel, only after a recovery of it has cleared the flag.              *)
NoFlaggedConnectionInUse ==
    \A t \in Thread : \A h \in Conn :
        Owns(t, h) /\ pc[t] \in {"pause", "paused", "use", "make"} => ~flagged[h]

(* An idle cached channel is one that MakeChannel completed: nobody gets a *)
(* ChannelHost whose Channel is nil, not in confirm mode, or known bad.    *)
CachedChannelsMade ==
    \A c \in Chan : Cached(c) => chanState[c] = "made"

-----------------------------------------------------------------------------
(* The facts that make the properties above inductive.                     *)

(* Which calls reach which program points.                                 *)
CallAt(t) ==
    \/ op[t] = "none" /\ pc[t] = "idle"
    \/ op[t] = "GetConnection" /\ pc[t] \in VerifyPCs \cup {"get", "use", "flag", "put"}
    \/ op[t] = "GetTransientChannel"
         /\ pc[t] \in VerifyPCs \cup {"get", "make", "flag", "put", "confirm"}
    \/ op[t] = "createCacheChannel"
         /\ pc[t] \in VerifyPCs \cup {"get", "make", "flag", "put", "putchan"}
    \/ op[t] = "GetChannelFromPool" /\ pc[t] = "usechan"
    \/ op[t] = "ReturnChannel" /\ pc[t] \in VerifyPCs \cup {"make", "putchan"}

(* When a thread has a connection in hand, and when a channel.             *)
HandsAt(t) ==
    /\ conn[t] # None <=> pc[t] \in OwnerPCs \cup {"confirm"}
    /\ chan[t] # None <=>
          \/ op[t] \in {"GetChannelFromPool", "ReturnChannel"}
          \/ op[t] = "createCacheChannel" /\ pc[t] = "putchan"
          \/ op[t] = "createCacheChannel" /\ pc[t] = "put" /\ ok[t]
    /\ pc[t] = "flag" /\ op[t] # "GetConnection" => ~ok[t]
    /\ ~ok[t] => \/ pc[t] = "flagged?"
                 \/ pc[t] \in {"flag", "put"} /\ op[t] # "GetConnection"

(* The constructor alone creates channels, and nobody else runs meanwhile. *)
CreatorAt(t) ==
    /\ op[t] = "createCacheChannel" => t = Main /\ ~Initialized
    /\ op[t] \notin {"createCacheChannel", "none"} => Initialized
    /\ chan[t] # None =>
          /\ hostOf[chan[t]] # None
          /\ chan[t] < created <=> op[t] # "createCacheChannel"
          /\ op[t] = "createCacheChannel" => chan[t] = created

ThreadsOK == \A t \in Thread : CallAt(t) /\ HandsAt(t) /\ CreatorAt(t)

(* connLock is held exactly between Lock and Unlock.                       *)
LockHeld ==
    \A h \in Conn, t \in Thread :
        connLock[h] = t <=> pc[t] \in LockedPCs /\ conn[t] = h

ChannelsMade ==
    /\ \A c \in Chan : c < created => hostOf[c] # None
    /\ \A c \in Chan : Cached(c) => c < created
    /\ \A t \in Thread :
          chan[t] # None /\ (op[t] # "ReturnChannel" \/ pc[t] = "putchan")
              => chanState[chan[t]] = "made"

(* The owner of a flagged connection is on its way to a recovery, or has   *)
(* just flagged it.                                                        *)
FlaggedRecovers ==
    \A t \in Thread : \A h \in Conn :
        Owns(t, h) /\ flagged[h] => pc[t] \notin {"closed?", "pause", "paused", "use", "make"}

IInv ==
    /\ TypeOK /\ ThreadsOK /\ LockHeld /\ ChannelsMade /\ FlaggedRecovers
    /\ ConnectionsConserved /\ ChannelsConserved /\ DialOnlyWhenClosed
    /\ CachedChannelsMade

-----------------------------------------------------------------------------
(* A goroutine turns in the flush loop of triggerConnectionRecovery on an  *)
(* Errors channel that the amqp library has closed.                        *)
Spins(u) == pc[u] = "flush" /\ errors[conn[u]] = "closed"

NobodySpinsForever == \A u \in Thread : []<>~Spins(u)

(* GetConnection returns once outages are over and the others give their   *)
(* connections back, unless some goroutine is in the flush loop for ever;  *)
(* so does ReturnChannel of an erred channel.                              *)
RecoveryUnlessSpinning ==
    NobodySpinsForever =>
        \A t \in Thread :
            pc[t] \in {"get", "errors"} ~> pc[t] \in {"use", "make", "putchan"}

(* connectionpool.go:110: GetConnection is "blocking under bad network     *)
(* conditions", "transient network outages will pause here until cleared"; *)
(* so when the outages are over it returns.                                *)
GetConnectionReturns ==
    \A t \in Thread : pc[t] = "get" ~> pc[t] \in {"use", "make"}
=============================================================================
