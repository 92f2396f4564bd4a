--------------------------------- MODULE V1Pools ---------------------------------
(***************************************************************************)
(* Version 1's ConnectionPool and ChannelPool (v1/pkg/pools).  Channels,   *)
(* plain and ackable, are created with the pool and replaced when somebody *)
(* takes a bad one, on whatever connection is at the head of the queue and *)
(* has room.  The room of a connection host is a count that goes up with   *)
(* each channel created on it and never down.                              *)
(*                                                                         *)
(* A Host is a ChannelHost in memory; its channel's ID goes over to the    *)
(* host that replaces it.  A host nobody refers to is NoHost, to be used   *)
(* again.  Pools are used through the channel pool, as the library does.   *)
(***************************************************************************)
EXTENDS Naturals, Sequences, FiniteSets, Functions

CONSTANTS
    MaxConnectionCount, MaxChannelCount, MaxAckChannelCount,    \* PoolConfig
    Host, Thread, None,
    MaxFaults,      \* bound: channels and connections lost, and errors that leave the
                    \* channel open, together
    MaxExtras       \* bound: ackable channels given to ReturnChannel and calls of
                    \* Shutdown, together

ASSUME V1PoolsAssumption ==
    /\ {MaxConnectionCount, MaxChannelCount, MaxAckChannelCount} \subseteq Nat \ {0}
    /\ {MaxFaults, MaxExtras} \subseteq Nat
    /\ Host \subseteq Nat /\ IsFiniteSet(Host) /\ IsFiniteSet(Thread)
    /\ None \notin Thread \cup Nat

VARIABLES
    connections,            \* the queue of connection hosts
    connUp, count,          \* per connection: it is open; channels ever created on it
    flaggedConnections,
    channels, ackChannels,  \* the queues of channel hosts
    host,                   \* what each host is
    flaggedChannels,
    connInitialized, initialized,   \* Initialized of either pool
    poolLock,               \* who is in Initialize or Shutdown
    drain,                  \* Shutdown: what it does with each queue
    pc, op,                 \* per thread: its place, and what it was called for
    chan, conn, attempts,      \* channel and connection in hand; full ones met
    channelID,
    faults, ackReturns, shutdowns

connPool == <<connections, connUp, count, flaggedConnections, connInitialized>>
chanPool == <<channels, ackChannels, host, flaggedChannels, initialized, channelID>>
control  == <<poolLock, drain>>
threads  == <<pc, op, chan, conn, attempts>>
counters == <<faults, ackReturns, shutdowns>>
poolsVars     == <<connPool, chanPool, control, threads, counters>>

Connection == 0 .. MaxConnectionCount - 1
PlainID    == 0 .. MaxChannelCount - 1
AckID      == MaxChannelCount .. MaxChannelCount + MaxAckChannelCount - 1
Queues     == {"plain", "ack", "connections"}

(* The room of a connection.  For ackable channels, too, MaxChannelCount   *)
(* is compared with 1.                                                     *)
Room(n) ==
    IF MaxConnectionCount = 1 THEN n
    ELSE IF MaxChannelCount > 1 THEN n \div MaxConnectionCount + 1 ELSE 1

MaxOn == [plain |-> Room(MaxChannelCount), ack |-> Room(MaxAckChannelCount)]

Kind(id) == IF id \in PlainID THEN "plain" ELSE "ack"

(* A channel host: on which connection and if that is the present one of   *)
(* its ID; and what CloseErrors yields: nothing, an error, or no more.     *)
NoHost == [id |-> None, conn |-> 0, current |-> FALSE, up |-> FALSE, err |-> "quiet"]
ChannelHost ==
    [id : PlainID \cup AckID, conn : Connection, current : BOOLEAN, up : BOOLEAN,
     err : {"quiet", "erred", "closed"}]

Sweep(f) ==
    LET used == Range(channels') \cup Range(ackChannels') \cup Range(chan')
    IN  host' = [h \in Host |-> IF h \in used THEN f[h] ELSE NoHost]

AtPc(t, p)    == pc[t] = p
Goto(t, p)  == pc' = [pc EXCEPT ![t] = p]
IDof(t)     == host[chan[t]].id
Lost(r)     == [r EXCEPT !.up = FALSE, !.err = "erred"]
Closed(r)   == [r EXCEPT !.up = FALSE, !.err = IF @ = "erred" THEN @ ELSE "closed"]
ShuttingDown == poolLock # None /\ op[poolLock] = "Shutdown"

PoolsInit ==
    /\ connections = <<>> /\ flaggedConnections = {}
    /\ connUp = [i \in Connection |-> FALSE]
    /\ count = [i \in Connection |-> [plain |-> 0, ack |-> 0]]
    /\ connInitialized = FALSE /\ initialized = FALSE
    /\ channels = <<>> /\ ackChannels = <<>> /\ flaggedChannels = {} /\ channelID = 0
    /\ host = [h \in Host |-> NoHost]
    /\ poolLock = None /\ drain = [q \in Queues |-> "done"]
    /\ pc = [t \in Thread |-> "idle"] /\ op = [t \in Thread |-> "none"]
    /\ chan = [t \in Thread |-> None] /\ conn = [t \in Thread |-> None]
    /\ attempts = [t \in Thread |-> 0]
    /\ faults = 0 /\ ackReturns = 0 /\ shutdowns = 0

-----------------------------------------------------------------------------
(* New hosts of connections have all their room.                           *)
NewConnectionHosts(S) ==
    /\ connUp' = [i \in Connection |-> i \in S \/ connUp[i]]
    /\ count' = [i \in Connection |-> IF i \in S THEN [plain |-> 0, ack |-> 0]
                                      ELSE count[i]]

NewChannelHost(id, i) ==
    [id |-> id, conn |-> i, current |-> TRUE, up |-> TRUE, err |-> "quiet"]

(* Initialize of the channel pool, which initializes the other.            *)

(* All connections are dialled; after a failure those that were are left.  *)
(* (bound: a pool that was shut down is not initialized again)             *)
Initialize(t) ==
    /\ AtPc(t, "idle") /\ poolLock = None /\ ~initialized /\ shutdowns = 0
    /\ \/ /\ ~connInitialized
          /\ connections' = [k \in 1 .. MaxConnectionCount |-> k - 1]
          /\ NewConnectionHosts(Connection)
          /\ connInitialized' = TRUE
       \/ connInitialized /\ UNCHANGED <<connections, connUp, count, connInitialized>>
    /\ poolLock' = t
    /\ op' = [op EXCEPT ![t] = "Initialize"]
    /\ attempts' = [attempts EXCEPT ![t] = 0]
    /\ Goto(t, "connection")
    /\ UNCHANGED <<flaggedConnections, chanPool, drain, chan, conn, counters>>

-----------------------------------------------------------------------------
(* GetChannel and GetAckableChannel.                                       *)

GetChannel(t) ==
    /\ AtPc(t, "idle") /\ initialized /\ ~ShuttingDown
    /\ \E k \in {"plain", "ack"} : op' = [op EXCEPT ![t] = k]
    /\ Goto(t, "take")
    /\ UNCHANGED <<connPool, chanPool, control, chan, conn, attempts, counters>>

(* What CloseErrors yields is gone then, so a flag has to remember it.     *)
(* A slip: only the notification is looked at. *)
BadUnflagged(h) == host[h].err = "erred"

Bad(h) == host[h].err = "erred" \/ host[h].id \in flaggedChannels
Read(r) == [r EXCEPT !.err = IF @ = "erred" THEN "closed" ELSE @]

takeChannel(t) ==
    /\ AtPc(t, "take") /\ op[t] = "plain" /\ channels # <<>>
    /\ LET h == Head(channels)
       IN  /\ chan' = [chan EXCEPT ![t] = h]
           /\ host' = [host EXCEPT ![h] = Read(@)]
           /\ Goto(t, IF Bad(h) THEN "connection" ELSE "use")
    /\ channels' = Tail(channels)
    /\ attempts' = [attempts EXCEPT ![t] = 0]
    /\ UNCHANGED <<connPool, ackChannels, flaggedChannels, initialized, channelID,
                   control, op, conn, counters>>

(* A good ackable channel is back in the queue before its caller has it;   *)
(* of a bad one the connection is flagged.                                 *)
takeAckable(t) ==
    /\ AtPc(t, "take") /\ op[t] = "ack" /\ ackChannels # <<>>
    /\ LET h == Head(ackChannels)
       IN  /\ chan' = [chan EXCEPT ![t] = h]
           /\ host' = [host EXCEPT ![h] = Read(@)]
           /\ IF Bad(h)
              THEN /\ flaggedConnections' = flaggedConnections \cup {host[h].conn}
                   /\ ackChannels' = Tail(ackChannels)
                   /\ Goto(t, "connection")
              ELSE /\ ackChannels' = Append(Tail(ackChannels), h)
                   /\ Goto(t, "use")
                   /\ UNCHANGED flaggedConnections
    /\ attempts' = [attempts EXCEPT ![t] = 0]
    /\ UNCHANGED <<connections, connUp, count, connInitialized, channels, flaggedChannels,
                   initialized, channelID, control, op, conn, counters>>

-----------------------------------------------------------------------------
(* createChannelHost, for each of the three.                               *)

Needed(t) == IF op[t] = "Initialize" THEN channelID ELSE IDof(t)

(* GetConnection: a closed or flagged connection is dialled anew.          *)
takeConnection(t) ==
    /\ AtPc(t, "connection") /\ attempts[t] <= 3
    /\ connInitialized /\ connections # <<>>
    /\ LET i == Head(connections)
       IN  /\ conn' = [conn EXCEPT ![t] = i]
           /\ IF connUp[i] /\ i \notin flaggedConnections
              THEN Goto(t, "open") /\ UNCHANGED flaggedConnections
              ELSE /\ Goto(t, "dial")
                   /\ flaggedConnections' = flaggedConnections \cup {i}
    /\ connections' = Tail(connections)
    /\ UNCHANGED <<connUp, count, connInitialized, chanPool, control, op, chan, attempts,
                   counters>>

(* A connection that was open stays so, with its channels, and is nobody's.*)
dial(t) ==
    /\ AtPc(t, "dial")
    /\ NewConnectionHosts({conn[t]})
    /\ host' = [h \in Host |-> IF host[h].current /\ host[h].conn = conn[t]
                               THEN [host[h] EXCEPT !.current = FALSE] ELSE host[h]]
    /\ flaggedConnections' = flaggedConnections \ {conn[t]}
    /\ Goto(t, "open")
    /\ UNCHANGED <<connections, connInitialized, channels, ackChannels, flaggedChannels,
                   initialized, channelID, control, op, chan, conn, attempts, counters>>

(* A slip: the connection is not put back. *)
ForgetConnection(t) ==
    /\ UNCHANGED connections
    /\ conn' = [conn EXCEPT ![t] = None]

ReturnConnection(t) ==
    /\ connections' = Append(connections, conn[t])
    /\ conn' = [conn EXCEPT ![t] = None]

(* A slip: one more than there is room for. *)
HasRoomOff(t) == LET k == Kind(Needed(t)) IN count[conn[t]][k] <= MaxOn[k]

HasRoom(t) == LET k == Kind(Needed(t)) IN count[conn[t]][k] < MaxOn[k]

(* No room: try the next connection.                                       *)
passOver(t) ==
    /\ AtPc(t, "open") /\ ~HasRoom(t)
    /\ attempts' = [attempts EXCEPT ![t] = @ + 1]
    /\ ReturnConnection(t)
    /\ Goto(t, "connection")
    /\ UNCHANGED <<connUp, count, flaggedConnections, connInitialized, chanPool, control,
                   op, chan, counters>>

(* A slip: after a "-1" the bad channel is not put back. *)
NextTryForgets(t, full) == IF full /\ op[t] = "plain" THEN "take" ELSE "connection"

NextTry(t, full) == IF full /\ op[t] = "plain" THEN "put back" ELSE "connection"

(* What createChannelHost's error leads to: Initialize gives up, the       *)
(* others start again, GetChannel with another channel after a "-1".       *)
GiveUp(t, full) ==
    IF op[t] = "Initialize"
    THEN /\ channelID' = 0 /\ channels' = <<>> /\ poolLock' = None
         /\ Goto(t, "idle")
         /\ op' = [op EXCEPT ![t] = "none"]
         /\ Sweep(host)
         /\ UNCHANGED attempts
    ELSE /\ attempts' = [attempts EXCEPT ![t] = 0]
         /\ Goto(t, NextTry(t, full))
         /\ UNCHANGED <<channelID, channels, host, poolLock, op>>

openFails(t) ==
    /\ AtPc(t, "open") /\ HasRoom(t) /\ ~connUp[conn[t]]
    /\ flaggedConnections' = flaggedConnections \cup {conn[t]}
    /\ ReturnConnection(t)
    /\ UNCHANGED <<chan, ackChannels>>
    /\ GiveUp(t, FALSE)
    /\ UNCHANGED <<connUp, count, connInitialized, flaggedChannels, initialized, drain,
                   counters>>

(* The control error "-1"; while the connection pool is down, an error.    *)
noConnection(t) ==
    /\ AtPc(t, "connection")
    /\ attempts[t] > 3 \/ ~connInitialized \/ drain["connections"] # "done"
    /\ UNCHANGED <<chan, ackChannels>>
    /\ GiveUp(t, attempts[t] > 3)
    /\ UNCHANGED <<connPool, flaggedChannels, initialized, drain, conn, counters>>

AddChannel(i, kind) == count' = [count EXCEPT ![i][kind] = @ + 1]

(* A host in memory that is not in use.                                    *)
Fresh(h) ==
    /\ host[h] = NoHost        \* bound: there is one
    /\ \A n \in Host : host[n] = NoHost => h <= n

(* The new channel; Initialize goes on to the next one, or is done.        *)
open(t, h) ==
    /\ AtPc(t, "open") /\ HasRoom(t) /\ connUp[conn[t]] /\ Fresh(h)
    /\ LET id == Needed(t)
           keep == Kind(id) = "ack"
           last == op[t] = "Initialize" /\ id + 1 = MaxChannelCount + MaxAckChannelCount
       IN  /\ AddChannel(conn[t], Kind(id))
           /\ ReturnConnection(t)
           /\ ackChannels' = IF keep THEN Append(ackChannels, h) ELSE ackChannels
           /\ attempts' = [attempts EXCEPT ![t] = 0]
           /\ IF op[t] = "Initialize"
              THEN /\ channels' = IF keep THEN channels ELSE Append(channels, h)
                   /\ channelID' = channelID + 1
                   /\ initialized' = last
                   /\ poolLock' = IF last THEN None ELSE t
                   /\ op' = IF last THEN [op EXCEPT ![t] = "none"] ELSE op
                   /\ Goto(t, IF last THEN "idle" ELSE "connection")
                   /\ UNCHANGED <<chan, flaggedChannels>>
              ELSE /\ chan' = [chan EXCEPT ![t] = h]
                   /\ flaggedChannels' = flaggedChannels \ {id}
                   /\ Goto(t, "use")
                   /\ UNCHANGED <<channels, channelID, initialized, poolLock, op>>
           /\ Sweep([host EXCEPT ![h] = NewChannelHost(id, conn[t])])
    /\ UNCHANGED <<connUp, flaggedConnections, connInitialized, drain, counters>>

-----------------------------------------------------------------------------
(* ReturnChannel: into the queue first, then the flag.                     *)

PutChannel(t) ==
    IF Kind(IDof(t)) = "ack"
    THEN ackChannels' = Append(ackChannels, chan[t]) /\ UNCHANGED channels
    ELSE channels' = Append(channels, chan[t]) /\ UNCHANGED ackChannels

(* A call errs; its channel may be open all the same.                      *)
Errs(t) ==
    \/ ~host[chan[t]].up /\ UNCHANGED faults
    \/ host[chan[t]].up /\ faults < MaxFaults /\ faults' = faults + 1

(* After an error of a call or from CloseErrors a channel is given back    *)
(* flagged, dead or not; else as it is, also when its death went unseen.   *)
(* An ackable channel is in the queue already and need not be given back.  *)
ReturnChannel(t) ==
    /\ AtPc(t, "use")
    /\ \/ /\ Kind(IDof(t)) = "ack" /\ ackReturns + shutdowns < MaxExtras
          /\ ackReturns' = ackReturns + 1
       \/ Kind(IDof(t)) = "plain" /\ UNCHANGED ackReturns
    /\ PutChannel(t)
    /\ \/ /\ chan' = [chan EXCEPT ![t] = None]
          /\ op' = [op EXCEPT ![t] = "none"]
          /\ Goto(t, "idle")
          /\ Sweep(host)
          /\ UNCHANGED faults
       \/ /\ Errs(t)
          /\ \E f \in {host[chan[t]], Read(host[chan[t]])} :
                host' = [host EXCEPT ![chan[t]] = f]
          /\ Goto(t, "flag")
          /\ UNCHANGED <<chan, op>>
    /\ UNCHANGED <<connPool, flaggedChannels, initialized, channelID, control, conn,
                   attempts, shutdowns>>

(* The topologer flags first, and then puts back what it took.             *)
FlagAndReturnChannel(t) ==
    /\ AtPc(t, "use") /\ Kind(IDof(t)) = "plain" /\ Errs(t)
    /\ flaggedChannels' = flaggedChannels \cup {IDof(t)}
    /\ PutChannel(t)
    /\ chan' = [chan EXCEPT ![t] = None]
    /\ op' = [op EXCEPT ![t] = "none"]
    /\ Goto(t, "idle")
    /\ Sweep(host)
    /\ UNCHANGED <<connPool, initialized, channelID, control, conn, attempts, ackReturns,
                   shutdowns>>

LetGoAckable(t) ==
    /\ AtPc(t, "use") /\ Kind(IDof(t)) = "ack"
    /\ chan' = [chan EXCEPT ![t] = None]
    /\ op' = [op EXCEPT ![t] = "none"]
    /\ Goto(t, "idle")
    /\ UNCHANGED <<channels, ackChannels>>
    /\ Sweep(host)
    /\ UNCHANGED <<connPool, flaggedChannels, initialized, channelID, control, conn,
                   attempts, counters>>

(* GetChannel itself, after a "-1": so as not to lose the bad channel.     *)
putBack(t) ==
    /\ AtPc(t, "put back")
    /\ PutChannel(t)
    /\ Goto(t, "flag bad")
    /\ UNCHANGED <<connPool, host, flaggedChannels, initialized, channelID, control, op,
                   chan, conn, attempts, counters>>

(* ReturnChannel's caller is done then; GetChannel takes another channel.  *)
FlagChannel(t) ==
    /\ pc[t] \in {"flag", "flag bad"}
    /\ flaggedChannels' = flaggedChannels \cup {IDof(t)}
    /\ chan' = [chan EXCEPT ![t] = None]
    /\ Goto(t, IF AtPc(t, "flag") THEN "idle" ELSE "take")
    /\ op' = IF AtPc(t, "flag") THEN [op EXCEPT ![t] = "none"] ELSE op
    /\ UNCHANGED <<channels, ackChannels>>
    /\ Sweep(host)
    /\ UNCHANGED <<connPool, initialized, channelID, control, conn, attempts, counters>>

-----------------------------------------------------------------------------
(* Shutdown of the channel pool and then of the connection pool.  Each     *)
(* queue is emptied by Get(Len()) while it is not Empty().                 *)

Shutdown(t) ==
    /\ AtPc(t, "idle") /\ poolLock = None /\ initialized
    /\ ackReturns + shutdowns < MaxExtras
    /\ shutdowns' = shutdowns + 1
    /\ poolLock' = t
    /\ op' = [op EXCEPT ![t] = "Shutdown"]
    /\ drain' = [drain EXCEPT !["plain"] = "look", !["ack"] = "look"]
    /\ Goto(t, "channels")
    /\ UNCHANGED <<connPool, chanPool, chan, conn, attempts, faults, ackReturns>>

Empty(q) ==
    CASE q = "plain" -> channels = <<>>
      [] q = "ack" -> ackChannels = <<>>
      [] q = "connections" -> connections = <<>>

look(q) ==
    /\ drain[q] = "look"
    /\ drain' = [drain EXCEPT ![q] = IF Empty(q) THEN "done" ELSE "get"]
    /\ UNCHANGED <<connPool, chanPool, poolLock, threads, counters>>

(* Get(Len()) of a queue that was emptied in the meantime returns nothing, *)
(* if Len was so late, or waits.                                           *)
getNothing(q) ==
    /\ drain[q] = "get" /\ Empty(q)
    /\ drain' = [drain EXCEPT ![q] = "look"]
    /\ UNCHANGED <<connPool, chanPool, poolLock, threads, counters>>

get(q) ==
    /\ drain[q] = "get" /\ ~Empty(q)
    /\ drain' = [drain EXCEPT ![q] = "look"]
    /\ UNCHANGED chan
    /\ channels' = IF q = "plain" THEN <<>> ELSE channels
    /\ ackChannels' = IF q = "ack" THEN <<>> ELSE ackChannels
    /\ IF q = "connections"
       THEN /\ connections' = <<>>
            /\ connUp' = [i \in Connection |-> connUp[i] /\ i \notin Range(connections)]
            /\ Sweep([h \in Host |->
                        IF /\ host[h].up /\ host[h].current
                           /\ host[h].conn \in Range(connections)
                        THEN Closed(host[h]) ELSE host[h]])
       ELSE /\ Sweep([h \in Host |->
                        IF h \in Range(IF q = "plain" THEN channels ELSE ackChannels)
                        THEN Closed(host[h]) ELSE host[h]])
            /\ UNCHANGED <<connections, connUp>>
    /\ UNCHANGED <<count, flaggedConnections, connInitialized, flaggedChannels, initialized,
                   channelID, poolLock, pc, op, conn, attempts, counters>>

(* Whoever waits on the queue that is replaced waits for ever.  (channels  *)
(* is replaced twice, by a slip, ackChannels not at all.)                  *)
resetChannels(t) ==
    /\ AtPc(t, "channels") /\ drain["plain"] = "done" /\ drain["ack"] = "done"
    /\ channels' = <<>> /\ flaggedChannels' = {} /\ channelID' = 0
    /\ initialized' = FALSE
    /\ drain' = [drain EXCEPT !["connections"] = "look"]
    /\ \E s \in SUBSET {u \in Thread : AtPc(u, "take") /\ op[u] = "plain"} :
          pc' = [u \in Thread |-> IF u = t THEN "connections"
                                  ELSE IF u \in s THEN "stranded" ELSE pc[u]]
    /\ UNCHANGED <<ackChannels, chan>>
    /\ Sweep(host)
    /\ UNCHANGED <<connPool, poolLock, op, conn, attempts, counters>>

resetConnections(t) ==
    /\ AtPc(t, "connections") /\ drain["connections"] = "done"
    /\ connections' = <<>> /\ flaggedConnections' = {} /\ connInitialized' = FALSE
    /\ poolLock' = None
    /\ op' = [op EXCEPT ![t] = "none"]
    /\ \E s \in SUBSET {u \in Thread : AtPc(u, "connection")} :
          pc' = [u \in Thread |-> IF u = t THEN "idle"
                                  ELSE IF u \in s THEN "stranded" ELSE pc[u]]
    /\ UNCHANGED <<connUp, count, chanPool, drain, chan, conn, attempts, counters>>

-----------------------------------------------------------------------------
(* A channel is lost alone, or with its connection.                        *)

loseChannelHost(h) ==
    /\ host[h].up /\ faults < MaxFaults
    /\ faults' = faults + 1
    /\ host' = [host EXCEPT ![h] = Lost(@)]
    /\ UNCHANGED <<connPool, channels, ackChannels, flaggedChannels, initialized, channelID,
                   control, threads, ackReturns, shutdowns>>

loseConnection(i) ==
    /\ connUp[i] /\ faults < MaxFaults
    /\ faults' = faults + 1
    /\ connUp' = [connUp EXCEPT ![i] = FALSE]
    /\ host' = [h \in Host |-> IF host[h].conn = i /\ host[h].current /\ host[h].up
                               THEN Lost(host[h]) ELSE host[h]]
    /\ UNCHANGED <<connections, count, flaggedConnections, connInitialized, channels,
                   ackChannels, flaggedChannels, initialized, channelID, control, threads,
                   ackReturns, shutdowns>>

-----------------------------------------------------------------------------
createChannelHost(t) ==
    \/ takeConnection(t) \/ dial(t) \/ passOver(t) \/ openFails(t) \/ noConnection(t)
    \/ \E h \in Host : open(t, h)

Step(t) ==
    \/ takeChannel(t) \/ takeAckable(t) \/ createChannelHost(t)
    \/ putBack(t) \/ FlagChannel(t)
    \/ ReturnChannel(t) \/ FlagAndReturnChannel(t) \/ LetGoAckable(t)
    \/ resetChannels(t) \/ resetConnections(t)

PoolsNext ==
    \/ \E t \in Thread : Initialize(t) \/ GetChannel(t) \/ Step(t) \/ Shutdown(t)
    \/ \E q \in Queues : look(q) \/ getNothing(q) \/ get(q)
    \/ \E h \in Host : loseChannelHost(h)
    \/ \E i \in Connection : loseConnection(i)

PoolsSpec == PoolsInit /\ [][PoolsNext]_poolsVars

(* Goroutines run, a dial succeeds in the end, and who waits for an item   *)
(* of a queue is served in turn.  Users give back what they took.          *)
PoolsFairSpec ==
    /\ PoolsSpec
    /\ \A t \in Thread : SF_poolsVars(Step(t))
    /\ \A q \in Queues : WF_poolsVars(look(q)) /\ WF_poolsVars(get(q))

-----------------------------------------------------------------------------
PoolsTypeOK ==
    /\ connections \in Seq(Connection) /\ connUp \in [Connection -> BOOLEAN]
    /\ count \in [Connection -> [plain : 0 .. MaxOn.plain, ack : 0 .. MaxOn.ack]]
    /\ flaggedConnections \in SUBSET Connection
    /\ channels \in Seq(Host) /\ ackChannels \in Seq(Host)
    /\ host \in [Host -> ChannelHost \cup {NoHost}]
    /\ flaggedChannels \in SUBSET (PlainID \cup AckID)
    /\ connInitialized \in BOOLEAN /\ initialized \in BOOLEAN
    /\ poolLock \in Thread \cup {None}
    /\ drain \in [Queues -> {"look", "get", "done"}]
    /\ pc \in [Thread -> {"idle", "take", "connection", "dial", "open", "use", "put back",
                          "flag bad", "flag", "channels", "connections", "stranded"}]
    /\ op \in [Thread -> {"none", "Initialize", "plain", "ack", "Shutdown"}]
    /\ chan \in [Thread -> Host \cup {None}] /\ conn \in [Thread -> Connection \cup {None}]
    /\ attempts \in [Thread -> 0 .. 4]
    /\ channelID \in 0 .. MaxChannelCount + MaxAckChannelCount

HasChannel(t) == pc[t] \in {"connection", "dial", "open", "use", "put back"}

(* Up to Shutdown each connection is in its queue once or in the hands of  *)
(* one goroutine, and so is each plain channel, on every path through      *)
(* replacement, "-1" and return; and no connection carries more channels   *)
(* than it has counted, hence none more than its room.                     *)
PoolsConserved ==
    shutdowns = 0 =>
        /\ \A i \in Connection : connInitialized =>
              Cardinality({k \in DOMAIN connections : connections[k] = i})
                + Cardinality({t \in Thread : conn[t] = i}) = 1
        /\ \A c \in PlainID : initialized =>
              Cardinality({k \in DOMAIN channels : host[channels[k]].id = c})
                + Cardinality({t \in Thread : /\ op[t] = "plain" /\ HasChannel(t)
                                              /\ IDof(t) = c}) = 1
        /\ \A i \in Connection, k \in {"plain", "ack"} :
              Cardinality({h \in Host : /\ host[h].up /\ host[h].current
                                        /\ host[h].conn = i /\ Kind(host[h].id) = k})
                <= count[i][k]

(* channelpool.go:231: the checks in GetChannel "do our best to determine  *)
(* that a channel is dead".  A dead one gets through only while the one    *)
(* who returned it, having read its error, has yet to flag it.             *)
DeadOnlyBeforeFlag ==
    [][\A t \in Thread :
          AtPc(t, "take") /\ op[t] = "plain" /\ pc'[t] = "use" =>
              \/ host[chan'[t]].up \/ shutdowns > 0
              \/ \E u \in Thread :
                    pc[u] \in {"flag", "flag bad"} /\ chan[u] = chan'[t]]_poolsVars

(* A plain channel is out of use and no connection has room for another.   *)
Stuck ==
    /\ \A i \in Connection : count[i].plain >= MaxOn.plain
    /\ \E h \in Host : /\ host[h].id \in PlainID
                       /\ host[h].up => host[h].id \in flaggedChannels

(* channelpool.go:199: GetChannel blocks "until success connecting".  It   *)
(* returns when outages end, unless the channels that were replaced have   *)
(* used up all room there is, which nothing gives back but the loss of a   *)
(* connection; or ackable channels were given back, whose doubles use up   *)
(* theirs; or the pool was shut down.                                      *)
GetReturns ==
    \A t \in Thread :
        AtPc(t, "take") /\ op[t] = "plain" ~>
            AtPc(t, "use") \/ Stuck \/ ackReturns > 0 \/ shutdowns > 0
=============================================================================
