-------------------------------- MODULE Topologer --------------------------------
(***************************************************************************)
(* The Topologer: BuildTopology declares what a TopologyConfig lists, one  *)
(* call after the other, each on a transient channel of its own, while     *)
(* others build the same topology, declare, delete, unbind and purge.      *)
(*                                                                         *)
(* Names of exchanges and queues are distinct here, and a binding is the   *)
(* pair of an exchange and of what is bound to it.  Of what a declaration  *)
(* says only the type of a queue is kept, the one thing the code changes   *)
(* that a broker compares.                                                 *)
(***************************************************************************)
EXTENDS Naturals, Sequences, Functions

CONSTANTS
    Exchange, Queue,        \* names
    Exchanges, Queues, QueueBindings, ExchangeBindings,     \* TopologyConfig
    PassiveDeclare, NoWait, \* which of the things it lists have these set,
    Quorum, Args,           \* which queues have this type, which have Args
    Builder,
    MaxFaults,  \* bound: calls whose answer is lost
    MaxOthers   \* bound: calls that are not for the config

Binding == Exchange \X (Exchange \cup Queue)
Thing   == Exchange \cup Queue \cup Binding

ASSUME TopologyConfig ==
    /\ Exchange \cap Queue = {} /\ (Exchange \cup Queue) \cap Binding = {}
    /\ Exchanges \in Seq(Exchange) /\ Queues \in Seq(Queue)
    /\ QueueBindings \in Seq(Exchange \X Queue)
    /\ ExchangeBindings \in Seq(Exchange \X Exchange)
    /\ PassiveDeclare \subseteq Exchange \cup Queue /\ NoWait \subseteq Thing
    /\ Quorum \subseteq Queue /\ Args \subseteq Queue

ASSUME Bounds == MaxFaults \in Nat /\ MaxOthers \in Nat

VARIABLES
    topology,   \* at the broker: what exists,
    queueType,  \* of which type the queues are,
    messages,   \* and which of them hold messages
    status,     \* per builder: what BuildTopology is doing, or has returned
    strict,     \* it was called without ignoreErrors
    at,         \* which thing of the config it is at
    gone,       \* history: what was deleted since it was called,
    disturbed,  \* history: that something got in its way
    faults, others

broker   == <<topology, queueType, messages>>
builders == <<status, strict, at, gone, disturbed>>
vars     == <<broker, builders, faults, others>>

(* A slip: queues are bound before they are declared. *)
PlanTwisted == Exchanges \o QueueBindings \o Queues \o ExchangeBindings

(* A slip: exchanges are not bound. *)
PlanShort == Exchanges \o Queues \o QueueBindings

(* BuildTopology: exchanges, queues, then the bindings of both.            *)
Plan == Exchanges \o Queues \o QueueBindings \o ExchangeBindings

Configured == Range(Exchanges) \cup Range(Queues) \cup Range(QueueBindings)
                \cup Range(ExchangeBindings)

(* CreateQueueFromConfig: a quorum queue is declared as the broker wants   *)
(* one, with an answer; of its type it hears only if Args were not given.  *)
TypeOf(q) == IF q \in Quorum \ Args THEN "quorum" ELSE "classic"

(* A slip: a quorum queue keeps NoWait. *)
HidesErrorsOfQuorum(x) == x \in NoWait

HidesErrors(x) == x \in NoWait \ Quorum

(* The broker: what it declares and binds, and what it refuses, with an    *)
(* exception that closes the channel.                                      *)
Accepts(x) ==
    /\ x \in Binding => {x[1], x[2]} \subseteq topology
    /\ x \in PassiveDeclare => x \in topology
    /\ x \in Queue \ PassiveDeclare /\ x \in topology => queueType[x] = TypeOf(x)

Declare(x, type) ==
    /\ topology' = topology \cup {x}
    /\ queueType' = IF x \in Queue \ topology THEN [queueType EXCEPT ![x] = type]
                    ELSE queueType

(* What a broker has against the config: a thing looked up that it lacks,  *)
(* a queue of another type, a binding of what neither of them has.         *)
Obstructed ==
    \/ \E x \in PassiveDeclare \cap Configured : x \notin topology
    \/ \E q \in Queue \cap Configured :
          q \notin PassiveDeclare /\ q \in topology /\ queueType[q] # TypeOf(q)
    \/ \E x \in Binding \cap Configured :
          ~({x[1], x[2]} \subseteq topology \cup Configured)

(* What the broker has from earlier days; a queue it lacks is put as classic. *)
Init ==
    /\ topology \in SUBSET (Exchange \cup Queue)
    /\ messages \in SUBSET (topology \cap Queue)
    /\ queueType \in [Queue -> {"classic", "quorum"}]
    /\ \A q \in Queue \ topology : queueType[q] = "classic"
    /\ status = [b \in Builder |-> "idle"]
    /\ strict = [b \in Builder |-> FALSE]
    /\ at = [b \in Builder |-> 1]
    /\ gone = [b \in Builder |-> {}]
    /\ disturbed = [b \in Builder |-> FALSE]
    /\ faults = 0 /\ others = 0

-----------------------------------------------------------------------------
BuildTopology(b) ==
    /\ status[b] # "building"
    /\ status' = [status EXCEPT ![b] = IF Plan = <<>> THEN "nil" ELSE "building"]
    /\ \E ignoreErrors \in BOOLEAN : strict' = [strict EXCEPT ![b] = ~ignoreErrors]
    /\ at' = [at EXCEPT ![b] = 1]
    /\ gone' = [gone EXCEPT ![b] = {}]
    /\ disturbed' = [disturbed EXCEPT ![b] = Obstructed]
    /\ UNCHANGED <<broker, faults, others>>

(* A slip: errors are ignored, whether that was asked for or not. *)
AfterAnyError(b, err) ==
    /\ at' = [at EXCEPT ![b] = @ + 1]
    /\ status' = IF at[b] = Len(Plan) THEN [status EXCEPT ![b] = "nil"] ELSE status

(* The loops of BuildExchanges, BuildQueues, BindQueues and BindExchanges. *)
After(b, err) ==
    IF err /\ strict[b]
    THEN status' = [status EXCEPT ![b] = "error"] /\ UNCHANGED at
    ELSE /\ at' = [at EXCEPT ![b] = @ + 1]
         /\ status' = IF at[b] = Len(Plan) THEN [status EXCEPT ![b] = "nil"] ELSE status

AtThing(b) == status[b] = "building" /\ at[b] <= Len(Plan)

answered(b) ==
    /\ AtThing(b) /\ Accepts(Plan[at[b]])
    /\ Declare(Plan[at[b]], TypeOf(Plan[at[b]]))
    /\ After(b, FALSE)
    /\ UNCHANGED <<messages, strict, gone, disturbed, faults, others>>

(* Of an exception nobody hears who does not wait for an answer.           *)
refused(b) ==
    /\ AtThing(b) /\ ~Accepts(Plan[at[b]])
    /\ After(b, ~HidesErrors(Plan[at[b]]))
    /\ UNCHANGED <<broker, strict, gone, disturbed, faults, others>>

(* The connection is lost, before the broker had the call or after.        *)
lost(b) ==
    /\ AtThing(b) /\ faults < MaxFaults
    /\ faults' = faults + 1
    /\ \/ Accepts(Plan[at[b]]) /\ Declare(Plan[at[b]], TypeOf(Plan[at[b]]))
       \/ UNCHANGED <<topology, queueType>>
    /\ \E err \in {TRUE, ~HidesErrors(Plan[at[b]])} : After(b, err)
    /\ disturbed' = [disturbed EXCEPT ![b] = TRUE]
    /\ UNCHANGED <<messages, strict, gone, others>>

-----------------------------------------------------------------------------
(* The other calls, by anyone.                                             *)

Meddle ==
    /\ others < MaxOthers
    /\ others' = others + 1
    /\ disturbed' = [b \in Builder |-> TRUE]
    /\ UNCHANGED <<status, strict, at, faults>>

Remove(S) ==
    /\ topology' = topology \ S
    /\ gone' = [b \in Builder |-> gone[b] \cup S]

CreateExchange(x) ==
    /\ Meddle
    /\ Declare(x, "classic")
    /\ UNCHANGED <<messages, gone>>

CreateQueue(q, type) ==
    /\ Meddle
    /\ q \in topology => queueType[q] = type
    /\ Declare(q, type)
    /\ UNCHANGED <<messages, gone>>

BindingsOf(x) == {bd \in Binding : x \in {bd[1], bd[2]}}

ExchangeDelete(x, ifUnused) ==
    /\ Meddle
    /\ ifUnused => ~\E bd \in topology \cap Binding : bd[1] = x
    /\ Remove({x} \cup BindingsOf(x))
    /\ UNCHANGED <<queueType, messages>>

(* Who consumes from the queue the model does not say, so it may be unused.*)
QueueDelete(q, ifEmpty) ==
    /\ Meddle
    /\ ifEmpty => q \notin messages
    /\ Remove({q} \cup BindingsOf(q))
    /\ messages' = messages \ {q}
    /\ queueType' = [queueType EXCEPT ![q] = "classic"]

ExchangeUnbind(x, parent) ==
    /\ Meddle
    /\ Remove({<<parent, x>>})
    /\ UNCHANGED <<queueType, messages>>

UnbindQueue(q, x) ==
    /\ Meddle
    /\ Remove({<<x, q>>})
    /\ UNCHANGED <<queueType, messages>>

(* PurgeQueues purges one after the other.                                 *)
PurgeQueue(q) ==
    /\ others < MaxOthers
    /\ others' = others + 1
    /\ messages' = messages \ {q}
    /\ UNCHANGED <<topology, queueType, builders, faults>>

-----------------------------------------------------------------------------
Build(b) == BuildTopology(b) \/ answered(b) \/ refused(b)

Others ==
    \/ \E x \in Exchange : \/ CreateExchange(x)
                           \/ \E f \in BOOLEAN : ExchangeDelete(x, f)
                           \/ \E y \in Exchange : ExchangeUnbind(x, y)
    \/ \E q \in Queue : \/ \E type \in {"classic", "quorum"} : CreateQueue(q, type)
                        \/ \E f \in BOOLEAN : QueueDelete(q, f)
                        \/ \E x \in Exchange : UnbindQueue(q, x)
                        \/ PurgeQueue(q)

Next == (\E b \in Builder : Build(b) \/ lost(b)) \/ Others

Spec == Init /\ [][Next]_vars

(* A builder who builds again and again gets his answers.                  *)
FairSpec == Spec /\ \A b \in Builder : WF_vars(Build(b))

-----------------------------------------------------------------------------
TypeOK ==
    /\ topology \in SUBSET Thing
    /\ queueType \in [Queue -> {"classic", "quorum"}]
    /\ messages \in SUBSET Queue
    /\ status \in [Builder -> {"idle", "building", "nil", "error"}]
    /\ strict \in [Builder -> BOOLEAN]
    /\ at \in [Builder -> 1 .. Len(Plan) + 1]
    /\ gone \in [Builder -> SUBSET Thing]
    /\ disturbed \in [Builder -> BOOLEAN]
    /\ faults \in 0 .. MaxFaults /\ others \in 0 .. MaxOthers

(* As configured: a quorum queue that was given Args is one of no type.    *)
Exists(x) ==
    /\ x \in topology
    /\ x \in Queue \ PassiveDeclare => queueType[x] = TypeOf(x)

(* topologer.go:30: a build "stops on first error".  Whatever it met on    *)
(* the way, all things a strict build has got past, and all of them when   *)
(* it returned nil, are there as configured, but for those deleted in the  *)
(* meantime and those that nobody waited for.                              *)
BuiltSoFar ==
    \A b \in Builder :
        strict[b] =>
            \A k \in 1 .. at[b] - 1 :
                \/ Exists(Plan[k]) \/ Plan[k] \in gone[b]
                \/ Plan[k] \in NoWait /\ Plan[k] \notin Quorum

(* A build that was left in the middle, or made by others at the same      *)
(* time, is no obstacle to the next one: a strict build fails only if a    *)
(* connection was lost or others meddled, or the broker had something else *)
(* by one of the names from the start.                                     *)
OnlyDisturbedBuildsFail ==
    \A b \in Builder : status[b] = "error" => strict[b] /\ disturbed[b]

(* Why an undisturbed build goes through: nothing is in the way, and what  *)
(* it has got past is there for the bindings to come.                      *)
FieldClear ==
    \A b \in Builder :
        status[b] = "building" /\ ~disturbed[b] =>
            ~Obstructed /\ \A k \in 1 .. at[b] - 1 : Plan[k] \in topology

(* The inductive invariant of the proofs.                                  *)
IInv == TypeOK /\ BuiltSoFar /\ OnlyDisturbedBuildsFail /\ FieldClear

(* Builds repeated, whether errors stop them or not, complete the topology *)
(* once connections hold, unless the broker has something against it.      *)
RebuildCompletes == <>[](Obstructed \/ \A x \in Configured : Exists(x))
=============================================================================
