--------------------------- MODULE TopologerProofs ---------------------------
(***************************************************************************)
(* Proofs about Topologer, for any config and any broker: that IInv is     *)
(* inductive, and the two properties that follow from it.                  *)
(***************************************************************************)
EXTENDS Topologer, TLAPS

(* The names come first in the plan, then the bindings; and the plan lists *)
(* all that is configured.                                                 *)
LEMMA PlanOrder ==
    /\ Plan \in Seq(Thing)
    /\ \A k \in 1 .. Len(Plan) : Plan[k] \in Configured
    /\ \A k \in 1 .. Len(Plan), x \in Configured :
          Plan[k] \in Binding /\ x \notin Binding =>
              \E j \in 1 .. k - 1 : Plan[j] = x
<1> DEFINE names == Exchanges \o Queues
           n     == Len(names)
           first == names \o QueueBindings
<1>0. /\ Exchanges \in Seq(Exchange) /\ Queues \in Seq(Queue)
      /\ QueueBindings \in Seq(Exchange \X Queue)
      /\ ExchangeBindings \in Seq(Exchange \X Exchange)
      /\ (Exchange \cup Queue) \cap Binding = {}
  BY TopologyConfig
<1>1. /\ Exchanges \in Seq(Thing) /\ Queues \in Seq(Thing)
      /\ QueueBindings \in Seq(Thing) /\ ExchangeBindings \in Seq(Thing)
  BY <1>0 DEF Thing, Binding
<1>2. /\ names \in Seq(Thing) /\ n = Len(Exchanges) + Len(Queues)
      /\ \A i \in 1 .. n : names[i] = IF i <= Len(Exchanges) THEN Exchanges[i]
                                      ELSE Queues[i - Len(Exchanges)]
  BY <1>1
<1>3. /\ first \in Seq(Thing) /\ Len(first) = n + Len(QueueBindings)
      /\ \A i \in 1 .. Len(first) : first[i] = IF i <= n THEN names[i]
                                               ELSE QueueBindings[i - n]
  <2> HIDE DEF names
  <2> QED BY <1>1, <1>2
<1>4. /\ Plan \in Seq(Thing) /\ Len(Plan) = Len(first) + Len(ExchangeBindings)
      /\ \A i \in 1 .. Len(Plan) : Plan[i] = IF i <= Len(first) THEN first[i]
                                             ELSE ExchangeBindings[i - Len(first)]
  <2>1. Plan = first \o ExchangeBindings
    BY DEF Plan
  <2> HIDE DEF first
  <2> QED BY <1>1, <1>3, <2>1
<1>5. /\ n \in Nat /\ Len(Exchanges) \in Nat /\ Len(Queues) \in Nat
      /\ Len(QueueBindings) \in Nat /\ Len(ExchangeBindings) \in Nat
  BY <1>1, <1>2
<1> HIDE DEF names, first, n
<1>6. ASSUME NEW k \in 1 .. Len(Plan)
      PROVE  /\ Plan[k] \in Configured
             /\ Plan[k] \in Binding => k > n
  <2>1. CASE k <= Len(Exchanges)
    <3>1. Plan[k] = Exchanges[k] /\ k \in 1 .. Len(Exchanges)
      BY <1>2, <1>3, <1>4, <1>5, <2>1
    <3> QED BY <1>0, <3>1 DEF Configured, Range
  <2>2. CASE k > Len(Exchanges) /\ k <= n
    <3>1. /\ Plan[k] = Queues[k - Len(Exchanges)]
          /\ k - Len(Exchanges) \in 1 .. Len(Queues)
      BY <1>2, <1>3, <1>4, <1>5, <2>2
    <3> QED BY <1>0, <3>1 DEF Configured, Range
  <2>3. CASE k > n /\ k <= Len(first)
    <3>1. Plan[k] = QueueBindings[k - n] /\ k - n \in 1 .. Len(QueueBindings)
      BY <1>3, <1>4, <1>5, <2>3
    <3> QED BY <1>0, <3>1, <2>3 DEF Configured, Range
  <2>4. CASE k > Len(first)
    <3>1. /\ Plan[k] = ExchangeBindings[k - Len(first)]
          /\ k - Len(first) \in 1 .. Len(ExchangeBindings) /\ k > n
      BY <1>3, <1>4, <1>5, <2>4
    <3> QED BY <1>0, <3>1 DEF Configured, Range
  <2> QED BY <1>3, <1>4, <1>5, <2>1, <2>2, <2>3, <2>4
<1>7. ASSUME NEW x \in Configured, x \notin Binding
      PROVE  \E j \in 1 .. n : Plan[j] = x
  <2>1. x \in Range(Exchanges) \cup Range(Queues)
    BY <1>0, <1>7 DEF Configured, Range, Binding
  <2>2. CASE x \in Range(Exchanges)
    <3>1. PICK j \in 1 .. Len(Exchanges) : x = Exchanges[j]
      BY <1>0, <2>2 DEF Range
    <3>2. Plan[j] = x /\ j \in 1 .. n
      BY <1>2, <1>3, <1>4, <1>5, <3>1
    <3> QED BY <3>2
  <2>3. CASE x \in Range(Queues)
    <3>1. PICK i \in 1 .. Len(Queues) : x = Queues[i]
      BY <1>0, <2>3 DEF Range
    <3> DEFINE j == Len(Exchanges) + i
    <3>2. Plan[j] = x /\ j \in 1 .. n
      BY <1>2, <1>3, <1>4, <1>5, <3>1
    <3> QED BY <3>2
  <2> QED BY <2>1, <2>2, <2>3
<1>8. ASSUME NEW k \in 1 .. Len(Plan), NEW x \in Configured,
             Plan[k] \in Binding, x \notin Binding
      PROVE  \E j \in 1 .. k - 1 : Plan[j] = x
  <2>1. PICK j \in 1 .. n : Plan[j] = x
    BY <1>7, <1>8
  <2>2. k > n /\ k \in Nat
    BY <1>4, <1>6, <1>8
  <2> QED BY <1>5, <2>1, <2>2
<1> QED BY <1>4, <1>6, <1>8

(* What an answer adds: the thing as configured, nothing else disturbed.   *)
LEMMA DeclareKeeps ==
    ASSUME TypeOK, NEW x \in Thing, NEW type \in {"classic", "quorum"}, Declare(x, type)
    PROVE  /\ topology' \in SUBSET Thing /\ queueType' \in [Queue -> {"classic", "quorum"}]
           /\ \A y \in Thing : Exists(y) => Exists(y)'
           /\ \A y \in topology : y \in topology'
BY DEF Declare, TypeOK, Exists, Thing

LEMMA AnsweredExists ==
    ASSUME TypeOK, NEW x \in Thing, Accepts(x), Declare(x, TypeOf(x))
    PROVE  Exists(x)' /\ x \in topology'
<1>1. CASE x \in Queue \ PassiveDeclare
  <2>1. x \notin Binding
    BY TopologyConfig, <1>1
  <2>2. x \in topology => queueType[x] = TypeOf(x)
    BY <1>1, <2>1 DEF Accepts
  <2> QED BY <1>1, <2>2 DEF Declare, TypeOK, Exists
<1> QED BY <1>1 DEF Declare, Exists

(* A declaration does not get in the way of another one.                   *)
LEMMA DeclareClears ==
    ASSUME TypeOK, ~Obstructed, NEW x \in Thing, Declare(x, TypeOf(x))
    PROVE  ~Obstructed'
BY DEF Declare, Obstructed, TypeOK

LEMMA InitIInv == Init => IInv
<1>1. Len(Plan) \in Nat
  BY PlanOrder
<1> QED BY <1>1, TopologyConfig, Bounds DEF Init, IInv, TypeOK, BuiltSoFar,
           OnlyDisturbedBuildsFail, FieldClear, Thing

(* How a builder goes on, for the part of the invariant that is his own:   *)
(* past a thing that is there as configured, that he does not hear of, or  *)
(* not at all.                                                             *)
LEMMA AtIsPlanned ==
    ASSUME TypeOK, NEW b \in Builder, AtThing(b)
    PROVE  /\ at[b] \in 1 .. Len(Plan) /\ Len(Plan) \in Nat
           /\ Plan[at[b]] \in Thing /\ Plan[at[b]] \in Configured
           /\ at[b] + 1 \in 1 .. Len(Plan) + 1
           /\ \A k \in 1 .. at[b] - 1 : k \in 1 .. Len(Plan) /\ Plan[k] \in Thing
           /\ \A k \in 1 .. at[b] : k \in 1 .. at[b] - 1 \/ k = at[b]
BY PlanOrder DEF TypeOK, AtThing

LEMMA TypeOfTypes == \A q : TypeOf(q) \in {"classic", "quorum"}
BY DEF TypeOf

(* The builder goes on past a thing that is there as configured, or that   *)
(* nobody waits for, or does not go on.                                    *)
LEMMA AfterKeeps ==
    ASSUME TypeOK, BuiltSoFar, NEW b \in Builder, AtThing(b),
           NEW err \in BOOLEAN, After(b, err),
           NEW x \in Thing, x = Plan[at[b]],
           strict[b] /\ ~err => Exists(x)' \/ x \in NoWait \ Quorum,
           \A y \in Thing : Exists(y) => Exists(y)',
           UNCHANGED <<strict, gone>>
    PROVE  /\ at' \in [Builder -> 1 .. Len(Plan) + 1]
           /\ status' \in [Builder -> {"idle", "building", "nil", "error"}]
           /\ \A c \in Builder \ {b} : at'[c] = at[c] /\ status'[c] = status[c]
           /\ status'[b] = "error" => err /\ strict[b]
           /\ status'[b] = "building" => at'[b] = at[b] + 1
           /\ BuiltSoFar'
<1>p. /\ at[b] \in 1 .. Len(Plan) /\ Len(Plan) \in Nat
      /\ at[b] + 1 \in 1 .. Len(Plan) + 1
      /\ \A k \in 1 .. at[b] : k \in 1 .. at[b] - 1 \/ k = at[b]
  BY AtIsPlanned
<1>1. CASE err /\ strict[b]
  <2>1. status' = [status EXCEPT ![b] = "error"] /\ at' = at
    BY <1>1 DEF After
  <2>2. BuiltSoFar'
    BY <2>1, PlanOrder DEF BuiltSoFar, TypeOK
  <2> QED BY <1>1, <2>1, <2>2 DEF TypeOK
<1>2. CASE ~(err /\ strict[b])
  <2>1. /\ at' = [at EXCEPT ![b] = @ + 1]
        /\ status' = IF at[b] = Len(Plan) THEN [status EXCEPT ![b] = "nil"] ELSE status
    BY <1>2 DEF After
  <2>2. ASSUME NEW c \in Builder, strict'[c], NEW k \in 1 .. at'[c] - 1
        PROVE  \/ Exists(Plan[k])' \/ Plan[k] \in gone'[c]
               \/ Plan[k] \in NoWait /\ Plan[k] \notin Quorum
    <3>1. CASE c = b /\ k = at[b]
      BY <1>2, <2>2, <3>1
    <3>2. CASE ~(c = b /\ k = at[b])
      <4>1. k \in 1 .. at[c] - 1 /\ strict[c]
        BY <1>p, <2>1, <2>2, <3>2 DEF TypeOK
      <4>2. Plan[k] \in Thing
        BY <4>1, PlanOrder DEF TypeOK
      <4> QED BY <4>1, <4>2 DEF BuiltSoFar
    <3> QED BY <3>1, <3>2
  <2>3. BuiltSoFar'
    BY <2>2 DEF BuiltSoFar
  <2>4. status'[b] # "error"
    BY <2>1 DEF TypeOK, AtThing
  <2> QED BY <1>p, <2>1, <2>3, <2>4 DEF TypeOK, AtThing
<1> QED BY <1>1, <1>2

(* On a clear field the next call is accepted: the ends of a binding are   *)
(* there from the start, or the builder has got past them.                 *)
LEMMA ClearAccepts ==
    ASSUME TypeOK, FieldClear, NEW b \in Builder, AtThing(b), ~disturbed[b]
    PROVE  Accepts(Plan[at[b]])
<1>p. /\ at[b] \in 1 .. Len(Plan) /\ Plan[at[b]] \in Thing
      /\ Plan[at[b]] \in Configured
  BY AtIsPlanned
<1>x. PICK x \in Thing : x = Plan[at[b]]
  BY <1>p
<1>1. ~Obstructed /\ \A k \in 1 .. at[b] - 1 : Plan[k] \in topology
  BY DEF FieldClear, AtThing
<1>2. x \in PassiveDeclare => x \in topology
  BY <1>p, <1>x, <1>1 DEF Obstructed
<1>3. x \in Queue \ PassiveDeclare /\ x \in topology => queueType[x] = TypeOf(x)
  BY <1>p, <1>x, <1>1 DEF Obstructed
<1>4. ASSUME x \in Binding, NEW e \in {x[1], x[2]} PROVE e \in topology
  <2>1. e \in topology \cup Configured
    BY <1>p, <1>x, <1>1, <1>4 DEF Obstructed
  <2>2. e \notin Binding
    BY <1>4, TopologyConfig DEF Binding
  <2>3. CASE e \in Configured
    <3>1. PICK j \in 1 .. at[b] - 1 : Plan[j] = e
      BY <1>p, <1>x, <1>4, <2>2, <2>3, PlanOrder
    <3> QED BY <1>1, <3>1
  <2> QED BY <2>1, <2>3
<1> QED BY <1>x, <1>2, <1>3, <1>4 DEF Accepts

(* IInv is inductive.                                                      *)
LEMMA AnsweredIInv ==
    ASSUME IInv, NEW b \in Builder, answered(b)
    PROVE  IInv'
<1>t. TypeOK /\ BuiltSoFar /\ OnlyDisturbedBuildsFail /\ FieldClear
  BY DEF IInv
<1>p. /\ at[b] \in 1 .. Len(Plan) /\ Len(Plan) \in Nat /\ Plan[at[b]] \in Thing
      /\ \A k \in 1 .. at[b] : k \in 1 .. at[b] - 1 \/ k = at[b]
  BY <1>t, AtIsPlanned DEF answered
<1>x. PICK x \in Thing : x = Plan[at[b]]
  BY <1>p
<1>a. /\ AtThing(b) /\ Accepts(x) /\ Declare(x, TypeOf(x)) /\ After(b, FALSE)
      /\ UNCHANGED <<messages, strict, gone, disturbed, faults, others>>
  BY <1>x DEF answered
<1>d. /\ topology' \in SUBSET Thing /\ queueType' \in [Queue -> {"classic", "quorum"}]
      /\ \A y \in Thing : Exists(y) => Exists(y)'
      /\ \A y \in topology : y \in topology'
      /\ Exists(x)' /\ x \in topology'
  BY <1>a, <1>t, TypeOfTypes, DeclareKeeps, AnsweredExists
<1>f. /\ at' \in [Builder -> 1 .. Len(Plan) + 1]
      /\ status' \in [Builder -> {"idle", "building", "nil", "error"}]
      /\ \A c \in Builder \ {b} : at'[c] = at[c] /\ status'[c] = status[c]
      /\ status'[b] # "error"
      /\ status'[b] = "building" => at'[b] = at[b] + 1
      /\ BuiltSoFar'
  BY <1>a, <1>d, <1>t, <1>x, AfterKeeps
<1>1. TypeOK'
  BY <1>a, <1>t, <1>d, <1>f DEF TypeOK
<1>3. OnlyDisturbedBuildsFail'
  BY <1>a, <1>t, <1>f DEF OnlyDisturbedBuildsFail
<1>4. FieldClear'
  <2> SUFFICES ASSUME NEW c \in Builder, status'[c] = "building", ~disturbed'[c]
               PROVE  ~Obstructed' /\ \A k \in 1 .. at'[c] - 1 : Plan[k] \in topology'
    BY DEF FieldClear
  <2>1. status[c] = "building" /\ ~disturbed[c]
    BY <1>a, <1>f DEF AtThing
  <2>2. ~Obstructed /\ \A k \in 1 .. at[c] - 1 : Plan[k] \in topology
    BY <1>t, <2>1 DEF FieldClear
  <2>3. ~Obstructed'
    BY <1>a, <1>t, <2>2, DeclareClears
  <2>4. ASSUME NEW k \in 1 .. at'[c] - 1 PROVE Plan[k] \in topology'
    <3>0. at[c] \in Nat /\ at'[c] \in Nat
      BY <1>f, <1>t, PlanOrder DEF TypeOK
    <3>1. k \in 1 .. at[c] - 1 \/ (c = b /\ k = at[b])
      BY <1>f, <2>4, <3>0
    <3> QED BY <1>x, <1>d, <2>2, <3>1
  <2> QED BY <2>3, <2>4
<1> QED BY <1>1, <1>f, <1>3, <1>4 DEF IInv

LEMMA RefusedIInv ==
    ASSUME IInv, NEW b \in Builder, refused(b)
    PROVE  IInv'
<1>t. TypeOK /\ BuiltSoFar /\ OnlyDisturbedBuildsFail /\ FieldClear
  BY DEF IInv
<1>x. PICK x \in Thing : x = Plan[at[b]]
  BY <1>t, AtIsPlanned DEF refused
<1>a. /\ AtThing(b) /\ ~Accepts(x) /\ After(b, ~HidesErrors(x))
      /\ UNCHANGED <<broker, strict, gone, disturbed, faults, others>>
  BY <1>x DEF refused
<1>d. disturbed[b]
  BY <1>a, <1>t, <1>x, ClearAccepts
<1>e. /\ \A y \in Thing : Exists(y) => Exists(y)'
      /\ (~HidesErrors(x)) \in BOOLEAN
      /\ HidesErrors(x) => x \in NoWait \ Quorum
  BY <1>a DEF broker, Exists, HidesErrors
<1>f. /\ at' \in [Builder -> 1 .. Len(Plan) + 1]
      /\ status' \in [Builder -> {"idle", "building", "nil", "error"}]
      /\ \A c \in Builder \ {b} : at'[c] = at[c] /\ status'[c] = status[c]
      /\ status'[b] = "error" => strict[b]
      /\ BuiltSoFar'
  BY <1>a, <1>e, <1>t, <1>x, AfterKeeps
<1>1. TypeOK'
  BY <1>a, <1>t, <1>f DEF TypeOK, broker
<1>2. OnlyDisturbedBuildsFail'
  BY <1>a, <1>d, <1>t, <1>f DEF OnlyDisturbedBuildsFail
<1>3. FieldClear'
  BY <1>a, <1>d, <1>t, <1>f DEF FieldClear, Obstructed, broker
<1> QED BY <1>1, <1>2, <1>3, <1>f DEF IInv

LEMMA LostIInv ==
    ASSUME IInv, NEW b \in Builder, lost(b)
    PROVE  IInv'
<1>t. TypeOK /\ BuiltSoFar /\ OnlyDisturbedBuildsFail /\ FieldClear
  BY DEF IInv
<1>x. PICK x \in Thing : x = Plan[at[b]]
  BY <1>t, AtIsPlanned DEF lost
<1>a. /\ AtThing(b) /\ faults < MaxFaults /\ faults' = faults + 1
      /\ disturbed' = [disturbed EXCEPT ![b] = TRUE]
      /\ UNCHANGED <<messages, strict, gone, others>>
      /\ Declare(x, TypeOf(x)) \/ UNCHANGED <<topology, queueType>>
  BY <1>x DEF lost
<1>b. PICK err \in {TRUE, ~HidesErrors(x)} : After(b, err)
  BY <1>x DEF lost
<1>d. /\ topology' \in SUBSET Thing /\ queueType' \in [Queue -> {"classic", "quorum"}]
      /\ \A y \in Thing : Exists(y) => Exists(y)'
      /\ \A y \in topology : y \in topology'
      /\ ~Obstructed => ~Obstructed'
  <2>1. CASE Declare(x, TypeOf(x))
    BY <1>t, <2>1, TypeOfTypes, DeclareKeeps, DeclareClears
  <2>2. CASE UNCHANGED <<topology, queueType>>
    BY <1>t, <2>2 DEF TypeOK, Exists, Obstructed
  <2> QED BY <1>a, <2>1, <2>2
<1>e. /\ err \in BOOLEAN
      /\ ~err => x \in NoWait \ Quorum
  BY <1>b DEF HidesErrors
<1>f. /\ at' \in [Builder -> 1 .. Len(Plan) + 1]
      /\ status' \in [Builder -> {"idle", "building", "nil", "error"}]
      /\ \A c \in Builder \ {b} : at'[c] = at[c] /\ status'[c] = status[c]
      /\ status'[b] = "error" => strict[b]
      /\ BuiltSoFar'
  BY <1>a, <1>b, <1>d, <1>e, <1>t, <1>x, AfterKeeps
<1>1. TypeOK'
  BY <1>a, <1>d, <1>t, <1>f, Bounds DEF TypeOK
<1>2. OnlyDisturbedBuildsFail'
  BY <1>a, <1>t, <1>f DEF OnlyDisturbedBuildsFail, TypeOK
<1>3. FieldClear'
  <2> SUFFICES ASSUME NEW c \in Builder, status'[c] = "building", ~disturbed'[c]
               PROVE  ~Obstructed' /\ \A k \in 1 .. at'[c] - 1 : Plan[k] \in topology'
    BY DEF FieldClear
  <2>1. c # b /\ status[c] = "building" /\ ~disturbed[c] /\ at'[c] = at[c]
    BY <1>a, <1>t, <1>f DEF TypeOK
  <2> QED BY <1>d, <1>t, <2>1 DEF FieldClear
<1> QED BY <1>1, <1>2, <1>3, <1>f DEF IInv

LEMMA BuildIInv ==
    ASSUME IInv, NEW b \in Builder, BuildTopology(b)
    PROVE  IInv'
<1>t. TypeOK /\ BuiltSoFar /\ OnlyDisturbedBuildsFail /\ FieldClear
  BY DEF IInv
<1>p. Len(Plan) \in Nat
  BY PlanOrder
<1>a. /\ status' = [status EXCEPT ![b] = IF Plan = <<>> THEN "nil" ELSE "building"]
      /\ \E ignoreErrors \in BOOLEAN : strict' = [strict EXCEPT ![b] = ~ignoreErrors]
      /\ at' = [at EXCEPT ![b] = 1] /\ gone' = [gone EXCEPT ![b] = {}]
      /\ disturbed' = [disturbed EXCEPT ![b] = Obstructed]
      /\ UNCHANGED <<topology, queueType, messages, faults, others>>
  BY DEF BuildTopology, broker
<1>1. TypeOK'
  <2>1. Obstructed \in BOOLEAN
    BY DEF Obstructed
  <2> QED BY <1>a, <1>p, <1>t, <2>1 DEF TypeOK
<1>2. BuiltSoFar'
  BY <1>a, <1>t DEF BuiltSoFar, TypeOK, Exists
<1>3. OnlyDisturbedBuildsFail'
  BY <1>a, <1>t DEF OnlyDisturbedBuildsFail, TypeOK
<1>4. FieldClear'
  <2> SUFFICES ASSUME NEW c \in Builder, status'[c] = "building", ~disturbed'[c]
               PROVE  ~Obstructed' /\ \A k \in 1 .. at'[c] - 1 : Plan[k] \in topology'
    BY DEF FieldClear
  <2>1. Obstructed' = Obstructed
    BY <1>a DEF Obstructed
  <2>2. CASE c = b
    <3>1. disturbed'[b] = Obstructed /\ at'[b] = 1
      BY <1>a, <1>t DEF TypeOK
    <3> QED BY <2>1, <2>2, <3>1
  <2>3. CASE c # b
    <3>1. /\ status[c] = "building" /\ ~disturbed[c] /\ at'[c] = at[c]
      BY <1>a, <1>t, <2>3 DEF TypeOK
    <3> QED BY <1>a, <1>t, <2>1, <3>1 DEF FieldClear
  <2> QED BY <2>2, <2>3
<1> QED BY <1>1, <1>2, <1>3, <1>4 DEF IInv

(* What others do: whatever they take away is on record.                   *)
LEMMA MeddleIInv ==
    ASSUME IInv, Meddle, topology' \in SUBSET Thing,
           queueType' \in [Queue -> {"classic", "quorum"}],
           messages' \in SUBSET Queue, gone' \in [Builder -> SUBSET Thing],
           \A c \in Builder : gone[c] \subseteq gone'[c],
           \A y \in Thing : Exists(y) => Exists(y)' \/ \A c \in Builder : y \in gone'[c]
    PROVE  IInv'
<1>t. TypeOK /\ BuiltSoFar /\ OnlyDisturbedBuildsFail /\ FieldClear
  BY DEF IInv
<1>a. /\ others < MaxOthers /\ others' = others + 1
      /\ disturbed' = [b \in Builder |-> TRUE]
      /\ UNCHANGED <<status, strict, at, faults>>
  BY DEF Meddle
<1>1. TypeOK'
  BY <1>a, <1>t, Bounds DEF TypeOK
<1>2. BuiltSoFar'
  <2> SUFFICES ASSUME NEW c \in Builder, strict[c], NEW k \in 1 .. at[c] - 1
               PROVE  \/ Exists(Plan[k])' \/ Plan[k] \in gone'[c]
                      \/ Plan[k] \in NoWait /\ Plan[k] \notin Quorum
    BY <1>a DEF BuiltSoFar
  <2>1. Plan[k] \in Thing
    BY <1>t, PlanOrder DEF TypeOK
  <2>2. \/ Exists(Plan[k]) \/ Plan[k] \in gone[c]
        \/ Plan[k] \in NoWait /\ Plan[k] \notin Quorum
    BY <1>t DEF BuiltSoFar
  <2> QED BY <2>1, <2>2
<1>3. OnlyDisturbedBuildsFail'
  BY <1>a, <1>t DEF OnlyDisturbedBuildsFail
<1>4. FieldClear'
  BY <1>a DEF FieldClear
<1> QED BY <1>1, <1>2, <1>3, <1>4 DEF IInv

LEMMA OthersIInv ==
    ASSUME IInv, Others
    PROVE  IInv'
<1>t. TypeOK
  BY DEF IInv
<1>r. ASSUME NEW S \in SUBSET Thing, Remove(S)
      PROVE  /\ topology' \in SUBSET Thing /\ gone' \in [Builder -> SUBSET Thing]
             /\ \A c \in Builder : gone[c] \subseteq gone'[c] /\ S \subseteq gone'[c]
             /\ \A y \in topology : y \in topology' \/ y \in S
  BY <1>t, <1>r DEF TypeOK, Remove
<1>1. ASSUME NEW x \in Exchange, CreateExchange(x) PROVE IInv'
  <2>1. x \in Thing /\ x \notin Queue
    BY TopologyConfig DEF Thing
  <2>2. /\ topology' \in SUBSET Thing /\ queueType' \in [Queue -> {"classic", "quorum"}]
        /\ \A y \in Thing : Exists(y) => Exists(y)'
    BY <1>1, <1>t, <2>1, DeclareKeeps DEF CreateExchange
  <2> QED BY <1>1, <1>t, <2>2, MeddleIInv DEF CreateExchange, TypeOK
<1>2. ASSUME NEW q \in Queue, NEW type \in {"classic", "quorum"}, CreateQueue(q, type)
      PROVE  IInv'
  <2>1. q \in Thing
    BY DEF Thing
  <2>2. /\ topology' \in SUBSET Thing /\ queueType' \in [Queue -> {"classic", "quorum"}]
        /\ \A y \in Thing : Exists(y) => Exists(y)'
    BY <1>2, <1>t, <2>1, DeclareKeeps DEF CreateQueue
  <2> QED BY <1>2, <1>t, <2>2, MeddleIInv DEF CreateQueue, TypeOK
<1>3. ASSUME NEW x \in Exchange, NEW f \in BOOLEAN, ExchangeDelete(x, f) PROVE IInv'
  <2>1. {x} \cup BindingsOf(x) \in SUBSET Thing
    BY DEF Thing, BindingsOf
  <2>2. /\ Meddle /\ Remove({x} \cup BindingsOf(x))
        /\ UNCHANGED <<queueType, messages>>
    BY <1>3 DEF ExchangeDelete
  <2>3. /\ topology' \in SUBSET Thing /\ gone' \in [Builder -> SUBSET Thing]
        /\ \A c \in Builder :
              gone[c] \subseteq gone'[c] /\ {x} \cup BindingsOf(x) \subseteq gone'[c]
        /\ \A y \in topology : y \in topology' \/ y \in {x} \cup BindingsOf(x)
    BY <1>r, <2>1, <2>2
  <2>4. \A y \in Thing : Exists(y) => Exists(y)' \/ \A c \in Builder : y \in gone'[c]
    BY <2>2, <2>3 DEF Exists
  <2> QED BY <1>t, <2>2, <2>3, <2>4, MeddleIInv DEF TypeOK
<1>4. ASSUME NEW q \in Queue, NEW f \in BOOLEAN, QueueDelete(q, f) PROVE IInv'
  <2>1. {q} \cup BindingsOf(q) \in SUBSET Thing
    BY DEF Thing, BindingsOf
  <2>2. /\ Meddle /\ Remove({q} \cup BindingsOf(q))
        /\ messages' = messages \ {q}
        /\ queueType' = [queueType EXCEPT ![q] = "classic"]
    BY <1>4 DEF QueueDelete
  <2>3. /\ topology' \in SUBSET Thing /\ gone' \in [Builder -> SUBSET Thing]
        /\ \A c \in Builder :
              gone[c] \subseteq gone'[c] /\ {q} \cup BindingsOf(q) \subseteq gone'[c]
        /\ \A y \in topology : y \in topology' \/ y \in {q} \cup BindingsOf(q)
    BY <1>r, <2>1, <2>2
  <2>4. \A y \in Thing : Exists(y) => Exists(y)' \/ \A c \in Builder : y \in gone'[c]
    BY <1>t, <2>2, <2>3 DEF Exists, TypeOK
  <2>5. /\ queueType' \in [Queue -> {"classic", "quorum"}]
        /\ messages' \in SUBSET Queue
    BY <1>t, <2>2 DEF TypeOK
  <2> QED BY <2>2, <2>3, <2>4, <2>5, MeddleIInv
<1>5. ASSUME NEW bd \in Binding, Meddle, Remove({bd}), UNCHANGED <<queueType, messages>>
      PROVE  IInv'
  <2>1. {bd} \in SUBSET Thing
    BY DEF Thing
  <2>2. /\ topology' \in SUBSET Thing /\ gone' \in [Builder -> SUBSET Thing]
        /\ \A c \in Builder : gone[c] \subseteq gone'[c] /\ {bd} \subseteq gone'[c]
        /\ \A y \in topology : y \in topology' \/ y \in {bd}
    BY <1>5, <1>r, <2>1
  <2>3. \A y \in Thing : Exists(y) => Exists(y)' \/ \A c \in Builder : y \in gone'[c]
    BY <1>5, <2>2 DEF Exists
  <2> QED BY <1>5, <1>t, <2>2, <2>3, MeddleIInv DEF TypeOK
<1>6. ASSUME NEW x \in Exchange, NEW y \in Exchange, ExchangeUnbind(x, y) PROVE IInv'
  <2>1. <<y, x>> \in Binding
    BY DEF Binding
  <2> QED BY <1>5, <1>6, <2>1 DEF ExchangeUnbind
<1>7. ASSUME NEW q \in Queue, NEW x \in Exchange, UnbindQueue(q, x) PROVE IInv'
  <2>1. <<x, q>> \in Binding
    BY DEF Binding
  <2> QED BY <1>5, <1>7, <2>1 DEF UnbindQueue
<1>8. ASSUME NEW q \in Queue, PurgeQueue(q) PROVE IInv'
  <2>1. /\ others < MaxOthers /\ others' = others + 1 /\ messages' = messages \ {q}
        /\ UNCHANGED <<topology, queueType, status, strict, at, gone, disturbed, faults>>
    BY <1>8 DEF PurgeQueue, builders
  <2>2. TypeOK'
    BY <1>t, <2>1, Bounds DEF TypeOK
  <2>3. (BuiltSoFar /\ OnlyDisturbedBuildsFail /\ FieldClear)'
    BY <2>1 DEF IInv, BuiltSoFar, Exists, OnlyDisturbedBuildsFail, FieldClear, Obstructed
  <2> QED BY <2>2, <2>3 DEF IInv
<1> QED BY <1>1, <1>2, <1>3, <1>4, <1>6, <1>7, <1>8 DEF Others

-----------------------------------------------------------------------------
LEMMA NextIInv == IInv /\ [Next]_vars => IInv'
<1> SUFFICES ASSUME IInv, [Next]_vars PROVE IInv'
  OBVIOUS
<1>1. ASSUME NEW b \in Builder, Build(b) \/ lost(b) PROVE IInv'
  BY <1>1, BuildIInv, AnsweredIInv, RefusedIInv, LostIInv DEF Build
<1>2. ASSUME Others PROVE IInv'
  BY <1>2, OthersIInv
<1>3. ASSUME UNCHANGED vars PROVE IInv'
  BY <1>3 DEF vars, broker, builders, IInv, TypeOK, BuiltSoFar, Exists,
           OnlyDisturbedBuildsFail, FieldClear, Obstructed
<1> QED BY <1>1, <1>2, <1>3 DEF Next

(* BuildTopology, whatever its config, the broker and others do.           *)
THEOREM TopologyInvariant == Spec => []IInv
<1> QED BY InitIInv, NextIInv, PTL DEF Spec

(* A strict build leaves nothing undone behind it (topologer.go:30).       *)
THEOREM NothingSkipped == Spec => []BuiltSoFar
<1>1. IInv => BuiltSoFar
  BY DEF IInv
<1> QED BY <1>1, TopologyInvariant, PTL

(* Only a lost connection, others, or a conflict with what there was from  *)
(* the start make a build fail; other builds of the same config do not.    *)
THEOREM BuildsDoNotCollide == Spec => []OnlyDisturbedBuildsFail
<1>1. IInv => OnlyDisturbedBuildsFail
  BY DEF IInv
<1> QED BY <1>1, TopologyInvariant, PTL
=============================================================================
