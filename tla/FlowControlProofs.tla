--------------------------- MODULE FlowControlProofs ---------------------------
(***************************************************************************)
(* Proof of Safety of FlowControl, for any number of goroutines, any       *)
(* capacity of Blockers and any number of alarms.                          *)
(***************************************************************************)
EXTENDS FlowControl, TLAPS

(* Whoever is in PauseOnFlowControl has connLock, and nobody else has it.  *)
HolderPauses == \A t \in Thread : Paused(t) <=> connLock = t

IInv == TypeOK /\ HolderPauses

(* Before the first call nobody has the lock.                              *)
LEMMA InitIInv == Init => IInv
<1> SUFFICES ASSUME Init PROVE IInv
  OBVIOUS
<1>1. <<>> \in Seq(BOOLEAN) /\ Len(<<>>) = 0
  OBVIOUS
<1>2. TypeOK
  <2>1. Len(Blockers) <= BlockersCap
    BY <1>1, FlowAssumption DEF Init
  <2>2. wire \in Seq(BOOLEAN) /\ Blockers \in Seq(BOOLEAN)
    BY <1>1 DEF Init
  <2>3. blocked \in BOOLEAN /\ closed \in BOOLEAN
    BY DEF Init
  <2>4. connLock \in Thread \cup {None} /\ alarms \in 0 .. MaxAlarms
    <3>1. connLock = None /\ alarms = 0
      BY DEF Init
    <3> QED BY <3>1, FlowAssumption
  <2>5. pc \in [Thread -> {"idle", "lock", "closed?", "select"}]
    <3>1. pc = [t \in Thread |-> "idle"]
      BY DEF Init
    <3> QED BY <3>1
  <2> QED BY <2>1, <2>2, <2>3, <2>4, <2>5 DEF TypeOK
<1>3. HolderPauses
  BY FlowAssumption DEF Init, HolderPauses, Paused
<1> QED BY <1>2, <1>3 DEF IInv

(* The broker and the reader of the library change no goroutine, and the   *)
(* reader adds to Blockers only what it has room for.                      *)
LEMMA LibraryIInv ==
    ASSUME IInv, brokerNotifies \/ readerNotifies \/ loseConnection
    PROVE  IInv'
<1> USE FlowAssumption DEF IInv, TypeOK, HolderPauses, Paused
<1>1. CASE brokerNotifies
  BY <1>1 DEF brokerNotifies
<1>2. CASE readerNotifies
  <2>1. Head(wire) \in BOOLEAN /\ Tail(wire) \in Seq(BOOLEAN)
    BY <1>2 DEF readerNotifies
  <2>2. /\ Blockers' \in Seq(BOOLEAN)
        /\ Len(Blockers') = Len(Blockers) + 1
    BY <1>2, <2>1 DEF readerNotifies
  <2>3. Len(Blockers') <= BlockersCap
    BY <1>2, <2>2 DEF readerNotifies
  <2>4. TypeOK'
    BY <1>2, <2>1, <2>2, <2>3 DEF readerNotifies
  <2>5. HolderPauses'
    BY <1>2 DEF readerNotifies
  <2> QED BY <2>4, <2>5
<1>3. CASE loseConnection
  <2>1. wire' \in Seq(BOOLEAN)
    BY <1>3 DEF loseConnection
  <2>2. closed' \in BOOLEAN /\ blocked' \in BOOLEAN
    BY <1>3 DEF loseConnection
  <2>3. UNCHANGED <<Blockers, connLock, pc, alarms>>
    BY <1>3 DEF loseConnection
  <2> QED BY <2>1, <2>2, <2>3
<1> QED BY <1>1, <1>2, <1>3

(* A goroutine takes the lock only when it is free.                        *)
LEMMA EnterIInv ==
    ASSUME IInv, NEW t \in Thread, call(t) \/ lock(t)
    PROVE  IInv'
<1> USE FlowAssumption DEF IInv, TypeOK, HolderPauses, Paused
<1>1. CASE call(t)
  BY <1>1 DEF call
<1>2. CASE lock(t)
  BY <1>2 DEF lock
<1> QED BY <1>1, <1>2

(* The one that has it keeps it around the loop and gives it back on every *)
(* way out; Blockers only becomes shorter.                                 *)
LEMMA PauseIInv ==
    ASSUME IInv, NEW t \in Thread, Pause(t)
    PROVE  IInv'
<1> USE FlowAssumption DEF IInv, TypeOK, HolderPauses, Paused
<1>1. Blockers # <<>> =>
         Tail(Blockers) \in Seq(BOOLEAN) /\ Len(Tail(Blockers)) <= BlockersCap
  OBVIOUS
<1>2. CASE checkClosed(t)
  BY <1>2 DEF checkClosed, return
<1>3. CASE sleep(t)
  BY <1>1, <1>3 DEF sleep
<1>4. CASE unblocked(t)
  BY <1>1, <1>4 DEF unblocked, return
<1>5. CASE nothing(t)
  BY <1>5 DEF nothing, return
<1> QED BY <1>2, <1>3, <1>4, <1>5 DEF Pause

(* One goroutine at a time reads Blockers, which never holds more than it  *)
(* has room for: PauseOnFlowControl keeps connLock from its first line to  *)
(* whichever of its returns it takes.                                      *)
THEOREM PausingIsSafe == Spec => []Safety
<1>1. IInv /\ [Next]_vars => IInv'
  <2> SUFFICES ASSUME IInv, [Next]_vars PROVE IInv'
    OBVIOUS
  <2>1. CASE UNCHANGED vars
    BY <2>1 DEF vars, IInv, TypeOK, HolderPauses, Paused
  <2>2. CASE Next
    BY <2>2, LibraryIInv, EnterIInv, PauseIInv DEF Next
  <2> QED BY <2>1, <2>2
<1>2. IInv => Safety
  <2> SUFFICES ASSUME IInv, NEW t \in Thread, NEW u \in Thread, Paused(t), Paused(u)
               PROVE  t = u
    BY DEF IInv, Safety, OnePausing
  <2> QED BY DEF IInv, HolderPauses
<1> QED BY InitIInv, <1>1, <1>2, PTL DEF Spec
=============================================================================
