------------------------ MODULE TransientPublishProofs ------------------------
(***************************************************************************)
(* Proofs about TransientPublish, for any letters, nacks and faults: the   *)
(* inductive invariant IInv, the properties that follow from it, and that  *)
(* every step is a step of ConfirmedPublish or leaves its variables alone. *)
(***************************************************************************)
EXTENDS TransientPublish, TLAPS

(* What `confirms', which holds at most one answer, can be.                *)
LEMMA ShortQueue ==
    ASSUME NEW s \in Seq({"ack", "nack"}), Len(s) <= 1
    PROVE  /\ s # <<>> => Len(s) = 1 /\ Tail(s) = <<>> /\ Head(s) \in {"ack", "nack"}
           /\ s = <<>> <=> Len(s) = 0
           /\ \A a \in {"ack", "nack"} :
                 /\ Append(s, a) \in Seq({"ack", "nack"})
                 /\ Len(Append(s, a)) = Len(s) + 1
                 /\ s = <<>> => Head(Append(s, a)) = a
<1>1. Len(s) \in Nat /\ (s = <<>> <=> Len(s) = 0)
  OBVIOUS
<1>2. s # <<>> => Len(s) = 1 /\ Tail(s) = <<>> /\ Head(s) \in {"ack", "nack"}
  <2> SUFFICES ASSUME s # <<>>
               PROVE  Len(s) = 1 /\ Tail(s) = <<>> /\ Head(s) \in {"ack", "nack"}
    OBVIOUS
  <2>0. Len(s) # 0
    BY <1>1
  <2>1. Len(s) = 1
    <3>1. \A n \in Nat : n <= 1 /\ n # 0 => n = 1
      OBVIOUS
    <3> QED BY <1>1, <2>0, <3>1, Zenon
  <2>2. Tail(s) \in Seq({"ack", "nack"}) /\ Len(Tail(s)) = 0
    BY <2>1
  <2>3. Head(s) \in {"ack", "nack"}
    BY <2>1
  <2>4. Tail(s) = <<>>
    BY <2>2
  <2> QED BY <2>1, <2>3, <2>4
<1>3. ASSUME NEW a \in {"ack", "nack"}
      PROVE  /\ Append(s, a) \in Seq({"ack", "nack"})
             /\ Len(Append(s, a)) = Len(s) + 1
             /\ s = <<>> => Head(Append(s, a)) = a
  OBVIOUS
<1> QED BY <1>1, <1>2, <1>3

(* Each action keeps to the types, and to OneAnswer of the letter it is    *)
(* about; nothing else happens to another letter, but that the broker may  *)
(* take more letters.                                                      *)
LEMMA OtherLetters ==
    ASSUME NEW k \in Letter, OneAnswer(k), accepted \subseteq accepted',
           pc'[k] = pc[k], up'[k] = up[k], inflight'[k] = inflight[k],
           confirms'[k] = confirms[k], report'[k] = report[k]
    PROVE  OneAnswer(k)'
BY DEF OneAnswer

(* IInv is inductive.                                                      *)
LEMMA InitIInv == Init => IInv
BY DEF Init, IInv, TypeOK, PCs, NoFalseSuccess, OneAnswer

LEMMA NextIInv == IInv /\ [Next]_vars => IInv'
<1> SUFFICES ASSUME IInv, [Next]_vars PROVE IInv'
  OBVIOUS
<1>t. TypeOK /\ NoFalseSuccess /\ \A k \in Letter : OneAnswer(k)
  BY DEF IInv
<1>q. ASSUME NEW k \in Letter
      PROVE  /\ confirms[k] \in Seq({"ack", "nack"}) /\ Len(confirms[k]) <= 1
             /\ Len(confirms[k]) \in Nat /\ inflight[k] \in Nat
  BY <1>t DEF TypeOK, OneAnswer
<1>1. ASSUME NEW l \in Letter, PublishWithConfirmationTransient(l) PROVE IInv'
  <2>1. TypeOK'
    BY <1>1, <1>t DEF PublishWithConfirmationTransient, Goto, TypeOK, PCs
  <2>2. NoFalseSuccess'
    BY <1>1, <1>t DEF PublishWithConfirmationTransient, Goto, NoFalseSuccess, OneAnswer, TypeOK
  <2>3. OneAnswer(l)'
    BY <1>1, <1>t DEF PublishWithConfirmationTransient, Goto, OneAnswer, TypeOK, PCs
  <2>4. ASSUME NEW k \in Letter, k # l PROVE OneAnswer(k)'
    BY <1>1, <1>t, <2>4, OtherLetters DEF PublishWithConfirmationTransient, Goto, TypeOK
  <2> QED BY <2>1, <2>2, <2>3, <2>4 DEF IInv
<1>2. ASSUME NEW l \in Letter, openChannel(l) PROVE IInv'
  <2>1. TypeOK'
    BY <1>2, <1>t, ShortQueue, <1>q DEF openChannel, Goto, TypeOK, PCs
  <2>2. NoFalseSuccess'
    BY <1>2, <1>t DEF openChannel, Goto, NoFalseSuccess, OneAnswer, TypeOK
  <2>3. OneAnswer(l)'
    BY <1>2, <1>t, ShortQueue, <1>q DEF openChannel, Goto, OneAnswer, TypeOK, PCs
  <2>4. ASSUME NEW k \in Letter, k # l PROVE OneAnswer(k)'
    BY <1>2, <1>t, <2>4, OtherLetters DEF openChannel, Goto, TypeOK
  <2> QED BY <2>1, <2>2, <2>3, <2>4 DEF IInv
<1>3. ASSUME NEW l \in Letter, publish(l) PROVE IInv'
  <2>1. TypeOK'
    BY <1>3, <1>t DEF publish, Goto, TypeOK, PCs
  <2>2. NoFalseSuccess'
    BY <1>3, <1>t DEF publish, Goto, NoFalseSuccess, OneAnswer, TypeOK
  <2>3. OneAnswer(l)'
    <3>1. /\ inflight[l] = 0 /\ confirms[l] = <<>> /\ Len(confirms[l]) = 0
          /\ report[l] = "none"
      BY <1>3, <1>t, <1>q, ShortQueue DEF publish, OneAnswer
    <3>2. /\ inflight'[l] = 1 /\ pc'[l] = "wait"
          /\ confirms' = confirms /\ report' = report
      BY <1>3, <1>t, <3>1 DEF publish, Goto, TypeOK
    <3> QED BY <3>1, <3>2 DEF OneAnswer
  <2>4. ASSUME NEW k \in Letter, k # l PROVE OneAnswer(k)'
    BY <1>3, <1>t, <2>4, OtherLetters DEF publish, Goto, TypeOK
  <2> QED BY <2>1, <2>2, <2>3, <2>4 DEF IInv
<1>4. ASSUME NEW l \in Letter, publishFails(l) PROVE IInv'
  <2>1. TypeOK'
    BY <1>4, <1>t DEF publishFails, Goto, TypeOK, PCs
  <2>2. NoFalseSuccess'
    BY <1>4, <1>t DEF publishFails, Goto, NoFalseSuccess, OneAnswer, TypeOK
  <2>3. OneAnswer(l)'
    BY <1>4, <1>t DEF publishFails, Goto, OneAnswer, TypeOK, PCs
  <2>4. ASSUME NEW k \in Letter, k # l PROVE OneAnswer(k)'
    BY <1>4, <1>t, <2>4, OtherLetters DEF publishFails, Goto, TypeOK
  <2> QED BY <2>1, <2>2, <2>3, <2>4 DEF IInv
<1>5. ASSUME NEW l \in Letter, timeOut(l) PROVE IInv'
  <2>1. TypeOK'
    BY <1>5, <1>t DEF timeOut, finish, Goto, TypeOK, PCs
  <2>2. NoFalseSuccess'
    BY <1>5, <1>t DEF timeOut, finish, Goto, NoFalseSuccess, OneAnswer, TypeOK
  <2>3. OneAnswer(l)'
    BY <1>5, <1>t DEF timeOut, finish, Goto, OneAnswer, TypeOK, PCs
  <2>4. ASSUME NEW k \in Letter, k # l PROVE OneAnswer(k)'
    BY <1>5, <1>t, <2>4, OtherLetters DEF timeOut, finish, Goto, TypeOK
  <2> QED BY <2>1, <2>2, <2>3, <2>4 DEF IInv
<1>6. ASSUME NEW l \in Letter, receiveAck(l) PROVE IInv'
  <2>1. TypeOK'
    BY <1>6, <1>t, ShortQueue, <1>q DEF receiveAck, finish, Goto, TypeOK, PCs
  <2>2. NoFalseSuccess'
    BY <1>6, <1>t DEF receiveAck, finish, Goto, NoFalseSuccess, OneAnswer, TypeOK
  <2>3. OneAnswer(l)'
    BY <1>6, <1>t, ShortQueue, <1>q DEF receiveAck, finish, Goto, OneAnswer, TypeOK, PCs
  <2>4. ASSUME NEW k \in Letter, k # l PROVE OneAnswer(k)'
    BY <1>6, <1>t, <2>4, OtherLetters DEF receiveAck, finish, Goto, TypeOK
  <2> QED BY <2>1, <2>2, <2>3, <2>4 DEF IInv
<1>7. ASSUME NEW l \in Letter, receiveNack(l) PROVE IInv'
  <2>1. TypeOK'
    BY <1>7, <1>t, ShortQueue, <1>q DEF receiveNack, Goto, TypeOK, PCs
  <2>2. NoFalseSuccess'
    BY <1>7, <1>t DEF receiveNack, Goto, NoFalseSuccess, OneAnswer, TypeOK
  <2>3. OneAnswer(l)'
    BY <1>7, <1>t, ShortQueue, <1>q DEF receiveNack, Goto, OneAnswer, TypeOK, PCs
  <2>4. ASSUME NEW k \in Letter, k # l PROVE OneAnswer(k)'
    BY <1>7, <1>t, <2>4, OtherLetters DEF receiveNack, Goto, TypeOK
  <2> QED BY <2>1, <2>2, <2>3, <2>4 DEF IInv
<1>8. ASSUME NEW l \in Letter, receiveClosed(l) PROVE IInv'
  <2>1. TypeOK'
    BY <1>8, <1>t DEF receiveClosed, Goto, TypeOK, PCs
  <2>2. NoFalseSuccess'
    BY <1>8, <1>t DEF receiveClosed, Goto, NoFalseSuccess, OneAnswer, TypeOK
  <2>3. OneAnswer(l)'
    BY <1>8, <1>t DEF receiveClosed, Goto, OneAnswer, TypeOK, PCs
  <2>4. ASSUME NEW k \in Letter, k # l PROVE OneAnswer(k)'
    BY <1>8, <1>t, <2>4, OtherLetters DEF receiveClosed, Goto, TypeOK
  <2> QED BY <2>1, <2>2, <2>3, <2>4 DEF IInv
<1>9. ASSUME NEW l \in Letter, brokerAcks(l) PROVE IInv'
  <2>1. TypeOK'
    BY <1>9, <1>t, ShortQueue, <1>q DEF brokerAcks, Room, TypeOK, PCs
  <2>2. NoFalseSuccess'
    BY <1>9, <1>t DEF brokerAcks, Room, NoFalseSuccess, OneAnswer, TypeOK
  <2>3. OneAnswer(l)'
    BY <1>9, <1>t, ShortQueue, <1>q DEF brokerAcks, Room, OneAnswer, TypeOK, PCs
  <2>4. ASSUME NEW k \in Letter, k # l PROVE OneAnswer(k)'
    BY <1>9, <1>t, <2>4, OtherLetters DEF brokerAcks, Room, TypeOK
  <2> QED BY <2>1, <2>2, <2>3, <2>4 DEF IInv
<1>10. ASSUME NEW l \in Letter, brokerNacks(l) PROVE IInv'
  <2>1. TypeOK'
    <3>1. inflight' \in [Letter -> Nat]
      BY <1>10, <1>t DEF brokerNacks, TypeOK
    <3>2. Append(confirms[l], "nack") \in Seq({"ack", "nack"})
      BY <1>t DEF TypeOK
    <3>3. confirms' \in [Letter -> Seq({"ack", "nack"})]
      BY <1>10, <1>t, <3>2 DEF brokerNacks, TypeOK
    <3> QED BY <1>10, <1>t, <3>1, <3>3 DEF brokerNacks, TypeOK
  <2>2. NoFalseSuccess'
    BY <1>10, <1>t DEF brokerNacks, Room, NoFalseSuccess, OneAnswer, TypeOK
  <2>3. OneAnswer(l)'
    BY <1>10, <1>t, ShortQueue, <1>q DEF brokerNacks, Room, OneAnswer, TypeOK, PCs
  <2>4. ASSUME NEW k \in Letter, k # l PROVE OneAnswer(k)'
    BY <1>10, <1>t, <2>4, OtherLetters DEF brokerNacks, Room, TypeOK
  <2> QED BY <2>1, <2>2, <2>3, <2>4 DEF IInv
<1>11. ASSUME NEW l \in Letter, loseChannel(l) PROVE IInv'
  <2>1. TypeOK'
    BY <1>11, <1>t DEF loseChannel, TypeOK, PCs
  <2>2. NoFalseSuccess'
    BY <1>11, <1>t DEF loseChannel, NoFalseSuccess, OneAnswer, TypeOK
  <2>3. OneAnswer(l)'
    BY <1>11, <1>t DEF loseChannel, OneAnswer, TypeOK, PCs
  <2>4. ASSUME NEW k \in Letter, k # l PROVE OneAnswer(k)'
    BY <1>11, <1>t, <2>4, OtherLetters DEF loseChannel, TypeOK
  <2> QED BY <2>1, <2>2, <2>3, <2>4 DEF IInv
<1>12. CASE UNCHANGED vars
  BY <1>12, <1>t DEF vars, IInv, TypeOK, NoFalseSuccess, OneAnswer
<1> QED BY <1>1, <1>2, <1>3, <1>4, <1>5, <1>6, <1>7, <1>8, <1>9, <1>10, <1>11, <1>12
        DEF Next, Call

(* The invariant holds for any letters, however often they are refused or  *)
(* their channels are lost.                                                *)
THEOREM TransientInvariant == Spec => []IInv
BY InitIInv, NextIInv, PTL DEF Spec

(* Every variable keeps to its type, and the counters to their bounds.     *)
THEOREM TypeCorrect == Spec => []TypeOK
<1>1. IInv => TypeOK
  BY DEF IInv
<1> QED BY <1>1, TransientInvariant, PTL

(* A call that reports success does so of a letter the broker has taken,   *)
(* whatever was nacked, lost or timed out before.                          *)
THEOREM SuccessIsTrue == Spec => []NoFalseSuccess
<1>1. IInv => NoFalseSuccess
  BY DEF IInv
<1> QED BY <1>1, TransientInvariant, PTL

(* The library always finds room in `confirms'.                            *)
THEOREM ReaderGoesOn == Spec => []ReaderNeverBlocks
<1>1. IInv => ReaderNeverBlocks
  <2> SUFFICES ASSUME IInv, NEW l \in Letter, up[l], inflight[l] > 0
               PROVE  Room(l) /\ inflight[l] = 1
    BY DEF ReaderNeverBlocks
  <2>1. /\ inflight[l] \in Nat /\ Len(confirms[l]) \in Nat
        /\ inflight[l] + Len(confirms[l]) <= 1
    BY DEF IInv, TypeOK, OneAnswer
  <2> QED BY <2>1 DEF Room
<1> QED BY <1>1, TransientInvariant, PTL

-----------------------------------------------------------------------------
(* What a step does to the variables of ConfirmedPublish.                  *)
LEMMA StepRefines ==
    ASSUME IInv, [Next]_vars
    PROVE  [Promise!Next]_(Promise!vars)
<1> USE DEF Promise!vars
<1>1. ASSUME NEW l \in Letter, timeOut(l) PROVE Promise!TimeOut(l)
  BY <1>1 DEF timeOut, finish, IInv, OneAnswer, TypeOK, Promise!TimeOut
<1>2. ASSUME NEW l \in Letter, receiveAck(l) PROVE Promise!Succeed(l)
  BY <1>2 DEF receiveAck, finish, IInv, OneAnswer, TypeOK, Promise!Succeed
<1>3. ASSUME NEW l \in Letter, brokerAcks(l) PROVE Promise!Accept(l)
  BY <1>3 DEF brokerAcks, Promise!Accept
<1>4. ASSUME NEW l \in Letter,
             \/ PublishWithConfirmationTransient(l) \/ openChannel(l) \/ publish(l)
             \/ publishFails(l) \/ receiveNack(l) \/ receiveClosed(l)
             \/ brokerNacks(l) \/ loseChannel(l)
      PROVE  UNCHANGED <<report, accepted>>
  BY <1>4 DEF PublishWithConfirmationTransient, openChannel, publish, publishFails,
              receiveNack, receiveClosed, brokerNacks, loseChannel
<1>5. CASE UNCHANGED vars
  BY <1>5 DEF vars
<1> QED BY <1>1, <1>2, <1>3, <1>4, <1>5 DEF Next, Call, Promise!Next

(* PublishWithConfirmationTransient implements the promise of a confirmed  *)
(* publish.                                                                *)
THEOREM Refinement == Spec => PromiseSpec
<1>1. Init => Promise!Init
  BY DEF Init, Promise!Init
<1>2. IInv /\ [Next]_vars => [Promise!Next]_(Promise!vars)
  BY StepRefines
<1> QED BY <1>1, <1>2, TransientInvariant, PTL DEF Spec, PromiseSpec, Promise!Spec
=============================================================================
