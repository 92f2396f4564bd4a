--------------------------- MODULE TransientPublish ---------------------------
(***************************************************************************)
(* Publisher.PublishWithConfirmationTransient (v2/pkg/tcr/publisher.go):   *)
(* each call opens an ackable channel of its own, and a new one after any  *)
(* error.  One goroutine publishes one Letter; the broker end of its       *)
(* channel, and the loss of it, are actions of their own.                  *)
(***************************************************************************)
EXTENDS Naturals, Sequences

CONSTANT Letter

VARIABLES
    pc,         \* per letter: where its goroutine is
    up,         \* per letter: its current channel is open
    inflight,   \* per letter: publications on that channel not yet answered
    confirms,   \* per letter: the channel `confirms', capacity 1
    report,     \* per letter: the receipt
    accepted    \* letters the broker has taken

vars == <<pc, up, inflight, confirms, report, accepted>>

PCs == {"idle", "open", "publish", "wait", "done"}

Goto(l, p) == pc' = [pc EXCEPT ![l] = p]

Init ==
    /\ pc = [l \in Letter |-> "idle"]
    /\ up = [l \in Letter |-> FALSE]
    /\ inflight = [l \in Letter |-> 0]
    /\ confirms = [l \in Letter |-> <<>>]
    /\ report = [l \in Letter |-> "none"]
    /\ accepted = {}

-----------------------------------------------------------------------------
PublishWithConfirmationTransient(l) ==
    /\ pc[l] = "idle"
    /\ Goto(l, "open")
    /\ UNCHANGED <<up, inflight, confirms, report, accepted>>

(* GetTransientChannel(true), which returns only with an open channel, and *)
(* NotifyPublish of a new `confirms'.                                      *)
openChannel(l) ==
    /\ pc[l] = "open"
    /\ up' = [up EXCEPT ![l] = TRUE]
    /\ inflight' = [inflight EXCEPT ![l] = 0]
    /\ confirms' = [confirms EXCEPT ![l] = <<>>]
    /\ Goto(l, "publish")
    /\ UNCHANGED <<report, accepted>>

(* channel.Publish, which starts the timer anew.                           *)
publish(l) ==
    /\ pc[l] = "publish" /\ up[l]
    /\ inflight' = [inflight EXCEPT ![l] = @ + 1]
    /\ Goto(l, "wait")
    /\ UNCHANGED <<up, confirms, report, accepted>>

(* Publish on a channel that is gone: close it, and from the top.          *)
publishFails(l) ==
    /\ pc[l] = "publish" /\ ~up[l]
    /\ Goto(l, "open")
    /\ UNCHANGED <<up, inflight, confirms, report, accepted>>

(* The receipt, channel.Close() and return.                                *)
finish(l, outcome) ==
    /\ report' = [report EXCEPT ![l] = outcome]
    /\ up' = [up EXCEPT ![l] = FALSE]
    /\ Goto(l, "done")

(* A slip: a timeout publishes again, on the same channel.                 *)
timeOutRepublishes(l) ==
    /\ pc[l] = "wait"
    /\ Goto(l, "publish")
    /\ UNCHANGED <<up, inflight, confirms, report, accepted>>

(* A slip: the receipt is sent, and the wait goes on.                      *)
timeOutGoesOn(l) ==
    /\ pc[l] = "wait"
    /\ report' = [report EXCEPT ![l] = "failure"]
    /\ UNCHANGED <<pc, up, inflight, confirms, accepted>>

(* A slip: the timer is made anew in each turn of the wait.                *)
timerNeverFires(l) == finish(l, "failure") /\ FALSE

timeOut(l) ==
    /\ pc[l] = "wait"
    /\ finish(l, "failure")
    /\ UNCHANGED <<inflight, confirms, accepted>>

receiveAck(l) ==
    /\ pc[l] = "wait"
    /\ confirms[l] # <<>> /\ Head(confirms[l]) = "ack"
    /\ confirms' = [confirms EXCEPT ![l] = Tail(@)]
    /\ finish(l, "success")
    /\ UNCHANGED <<inflight, accepted>>

(* goto Publish.                                                           *)
receiveNack(l) ==
    /\ pc[l] = "wait"
    /\ confirms[l] # <<>> /\ Head(confirms[l]) = "nack"
    /\ confirms' = [confirms EXCEPT ![l] = Tail(@)]
    /\ Goto(l, "publish")
    /\ UNCHANGED <<up, inflight, report, accepted>>

(* A slip: whatever is received is taken for an ack.                       *)
receiveAnything(l) ==
    /\ pc[l] = "wait"
    /\ confirms[l] = <<>> /\ ~up[l]
    /\ finish(l, "success")
    /\ UNCHANGED <<inflight, confirms, accepted>>

(* The amqp library closes `confirms' with the channel: the receive yields *)
(* the zero Confirmation, whose Ack is false.                              *)
receiveClosed(l) ==
    /\ pc[l] = "wait"
    /\ confirms[l] = <<>> /\ ~up[l]
    /\ Goto(l, "publish")
    /\ UNCHANGED <<up, inflight, confirms, report, accepted>>

-----------------------------------------------------------------------------
(* The broker and the amqp library, which hands a confirmation to the      *)
(* listener or waits for room in it.  A publication may be taken also      *)
(* after its publisher has gone.  Nothing bounds how often the broker      *)
(* refuses a letter, or its channels are lost.                             *)

Room(l) == Len(confirms[l]) < 1

brokerAcks(l) ==
    /\ inflight[l] > 0
    /\ up[l] => Room(l)
    /\ inflight' = [inflight EXCEPT ![l] = @ - 1]
    /\ accepted' = accepted \cup {l}
    /\ confirms' = IF up[l] THEN [confirms EXCEPT ![l] = Append(@, "ack")]
                            ELSE confirms
    /\ UNCHANGED <<pc, up, report>>

brokerNacks(l) ==
    /\ inflight[l] > 0 /\ up[l] /\ Room(l)
    /\ inflight' = [inflight EXCEPT ![l] = @ - 1]
    /\ confirms' = [confirms EXCEPT ![l] = Append(@, "nack")]
    /\ UNCHANGED <<pc, up, report, accepted>>

loseChannel(l) ==
    /\ up[l]
    /\ up' = [up EXCEPT ![l] = FALSE]
    /\ UNCHANGED <<pc, inflight, confirms, report, accepted>>

-----------------------------------------------------------------------------
Call(l) ==
    \/ openChannel(l) \/ publish(l) \/ publishFails(l) \/ timeOut(l)
    \/ receiveAck(l) \/ receiveNack(l) \/ receiveClosed(l)

Next == \E l \in Letter :
    \/ PublishWithConfirmationTransient(l) \/ Call(l)
    \/ brokerAcks(l) \/ brokerNacks(l) \/ loseChannel(l)

Spec == Init /\ [][Next]_vars

(* A goroutine runs when it can: its timer fires if nothing else happens.  *)
FairSpec == Spec /\ \A l \in Letter : WF_vars(Call(l))

-----------------------------------------------------------------------------
TypeOK ==
    /\ pc \in [Letter -> PCs]
    /\ up \in [Letter -> BOOLEAN]
    /\ inflight \in [Letter -> Nat]
    /\ confirms \in [Letter -> Seq({"ack", "nack"})]
    /\ report \in [Letter -> {"none", "success", "failure"}]
    /\ accepted \in SUBSET Letter

(* The comment "Wait for very next confirmation on this channel, which     *)
(* should be our confirmation": a success receipt is only given for a      *)
(* letter that the broker has taken.                                       *)
NoFalseSuccess ==
    \A l \in Letter : report[l] = "success" => l \in accepted

(* `confirms' has room for one: the amqp library never has to wait to hand *)
(* over a confirmation, because a letter is published again only after the *)
(* answer to its last publication.                                         *)
ReaderNeverBlocks ==
    \A l \in Letter : up[l] /\ inflight[l] > 0 => Room(l) /\ inflight[l] = 1

(* Each publication starts the timer anew (publisher.go:448), so that the  *)
(* wait for a broker that goes on refusing the letter, or a network that   *)
(* goes on losing its channels, has no end, whatever publisher.go:435      *)
(* says.  Nothing else keeps a call from its receipt, least of all a       *)
(* broker that says nothing.                                               *)
EveryCallReports ==
    \A l \in Letter :
        \/ []<><<brokerNacks(l) \/ loseChannel(l)>>_vars
        \/ pc[l] = "open" ~> report[l] # "none"

Promise == INSTANCE ConfirmedPublish
             WITH Letter <- Letter, report <- report, accepted <- accepted
PromiseSpec == Promise!Spec

-----------------------------------------------------------------------------
(* What makes these inductive: a channel carries one publication at a      *)
(* time, answered or not, and none when its goroutine publishes; an ack in *)
(* `confirms' is of a letter that was taken; a call is done once reported. *)
OneAnswer(l) ==
    /\ inflight[l] + Len(confirms[l]) <= 1
    /\ pc[l] = "publish" /\ up[l] => inflight[l] = 0 /\ confirms[l] = <<>>
    /\ up[l] => pc[l] \in {"publish", "wait"}
    /\ confirms[l] # <<>> /\ Head(confirms[l]) = "ack" => l \in accepted
    /\ pc[l] = "done" <=> report[l] # "none"

IInv == TypeOK /\ NoFalseSuccess /\ \A l \in Letter : OneAnswer(l)
=============================================================================
