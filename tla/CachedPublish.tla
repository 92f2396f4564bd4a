----------------------------- MODULE CachedPublish -----------------------------
(***************************************************************************)
(* Publishing on the cached ackable channels that all publishers share:    *)
(* Publisher.Publish and PublishWithConfirmation (v2/pkg/tcr/publisher.go) *)
(* over GetChannelFromPool, FlushConfirms and ReturnChannel.  One          *)
(* goroutine publishes one Letter: those in Plain with Publish, the others *)
(* with PublishWithConfirmation.                                           *)
(* PublishWithError is Publish that also returns the error; the variants   *)
(* of PublishWithConfirmation have its control, they return an error in    *)
(* place of a receipt or wait for a context in place of the timer.         *)
(*                                                                         *)
(* A Confirmation carries a delivery tag and Ack; the code reads Ack only. *)
(* The model keeps the letter a confirmation is about, so that properties  *)
(* can tell, and no action of the publisher looks at it.                   *)
(***************************************************************************)
EXTENDS Naturals, Sequences, FiniteSets

CONSTANTS
    Letter,
    Plain,          \* the letters sent with Publish
    MaxCacheChannelCount,   \* PoolConfig.MaxCacheChannelCount
    None,
    ConfirmCap,     \* capacity of ChannelHost.Confirmations (100)
    MaxTimeouts,    \* bound: calls that time out
    MaxNacks,       \* bound: publications the broker refuses
    MaxFaults       \* bound: channels lost

ASSUME CachedAssumption ==
    /\ IsFiniteSet(Letter) /\ Plain \subseteq Letter /\ None \notin Nat
    /\ MaxCacheChannelCount \in Nat \ {0}
    /\ ConfirmCap \in Nat \ {0}
    /\ MaxTimeouts \in Nat /\ MaxNacks \in Nat /\ MaxFaults \in Nat

Channel == 0 .. MaxCacheChannelCount - 1    \* ChannelHost IDs

VARIABLES
    cache,      \* the idle cached channels, in the order they are taken
    up,         \* per channel: it is open
    inflight,   \* per channel: letters published and not yet answered
    confirms,   \* per channel: ChannelHost.Confirmations
    pc, chan,   \* per letter: its goroutine, and the channel it has
    report,     \* per letter: the receipt
    accepted,   \* letters the broker has taken
    timeouts, nacks, faults

pool     == <<cache, up>>
amqp     == <<inflight, confirms>>
calls    == <<pc, chan, report>>
counters == <<timeouts, nacks, faults>>
vars     == <<pool, amqp, calls, accepted, counters>>

Confirmation == [letter : Letter, ack : BOOLEAN]
PCs == {"idle", "get", "publish", "wait", "return", "reconnect", "done"}
Reports == {"none", "success", "failure"}

Goto(l, p) == pc' = [pc EXCEPT ![l] = p]
Report(l, r) == report' = [report EXCEPT ![l] = r]

Init ==
    /\ cache = [i \in 1 .. MaxCacheChannelCount |-> i - 1]
    /\ up = [c \in Channel |-> TRUE]
    /\ inflight = [c \in Channel |-> <<>>]
    /\ confirms = [c \in Channel |-> <<>>]
    /\ pc = [l \in Letter |-> "idle"]
    /\ chan = [l \in Letter |-> None]
    /\ report = [l \in Letter |-> "none"]
    /\ accepted = {}
    /\ timeouts = 0 /\ nacks = 0 /\ faults = 0

-----------------------------------------------------------------------------
start(l) ==
    /\ pc[l] = "idle"
    /\ Goto(l, "get")
    /\ UNCHANGED <<pool, amqp, chan, report, accepted, counters>>

(* FlushConfirms takes at most one confirmation: the return in the first   *)
(* case of its select leaves the others.  Once the connection is closed it *)
(* takes none; with a channel that is lost the connection may be, or not.  *)
FlushConfirms(c) ==
    \/ confirms[c] # <<>> /\ confirms' = [confirms EXCEPT ![c] = Tail(@)]
    \/ (up[c] => confirms[c] = <<>>) /\ UNCHANGED confirms

(* GetChannelFromPool; PublishWithConfirmation goes on to flush.           *)
getChannel(l) ==
    /\ pc[l] = "get" /\ cache # <<>>
    /\ chan' = [chan EXCEPT ![l] = Head(cache)]
    /\ cache' = Tail(cache)
    /\ IF l \in Plain THEN UNCHANGED confirms ELSE FlushConfirms(Head(cache))
    /\ Goto(l, "publish")
    /\ UNCHANGED <<up, inflight, report, accepted, counters>>

(* Channel.Publish succeeds: Publish reports that and gives the channel    *)
(* back, PublishWithConfirmation starts its timer and waits.               *)
publish(l) ==
    /\ pc[l] = "publish" /\ up[chan[l]]
    /\ inflight' = [inflight EXCEPT ![chan[l]] = Append(@, l)]
    /\ IF l \in Plain
       THEN Report(l, "success") /\ Goto(l, "return")
       ELSE UNCHANGED report /\ Goto(l, "wait")
    /\ UNCHANGED <<pool, confirms, chan, accepted, counters>>

(* It fails: ReturnChannel(chanHost, true).                                *)
publishFails(l) ==
    /\ pc[l] = "publish" /\ ~up[chan[l]]
    /\ IF l \in Plain THEN Report(l, "failure") ELSE UNCHANGED report
    /\ Goto(l, "reconnect")
    /\ UNCHANGED <<pool, amqp, chan, accepted, counters>>

(* reconnectChannel makes the channel anew, with new Confirmations, and    *)
(* ReturnChannel puts it back; PublishWithConfirmation takes it from the   *)
(* top, Publish is done.                                                   *)
reconnect(l) ==
    /\ pc[l] = "reconnect"
    /\ up' = [up EXCEPT ![chan[l]] = TRUE]
    /\ inflight' = [inflight EXCEPT ![chan[l]] = <<>>]
    /\ confirms' = [confirms EXCEPT ![chan[l]] = <<>>]
    /\ cache' = Append(cache, chan[l])
    /\ chan' = [chan EXCEPT ![l] = None]
    /\ Goto(l, IF l \in Plain THEN "done" ELSE "get")
    /\ UNCHANGED <<report, accepted, counters>>

-----------------------------------------------------------------------------
(* The select of PublishWithConfirmation.                                  *)

(* A slip: return without ReturnChannel.                                   *)
timeOutKeeping(l) ==
    /\ pc[l] = "wait" /\ timeouts < MaxTimeouts
    /\ timeouts' = timeouts + 1
    /\ Report(l, "failure")
    /\ chan' = [chan EXCEPT ![l] = None]
    /\ Goto(l, "done")
    /\ UNCHANGED <<pool, amqp, accepted, nacks, faults>>

timeOut(l) ==
    /\ pc[l] = "wait" /\ timeouts < MaxTimeouts
    /\ timeouts' = timeouts + 1
    /\ Report(l, "failure")
    /\ Goto(l, "return")
    /\ UNCHANGED <<pool, amqp, chan, accepted, nacks, faults>>

(* A slip: Ack is not looked at.                                           *)
receiveWhatever(l) ==
    /\ pc[l] = "wait" /\ confirms[chan[l]] # <<>>
    /\ confirms' = [confirms EXCEPT ![chan[l]] = Tail(@)]
    /\ Report(l, "success") /\ Goto(l, "return")
    /\ UNCHANGED <<pool, inflight, chan, accepted, counters>>

(* A slip: no confirmation yet is taken for a nack.                        *)
receiveImpatiently(l) ==
    /\ pc[l] = "wait" /\ confirms[chan[l]] = <<>>
    /\ Goto(l, "publish")
    /\ UNCHANGED <<pool, amqp, chan, report, accepted, counters>>

(* The very next confirmation on the channel, whoever it is about.         *)
receiveConfirmation(l) ==
    /\ pc[l] = "wait" /\ confirms[chan[l]] # <<>>
    /\ confirms' = [confirms EXCEPT ![chan[l]] = Tail(@)]
    /\ IF Head(confirms[chan[l]]).ack
       THEN Report(l, "success") /\ Goto(l, "return")
       ELSE UNCHANGED report /\ Goto(l, "publish")
    /\ UNCHANGED <<pool, inflight, chan, accepted, counters>>

(* Confirmations is closed with its channel and yields Ack = false.        *)
receiveClosed(l) ==
    /\ pc[l] = "wait" /\ ~up[chan[l]] /\ confirms[chan[l]] = <<>>
    /\ Goto(l, "publish")
    /\ UNCHANGED <<pool, amqp, chan, report, accepted, counters>>

(* A slip: ReturnChannel closes the channel like one that is not cached.   *)
returnNothing(l) ==
    /\ pc[l] = "return"
    /\ chan' = [chan EXCEPT ![l] = None]
    /\ Goto(l, "done")
    /\ UNCHANGED <<pool, amqp, report, accepted, counters>>

(* ReturnChannel(chanHost, false): flush, and back to the cache.           *)
returnChannel(l) ==
    /\ pc[l] = "return"
    /\ FlushConfirms(chan[l])
    /\ cache' = Append(cache, chan[l])
    /\ chan' = [chan EXCEPT ![l] = None]
    /\ Goto(l, "done")
    /\ UNCHANGED <<up, inflight, report, accepted, counters>>

-----------------------------------------------------------------------------
(* The broker answers the publications of a channel in order, and the amqp *)
(* library waits for room in Confirmations.                                *)

Room(c) == Len(confirms[c]) < ConfirmCap

Answer(c, a) ==
    /\ up[c] /\ inflight[c] # <<>> /\ Room(c)
    /\ confirms' = [confirms EXCEPT ![c] =
                      Append(@, [letter |-> Head(inflight[c]), ack |-> a])]
    /\ inflight' = [inflight EXCEPT ![c] = Tail(@)]

brokerAcks(c) ==
    /\ Answer(c, TRUE)
    /\ accepted' = accepted \cup {Head(inflight[c])}
    /\ UNCHANGED <<pool, calls, counters>>

brokerNacks(c) ==
    /\ nacks < MaxNacks
    /\ Answer(c, FALSE)
    /\ nacks' = nacks + 1
    /\ UNCHANGED <<pool, calls, accepted, timeouts, faults>>

(* A channel is lost; of what was in flight the broker had taken a part.   *)
loseChannel(c) ==
    /\ up[c] /\ faults < MaxFaults
    /\ faults' = faults + 1
    /\ up' = [up EXCEPT ![c] = FALSE]
    /\ \E n \in 0 .. Len(inflight[c]) :
          accepted' = accepted \cup {inflight[c][i] : i \in 1 .. n}
    /\ inflight' = [inflight EXCEPT ![c] = <<>>]
    /\ UNCHANGED <<cache, confirms, calls, timeouts, nacks>>

-----------------------------------------------------------------------------
Call(l) ==
    \/ publish(l) \/ publishFails(l) \/ reconnect(l)
    \/ receiveConfirmation(l) \/ receiveClosed(l) \/ returnChannel(l)

Next ==
    \/ \E l \in Letter : start(l) \/ getChannel(l) \/ Call(l) \/ timeOut(l)
    \/ \E c \in Channel : brokerAcks(c) \/ brokerNacks(c) \/ loseChannel(c)

Spec == Init /\ [][Next]_vars

(* Goroutines run, the receivers of a Go channel are served in turn, and a *)
(* wait ends by one of its cases, the timer if no other.  The broker       *)
(* promises nothing.                                                       *)
FairSpec ==
    Spec /\ \A l \in Letter : WF_vars(Call(l) \/ timeOut(l)) /\ SF_vars(getChannel(l))

-----------------------------------------------------------------------------
TypeOK ==
    /\ cache \in Seq(Channel)
    /\ up \in [Channel -> BOOLEAN]
    /\ inflight \in [Channel -> Seq(Letter)]
    /\ confirms \in [Channel -> Seq(Confirmation)]
    /\ \A c \in Channel : Len(confirms[c]) <= ConfirmCap
    /\ pc \in [Letter -> PCs]
    /\ chan \in [Letter -> Channel \cup {None}]
    /\ report \in [Letter -> Reports]
    /\ accepted \in SUBSET Letter
    /\ timeouts \in 0 .. MaxTimeouts /\ nacks \in 0 .. MaxNacks
    /\ faults \in 0 .. MaxFaults

Confirmed == Letter \ Plain

(* publisher.go:217: "Wait for very next confirmation on this channel,     *)
(* which should be our confirmation"; so PublishWithConfirmation reports   *)
(* success only of a letter the broker has taken.                          *)
NoFalseSuccess ==
    \A l \in Confirmed : report[l] = "success" => l \in accepted

(* What is left on a channel when nobody waits on it: the answers that     *)
(* calls which timed out, or which never wait, have left behind.  The one  *)
(* confirmation each flush drops never makes up for more than one of them, *)
(* and a republish after somebody else's nack adds none.                   *)
LeftBehind(c) ==
    LET waiting == {l \in Letter : pc[l] = "wait" /\ chan[l] = c}
    IN  Len(inflight[c]) + Len(confirms[c]) - Cardinality(waiting)

(* Calls that left a channel without the answer to their publication.      *)
EarlyLeavers == timeouts + Cardinality({l \in Plain : report[l] = "success"})

(* All channels together never have more answers left behind than calls    *)
(* have left early; so nothing waits for room in Confirmations, and with   *)
(* it the whole connection, before ConfirmCap such calls.                  *)
OnlyEarlyLeaversLeaveAnswers ==
    LET left == UNION {{c} \X (1 .. LeftBehind(c)) : c \in Channel}
    IN  Cardinality(left) <= EarlyLeavers

(* What publisher.go:217 costs: nobody is told of a success that the       *)
(* broker has not granted unless a call left early, and each such call (or *)
(* nack, from then on) misleads one letter at a time, however many calls   *)
(* the channel serves after it.                                            *)
FalseSuccessesBounded ==
    LET misled == {l \in Confirmed : report[l] = "success" /\ l \notin accepted}
    IN  Cardinality(misled) <= IF EarlyLeavers = 0 THEN 0 ELSE EarlyLeavers + nacks

(* A cached channel is idle, or with one call; none is lost on the way     *)
(* round by timeout, nack or reconnection.                                 *)
ChannelsConserved ==
    \A c \in Channel :
        Cardinality({i \in DOMAIN cache : cache[i] = c})
          + Cardinality({l \in Letter : chan[l] = c}) = 1

(* What the calls and the amqp library share keeps its form, Confirmations *)
(* within its capacity, and no call loses or doubles a cached channel.     *)
Safety == TypeOK /\ ChannelsConserved

(* Every call ends with its receipt and its channel returned, although the *)
(* broker may answer nothing.                                              *)
EveryCallReturns ==
    \A l \in Letter : pc[l] = "get" ~> pc[l] = "done" /\ report[l] # "none"
=============================================================================
