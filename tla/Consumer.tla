-------------------------------- MODULE Consumer --------------------------------
(***************************************************************************)
(* Consumer (v2/pkg/tcr/consumer.go) on a queue it acknowledges: users     *)
(* start and stop it, each start leaves a loop that subscribes on a cached *)
(* channel and copies deliveries to receivedMessages, or gives them to an  *)
(* action, until it takes a token from consumeStop.                        *)
(*                                                                         *)
(* The k-th delivery of message m is <<m, k>>: the library acknowledges a  *)
(* delivery, and a channel that is lost gives its messages back to the     *)
(* queue.  A receive from a closed channel of deliveries yields ZeroValue. *)
(***************************************************************************)
EXTENDS Naturals, Sequences, FiniteSets, Functions

CONSTANTS
    User,           \* goroutines that start and stop the consumer
    Loop,           \* names for the goroutines that run startConsumeLoop,
    Acting,         \* and of those that are started with an action
    Channel,        \* the cached channels of the pool
    Msg,            \* what is in the queue
    None,
    MessagesCap,    \* capacity of receivedMessages (1000)
    ErrorsCap,      \* capacity of errors (1000)
    MaxStarts, MaxStops,    \* bounds: effective StartConsuming, StopConsuming
    MaxFaults       \* bound: channels lost and consumers cancelled, together

ASSUME ConsumerAssumption ==
    /\ None \notin User \cup Channel \cup Msg /\ Acting \subseteq Loop
    /\ IsFiniteSet(Loop) /\ IsFiniteSet(Channel)
    /\ MessagesCap \in Nat \ {0} /\ ErrorsCap \in Nat \ {0}
    /\ {MaxStarts, MaxStops, MaxFaults} \subseteq Nat

VARIABLES
    conLock,        \* the user in StopConsuming, or None
    started,
    twice,          \* StartConsuming was called on a started consumer
    token,          \* consumeStop, of capacity 1, holds a stop
    asked,          \* StopConsuming was called since the last start
    userPc,
    pc, chan, hand, \* per loop: its place, its channel, the delivery it holds
    cache,          \* the pool's idle channels
    up, errors,     \* per channel: it is open; its ChannelHost.Errors
    sub, buffer,    \* per channel: the subscription, deliveries not yet read
    unacked,        \* per channel: deliveries to acknowledge
    ready, times,   \* the queue; per message, how often it was delivered
    receivedMessages,
    conErrors,      \* length of Consumer.errors
    handled,        \* messages the user has handled and acknowledged
    flushed,        \* deliveries that FlushMessages dropped
    starts, stops, faults, cancels

control  == <<conLock, started, twice, token, asked, userPc>>
loops    == <<pc, chan, hand>>
channels == <<cache, up, errors, sub, buffer>>
broker   == <<unacked, ready, times>>
output   == <<receivedMessages, conErrors, handled, flushed>>
counters == <<starts, stops, faults, cancels>>
vars     == <<control, loops, channels, broker, output, counters>>

Delivery  == Msg \X (Nat \ {0})
ZeroValue == <<None, 0>>

PCs == {"off", "top", "get", "consume", "retry", "errors", "lost", "report",
        "deliver", "hand", "check", "exit", "finish"}

Goto(i, p) == pc' = [pc EXCEPT ![i] = p]

Init ==
    /\ conLock = None /\ started = FALSE /\ twice = FALSE /\ token = FALSE /\ asked = FALSE
    /\ userPc = [u \in User |-> "idle"]
    /\ pc = [i \in Loop |-> "off"]
    /\ chan = [i \in Loop |-> None]
    /\ hand = [i \in Loop |-> ZeroValue]
    /\ cache = CHOOSE s \in [1 .. Cardinality(Channel) -> Channel] : IsInjective(s)
    /\ up = [c \in Channel |-> TRUE]
    /\ errors = [c \in Channel |-> "quiet"]
    /\ sub = [c \in Channel |-> "none"]
    /\ buffer = [c \in Channel |-> <<>>]
    /\ unacked = [c \in Channel |-> {}]
    /\ ready = Msg
    /\ times = [m \in Msg |-> 0]
    /\ receivedMessages = <<>> /\ conErrors = 0
    /\ handled = {} /\ flushed = {}
    /\ starts = 0 /\ stops = 0 /\ faults = 0 /\ cancels = 0

-----------------------------------------------------------------------------
(* The exported calls, under conLock.                                      *)

StartLoop(u) ==
    /\ userPc[u] = "idle" /\ conLock = None
    /\ starts < MaxStarts
    /\ twice' = (twice \/ started)
    /\ starts' = starts + 1
    /\ conErrors' = 0
    /\ started' = TRUE /\ asked' = FALSE
    /\ \E i \in Loop : pc[i] = "off" /\ Goto(i, "top")
    /\ UNCHANGED <<conLock, userPc, chan, hand, channels, broker, receivedMessages,
                   handled, flushed, stops, faults, cancels>>

(* A slip: FlushStop is left out.                                          *)
startUnflushed(u) == StartLoop(u) /\ UNCHANGED token

(* StartConsuming and StartConsumingWithAction: FlushErrors, FlushStop and *)
(* a new loop.                                                             *)
StartConsuming(u) == StartLoop(u) /\ token' = FALSE

(* StopConsuming keeps conLock while it sends; it is refused, with no      *)
(* effect, when the consumer is not started.                               *)
StopConsuming(u) ==
    /\ userPc[u] = "idle" /\ conLock = None /\ started
    /\ stops < MaxStops
    /\ stops' = stops + 1
    /\ conLock' = u /\ asked' = TRUE
    /\ userPc' = [userPc EXCEPT ![u] = "send"]
    /\ UNCHANGED <<started, twice, token, loops, channels, broker, output, starts, faults,
                   cancels>>

(* A slip: started is reset before the loop has ended.                     *)
sendStopAndReset(u) ==
    /\ userPc[u] = "send" /\ ~token
    /\ token' = TRUE /\ started' = FALSE
    /\ userPc' = [userPc EXCEPT ![u] = "sent"]
    /\ UNCHANGED <<conLock, twice, asked, loops, channels, broker, output, counters>>

sendStop(u) ==
    /\ userPc[u] = "send" /\ ~token
    /\ token' = TRUE
    /\ userPc' = [userPc EXCEPT ![u] = "sent"]
    /\ UNCHANGED <<conLock, started, twice, asked, loops, channels, broker, output,
                   counters>>

(* FlushMessages if asked for, and return.                                 *)
finishStop(u) ==
    /\ userPc[u] = "sent"
    /\ \/ UNCHANGED <<receivedMessages, flushed>>
       \/ /\ receivedMessages' = <<>>
          /\ flushed' = flushed \cup (Range(receivedMessages) \ {ZeroValue})
    /\ conLock' = None
    /\ userPc' = [userPc EXCEPT ![u] = "idle"]
    /\ UNCHANGED <<started, twice, token, asked, loops, channels, broker, conErrors,
                   handled, counters>>

-----------------------------------------------------------------------------
(* startConsumeLoop.                                                       *)

stopAtTop(i) ==
    /\ pc[i] = "top" /\ token
    /\ token' = FALSE
    /\ Goto(i, "exit")
    /\ UNCHANGED <<conLock, started, twice, asked, userPc, chan, hand,
                   channels, broker, output, counters>>

goOn(i) ==
    /\ pc[i] \in {"top", "check"} /\ ~token
    /\ Goto(i, IF pc[i] = "top" THEN "get" ELSE "errors")
    /\ UNCHANGED <<control, chan, hand, channels, broker, output, counters>>

GetChannelFromPool(i) ==
    /\ pc[i] = "get" /\ cache # <<>>
    /\ chan' = [chan EXCEPT ![i] = Head(cache)]
    /\ cache' = Tail(cache)
    /\ Goto(i, "consume")
    /\ UNCHANGED <<control, hand, up, errors, sub, buffer, broker, output,
                   counters>>

Consume(i) ==
    /\ pc[i] = "consume" /\ up[chan[i]] /\ sub[chan[i]] # "open"
    /\ sub' = [sub EXCEPT ![chan[i]] = "open"]
    /\ buffer' = [buffer EXCEPT ![chan[i]] = <<>>]
    /\ Goto(i, "errors")
    /\ UNCHANGED <<control, chan, hand, cache, up, errors, broker, output,
                   counters>>

(* Consume errs on a channel that is gone.                                 *)
consumeFails(i) ==
    /\ pc[i] = "consume" /\ ~up[chan[i]]
    /\ Goto(i, "retry")
    /\ UNCHANGED <<control, chan, hand, channels, broker, output, counters>>

(* The broker puts what is not acknowledged on a channel back in the queue.*)
Requeue(C) ==
    /\ ready' = ready \cup {d[1] : d \in UNION {unacked[c] : c \in C}}
    /\ unacked' = [c \in Channel |-> IF c \in C THEN {} ELSE unacked[c]]
    /\ UNCHANGED times

(* Channels are lost: the error is sent to Errors, what the library        *)
(* buffers is wiped and the channel of deliveries closed.                  *)
Lose(C) ==
    /\ up' = [c \in Channel |-> up[c] /\ c \notin C]
    /\ errors' = [c \in Channel |-> IF c \in C /\ up[c] THEN "erred" ELSE errors[c]]
    /\ sub' = [c \in Channel |-> IF c \in C /\ sub[c] = "open" THEN "closed" ELSE sub[c]]
    /\ buffer' = [c \in Channel |-> IF c \in C THEN <<>> ELSE buffer[c]]
    /\ Requeue(C)

(* The broker allows one subscription of this ConsumerName on a channel: a *)
(* second Consume costs the connection, and so every channel on it.        *)
consumeTwice(i) ==
    /\ pc[i] = "consume" /\ up[chan[i]] /\ sub[chan[i]] = "open"
    /\ \E C \in SUBSET Channel : chan[i] \in C /\ Lose(C)
    /\ Goto(i, "retry")
    /\ UNCHANGED <<control, chan, hand, cache, output, counters>>

(* A slip: continue without ReturnChannel.                                 *)
KeepErredChannel(i) ==
    /\ pc[i] \in {"retry", "lost"}
    /\ chan' = [chan EXCEPT ![i] = None]
    /\ Goto(i, IF pc[i] = "retry" THEN "top" ELSE "report")
    /\ UNCHANGED <<control, hand, channels, broker, output, counters>>

(* ReturnChannel(chanHost, true): a new channel, and back to the cache.    *)
ReturnErredChannel(i) ==
    /\ pc[i] \in {"retry", "lost"}
    /\ up' = [up EXCEPT ![chan[i]] = TRUE]
    /\ errors' = [errors EXCEPT ![chan[i]] = "quiet"]
    /\ sub' = [sub EXCEPT ![chan[i]] = "none"]
    /\ buffer' = [buffer EXCEPT ![chan[i]] = <<>>]
    /\ Requeue({chan[i]})
    /\ cache' = Append(cache, chan[i])
    /\ chan' = [chan EXCEPT ![i] = None]
    /\ Goto(i, IF pc[i] = "retry" THEN "top" ELSE "report")
    /\ UNCHANGED <<control, hand, output, counters>>

reportError(i) ==
    /\ pc[i] = "report" /\ conErrors < ErrorsCap
    /\ conErrors' = conErrors + 1
    /\ Goto(i, "top")
    /\ UNCHANGED <<control, chan, hand, channels, broker, receivedMessages,
                   handled, flushed, counters>>

(* After the loop: read stopImmediate; messageGroup is always empty.       *)
readStopImmediate(i) ==
    /\ pc[i] = "exit" /\ conLock = None
    /\ Goto(i, "finish")
    /\ UNCHANGED <<control, chan, hand, channels, broker, output, counters>>

finishLoop(i) ==
    /\ pc[i] = "finish" /\ conLock = None
    /\ started' = FALSE
    /\ Goto(i, "off")
    /\ UNCHANGED <<conLock, twice, token, asked, userPc, chan, hand, channels, broker,
                   output, counters>>

-----------------------------------------------------------------------------
(* processDeliveries: errors, then a delivery, then the stop.              *)

(* A slip: the error of a channel is read and ignored.                     *)
ignoreErrors(i) ==
    /\ pc[i] = "errors"
    /\ errors' = [errors EXCEPT ![chan[i]] = IF @ = "erred" THEN "closed" ELSE @]
    /\ Goto(i, "deliver")
    /\ UNCHANGED <<control, chan, hand, cache, up, sub, buffer, broker,
                   output, counters>>

(* A closed Errors yields nil, which is ignored.                           *)
checkErrors(i) ==
    /\ pc[i] = "errors"
    /\ IF errors[chan[i]] = "erred"
       THEN errors' = [errors EXCEPT ![chan[i]] = "closed"] /\ Goto(i, "lost")
       ELSE UNCHANGED errors /\ Goto(i, "deliver")
    /\ UNCHANGED <<control, chan, hand, cache, up, sub, buffer, broker,
                   output, counters>>

takeDelivery(i) ==
    /\ pc[i] = "deliver" /\ buffer[chan[i]] # <<>>
    /\ hand' = [hand EXCEPT ![i] = Head(buffer[chan[i]])]
    /\ buffer' = [buffer EXCEPT ![chan[i]] = Tail(@)]
    /\ Goto(i, "hand")
    /\ UNCHANGED <<control, chan, cache, up, errors, sub, broker, output,
                   counters>>

(* Nothing to read: the zero Delivery if deliveryChan is closed.           *)
noDelivery(i) ==
    /\ pc[i] = "deliver" /\ buffer[chan[i]] = <<>>
    /\ Goto(i, IF sub[chan[i]] = "closed" THEN "hand" ELSE "check")
    /\ UNCHANGED <<control, chan, hand, channels, broker, output, counters>>

(* The user handles a delivery and acknowledges it, on its channel.        *)
Handle(d) ==
    /\ handled' = handled \cup ({d[1]} \ {None})
    /\ unacked' = [c \in Channel |-> unacked[c] \ {d}]
    /\ UNCHANGED <<ready, times>>

LetGo(i) ==
    /\ hand' = [hand EXCEPT ![i] = ZeroValue]
    /\ Goto(i, "check")

(* A slip: a full receivedMessages takes the default branch.               *)
sendOrDrop(i) ==
    /\ pc[i] = "hand" /\ i \notin Acting
    /\ receivedMessages' = IF Len(receivedMessages) < MessagesCap
                           THEN Append(receivedMessages, hand[i]) ELSE receivedMessages
    /\ LetGo(i)
    /\ UNCHANGED <<control, chan, channels, broker, conErrors, handled,
                   flushed, counters>>

sendMessage(i) ==
    /\ pc[i] = "hand" /\ i \notin Acting
    /\ Len(receivedMessages) < MessagesCap
    /\ receivedMessages' = Append(receivedMessages, hand[i])
    /\ LetGo(i)
    /\ UNCHANGED <<control, chan, channels, broker, conErrors, handled,
                   flushed, counters>>

callAction(i) ==
    /\ pc[i] = "hand" /\ i \in Acting
    /\ Handle(hand[i])
    /\ LetGo(i)
    /\ UNCHANGED <<control, chan, channels, receivedMessages, conErrors,
                   flushed, counters>>

(* A slip: the outer loop is not told to stop.                             *)
stopInnerLoop(i) ==
    /\ pc[i] = "check" /\ token
    /\ token' = FALSE
    /\ cache' = Append(cache, chan[i])
    /\ chan' = [chan EXCEPT ![i] = None]
    /\ Goto(i, "top")
    /\ UNCHANGED <<conLock, started, twice, asked, userPc, hand, up, errors,
                   sub, buffer, broker, output, counters>>

(* ReturnChannel(chanHost, false): the subscription is not cancelled.      *)
stopAtCheck(i) ==
    /\ pc[i] = "check" /\ token
    /\ token' = FALSE
    /\ cache' = Append(cache, chan[i])
    /\ chan' = [chan EXCEPT ![i] = None]
    /\ Goto(i, "exit")
    /\ UNCHANGED <<conLock, started, twice, asked, userPc, hand, up, errors,
                   sub, buffer, broker, output, counters>>

-----------------------------------------------------------------------------
(* Readers of ReceivedMessages and Errors.                                 *)

receiveMessage ==
    /\ receivedMessages # <<>>
    /\ Handle(Head(receivedMessages))
    /\ receivedMessages' = Tail(receivedMessages)
    /\ UNCHANGED <<control, loops, channels, conErrors, flushed, counters>>

receiveError ==
    /\ conErrors > 0
    /\ conErrors' = conErrors - 1
    /\ UNCHANGED <<control, loops, channels, broker, receivedMessages, handled, flushed,
                   counters>>

(* The broker and the amqp library.                                        *)
brokerDelivers(c) ==
    /\ up[c] /\ sub[c] = "open"
    /\ \E m \in ready :
          LET d == <<m, times[m] + 1>>
          IN  /\ ready' = ready \ {m}
              /\ times' = [times EXCEPT ![m] = d[2]]
              /\ unacked' = [unacked EXCEPT ![c] = @ \cup {d}]
              /\ buffer' = [buffer EXCEPT ![c] = Append(@, d)]
    /\ UNCHANGED <<control, loops, cache, up, errors, sub, output, counters>>

loseChannel(c) ==
    /\ up[c] /\ faults + cancels < MaxFaults
    /\ faults' = faults + 1
    /\ Lose({c})
    /\ UNCHANGED <<control, loops, cache, output, starts, stops, cancels>>

(* The broker cancels a consumer (its queue was deleted, or moved): the    *)
(* channel of deliveries is closed after what it buffers, Errors is not.   *)
cancelConsumer(c) ==
    /\ up[c] /\ sub[c] = "open" /\ faults + cancels < MaxFaults
    /\ cancels' = cancels + 1
    /\ sub' = [sub EXCEPT ![c] = "closed"]
    /\ UNCHANGED <<control, loops, cache, up, errors, buffer, broker, output, starts,
                   stops, faults>>

-----------------------------------------------------------------------------
LoopStep(i) ==
    \/ stopAtTop(i) \/ goOn(i) \/ GetChannelFromPool(i) \/ Consume(i) \/ consumeFails(i)
    \/ consumeTwice(i) \/ ReturnErredChannel(i) \/ reportError(i) \/ readStopImmediate(i)
    \/ finishLoop(i)
    \/ checkErrors(i) \/ takeDelivery(i) \/ noDelivery(i) \/ sendMessage(i)
    \/ callAction(i) \/ stopAtCheck(i)

Next ==
    \/ \E u \in User :
          StartConsuming(u) \/ StopConsuming(u) \/ sendStop(u) \/ finishStop(u)
    \/ \E i \in Loop : LoopStep(i)
    \/ receiveMessage \/ receiveError
    \/ \E c \in Channel : brokerDelivers(c) \/ loseChannel(c) \/ cancelConsumer(c)

Spec == Init /\ [][Next]_vars

(* Goroutines run, waiters for a Go channel or mutex are served in turn,   *)
(* the user reads messages and errors and starts a consumer that is not    *)
(* started, and the broker delivers to a subscription.  Nobody has to stop *)
(* it, or start it twice.                                                  *)
FairSpec ==
    /\ Spec
    /\ \A i \in Loop : SF_vars(LoopStep(i))
    /\ \A u \in User :
          /\ WF_vars(~started /\ StartConsuming(u))
          /\ SF_vars(sendStop(u)) /\ WF_vars(finishStop(u))
    /\ WF_vars(receiveMessage) /\ WF_vars(receiveError)
    /\ \A c \in Channel : WF_vars(brokerDelivers(c))

-----------------------------------------------------------------------------
TypeOK ==
    /\ conLock \in User \cup {None}
    /\ started \in BOOLEAN /\ twice \in BOOLEAN /\ token \in BOOLEAN
    /\ asked \in BOOLEAN
    /\ userPc \in [User -> {"idle", "send", "sent"}]
    /\ pc \in [Loop -> PCs]
    /\ chan \in [Loop -> Channel \cup {None}]
    /\ hand \in [Loop -> Delivery \cup {ZeroValue}]
    /\ cache \in Seq(Channel)
    /\ up \in [Channel -> BOOLEAN]
    /\ errors \in [Channel -> {"quiet", "erred", "closed"}]
    /\ sub \in [Channel -> {"none", "open", "closed"}]
    /\ buffer \in [Channel -> Seq(Delivery)]
    /\ \A c \in Channel : unacked[c] \subseteq Delivery
    /\ ready \in SUBSET Msg /\ times \in [Msg -> Nat]
    /\ receivedMessages \in Seq(Delivery \cup {ZeroValue})
    /\ Len(receivedMessages) <= MessagesCap
    /\ conErrors \in 0 .. ErrorsCap
    /\ handled \in SUBSET Msg /\ flushed \subseteq Delivery

Running(i) == pc[i] # "off"

(* Every way round the loop gives its channel back: on an error from       *)
(* Consume, on a channel that was lost, and on a stop.                     *)
ChannelsConserved ==
    \A c \in Channel :
        Cardinality({k \in DOMAIN cache : cache[k] = c})
          + Cardinality({i \in Loop : chan[i] = c}) = 1

(* The buffers keep to their capacities, and each cached channel is idle   *)
(* or in the hands of one loop.                                            *)
Safety == TypeOK /\ ChannelsConserved

(* A stop returns its channel with the subscription alive                  *)
(* (consumer.go:285), and the library goes on to buffer deliveries that    *)
(* nobody reads until a consumer happens to take that channel again.       *)
Parked == {c \in Range(cache) : sub[c] = "open"}

(* What the broker still counts as delivered is in the hands of a loop, in *)
(* the buffer of its channel, with the user, was flushed by a stop that    *)
(* asked for it, or is parked; and each stop parks no more than one        *)
(* channel.  So nothing but a stop, and no restart or lost channel, keeps  *)
(* a delivery from the user.  (A cancelled subscription does: the next     *)
(* Consume on its channel starts with a new buffer.)                       *)
NoDeliveryDropped ==
    /\ cancels = 0 => \A c \in Channel : \A d \in unacked[c] :
          \/ d \in Range(receivedMessages) \cup flushed
          \/ \E i \in Loop : hand[i] = d
          \/ d \in Range(buffer[c]) /\ (c \in Parked \/ \E i \in Loop : chan[i] = c)
    /\ Cardinality(Parked) <= stops

(* consumer.go:367: "Started allows you to determine if a consumer has     *)
(* started", and there is one loop; but StartConsuming does not look at it *)
(* and a second call leaves two, whose first end makes it false.           *)
StartedIffRunning ==
    twice \/ /\ started <=> \E i \in Loop : Running(i)
             /\ \A i, j \in Loop : Running(i) /\ Running(j) => i = j

(* FlushStop: no loop of a consumer finds a stop that was meant for an     *)
(* earlier start, however many of those were sent.                         *)
NoStaleStop == token => asked

(* StopConsuming sends with conLock held, which a loop needs to end: the   *)
(* loop takes one signal, consumeStop another, and a third call may wait   *)
(* for ever, with the loop waiting for it.                                 *)
StopDeadlock ==
    /\ \E u \in User : userPc[u] = "send"
    /\ token
    /\ \A i \in Loop : Running(i) => pc[i] \in {"exit", "finish"}

(* A StopConsuming that has sent its signal ends the one loop there is.    *)
StopEndsConsumer ==
    \A u \in User :
        userPc[u] = "sent" ~> twice \/ StopDeadlock \/ \A i \in Loop : ~Running(i)

(* And a StopConsuming that waits to send it returns.                      *)
StopReturns ==
    \A u \in User : userPc[u] = "send" ~> userPc[u] = "idle" \/ StopDeadlock

(* Both ends of a StopConsuming: the loop it stops, and the call itself.   *)
StopsEnd == StopEndsConsumer /\ StopReturns

(* Channels may be lost: while nobody stops the consumer and the broker    *)
(* does not cancel it, each message still reaches the user.                *)
EveryMessageHandled ==
    \A m \in Msg : <>(m \in handled \/ stops > 0 \/ cancels > 0)
=============================================================================
