------------------------------- MODULE V1Consumer -------------------------------
(***************************************************************************)
(* Version 1's Consumer.  Its loop takes deliveries off a channel and      *)
(* gives each to a goroutine that puts the message into the buffer.  One   *)
(* channel of the channel pool is followed; in the pool's queue there may  *)
(* be any number of entries of it.                                         *)
(***************************************************************************)
EXTENDS Naturals, FiniteSets, V1PoolState

CONSTANTS
    Msg,
    MessageBuffer,  \* ConsumerConfig
    MaxEvents,      \* bound: channels lost, subscriptions cancelled, Qos errors,
                    \* and calls by users of Get, GetBatch and StopConsuming, together
    MaxPhantoms,    \* bound: messages made of nothing that are followed
    MaxConsumerStarts       \* bound: calls of StartConsuming

ASSUME V1ConsumerAssumption ==
    {MessageBuffer, MaxEvents, MaxPhantoms, MaxConsumerStarts} \subseteq Nat

VARIABLES
    Enabled, autoAck,
    msg,            \* where each message is
    phantoms,       \* how many messages were made of nothing, and wait where
    started, stopImmediate, consumeStop,
    conLock,        \* the StopConsuming that has it
    flushing,       \* what flushMessages says to it
    consumer,       \* the place of the loop
    channel,        \* what the loop's channel is like
    entries,        \* of the channel, in the queue of the pool
    conCounts       \* what happened so far, for the bounds and the accounts

config   == <<Enabled, autoAck>>
run      == <<consumer, channel>>
stops    == <<started, stopImmediate, consumeStop>>
lock     == <<conLock, flushing>>
accounts == <<entries, conCounts>>
pool     == <<accounts, poolUp>>
conVars  == <<config, msg, phantoms, stops, lock, run, accounts>>

At(p)      == consumer = p
Holding    == consumer \in {"close?", "deliver", "stop?"}
MsgsIn(p)  == {m \in Msg : msg[m] = p}
Happens(c) == /\ conCounts.events < MaxEvents
              /\ conCounts' = [conCounts EXCEPT ![c] = @ + 1, !.events = @ + 1]

(* What messageGroup counts: goroutines with a message for the buffer.     *)
Converting == MsgsIn("converting") # {} \/ phantoms.converting > 0
BufferRoom == Cardinality(MsgsIn("messages")) + phantoms.buffered < MessageBuffer

ConInit ==
    /\ Enabled \in BOOLEAN /\ autoAck \in {Enabled, FALSE}
    /\ msg = [m \in Msg |-> "queue"]
    /\ phantoms = [made |-> 0, converting |-> 0, buffered |-> 0]
    /\ started = FALSE /\ stopImmediate = FALSE /\ consumeStop = FALSE
    /\ conLock = {} /\ flushing = FALSE
    /\ consumer = "none" /\ channel = "down" /\ entries = 1
    /\ conCounts = [events |-> 0, losses |-> 0, unseen |-> 0, leaks |-> 0,
                    returns |-> 0, starts |-> 0, hasty |-> 0]

-----------------------------------------------------------------------------
(* GetChannel takes the entry of the channel; GetAckableChannel puts it    *)
(* back at once, so that to return the channel makes another.              *)
Take   == entries > 0 /\ entries' = IF autoAck THEN entries - 1 ELSE entries
Return ==
    /\ entries' = entries + 1
    /\ conCounts' = [conCounts EXCEPT !.returns = @ + 1]

(* The close error of a channel can be read once.  GetAckableChannel reads *)
(* it too, and puts another channel in the place of the lost one; a loop   *)
(* that still has that will not see the error.                             *)
ReadCloseError(taken) ==
    /\ taken => ~autoAck /\ channel = "lost"
    /\ channel' = IF taken THEN "closed" ELSE channel

(* Get that returns a message, and GetBatch that returns any or finds the  *)
(* queue empty, do not give back the channel.                              *)
Get(taken) ==
    /\ poolUp /\ conCounts.events < MaxEvents
    /\ Take
    /\ ReadCloseError(taken)
    /\ \/ \E m \in MsgsIn("queue") : msg' = [msg EXCEPT ![m] = "got"]
       \/ UNCHANGED msg
    /\ conCounts' = [conCounts EXCEPT !.events = @ + 1, !.leaks = @ + 1,
                                      !.unseen = IF taken THEN @ + 1 ELSE @]
    /\ UNCHANGED <<phantoms, poolUp, consumer, config, stops, lock>>

(* Get that finds no message, and both after an error, give it back: this  *)
(* adds an entry of an ackable one.  (With a plain one nothing changes.)   *)
GetNothing(taken) ==
    /\ poolUp /\ ~autoAck /\ entries > 0 /\ conCounts.events < MaxEvents
    /\ ReadCloseError(taken)
    /\ entries' = entries + 1
    /\ conCounts' = [conCounts EXCEPT !.events = @ + 1, !.returns = @ + 1,
                                      !.unseen = IF taken THEN @ + 1 ELSE @]
    /\ UNCHANGED <<msg, phantoms, poolUp, consumer, config, stops, lock>>

-----------------------------------------------------------------------------
(* A consumer made by NewConsumer is not Enabled, and does not start.      *)
StartConsuming ==
    /\ conLock = {} /\ ~started /\ Enabled /\ conCounts.starts < MaxConsumerStarts
    /\ conCounts' = [conCounts EXCEPT !.starts = @ + 1, !.hasty = 0]
    /\ consumeStop' = FALSE                         \* FlushStop
    /\ consumer' = "outer" /\ started' = TRUE
    /\ UNCHANGED <<msg, phantoms, stopImmediate, channel, entries, poolUp, config,
                   lock>>

(* A slip: the loop does not give back the channel. *)
StopSeenKeeps ==
    /\ consumer \in {"outer", "stop?"} /\ consumeStop
    /\ consumeStop' = FALSE /\ consumer' = "stopping" /\ channel' = "down"
    /\ UNCHANGED <<msg, phantoms, started, stopImmediate, config, lock, pool>>

(* Before a channel is taken, and after each delivery.                     *)
StopSeen ==
    /\ consumer \in {"outer", "stop?"} /\ consumeStop
    /\ consumeStop' = FALSE /\ consumer' = "stopping" /\ channel' = "down"
    /\ IF Holding THEN Return ELSE UNCHANGED accounts
    /\ UNCHANGED <<msg, phantoms, started, stopImmediate, poolUp, config, lock>>

(* GetChannel, or GetAckableChannel, is entered as long as the pool is up, *)
(* and waits for an entry without looking for a stop.  (Later it errs, and *)
(* the loop tries again: nothing happens.)                                 *)
getChannel ==
    /\ At("outer") /\ ~consumeStop /\ poolUp
    /\ consumer' = "get"
    /\ UNCHANGED <<msg, phantoms, channel, config, stops, lock, pool>>

getDeliveryChannel ==
    /\ At("get") /\ poolUp
    /\ Take
    /\ channel' = "up" /\ consumer' = "close?"
    /\ UNCHANGED <<msg, phantoms, conCounts, poolUp, config, stops, lock>>

(* Consume fails: the channel goes back flagged.                           *)
consumeFails ==
    /\ At("get") /\ poolUp /\ entries > 0 /\ conCounts.events < MaxEvents
    /\ consumer' = "outer"
    /\ entries' = IF autoAck THEN entries ELSE entries + 1
    /\ conCounts' = [conCounts EXCEPT !.events = @ + 1, !.losses = @ + 1,
                                      !.returns = @ + 1]
    /\ UNCHANGED <<msg, phantoms, channel, poolUp, config, stops, lock>>

(* Qos fails: nobody gives back the channel.                               *)
qosFails ==
    /\ At("get") /\ poolUp
    /\ Take
    /\ Happens("leaks")
    /\ consumer' = "outer"
    /\ UNCHANGED <<msg, phantoms, channel, poolUp, config, stops, lock>>

(* Whoever returns a closed channel to the queue after a Shutdown lets one *)
(* go on that waits there; Consume fails.  Nobody has to.                  *)
channelAfterShutdown ==
    /\ At("get") /\ ~poolUp
    /\ consumer' = "outer"
    /\ UNCHANGED <<msg, phantoms, channel, config, stops, lock, pool>>

-----------------------------------------------------------------------------
(* processDeliveries, one round: a close error, a delivery, a stop.        *)

(* A slip: close errors are not looked for. *)
CloseErrorUnseen ==
    /\ At("close?") /\ consumer' = "deliver"
    /\ UNCHANGED <<msg, phantoms, poolUp, channel, config, stops, lock, accounts>>

closeError ==
    /\ At("close?")
    /\ IF channel = "lost"
       THEN consumer' = "outer" /\ channel' = "down" /\ Return
       ELSE consumer' = "deliver" /\ UNCHANGED <<channel, accounts>>
    /\ UNCHANGED <<msg, phantoms, poolUp, config, stops, lock>>

delivery ==
    /\ At("deliver") /\ channel = "up"
    /\ \/ \E m \in MsgsIn("queue") : msg' = [msg EXCEPT ![m] = "converting"]
       \/ UNCHANGED msg
    /\ consumer' = "stop?"
    /\ UNCHANGED <<phantoms, channel, config, stops, lock, pool>>

(* The deliveries are closed, and yield an empty one: the message made of  *)
(* it goes on like any other.                                              *)
noDelivery ==
    /\ At("deliver") /\ channel # "up"
    /\ phantoms' = IF phantoms.made < MaxPhantoms
                   THEN [phantoms EXCEPT !.made = @ + 1, !.converting = @ + 1]
                   ELSE phantoms
    /\ consumer' = "stop?"
    /\ UNCHANGED <<msg, channel, config, stops, lock, pool>>

goOn ==
    /\ At("stop?") /\ ~consumeStop
    /\ consumer' = "close?"
    /\ UNCHANGED <<msg, phantoms, channel, config, stops, lock, pool>>

convertDelivery(m) ==
    /\ msg[m] = "converting" /\ BufferRoom
    /\ msg' = [msg EXCEPT ![m] = "messages"]
    /\ UNCHANGED <<phantoms, config, run, stops, lock, pool>>

convertNothing ==
    /\ phantoms.converting > 0 /\ BufferRoom
    /\ phantoms' = [phantoms EXCEPT !.converting = @ - 1, !.buffered = @ + 1]
    /\ UNCHANGED <<msg, config, run, stops, lock, pool>>

(* The user of Messages.                                                   *)
receive(m) ==
    /\ msg[m] = "messages"
    /\ msg' = [msg EXCEPT ![m] = "received"]
    /\ UNCHANGED <<phantoms, config, run, stops, lock, pool>>

receiveNothing ==
    /\ phantoms.buffered > 0
    /\ phantoms' = [phantoms EXCEPT !.buffered = @ - 1]
    /\ UNCHANGED <<msg, config, run, stops, lock, pool>>

(* A slip: the goroutines are never waited for. *)
stoppingHastily ==
    /\ At("stopping") /\ conLock = {}
    /\ consumer' = "finish"
    /\ UNCHANGED <<msg, phantoms, channel, config, stops, lock, pool>>

(* Goroutines that convert a delivery are waited for, or not.              *)
stopping ==
    /\ At("stopping") /\ conLock = {}
    /\ consumer' = IF stopImmediate THEN "finish" ELSE "wait"
    /\ UNCHANGED <<msg, phantoms, channel, config, stops, lock, pool>>

wait ==
    /\ At("wait") /\ ~Converting
    /\ consumer' = "finish"
    /\ UNCHANGED <<msg, phantoms, channel, config, stops, lock, pool>>

finish ==
    /\ At("finish") /\ conLock = {}
    /\ started' = FALSE /\ stopImmediate' = FALSE /\ consumer' = "none"
    /\ UNCHANGED <<msg, phantoms, consumeStop, channel, config, lock, pool>>

-----------------------------------------------------------------------------
(* StopConsuming holds the lock while it waits for room in consumeStop.    *)
(* Its flush makes room, so it also takes some that are on their way.      *)
StopConsuming(caller, immediate, flushMessages) ==
    /\ conLock = {} /\ started
    /\ caller = "user" => conCounts.events < MaxEvents
    /\ conCounts' = [conCounts EXCEPT !.events = IF caller = "user" THEN @ + 1 ELSE @,
                                      !.hasty = IF immediate THEN 1 ELSE @]
    /\ conLock' = {caller} /\ flushing' = flushMessages
    /\ stopImmediate' = immediate
    /\ UNCHANGED <<msg, phantoms, started, consumeStop, entries, poolUp, config, run>>

sendConsumeStop ==
    /\ conLock # {} /\ ~consumeStop
    /\ consumeStop' = TRUE
    /\ \E F \in SUBSET MsgsIn("converting") :
          msg' = [m \in Msg |-> IF flushing /\ m \in F \cup MsgsIn("messages")
                              THEN "flushed" ELSE msg[m]]
    /\ IF flushing
       THEN \E n \in 0 .. phantoms.converting :
               phantoms' = [phantoms EXCEPT !.converting = n, !.buffered = 0]
       ELSE UNCHANGED phantoms
    /\ conLock' = {} /\ flushing' = FALSE
    /\ UNCHANGED <<started, stopImmediate, config, run, pool>>

-----------------------------------------------------------------------------
(* The channel is lost; what was buffered of its deliveries is in the      *)
(* queue.                                                                  *)
loseChannel ==
    /\ Holding /\ channel \in {"up", "cancelled"}
    /\ channel' = "lost"
    /\ Happens("losses")
    /\ UNCHANGED <<msg, phantoms, consumer, entries, poolUp, config, stops, lock>>

(* basic.cancel, when the queue is deleted or its node fails: the library  *)
(* closes the deliveries, and the channel stays.                           *)
cancelDeliveries ==
    /\ Holding /\ channel = "up"
    /\ channel' = "cancelled"
    /\ Happens("unseen")
    /\ UNCHANGED <<msg, phantoms, consumer, entries, poolUp, config, stops, lock>>

ConLoop ==
    \/ StopSeen \/ getChannel \/ getDeliveryChannel \/ consumeFails \/ qosFails
    \/ closeError \/ delivery \/ noDelivery \/ goOn
    \/ stopping \/ wait \/ finish

ConUser ==
    \/ \E taken \in BOOLEAN : Get(taken) \/ GetNothing(taken)
    \/ StartConsuming \/ loseChannel \/ cancelDeliveries \/ channelAfterShutdown
    \/ convertNothing \/ receiveNothing
    \/ \E m \in Msg : convertDelivery(m) \/ receive(m)
=============================================================================
