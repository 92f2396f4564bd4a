----------------------------- MODULE AutoPublisher -----------------------------
(***************************************************************************)
(* The auto-publishing half of Publisher (v2/pkg/tcr/publisher.go): a Go   *)
(* channel of letters, a loop that hands each to a goroutine running       *)
(* PublishWithConfirmation, a semaphore on those goroutines, and stopping  *)
(* by a token in the channel autoStop.                                     *)
(*                                                                         *)
(* What PublishWithConfirmation does to one letter is the subject of       *)
(* CachedPublish; here its goroutine ends with a receipt of either kind.   *)
(***************************************************************************)
EXTENDS Integers, Sequences, FiniteSets

CONSTANTS
    Letter,
    None,                   \* the nil letter a closed channel yields
    LettersCap,             \* capacity of `letters' (1000)
    MaxCacheChannelCount,   \* PoolConfig.MaxCacheChannelCount
    MaxStarts,              \* bound: effective calls of StartAutoPublishing
    MaxStops                \* bound: calls of Shutdown that send a stop

ASSUME AutoAssumption ==
    /\ None \notin Letter
    /\ LettersCap \in Nat \ {0} /\ MaxCacheChannelCount \in Nat
    /\ MaxStarts \in Nat /\ MaxStops \in Nat

VARIABLES
    letters, closed,    \* the channel of letters: its buffer, and is it closed
    token, stoppers,    \* autoStop holds a token; goroutines still sending one
    autoStarted,
    loop, hand,         \* the loop's place, and the letter it has received
    publishing,         \* goroutines that hold the loop's semaphore
    older,              \* goroutines that hold the semaphore of an earlier loop
    receipts,           \* receipts sent and not yet received
    queued,             \* per letter: what QueueLetter answered its user
    settled,            \* letters whose receipt a user of the publisher has
    crashed,            \* the process has panicked
    starts, stops

channel  == <<letters, closed>>
stopping == <<token, stoppers, stops>>
running  == <<autoStarted, loop, hand, starts>>
work     == <<publishing, older>>
vars     == <<channel, stopping, running, work, receipts, queued, settled, crashed>>

Receipt == [letter : Letter, success : BOOLEAN]
LoopPCs == {"off", "top", "deliver", "semaphore", "check", "exit"}

Init ==
    /\ letters = <<>> /\ closed = FALSE
    /\ token = FALSE /\ stoppers = 0 /\ stops = 0
    /\ autoStarted = FALSE /\ loop = "off" /\ hand = None /\ starts = 0
    /\ publishing = {} /\ older = {}
    /\ receipts = {}
    /\ queued = [l \in Letter |-> "no"]
    /\ settled = {}
    /\ crashed = FALSE

-----------------------------------------------------------------------------
(* safeSend: a send on a closed channel panics and is answered FALSE; a    *)
(* full one blocks the sender until there is room or it is closed.         *)
Sent(l) ==
    /\ ~closed /\ Len(letters) < LettersCap
    /\ letters' = Append(letters, l)
    /\ UNCHANGED closed

Refused == closed /\ UNCHANGED channel

QueueLetter(l) ==
    /\ queued[l] = "no"
    /\ \/ Sent(l) /\ queued' = [queued EXCEPT ![l] = "true"]
       \/ Refused /\ queued' = [queued EXCEPT ![l] = "false"]
    /\ UNCHANGED <<stopping, running, work, receipts, settled, crashed>>

(* Effective only when no loop is running; under pubLock.                  *)
StartAutoPublishing ==
    /\ ~autoStarted /\ starts < MaxStarts
    /\ autoStarted' = TRUE
    /\ loop' = "top"
    /\ starts' = starts + 1
    /\ UNCHANGED <<channel, stopping, hand, work, receipts, queued, settled, crashed>>

(* stopAutoPublish, from Shutdown; it leaves a goroutine to send the token.*)
stopAutoPublish ==
    /\ autoStarted
    /\ stops < MaxStops
    /\ stops' = stops + 1
    /\ stoppers' = stoppers + 1
    /\ UNCHANGED <<channel, token, running, work, receipts, queued, settled, crashed>>

sendStop ==
    /\ stoppers > 0 /\ ~token
    /\ token' = TRUE
    /\ stoppers' = stoppers - 1
    /\ UNCHANGED <<channel, stops, running, work, receipts, queued, settled, crashed>>

-----------------------------------------------------------------------------
(* startAutoPublishingLoop and deliverLetters.                             *)

(* A token is there before deliverLetters is called: the loop ends, and    *)
(* `letters' stays open.                                                   *)
stopAtTop ==
    /\ loop = "top" /\ token
    /\ token' = FALSE
    /\ loop' = "exit"
    /\ UNCHANGED <<channel, stoppers, stops, autoStarted, hand, starts, work,
                   receipts, queued, settled, crashed>>

(* deliverLetters makes a semaphore; goroutines of a loop before it keep   *)
(* the one they have.                                                      *)
enterDeliver ==
    /\ loop = "top" /\ ~token
    /\ loop' = "deliver"
    /\ older' = older \cup publishing
    /\ publishing' = {}
    /\ UNCHANGED <<channel, stopping, autoStarted, hand, starts, receipts, queued,
                   settled, crashed>>

receiveLetter ==
    /\ loop = "deliver" /\ letters # <<>>
    /\ hand' = Head(letters)
    /\ letters' = Tail(letters)
    /\ loop' = "semaphore"
    /\ UNCHANGED <<closed, stopping, autoStarted, starts, work, receipts, queued,
                   settled, crashed>>

(* A closed channel that is empty is always ready, with the nil letter.    *)
receiveNil ==
    /\ loop = "deliver" /\ letters = <<>> /\ closed
    /\ hand' = None
    /\ loop' = "semaphore"
    /\ UNCHANGED <<channel, stopping, autoStarted, starts, work, receipts, queued,
                   settled, crashed>>

(* A slip: the break leaves the select only, not PublishLoop.              *)
drainedOnly ==
    /\ loop = "deliver" /\ letters = <<>> /\ ~closed
    /\ UNCHANGED vars

drained ==
    /\ loop = "deliver" /\ letters = <<>> /\ ~closed
    /\ loop' = "check"
    /\ UNCHANGED <<channel, stopping, autoStarted, hand, starts, work, receipts,
                   queued, settled, crashed>>

Parallel == MaxCacheChannelCount \div 2 + 1

spawnPublish ==
    /\ loop = "semaphore" /\ Cardinality(publishing) < Parallel
    /\ publishing' = publishing \cup {hand}
    /\ hand' = None
    /\ loop' = "deliver"
    /\ UNCHANGED <<channel, stopping, autoStarted, starts, older, receipts, queued,
                   settled, crashed>>

(* Reached only with `letters' open: a closed one is never drained.        *)
stopAtCheck ==
    /\ loop = "check" /\ token
    /\ token' = FALSE
    /\ closed' = TRUE
    /\ loop' = "exit"
    /\ UNCHANGED <<letters, stoppers, stops, autoStarted, hand, starts, work,
                   receipts, queued, settled, crashed>>

goOn ==
    /\ loop = "check" /\ ~token
    /\ loop' = "deliver"
    /\ UNCHANGED <<channel, stopping, autoStarted, hand, starts, work, receipts,
                   queued, settled, crashed>>

exitLoop ==
    /\ loop = "exit"
    /\ autoStarted' = FALSE
    /\ loop' = "off"
    /\ UNCHANGED <<channel, stopping, hand, starts, work, receipts, queued, settled,
                   crashed>>

Loop ==
    \/ stopAtTop \/ enterDeliver \/ receiveLetter \/ receiveNil \/ drained
    \/ spawnPublish \/ stopAtCheck \/ goOn \/ exitLoop

-----------------------------------------------------------------------------
(* The goroutines that publish.                                            *)

finishPublish(l) ==
    /\ l \in publishing \cup older
    /\ publishing' = publishing \ {l}
    /\ older' = older \ {l}
    /\ \E s \in BOOLEAN : receipts' = receipts \cup {[letter |-> l, success |-> s]}
    /\ UNCHANGED <<channel, stopping, running, queued, settled, crashed>>

(* PublishWithConfirmation(nil) dereferences its letter.                   *)
publishNil ==
    /\ None \in publishing \cup older
    /\ crashed' = TRUE
    /\ UNCHANGED <<channel, stopping, running, work, receipts, queued, settled>>

(* A subscriber of PublishReceipts.                                        *)
receiveReceipt(r) ==
    /\ r \in receipts
    /\ receipts' = receipts \ {r}
    /\ settled' = settled \cup {r.letter}
    /\ UNCHANGED <<channel, stopping, running, work, queued, crashed>>

-----------------------------------------------------------------------------
TypeOK ==
    /\ letters \in Seq(Letter) /\ Len(letters) <= LettersCap /\ closed \in BOOLEAN
    /\ token \in BOOLEAN /\ stoppers \in 0 .. MaxStops /\ stops \in 0 .. MaxStops
    /\ autoStarted \in BOOLEAN /\ loop \in LoopPCs
    /\ hand \in Letter \cup {None} /\ starts \in 0 .. MaxStarts
    /\ publishing \in SUBSET (Letter \cup {None})
    /\ older \in SUBSET (Letter \cup {None})
    /\ receipts \in SUBSET Receipt
    /\ queued \in [Letter -> {"no", "true", "false"}]
    /\ settled \in SUBSET Letter
    /\ crashed \in BOOLEAN

(* How many of the publisher's places hold the letter.                     *)
Copies(l) ==
    Cardinality({i \in DOMAIN letters : letters[i] = l})
      + Cardinality({r \in receipts : r.letter = l})
      + (IF hand = l THEN 1 ELSE 0)
      + (IF l \in publishing THEN 1 ELSE 0) + (IF l \in older THEN 1 ELSE 0)

(* One loop at a time drains `letters', and a loop that is gone has let go *)
(* of its letter.                                                          *)
LoopIffStarted ==
    /\ autoStarted <=> loop # "off"
    /\ hand # None => loop = "semaphore"
=============================================================================
