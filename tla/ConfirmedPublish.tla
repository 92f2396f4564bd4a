--------------------------- MODULE ConfirmedPublish ---------------------------
(***************************************************************************)
(* What the PublishWithConfirmation family promises: a call ends in one    *)
(* receipt, and the receipt says "success" only of a letter the broker has *)
(* taken responsibility for.  A timeout says nothing about the broker, and *)
(* a letter may be taken more than once.                                   *)
(***************************************************************************)
CONSTANT Letter

VARIABLES
    report,     \* per letter: "none" before its call ends, then the receipt
    accepted    \* the letters the broker has confirmed to itself

vars == <<report, accepted>>

Init ==
    /\ report = [l \in Letter |-> "none"]
    /\ accepted = {}

(* A published letter may still reach the broker after its call ended.     *)
Accept(l) ==
    /\ accepted' = accepted \cup {l}
    /\ UNCHANGED report

Succeed(l) ==
    /\ report[l] = "none" /\ l \in accepted
    /\ report' = [report EXCEPT ![l] = "success"]
    /\ UNCHANGED accepted

TimeOut(l) ==
    /\ report[l] = "none"
    /\ report' = [report EXCEPT ![l] = "failure"]
    /\ UNCHANGED accepted

Next == \E l \in Letter : Accept(l) \/ Succeed(l) \/ TimeOut(l)

Spec == Init /\ [][Next]_vars
=============================================================================
