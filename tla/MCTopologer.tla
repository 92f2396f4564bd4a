---------------------------- MODULE MCTopologer ----------------------------
(* A small topology for TLC: the second exchange is looked up passively    *)
(* and bound to the first, and the queue to the second.                    *)
EXTENDS Topologer

CONSTANTS e1, e2, q1

MCExchanges        == <<e1, e2>>
MCQueues           == <<q1>>
MCQueueBindings    == <<<<e2, q1>>>>
MCExchangeBindings == <<<<e1, e2>>>>
=============================================================================
