------------------------------ MODULE V1PoolState ------------------------------
(* What version 1's publisher, consumer and service share, the channel     *)
(* pool: here only if it has been shut down.  V1Pools models the pool.      *)

VARIABLE poolUp     \* Initialized: the channel pool has not been shut down
=============================================================================
