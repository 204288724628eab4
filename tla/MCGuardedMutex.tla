--------------------------- MODULE MCGuardedMutex ---------------------------
(* GuardedMutex for TLC: the threads are model values. *)
EXTENDS GuardedMutex
=============================================================================
