----------------------------- MODULE MCCondVar -----------------------------
(* CondVar for TLC: the threads are model values, and the keys. *)
EXTENDS CondVar

MCKeys == Threads
=============================================================================
