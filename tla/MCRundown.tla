----------------------------- MODULE MCRundown -----------------------------
(* Rundown for TLC: the threads and the tokens are model values. *)
EXTENDS Rundown
=============================================================================
