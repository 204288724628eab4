----------------------------- MODULE MCResource -----------------------------
(* Resource for TLC: the owners are model values. *)
EXTENDS Resource
=============================================================================
