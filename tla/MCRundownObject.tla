-------------------------- MODULE MCRundownObject --------------------------
(* RundownObject for TLC. *)
EXTENDS RundownObject

MCCPUs == 0 .. 2
MCProcessors == 1 .. 3
=============================================================================
