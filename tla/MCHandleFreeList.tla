-------------------------- MODULE MCHandleFreeList --------------------------
(* HandleFreeList for TLC. *)
EXTENDS HandleFreeList, TLC

Symmetry == Permutations(Callers)

(* Beyond the race nothing is promised any more. *)
BeforeRace == ~raced
=============================================================================
