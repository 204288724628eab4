------------------------- MODULE RundownProtection -------------------------
(***************************************************************************)
(* What run-down protection promises to the code that uses it.             *)
(*                                                                         *)
(* A protected object is open, draining or closed.  References can be      *)
(* taken only while it is open, the object becomes closed only when no     *)
(* reference is left, and only a closed object can be opened again.  The   *)
(* module knows nothing of words, compare-exchanges or wait blocks:        *)
(* Rundown (ntoskrnl/ex/rundown.c) is shown to implement it.               *)
(***************************************************************************)
CONSTANT Refs           \* the references that can exist at one time

VARIABLES gate,         \* "open", "draining" or "closed"
          refs          \* the references that are out

vars == <<gate, refs>>

Init == gate = "open" /\ refs = {}

(* References are granted only while the object is open. *)
Acquire(S) ==
    /\ gate = "open"
    /\ S # {} /\ S \cap refs = {}
    /\ refs' = refs \cup S
    /\ UNCHANGED gate

(* References can be given back at any time. *)
Release(S) ==
    /\ S # {} /\ S \subseteq refs
    /\ refs' = refs \ S
    /\ UNCHANGED gate

(* The object is shut to newcomers while references are out. *)
Shut ==
    /\ gate = "open" /\ refs # {}
    /\ gate' = "draining"
    /\ UNCHANGED refs

(* The object is closed: the waiter is told that nobody uses it. *)
Close ==
    /\ gate \in {"open", "draining"} /\ refs = {}
    /\ gate' = "closed"
    /\ UNCHANGED refs

Reopen ==
    /\ gate = "closed"
    /\ gate' = "open"
    /\ UNCHANGED refs

Next ==
    \/ \E S \in SUBSET Refs : Acquire(S) \/ Release(S)
    \/ Shut
    \/ Close
    \/ Reopen

Spec == Init /\ [][Next]_vars
=============================================================================
