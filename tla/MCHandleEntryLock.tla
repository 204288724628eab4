------------------------- MODULE MCHandleEntryLock -------------------------
(* HandleEntryLock for TLC: everything is a model value. *)
EXTENDS HandleEntryLock
=============================================================================
