----------------------------- MODULE MCPushLock -----------------------------
(* PushLock for TLC: the threads and NoBlock are model values. *)
EXTENDS PushLock
=============================================================================
