------------------------ MODULE MCRundownCacheAware ------------------------
(* RundownCacheAware for TLC.  Threads and tokens are model values, the      *)
(* processors are numbered.                                                 *)
EXTENDS RundownCacheAware

MCCPUs == 0 .. 2     \* three processors, on two words or on three
=============================================================================
