------------------------------- MODULE RWLock -------------------------------
(***************************************************************************)
(* What a push lock promises: one exclusive owner or any number of sharers.*)
(* PushLock (ntoskrnl/ex/pushlock.c) is shown to implement it.             *)
(***************************************************************************)
CONSTANT Threads

VARIABLE held           \* held[t]: "no", "X" (exclusive) or "S" (shared)

Init == held = [t \in Threads |-> "no"]

LockExclusive(t) ==
    /\ \A u \in Threads : held[u] = "no"
    /\ held' = [held EXCEPT ![t] = "X"]

LockShared(t) ==
    /\ held[t] = "no"
    /\ \A u \in Threads : held[u] # "X"
    /\ held' = [held EXCEPT ![t] = "S"]

(* A sharer becomes the exclusive owner when it is the only one. *)
Upgrade(t) ==
    /\ held[t] = "S"
    /\ \A u \in Threads \ {t} : held[u] = "no"
    /\ held' = [held EXCEPT ![t] = "X"]

Unlock(t) ==
    /\ held[t] # "no"
    /\ held' = [held EXCEPT ![t] = "no"]

Next == \E t \in Threads :
            LockExclusive(t) \/ LockShared(t) \/ Upgrade(t) \/ Unlock(t)

Spec == Init /\ [][Next]_held
=============================================================================
