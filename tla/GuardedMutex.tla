---------------------------- MODULE GuardedMutex ----------------------------
(***************************************************************************)
(* Guarded mutexes: the inlined routines of                                *)
(* ntoskrnl/include/internal/ke_x.h, the contended path                    *)
(* KiAcquireGuardedMutex in ntoskrnl/ke/wait.c, and the gate the waiters   *)
(* sleep on (ntoskrnl/ke/gate.c).                                          *)
(*                                                                         *)
(* Each action is one load or one interlocked operation on Count, one      *)
(* store of Owner, or one critical section of the gate.                    *)
(***************************************************************************)
EXTENDS Integers, FiniteSets

CONSTANTS Threads,      \* the threads that use the mutex
          NoThread      \* a null owner

ASSUME GMAssumption == NoThread \notin Threads /\ IsFiniteSet(Threads)

VARIABLES count,        \* Count: the lock bit (set when free), the woken bit
                        \* and the number of waiters above them
          owner,        \* Owner
          signal,       \* Gate->Header.SignalState
          pc,           \* what each thread does next
          old,          \* its local OldValue
          woken         \* it was woken: BitsToRemove holds the woken bit too

vars == <<count, owner, signal, pc, old, woken>>

Count == [free : BOOLEAN, woken : BOOLEAN, n : Int]

PCs == {"Idle", "AcqLoad", "AcqLoop", "Gate", "Asleep", "SetOwner", "Held",
        "RelAdd", "RelCas", "RelSignal"}

(* _KeInitializeGuardedMutex *)
Init ==
    /\ count = [free |-> TRUE, woken |-> FALSE, n |-> 0]
    /\ owner = NoThread
    /\ signal = FALSE
    /\ pc = [t \in Threads |-> "Idle"]
    /\ old = [t \in Threads |-> [free |-> FALSE, woken |-> FALSE, n |-> 0]]
    /\ woken = [t \in Threads |-> FALSE]

Goto(t, l) == pc' = [pc EXCEPT ![t] = l]
Save(t, v) == old' = [old EXCEPT ![t] = v]

-----------------------------------------------------------------------------
(* _KeAcquireGuardedMutex, its Unsafe variant and _KeTryToAcquire...: the   *)
(* lock bit is reset; if it was not set, the first two go to the slow path  *)
(* and the last gives up.                                                   *)
AcquireFast(t) ==
    /\ pc[t] = "Idle"
    /\ count' = [count EXCEPT !.free = FALSE]
    /\ Goto(t, IF count.free THEN "SetOwner" ELSE "AcqLoad")
    /\ UNCHANGED <<owner, signal, old, woken>>

(* KiAcquireGuardedMutex: the load at the head of the outer loop. *)
AcquireLoad(t) ==
    /\ pc[t] = "AcqLoad"
    /\ Save(t, count)
    /\ Goto(t, "AcqLoop")
    /\ UNCHANGED <<count, owner, signal, woken>>

(* Mutants: the lock bit, or the woken bit, is not removed. *)
TakenStillFree(v, w)  == [free |-> v.free, woken |-> v.woken # w, n |-> v.n]
TakenStillWoken(v, w) == [free |-> ~v.free, woken |-> v.woken, n |-> v.n]

(* OldValue ^ BitsToRemove *)
Taken(v, w) == [free |-> ~v.free, woken |-> v.woken # w, n |-> v.n]

(* OldValue + BitsToAdd: a new waiter adds GM_LOCK_WAITER_INC; a woken one  *)
(* adds GM_LOCK_WAITER_WOKEN, which carries from the woken bit, if that is  *)
(* set, into the number of waiters.                                         *)
Registered(v, w) ==
    [free |-> v.free, woken |-> v.woken # w,
     n |-> IF w /\ ~v.woken THEN v.n ELSE v.n + 1]

(* The inner loop: take the mutex when it is free, else register and wait. *)
AcquireLoop(t) ==
    /\ pc[t] = "AcqLoop"
    /\ \/ /\ count = old[t] /\ old[t].free
          /\ count' = Taken(old[t], woken[t])
          /\ Goto(t, "SetOwner")
          /\ woken' = [woken EXCEPT ![t] = FALSE]
          /\ UNCHANGED old
       \/ /\ count = old[t] /\ ~old[t].free
          /\ count' = Registered(old[t], woken[t])
          /\ Goto(t, "Gate")
          /\ woken' = [woken EXCEPT ![t] = FALSE]
          /\ UNCHANGED old
       \/ /\ count # old[t]
          /\ Save(t, count)
          /\ UNCHANGED <<count, pc, woken>>
    /\ UNCHANGED <<owner, signal>>

(* KeWaitForGate: consume the signal, or go to sleep on the gate. *)
WaitForGate(t) ==
    /\ pc[t] = "Gate"
    /\ signal' = FALSE
    /\ Goto(t, IF signal THEN "AcqLoad" ELSE "Asleep")
    /\ woken' = [woken EXCEPT ![t] = signal]
    /\ UNCHANGED <<count, owner, old>>

SetOwner(t) ==
    /\ pc[t] = "SetOwner"
    /\ owner' = t
    /\ Goto(t, "Held")
    /\ UNCHANGED <<count, signal, old, woken>>

-----------------------------------------------------------------------------
(* _KeReleaseGuardedMutex and its Unsafe variant *)
ReleaseOwner(t) ==
    /\ pc[t] = "Held"
    /\ owner' = NoThread
    /\ Goto(t, "RelAdd")
    /\ UNCHANGED <<count, signal, old, woken>>

(* Mutant: a single waiter is overlooked. *)
ReleaseAddOffByOne(t) ==
    /\ pc[t] = "RelAdd"
    /\ count' = [count EXCEPT !.free = TRUE]
    /\ Save(t, [count EXCEPT !.free = TRUE])
    /\ Goto(t, IF count.n > 1 /\ ~count.woken THEN "RelCas" ELSE "Idle")
    /\ UNCHANGED <<owner, signal, woken>>

(* Add the lock bit.  OldValue # 0 with the woken bit clear means waiters. *)
ReleaseAdd(t) ==
    /\ pc[t] = "RelAdd"
    /\ count' = [count EXCEPT !.free = TRUE]
    /\ Save(t, [count EXCEPT !.free = TRUE])
    /\ Goto(t, IF count.n # 0 /\ ~count.woken THEN "RelCas" ELSE "Idle")
    /\ UNCHANGED <<owner, signal, woken>>

(* Mutant: the number of waiters is not decremented. *)
OneWokenKept(v) == [free |-> v.free, woken |-> TRUE, n |-> v.n]

(* OldValue - GM_LOCK_WAITER_INC + GM_LOCK_WAITER_WOKEN *)
OneWoken(v) == [free |-> v.free, woken |-> TRUE, n |-> v.n - 1]

(* One waiter becomes the woken one, unless the mutex was taken meanwhile. *)
ReleaseCas(t) ==
    /\ pc[t] = "RelCas"
    /\ \/ /\ count = old[t]
          /\ count' = OneWoken(old[t])
          /\ Goto(t, "RelSignal")
       \/ /\ count # old[t]
          /\ Goto(t, "Idle")
          /\ UNCHANGED count
    /\ UNCHANGED <<owner, signal, old, woken>>

(* Mutant: a signal that finds nobody asleep is dropped. *)
ReleaseSignalDropped(t) ==
    /\ pc[t] = "RelSignal"
    /\ \/ \E u \in Threads :
             /\ pc[u] = "Asleep"
             /\ pc' = [pc EXCEPT ![t] = "Idle", ![u] = "AcqLoad"]
             /\ woken' = [woken EXCEPT ![u] = TRUE]
       \/ /\ \A u \in Threads : pc[u] # "Asleep"
          /\ Goto(t, "Idle")
          /\ UNCHANGED woken
    /\ UNCHANGED <<count, owner, signal, old>>

(* KeSignalGateBoostPriority: ready a thread that sleeps on the gate, or    *)
(* leave the signal for one that is about to.  The wait list is a queue;    *)
(* which sleeper is chosen is left open here.                               *)
ReleaseSignal(t) ==
    /\ pc[t] = "RelSignal"
    /\ \/ /\ ~signal
          /\ \E u \in Threads :
                /\ pc[u] = "Asleep"
                /\ pc' = [pc EXCEPT ![t] = "Idle", ![u] = "AcqLoad"]
                /\ woken' = [woken EXCEPT ![u] = TRUE]
          /\ UNCHANGED signal
       \/ /\ signal \/ \A u \in Threads : pc[u] # "Asleep"
          /\ signal' = TRUE
          /\ Goto(t, "Idle")
          /\ UNCHANGED woken
    /\ UNCHANGED <<count, owner, old>>

-----------------------------------------------------------------------------
Continue(t) ==
    \/ AcquireLoad(t) \/ AcquireLoop(t) \/ WaitForGate(t) \/ SetOwner(t)
    \/ ReleaseOwner(t) \/ ReleaseAdd(t) \/ ReleaseCas(t) \/ ReleaseSignal(t)

Next == \E t \in Threads : AcquireFast(t) \/ Continue(t)

Spec == Init /\ [][Next]_vars

(* Threads inside a call are scheduled, and the holder releases in the end. *)
FairSpec == Spec /\ \A t \in Threads : WF_vars(Continue(t))

-----------------------------------------------------------------------------
TypeOK ==
    /\ count \in Count
    /\ owner \in Threads \cup {NoThread}
    /\ signal \in BOOLEAN
    /\ pc \in [Threads -> PCs]
    /\ old \in [Threads -> Count]
    /\ woken \in [Threads -> BOOLEAN]

Holding == {"SetOwner", "Held", "RelAdd"}

(* One thread at a time has the mutex, whichever way it came by it, and the *)
(* lock bit is clear exactly then.                                          *)
MutualExclusion ==
    /\ count.free => \A t \in Threads : pc[t] \notin Holding
    /\ ~count.free => \E t \in Threads : pc[t] \in Holding
    /\ \A t, u \in Threads : pc[t] \in Holding /\ pc[u] \in Holding => t = u

(* The owner field names the holder while it holds, and nobody once it has  *)
(* been cleared: the stores of Owner are not interlocked, but they are made *)
(* by the holder only.                                                      *)
OwnerIsHolder ==
    /\ \A t \in Threads : pc[t] = "Held" => owner = t
    /\ owner # NoThread => pc[owner] = "Held"

(* One thread at a time has the mutex, and Owner says which                 *)
(* (ke_x.h, lines 1590-1645): however the interlocked operations on Count   *)
(* and the plain stores of Owner interleave.                                *)
Exclusion == MutualExclusion /\ OwnerIsHolder

(* A wake-up in progress: a release about to signal, a signal nobody has    *)
(* consumed, or a woken thread that has not yet taken the mutex or          *)
(* registered again.                                                        *)
Wakes(t) == pc[t] = "RelSignal" \/ woken[t]

(* The woken bit is set exactly while one wake-up is in progress, and there *)
(* is never a second one: so the gate's single signal is never lost, and    *)
(* the sanity checks of KiAcquireGuardedMutex (wait.c 156 and 182) hold.    *)
WokenBit ==
    /\ \A t, u \in Threads : Wakes(t) /\ Wakes(u) => t = u
    /\ signal => \A t \in Threads : ~Wakes(t)
    /\ count.woken <=> signal \/ \E t \in Threads : Wakes(t)

Waiters == {t \in Threads : pc[t] \in {"Gate", "Asleep"}}

(* The number of waiters in Count is the number of threads on their way to  *)
(* the gate or asleep on it, less the one a wake-up is under way for.       *)
WaiterCount ==
    Cardinality(Waiters) =
        count.n + IF signal \/ \E t \in Threads : pc[t] = "RelSignal" THEN 1 ELSE 0

(* No wake-up is lost: whenever a thread sleeps, or is about to, somebody   *)
(* will see to it: the holder, a releaser not yet done, or a wake-up.       *)
NoLostWakeup ==
    Waiters # {} =>
        \/ ~count.free
        \/ count.woken
        \/ \E t \in Threads : pc[t] = "RelCas" /\ old[t] = count

(* When no new acquire comes, every thread gets the mutex and releases it.  *)
CallsReturn ==
    <>[][\A t \in Threads : ~AcquireFast(t)]_vars
        => <>[](\A t \in Threads : pc[t] = "Idle")

-----------------------------------------------------------------------------
(* What a call remembers: a release that has made the mutex free saw        *)
(* waiters and no wake-up in progress; a woken thread is on its way to try  *)
(* again.                                                                   *)
LocalsOK ==
    \A t \in Threads :
        /\ pc[t] = "RelCas" => old[t].free /\ ~old[t].woken
        /\ woken[t] => pc[t] \in {"AcqLoad", "AcqLoop"}

(* The inductive invariant. *)
IInv ==
    /\ TypeOK /\ LocalsOK
    /\ MutualExclusion /\ OwnerIsHolder
    /\ WokenBit /\ WaiterCount /\ NoLostWakeup
=============================================================================
