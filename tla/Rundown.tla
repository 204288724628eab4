------------------------------ MODULE Rundown ------------------------------
(***************************************************************************)
(* Run-down protection: ntoskrnl/ex/rundown.c and its inlined fast paths   *)
(* in ntoskrnl/include/internal/ex.h.                                      *)
(*                                                                         *)
(* One EX_RUNDOWN_REF is shared by the threads.  Each action is the code   *)
(* between two accesses to shared memory: one load or one interlocked      *)
(* operation on the word, on a wait block or on its event.                 *)
(*                                                                         *)
(* References are modelled as tokens, so that "who still has one" can be   *)
(* told from the number the code keeps.  A token need not be given back by *)
(* the thread that took it.                                                *)
(***************************************************************************)
EXTENDS Integers, FiniteSets

CONSTANTS Threads,      \* the threads that use the object
          Refs,         \* the tokens: their number bounds the references out
          NoBlock       \* the word holds no wait block

ASSUME RefsAssumption == IsFiniteSet(Refs)
ASSUME NoBlockAssumption == NoBlock \notin Threads

VARIABLES runRef,       \* RunRef->Count
          block,        \* block[t]: the wait block on the stack of t
          pc,           \* what each thread does next
          val,          \* the local variable Value of each thread
          op,           \* the tokens the thread's call acquires or releases
          out           \* history: the tokens granted and not yet given back

vars == <<runRef, block, pc, val, op, out>>

-----------------------------------------------------------------------------
(***************************************************************************)
(* The word.  Bit 0 is EX_RUNDOWN_ACTIVE; above it is a count of           *)
(* references or, when the bit is set, the address of a wait block.        *)
(***************************************************************************)
Word == [active : BOOLEAN, n : Int, ptr : Threads \cup {NoBlock}]

(* Mutant: ACTIVE is stored without bit 0. *)
ActiveWithoutBit == [active |-> FALSE, n |-> 0, ptr |-> NoBlock]

Counter(k) == [active |-> FALSE, n |-> k, ptr |-> NoBlock]
Active     == [active |-> TRUE,  n |-> 0, ptr |-> NoBlock]
Ptr(t)     == [active |-> TRUE,  n |-> 0, ptr |-> t]

(* Mutants: the bit is not masked; an Ex routine ignores its Count. *)
Unmasked(v)  == v
AddOne(v, k) == [v EXCEPT !.n = v.n + IF k > 0 THEN 1 ELSE -1]

(* Value & ~EX_RUNDOWN_ACTIVE, and Value + EX_RUNDOWN_COUNT_INC * k *)
Mask(v)   == [v EXCEPT !.active = FALSE]
Add(v, k) == [v EXCEPT !.n = v.n + k]

AcquirePCs == {"AcqFast", "AcqSlow", "AcqLoop"}
ReleasePCs == {"RelFast", "RelSlow", "RelLoop"}
WaitPCs    == {"WaitSlow", "WaitLoop", "WaitEvent", "Drained"}
PCs        == {"Idle", "RelSignal"} \cup AcquirePCs \cup ReleasePCs \cup WaitPCs

(* ExInitializeRundownProtection *)
Init ==
    /\ runRef = Counter(0)
    /\ block = [t \in Threads |-> [count |-> 0, event |-> FALSE]]
    /\ pc = [t \in Threads |-> "Idle"]
    /\ val = [t \in Threads |-> Counter(0)]
    /\ op = [t \in Threads |-> {}]
    /\ out = {}

(* No other call is acquiring or releasing one of these tokens. *)
Unclaimed(S) == \A u \in Threads : op[u] \cap S = {}

Goto(t, l) == pc' = [pc EXCEPT ![t] = l]

(* The call of t returns. *)
Return(t, l) == Goto(t, l) /\ op' = [op EXCEPT ![t] = {}]

-----------------------------------------------------------------------------
(* _ExAcquireRundownProtection: read the word and mask the active bit. *)
AcquireFastLoad(t) ==
    /\ pc[t] = "Idle"
    /\ \E r \in Refs \ out :
          Unclaimed({r}) /\ op' = [op EXCEPT ![t] = {r}]
    /\ val' = [val EXCEPT ![t] = Mask(runRef)]
    /\ Goto(t, "AcqFast")
    /\ UNCHANGED <<runRef, block, out>>

(* ... and the compare-exchange that adds one reference. *)
AcquireFastCas(t) ==
    /\ pc[t] = "AcqFast"
    /\ \/ /\ runRef = val[t]
          /\ runRef' = Add(val[t], 1)
          /\ out' = out \cup op[t]
          /\ Return(t, "Idle")
       \/ /\ runRef # val[t]
          /\ Goto(t, "AcqSlow")
          /\ UNCHANGED <<runRef, op, out>>
    /\ UNCHANGED <<block, val>>

(* ExfAcquireRundownProtection: the initial load. *)
AcquireSlowLoad(t) ==
    /\ pc[t] = "AcqSlow"
    /\ val' = [val EXCEPT ![t] = runRef]
    /\ Goto(t, "AcqLoop")
    /\ UNCHANGED <<runRef, block, op, out>>

(* ExfAcquireRundownProtectionEx: several references, no fast path. *)
AcquireExLoad(t) ==
    /\ pc[t] = "Idle"
    /\ \E S \in SUBSET (Refs \ out) :
          S # {} /\ Unclaimed(S) /\ op' = [op EXCEPT ![t] = S]
    /\ val' = [val EXCEPT ![t] = runRef]
    /\ Goto(t, "AcqLoop")
    /\ UNCHANGED <<runRef, block, out>>

(* The loop of both: refuse when active, else add the references. *)
AcquireLoop(t) ==
    /\ pc[t] = "AcqLoop"
    /\ \/ /\ val[t].active
          /\ Return(t, "Idle")
          /\ UNCHANGED <<runRef, val, out>>
       \/ /\ ~val[t].active /\ runRef = val[t]
          /\ runRef' = Add(val[t], Cardinality(op[t]))
          /\ out' = out \cup op[t]
          /\ Return(t, "Idle")
          /\ UNCHANGED val
       \/ /\ ~val[t].active /\ runRef # val[t]
          /\ val' = [val EXCEPT ![t] = runRef]
          /\ UNCHANGED <<runRef, pc, op, out>>
    /\ UNCHANGED block

-----------------------------------------------------------------------------
(* _ExReleaseRundownProtection: read the word and mask the active bit. *)
ReleaseFastLoad(t) ==
    /\ pc[t] = "Idle"
    /\ \E r \in out :
          Unclaimed({r}) /\ op' = [op EXCEPT ![t] = {r}]
    /\ val' = [val EXCEPT ![t] = Mask(runRef)]
    /\ Goto(t, "RelFast")
    /\ UNCHANGED <<runRef, block, out>>

(* ... and the compare-exchange that removes one reference. *)
ReleaseFastCas(t) ==
    /\ pc[t] = "RelFast"
    /\ \/ /\ runRef = val[t]
          /\ runRef' = Add(val[t], -1)
          /\ out' = out \ op[t]
          /\ Return(t, "Idle")
       \/ /\ runRef # val[t]
          /\ Goto(t, "RelSlow")
          /\ UNCHANGED <<runRef, op, out>>
    /\ UNCHANGED <<block, val>>

(* ExfReleaseRundownProtection: the initial load. *)
ReleaseSlowLoad(t) ==
    /\ pc[t] = "RelSlow"
    /\ val' = [val EXCEPT ![t] = runRef]
    /\ Goto(t, "RelLoop")
    /\ UNCHANGED <<runRef, block, op, out>>

(* ExfReleaseRundownProtectionEx: several references, no fast path. *)
ReleaseExLoad(t) ==
    /\ pc[t] = "Idle"
    /\ \E S \in SUBSET out :
          S # {} /\ Unclaimed(S) /\ op' = [op EXCEPT ![t] = S]
    /\ val' = [val EXCEPT ![t] = runRef]
    /\ Goto(t, "RelLoop")
    /\ UNCHANGED <<runRef, block, out>>

(* The loop of both while no rundown is active. *)
ReleaseLoop(t) ==
    /\ pc[t] = "RelLoop" /\ ~val[t].active
    /\ \/ /\ runRef = val[t]
          /\ runRef' = Add(val[t], -Cardinality(op[t]))
          /\ out' = out \ op[t]
          /\ Return(t, "Idle")
          /\ UNCHANGED val
       \/ /\ runRef # val[t]
          /\ val' = [val EXCEPT ![t] = runRef]
          /\ UNCHANGED <<runRef, pc, op, out>>
    /\ UNCHANGED block

(* Rundown active: the references are taken off the count in the wait block. *)
ReleaseBlock(t) ==
    /\ pc[t] = "RelLoop" /\ val[t].active
    /\ LET w == val[t].ptr
           left == block[w].count - Cardinality(op[t])
       IN  /\ block' = [block EXCEPT ![w].count = left]
           /\ Return(t, IF left = 0 THEN "RelSignal" ELSE "Idle")
    /\ out' = out \ op[t]
    /\ UNCHANGED <<runRef, val>>

(* Mutant: the event is not set. *)
ReleaseSignalLost(t) ==
    /\ pc[t] = "RelSignal"
    /\ Goto(t, "Idle")
    /\ UNCHANGED <<runRef, block, val, op, out>>

(* KeSetEvent by the releaser that brought the count to zero. *)
ReleaseSignal(t) ==
    /\ pc[t] = "RelSignal"
    /\ block' = [block EXCEPT ![val[t].ptr].event = TRUE]
    /\ Goto(t, "Idle")
    /\ UNCHANGED <<runRef, val, op, out>>

-----------------------------------------------------------------------------
(***************************************************************************)
(* The caller's side of the contract: one thread at a time runs the object *)
(* down (every caller in the repository is the object's deleter).          *)
(***************************************************************************)
NoRundown == \A u \in Threads : pc[u] \notin WaitPCs

(* _ExWaitForRundownProtectionRelease: nothing to wait for, or slow path. *)
WaitFast(t) ==
    /\ pc[t] = "Idle" /\ NoRundown
    /\ runRef' = IF runRef = Counter(0) THEN Active ELSE runRef
    /\ Goto(t, IF runRef \in {Counter(0), Active} THEN "Drained" ELSE "WaitSlow")
    /\ UNCHANGED <<block, val, op, out>>

(* ExfWaitForRundownProtectionRelease: the same test again. *)
WaitSlow(t) ==
    /\ pc[t] = "WaitSlow"
    /\ runRef' = IF runRef = Counter(0) THEN Active ELSE runRef
    /\ Goto(t, IF runRef \in {Counter(0), Active} THEN "Drained" ELSE "WaitLoop")
    /\ val' = [val EXCEPT ![t] = runRef]
    /\ UNCHANGED <<block, op, out>>

(* Set up the wait block and exchange the count for its address. *)
WaitLoop(t) ==
    /\ pc[t] = "WaitLoop"
    /\ block' = [block EXCEPT ![t] = [count |-> val[t].n, event |-> FALSE]]
    /\ \/ /\ runRef = val[t]
          /\ runRef' = Ptr(t)
          /\ Goto(t, IF val[t].n = 0 THEN "Drained" ELSE "WaitEvent")
          /\ UNCHANGED val
       \/ /\ runRef # val[t]
          /\ val' = [val EXCEPT ![t] = runRef]
          /\ UNCHANGED <<runRef, pc>>
    /\ UNCHANGED <<op, out>>

(* Mutant: the wait does not depend on the event. *)
WaitEventSpurious(t) ==
    /\ pc[t] = "WaitEvent"
    /\ Goto(t, "Drained")
    /\ UNCHANGED <<runRef, block, val, op, out>>

(* KeWaitForSingleObject on the (synchronization) event of the block. *)
WaitEvent(t) ==
    /\ pc[t] = "WaitEvent" /\ block[t].event
    /\ block' = [block EXCEPT ![t].event = FALSE]
    /\ Goto(t, "Drained")
    /\ UNCHANGED <<runRef, val, op, out>>

(* ExRundownCompleted by the thread whose wait returned. *)
RundownCompleted(t) ==
    /\ pc[t] = "Drained"
    /\ runRef' = Active
    /\ Goto(t, "Idle")
    /\ UNCHANGED <<block, val, op, out>>

(* ExReInitializeRundownProtection once the object was run down. *)
ReInitialize(t) ==
    /\ \/ pc[t] = "Drained"
       \/ pc[t] = "Idle" /\ NoRundown /\ runRef.active
    /\ runRef' = Counter(0)
    /\ Goto(t, "Idle")
    /\ UNCHANGED <<block, val, op, out>>

-----------------------------------------------------------------------------
StartAcquire(t) == AcquireFastLoad(t) \/ AcquireExLoad(t)
StartRelease(t) == ReleaseFastLoad(t) \/ ReleaseExLoad(t)

(* The steps of a call that has begun. *)
Continue(t) ==
    \/ AcquireFastCas(t) \/ AcquireSlowLoad(t) \/ AcquireLoop(t)
    \/ ReleaseFastCas(t) \/ ReleaseSlowLoad(t) \/ ReleaseLoop(t)
    \/ ReleaseBlock(t) \/ ReleaseSignal(t)
    \/ WaitSlow(t) \/ WaitLoop(t) \/ WaitEvent(t)

Next ==
    \E t \in Threads :
        \/ StartAcquire(t)
        \/ StartRelease(t)
        \/ WaitFast(t)
        \/ Continue(t)
        \/ RundownCompleted(t)
        \/ ReInitialize(t)

Spec == Init /\ [][Next]_vars

(***************************************************************************)
(* A thread inside a call is scheduled.  A reference is given back in the  *)
(* end, even if the threads make other calls all the time: whoever has one *)
(* does not forget it.  Nobody is obliged to acquire or to run down.       *)
(***************************************************************************)
Fairness ==
    /\ \A t \in Threads : WF_vars(Continue(t))
    /\ \A r \in Refs :
          SF_vars(\E t \in Threads : StartRelease(t) /\ r \in op'[t])

FairSpec == Spec /\ Fairness

-----------------------------------------------------------------------------
TypeOK ==
    /\ runRef \in Word
    /\ block \in [Threads -> [count : Int, event : BOOLEAN]]
    /\ pc \in [Threads -> PCs]
    /\ val \in [Threads -> Word]
    /\ op \in [Threads -> SUBSET Refs]
    /\ out \in SUBSET Refs

(* ExWaitForRundownProtectionRelease returns only when no reference is out, *)
(* and none is taken until the object is initialized again: whoever waited  *)
(* may free what the references protect.                                    *)
DrainedMeansUnused ==
    \A t \in Threads : pc[t] = "Drained" => out = {} /\ runRef.active

(* A releaser that goes through the wait block, to count down or to set the *)
(* event, finds the waiter still in its wait: the block lives on the stack  *)
(* of ExfWaitForRundownProtectionRelease and is gone when that returns.     *)
NoDanglingWaitBlock ==
    \A t \in Threads :
        \/ pc[t] = "RelLoop" /\ val[t].active
        \/ pc[t] = "RelSignal"
        => val[t].ptr \in Threads /\ pc[val[t].ptr] = "WaitEvent"

(* The sanity checks of the code as they are on one processor (rundown.c    *)
(* 209, 225, 273, 290, 368 and 376; ex.h 883): a count is never taken below *)
(* zero by a stale value, the wait loop meets no other rundown, and the     *)
(* waiter is woken at zero only.                                            *)
SanityChecks ==
    \A t \in Threads :
        /\ pc[t] = "RelFast" /\ runRef = val[t] => val[t].n >= 1
        /\ pc[t] = "RelLoop" =>
              IF val[t].active THEN block[val[t].ptr].count >= Cardinality(op[t])
                               ELSE val[t].n >= Cardinality(op[t])
        /\ pc[t] = "WaitLoop" => ~val[t].active
        /\ pc[t] = "WaitEvent" /\ block[t].event => block[t].count = 0

(* Once a rundown is active no call acquires, whatever it read before: the  *)
(* references only get fewer until the object is initialized again.         *)
NoLateAcquire == [][runRef.active => out' \subseteq out]_vars

(* A published wait ends: no wake-up is lost between the last releaser's    *)
(* decrement and its KeSetEvent, however the releases interleave.           *)
WaitReturns ==
    \A t \in Threads : pc[t] = "WaitEvent" ~> pc[t] = "Drained"

-----------------------------------------------------------------------------
(* The object as its users see it. *)
Gate == IF ~runRef.active THEN "open"
        ELSE IF \E t \in Threads : pc[t] = "WaitEvent" THEN "draining"
        ELSE "closed"

Abstract == INSTANCE RundownProtection WITH gate <- Gate, refs <- out

(* Every step of the code is a step of the promise or leaves it unchanged. *)
ImplementsRundownProtection == Abstract!Spec

-----------------------------------------------------------------------------
(***************************************************************************)
(* The inductive invariant behind the properties.                          *)
(***************************************************************************)
(* The calls in flight claim different tokens, and say what they claim. *)
ClaimsOK ==
    /\ \A t, u \in Threads : t # u => op[t] \cap op[u] = {}
    /\ \A t \in Threads :
          /\ pc[t] \in AcquirePCs => op[t] # {} /\ op[t] \cap out = {}
          /\ pc[t] \in ReleasePCs => op[t] # {} /\ op[t] \subseteq out
          /\ pc[t] \in {"AcqFast", "RelFast"} => Cardinality(op[t]) = 1
          /\ pc[t] \notin AcquirePCs \cup ReleasePCs => op[t] = {}

(* Only one thread runs the object down. *)
OneRundown ==
    \A t, u \in Threads : pc[t] \in WaitPCs /\ pc[u] \in WaitPCs => t = u

(* The count of the references that are out is in the word, or in the wait  *)
(* block the word points to; the last releaser sets the event of that block.*)
WordOK ==
    /\ ~runRef.active => /\ runRef = Counter(Cardinality(out))
                         /\ \A t \in Threads :
                               pc[t] \notin {"WaitEvent", "Drained", "RelSignal"}
    /\ runRef.active /\ runRef.ptr = NoBlock =>
          runRef = Active /\ out = {}
    /\ runRef.active /\ runRef.ptr # NoBlock =>
          LET w == runRef.ptr
          IN  /\ runRef = Ptr(w)
              /\ pc[w] \in {"WaitEvent", "Drained"}
              /\ pc[w] = "WaitEvent" => block[w].count = Cardinality(out)
              /\ pc[w] = "Drained" => out = {}

(* While a wait block is published its waiter sleeps; the event is set, or  *)
(* one releaser is about to set it, exactly when the count is zero.         *)
SignalOK ==
    /\ \A t \in Threads : pc[t] = "WaitEvent" =>
          /\ runRef = Ptr(t)
          /\ block[t].event => out = {}
    /\ \A t \in Threads : pc[t] = "RelSignal" =>
          /\ val[t].ptr \in Threads
          /\ pc[val[t].ptr] = "WaitEvent"
          /\ ~block[val[t].ptr].event
          /\ out = {}
    /\ \A t, u \in Threads : pc[t] = "RelSignal" /\ pc[u] = "RelSignal" => t = u

(* What a call remembers of the word is still of use. *)
ValuesOK ==
    \A t \in Threads :
        /\ pc[t] = "AcqFast" => ~val[t].active
        /\ pc[t] = "RelFast" => ~val[t].active
        /\ pc[t] = "RelLoop" /\ val[t].active => runRef = val[t]
        /\ pc[t] = "RelLoop" /\ ~val[t].active => val[t].n >= Cardinality(op[t])
        /\ pc[t] = "WaitLoop" => val[t].active = FALSE
        /\ pc[t] \in {"WaitSlow", "WaitLoop"} => ~runRef.active

IInv ==
    TypeOK /\ ClaimsOK /\ OneRundown /\ WordOK /\ SignalOK /\ ValuesOK
=============================================================================
