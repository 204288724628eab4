------------------------- MODULE RundownCacheAware -------------------------
(***************************************************************************)
(* Cache-aware run-down protection (the second half of                     *)
(* ntoskrnl/ex/rundown.c): one EX_RUNDOWN_REF per processor.  A reference  *)
(* is taken on the word of the processor the thread runs on and given back *)
(* on the word of the processor it runs on by then, so a single word can   *)
(* be negative and only the sum of all of them means something.            *)
(*                                                                         *)
(* The operations on one word are those of Rundown; here a call on a word  *)
(* that holds a count is one step (its successful compare-exchange), and a *)
(* release that finds the wait block keeps its three steps: reading the    *)
(* word, counting down, setting the event.                                 *)
(***************************************************************************)
EXTENDS Integers, FiniteSets, Functions

CONSTANTS Threads,      \* the threads that acquire and release
          Refs,         \* the tokens: their number bounds the references out
          CPUs,         \* the processor numbers
          Number,       \* RunRefCacheAware->Number
          MaxDrift      \* bound: how far from zero a single word may drift

ASSUME NumberAssumption == Number \in Nat \ {0} /\ CPUs \subseteq Nat
ASSUME CARefsAssumption == IsFiniteSet(Refs)

VARIABLES ref,          \* ref[i]: RunRefs[i], a count or what replaced it
          block,        \* the wait block on the stack of the waiter
          wpc,          \* what the thread that runs the object down does next
          current,      \* ... its loop index Current
          total,        \* ... its TotalCount >> EX_RUNDOWN_COUNT_SHIFT
          pc, op,       \* what the other threads do, with which tokens
          out           \* history: the tokens granted and not yet given back

vars == <<ref, block, wpc, current, total, pc, op, out>>

Slots == 0 .. Number - 1

(* ExGetRunRefForGivenProcessor *)
Slot(p) == p % Number

(* Mutant: the address of the block stored without the active bit. *)
BlockWithoutBit == [is |-> "count", n |-> 0]

(* The states of a word: a count, the address of the wait block, ACTIVE. *)
Count(k) == [is |-> "count", n |-> k]
Block    == [is |-> "block", n |-> 0]
Active   == [is |-> "active", n |-> 0]
Word     == [is : {"count", "block", "active"}, n : Int]

Init ==
    /\ ref = [i \in Slots |-> Count(0)]
    /\ block = [count |-> 0, event |-> "uninit"]
    /\ wpc = "Idle" /\ current = 0 /\ total = 0
    /\ pc = [t \in Threads |-> "Idle"]
    /\ op = [t \in Threads |-> {}]
    /\ out = {}

Waiter == <<wpc, current, total>>

Unclaimed(S) == \A u \in Threads : op[u] \cap S = {}

-----------------------------------------------------------------------------
(* ExfAcquireRundownProtectionCacheAware and ...Ex: granted when the word   *)
(* of this processor holds a count.  Users are kept away while the object   *)
(* is initialized again word by word: see the README.                       *)
AcquireCacheAware(t, p, S) ==
    /\ pc[t] = "Idle" /\ wpc # "ReInit"
    /\ S # {} /\ S \cap out = {} /\ Unclaimed(S)
    /\ ref[Slot(p)].is = "count" /\ ref[Slot(p)].n + Cardinality(S) <= MaxDrift
    /\ ref' = [ref EXCEPT ![Slot(p)].n = @ + Cardinality(S)]
    /\ out' = out \cup S
    /\ UNCHANGED <<block, Waiter, pc, op>>

(* ExfReleaseRundownProtectionCacheAware and ...Ex on a word with a count. *)
ReleaseCacheAware(t, p, S) ==
    /\ pc[t] = "Idle"
    /\ S # {} /\ S \subseteq out /\ Unclaimed(S)
    /\ ref[Slot(p)].is = "count" /\ ref[Slot(p)].n - Cardinality(S) >= -MaxDrift
    /\ ref' = [ref EXCEPT ![Slot(p)].n = @ - Cardinality(S)]
    /\ out' = out \ S
    /\ UNCHANGED <<block, Waiter, pc, op>>

(* ... on a word that was exchanged for the wait block. *)
ReleaseFindsBlock(t, p, S) ==
    /\ pc[t] = "Idle"
    /\ S # {} /\ S \subseteq out /\ Unclaimed(S)
    /\ ref[Slot(p)].is = "block"
    /\ op' = [op EXCEPT ![t] = S]
    /\ pc' = [pc EXCEPT ![t] = "RelBlock"]
    /\ UNCHANGED <<ref, block, Waiter, out>>

(* The wait block is on the stack of the waiter until its wait returns. *)
BlockLive == wpc \in {"Collect", "Add", "Wait"}

(* The count in the block goes down, below zero while it has not been added *)
(* to.  If the waiter returned, the releaser counts down a word of a stack  *)
(* frame that is gone: it finds any value there, also the one that makes it *)
(* set the event.                                                           *)
ReleaseBlock(t) ==
    /\ pc[t] = "RelBlock"
    /\ out' = out \ op[t]
    /\ op' = [op EXCEPT ![t] = {}]
    /\ LET left == block.count - Cardinality(op[t])
       IN  \/ /\ BlockLive
              /\ block' = [block EXCEPT !.count = left]
              /\ pc' = [pc EXCEPT ![t] = IF left = 0 THEN "RelSignal" ELSE "Idle"]
           \/ /\ ~BlockLive
              /\ \E next \in {"Idle", "RelSignal"} : pc' = [pc EXCEPT ![t] = next]
              /\ UNCHANGED block
    /\ UNCHANGED <<ref, Waiter>>

(* KeSetEvent *)
ReleaseSignal(t) ==
    /\ pc[t] = "RelSignal"
    /\ block' = IF BlockLive THEN [block EXCEPT !.event = "set"] ELSE block
    /\ pc' = [pc EXCEPT ![t] = "Idle"]
    /\ UNCHANGED <<ref, Waiter, op, out>>

-----------------------------------------------------------------------------
(* Mutant: the loop begins with the second word. *)
WaitStartAtOne ==
    /\ wpc = "Idle" /\ ref[0].is = "count"
    /\ wpc' = "Collect" /\ current' = 1 /\ total' = 0
    /\ block' = [count |-> 0, event |-> "uninit"]
    /\ UNCHANGED <<ref, pc, op, out>>

(* ExfWaitForRundownProtectionReleaseCacheAware *)
WaitStart ==
    /\ wpc = "Idle" /\ ref[0].is = "count"
    /\ wpc' = "Collect" /\ current' = 0 /\ total' = 0
    /\ block' = [count |-> 0, event |-> "uninit"]
    /\ UNCHANGED <<ref, pc, op, out>>

(* Mutant: a word replaces the total instead of being added to it. *)
WaitCollectOverwrite ==
    /\ wpc = "Collect"
    /\ ref[current].is = "count"
    /\ ref' = [ref EXCEPT ![current] = Block]
    /\ total' = ref[current].n
    /\ current' = current + 1
    /\ wpc' = IF current + 1 < Number THEN "Collect" ELSE "Add"
    /\ UNCHANGED <<block, pc, op, out>>

(* The word of one processor is exchanged for the address of the block. *)
WaitCollect ==
    /\ wpc = "Collect"
    /\ ref[current].is = "count"
    /\ ref' = [ref EXCEPT ![current] = Block]
    /\ total' = total + ref[current].n
    /\ current' = current + 1
    /\ wpc' = IF current + 1 < Number THEN "Collect" ELSE "Add"
    /\ UNCHANGED <<block, pc, op, out>>

(* Mutant: the wait does not depend on what was in the block. *)
WaitAddAlways ==
    /\ wpc = "Add"
    /\ IF total = 0
       THEN wpc' = "Returned" /\ UNCHANGED block
       ELSE /\ block' = [count |-> block.count + total, event |-> "clear"]
            /\ wpc' = "Wait"
    /\ UNCHANGED <<ref, current, total, pc, op, out>>

(* The event is initialized and the total added to the count of the block.  *)
(* The code waits when the count was the negative of the total, that is     *)
(* when the sum is zero; otherwise it returns.                              *)
WaitAdd ==
    /\ wpc = "Add"
    /\ IF total = 0
       THEN wpc' = "Returned" /\ UNCHANGED block
       ELSE /\ block' = [count |-> block.count + total, event |-> "clear"]
            /\ wpc' = IF block.count = -total THEN "Wait" ELSE "Returned"
    /\ UNCHANGED <<ref, current, total, pc, op, out>>

(* KeWaitForSingleObject would return now.  It never does (WaitOutcome), so *)
(* the return from "Wait" is not a step of WaiterStep.                      *)
WaitSatisfied == wpc = "Wait" /\ block.event = "set"

(***************************************************************************)
(* What the caller does next is followed only where the object is unused:  *)
(* elsewhere the words point into a stack frame that is gone.              *)
(***************************************************************************)
(* ExfRundownCompletedCacheAware or ExfReInitialize...: the loop begins. *)
FinishStart ==
    /\ \/ /\ wpc = "Returned" /\ out = {} /\ \A t \in Threads : pc[t] = "Idle"
          /\ wpc' \in {"Complete", "ReInit"}
       \/ wpc = "Idle" /\ ref[0].is = "active" /\ wpc' = "ReInit"
    /\ current' = 0
    /\ UNCHANGED <<ref, block, total, pc, op, out>>

(* One iteration of either loop. *)
FinishSlot ==
    /\ wpc \in {"Complete", "ReInit"}
    /\ ref' = [ref EXCEPT ![current] = IF wpc = "Complete" THEN Active ELSE Count(0)]
    /\ current' = IF current + 1 < Number THEN current + 1 ELSE 0
    /\ wpc' = IF current + 1 < Number THEN wpc ELSE "Idle"
    /\ UNCHANGED <<block, total, pc, op, out>>

-----------------------------------------------------------------------------
Call(t) ==
    \E p \in CPUs, S \in SUBSET Refs :
        \/ AcquireCacheAware(t, p, S)
        \/ ReleaseCacheAware(t, p, S)
        \/ ReleaseFindsBlock(t, p, S)

Continue(t) == ReleaseBlock(t) \/ ReleaseSignal(t)

WaiterStep == WaitStart \/ WaitCollect \/ WaitAdd

Next ==
    \/ \E t \in Threads : Call(t) \/ Continue(t)
    \/ WaiterStep
    \/ FinishStart \/ FinishSlot

Spec == Init /\ [][Next]_vars

-----------------------------------------------------------------------------
TypeOK ==
    /\ ref \in [Slots -> Word]
    /\ block \in [count : Int, event : {"uninit", "clear", "set"}]
    /\ wpc \in {"Idle", "Collect", "Add", "Wait", "Returned", "Complete", "ReInit"}
    /\ current \in 0 .. Number
    /\ wpc \in {"Collect", "Complete", "ReInit"} => current \in Slots
    /\ total \in Int
    /\ pc \in [Threads -> {"Idle", "RelBlock", "RelSignal"}]
    /\ op \in [Threads -> SUBSET Refs]
    /\ out \in SUBSET Refs

SumOfCounts == SumFunctionOnSet([i \in Slots |-> ref[i].n], Slots)

(* While the words are collected one by one, references are still taken on  *)
(* the words not yet reached and given back on any word or in the block;    *)
(* nothing is lost or counted twice: what is still in words, what was       *)
(* collected and what the block has gone below zero make up the references. *)
Accounting ==
    /\ TypeOK
    /\ wpc \in {"Collect", "Add"} =>
          SumOfCounts + total + block.count = Cardinality(out)
    /\ wpc = "Idle" => SumOfCounts = Cardinality(out)

(* What the waiter may rely on until it waits.  Although a word can be      *)
(* negative, the total collected is not: the sanity check "we didn't        *)
(* overflow" (rundown.c 482).  And no releaser sets the event before it is  *)
(* initialized (rundown.c 487), as a count that is at most zero never       *)
(* reaches zero by going down.                                              *)
CollectingSound ==
    /\ wpc = "Add" => total >= 0
    /\ wpc \in {"Collect", "Add"} => block.event = "uninit" /\ block.count <= 0
    /\ block.event = "uninit" => \A t \in Threads : pc[t] # "RelSignal"

(* Once the last word is collected no reference is taken any more, on any   *)
(* processor, until the object is initialized again.                        *)
NoLateAcquireCacheAware ==
    [][(wpc \in {"Add", "Wait", "Returned"}) => out' \subseteq out]_vars

(* How a wait ends (rundown.c 483-497).  A call that collected nothing and  *)
(* returns at once leaves no reference out, although words and block may    *)
(* all have been counted up and down meanwhile.  A call that sleeps does so *)
(* when the last reference has come back already: no thread is left to set  *)
(* the event, and the call never returns.                                   *)
WaitOutcome ==
    /\ wpc = "Returned" /\ total = 0 => out = {}
    /\ wpc = "Wait" => /\ out = {} /\ ~WaitSatisfied
                       /\ \A t \in Threads : pc[t] = "Idle"

(* "Do we have to wait? If so, go ahead!" (rundown.c 491): the wait returns *)
(* only when no reference is out.                                           *)
CacheAwareDrained == wpc = "Returned" => out = {}
=============================================================================
