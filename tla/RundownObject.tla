--------------------------- MODULE RundownObject ---------------------------
(***************************************************************************)
(* The life of a cache-aware run-down reference (ntoskrnl/ex/rundown.c):   *)
(* its memory is allocated and laid out (RundownLayout), its words are     *)
(* used (RundownCacheAware), and when it was run down it is freed.         *)
(***************************************************************************)
EXTENDS RundownCacheAware, RundownLayout

objectVars == <<vars, layoutVars>>

ObjectInit == Init /\ LayoutInit

(* The words are there, as many as RundownCacheAware is about. *)
Usable == stage \in {"Ready", "Initialized"} /\ words.number = Number

(* The caller frees an object that nobody got to use, or that was run down  *)
(* and is left alone: no reference is out and no thread is in a call.       *)
Unused ==
    \/ words.number # Number
    \/ wpc = "Returned" /\ out = {} /\ \A t \in Threads : pc[t] = "Idle"

AllocateObject == Allocate /\ UNCHANGED vars
UseObject      == Usable /\ Next /\ UNCHANGED layoutVars
FreeObject     == Unused /\ Free /\ UNCHANGED vars

(* The memory of a caller's own buffer goes with the buffer. *)
DropBuffer ==
    /\ stage = "Initialized" /\ Unused
    /\ stage' = "Freed" /\ heap' = {}
    /\ UNCHANGED <<vars, np, master, pool, words>>

(* The next object *)
AnotherObject ==
    /\ stage \in {"Null", "Freed"}
    /\ ref' = [i \in Slots |-> Count(0)]
    /\ block' = [count |-> 0, event |-> "uninit"]
    /\ wpc' = "Idle" /\ current' = 0 /\ total' = 0
    /\ pc' = [t \in Threads |-> "Idle"] /\ op' = [t \in Threads |-> {}] /\ out' = {}
    /\ heap' = {} /\ stage' = "Start"
    /\ master' = Null /\ pool' = Null /\ words' = Unset
    /\ UNCHANGED np

ObjectNext ==
    AllocateObject \/ UseObject \/ FreeObject \/ DropBuffer \/ AnotherObject

ObjectSpec == ObjectInit /\ [][ObjectNext]_objectVars
=============================================================================
