--------------------------- MODULE HandleFreeList ---------------------------
(***************************************************************************)
(* The free handles of a handle table (ntoskrnl/ex/handle.c): how          *)
(* ExpAllocateHandleTableEntry takes one and ExpFreeHandleTableEntry gives *)
(* it back.  FirstFree is a lock-free stack.  A thread that pops from it   *)
(* holds one of four push locks, chosen by the handle.  A handle is freed  *)
(* to FirstFree or, by the state of its push lock, to a second stack,      *)
(* LastFree, which is moved over when the first is empty.                  *)
(*                                                                         *)
(* Each action is one access to shared memory or one call on a push lock;  *)
(* a push lock is what RWLock says.  Handles are their indexes; 0 ends a   *)
(* list.                                                                   *)
(***************************************************************************)
EXTENDS Integers, FiniteSets

CONSTANTS Callers,      \* the threads that allocate and free handles
          PerTable,     \* the handles of one low level table
          MaxHandles,   \* bound: the table does not grow beyond
          Granted,      \* the access mask of a handle in use, which is stored
                        \* where a free one has its NextFreeTableEntry
          NoThread,     \* nobody has the lock
          LockCount     \* the number of push locks, 4 in the code

ASSUME FreeListAssumption ==
    /\ PerTable \in Nat \ {0} /\ MaxHandles \in Nat /\ PerTable <= MaxHandles
    /\ Granted \notin 0 .. MaxHandles
    /\ NoThread \notin Callers
    /\ LockCount \in Nat \ {0, 1}

VARIABLES firstFree, lastFree,
          next,         \* next[h]: NextFreeTableEntry, or GrantedAccess
          pool,         \* the last handle there is: NextHandleNeedingPool
          owner,        \* owner[i]: who has HandleTableLock[i] exclusively
          sharers,      \* sharers[i]: who has it shared
          at,           \* what each thread does next
          var,          \* var[t]: its local variables
          out,          \* history: how often each handle is in use
          raced         \* history: whether a handle was freed to the first list
                        \* while another thread was popping that very handle

freeListVars == <<firstFree, lastFree, next, pool, owner, sharers, at, var, out, raced>>

Handles == 1 .. MaxHandles
Locks   == 0 .. LockCount - 1

(* OldValue, NewValue, the handle to free, the list it goes to, a loop      *)
(* index, and whether the compare-exchange or the allocation succeeded.     *)
NoVars == [old |-> 0, new |-> 0, h |-> 0, free |-> "first", i |-> 0, ok |-> FALSE]

(* The free handles a .. b of a low level table, linked in a row. *)
Linked(a, b) == [h \in Handles |-> IF h \in a .. b - 1 THEN h + 1
                                   ELSE IF h = b THEN 0 ELSE next[h]]

FreeListInit ==
    /\ firstFree = 1 /\ lastFree = 0
    /\ next = [h \in Handles |-> IF h < PerTable THEN h + 1 ELSE 0]
    /\ pool = PerTable
    /\ owner = [i \in Locks |-> NoThread]
    /\ sharers = [i \in Locks |-> {}]
    /\ at = [t \in Callers |-> "Idle"]
    /\ var = [t \in Callers |-> NoVars]
    /\ out = [h \in Handles |-> 0]
    /\ raced = FALSE

GoOn(t, l, r) == at' = [at EXCEPT ![t] = l] /\ var' = [var EXCEPT ![t] = r]
StepTo(t, l)  == GoOn(t, l, var[t])
Old(t)        == var[t].old

Lists == <<firstFree, lastFree, next, pool>>
Locking == <<owner, sharers>>

(* The push locks. *)
IsLocked(i) == owner[i] # NoThread \/ sharers[i] # {}
Exclusive(t, i) ==
    ~IsLocked(i) /\ owner' = [owner EXCEPT ![i] = t] /\ UNCHANGED sharers
Unlock(t, i) ==
    /\ owner' = [owner EXCEPT ![i] = IF @ = t THEN NoThread ELSE @]
    /\ sharers' = [sharers EXCEPT ![i] = @ \ {t}]

LockIndex(h) == h % LockCount

-----------------------------------------------------------------------------
(* ExpAllocateHandleTableEntry: the head of the outer loop. *)
AllocateLoad(t) ==
    /\ at[t] \in {"Idle", "Load"}
    /\ GoOn(t, IF firstFree = 0 THEN "Grow" ELSE "Pop", [NoVars EXCEPT !.old = firstFree])
    /\ UNCHANGED <<Lists, Locking, out, raced>>

(* An entry seems free: get its lock.  What becomes of a thread that takes  *)
(* an access mask for a free handle is not followed.                        *)
PopLock(t) ==
    /\ at[t] = "Pop" /\ Old(t) # Granted
    /\ LET i == LockIndex(Old(t))
       IN  owner[i] = NoThread /\ sharers' = [sharers EXCEPT ![i] = @ \cup {t}]
    /\ StepTo(t, "PopCheck")
    /\ UNCHANGED <<Lists, owner, out, raced>>

(* Mutant: the list is not looked at again. *)
PopCheckNot(t) ==
    /\ at[t] = "PopCheck"
    /\ StepTo(t, "PopNext")
    /\ UNCHANGED <<Lists, Locking, out, raced>>

(* Is it still the first one, now that nobody can give it back? *)
PopCheck(t) ==
    /\ at[t] = "PopCheck"
    /\ StepTo(t, IF firstFree = Old(t) THEN "PopNext" ELSE "PopUnlock")
    /\ UNCHANGED <<Lists, Locking, out, raced>>

PopNext(t) ==
    /\ at[t] = "PopNext"
    /\ GoOn(t, "PopCas", [var[t] EXCEPT !.new = next[Old(t)]])
    /\ UNCHANGED <<Lists, Locking, out, raced>>

PopCas(t) ==
    /\ at[t] = "PopCas"
    /\ firstFree' = IF firstFree = Old(t) THEN var[t].new ELSE firstFree
    /\ GoOn(t, "PopUnlock", [var[t] EXCEPT !.ok = firstFree = Old(t)])
    /\ UNCHANGED <<lastFree, next, pool, Locking, out, raced>>

(* Got it, or once more. *)
PopUnlock(t) ==
    /\ at[t] = "PopUnlock"
    /\ Unlock(t, LockIndex(Old(t)))
    /\ StepTo(t, IF var[t].ok THEN "Write" ELSE "Load")
    /\ UNCHANGED <<Lists, out, raced>>

(* ExCreateHandle writes the entry, its access mask included. *)
WriteHandle(t) ==
    /\ at[t] = "Write"
    /\ next' = [next EXCEPT ![Old(t)] = Granted]
    /\ out' = [out EXCEPT ![Old(t)] = @ + 1]
    /\ GoOn(t, "Idle", NoVars)
    /\ UNCHANGED <<firstFree, lastFree, pool, Locking, raced>>

-----------------------------------------------------------------------------
(* No free entries remain, lock the handle table ... *)
GrowLock(t) ==
    /\ at[t] = "Grow"
    /\ Exclusive(t, 0)
    /\ StepTo(t, "GrowCheck")
    /\ UNCHANGED <<Lists, out, raced>>

(* ... and check again. *)
GrowCheck(t) ==
    /\ at[t] = "GrowCheck"
    /\ GoOn(t, IF firstFree = 0 THEN "Move" ELSE "GrowUnlock",
            [var[t] EXCEPT !.old = firstFree])
    /\ UNCHANGED <<Lists, Locking, out, raced>>

(* ExpMoveFreeHandles: take the second list ... *)
MoveTake(t) ==
    /\ at[t] = "Move"
    /\ lastFree' = 0
    /\ GoOn(t, IF lastFree = 0 THEN "Slow" ELSE "MoveWait",
            [var[t] EXCEPT !.old = lastFree, !.i = 1])
    /\ UNCHANGED <<firstFree, next, pool, Locking, out, raced>>

(* ... wait for those who hold one of the other locks (ExWaitOnPushLock) *)
MoveNext(t) ==
    GoOn(t, IF var[t].i < LockCount - 1 THEN "MoveWait" ELSE "MoveCas", [var[t] EXCEPT !.i = @ + 1])

MoveWait(t) ==
    /\ at[t] = "MoveWait"
    /\ IF IsLocked(var[t].i) THEN StepTo(t, "MoveLock") ELSE MoveNext(t)
    /\ UNCHANGED <<Lists, Locking, out, raced>>

MoveLock(t) ==
    /\ at[t] = "MoveLock"
    /\ Exclusive(t, var[t].i)
    /\ StepTo(t, "MoveUnlock")
    /\ UNCHANGED <<Lists, out, raced>>

MoveUnlock(t) ==
    /\ at[t] = "MoveUnlock"
    /\ Unlock(t, var[t].i)
    /\ MoveNext(t)
    /\ UNCHANGED <<Lists, out, raced>>

(* ... and make it the first, if that is still empty.  If not, the code is  *)
(* where only a strict FIFO table should come: it returns the same.         *)
MoveCas(t) ==
    /\ at[t] = "MoveCas"
    /\ firstFree' = IF firstFree = 0 THEN Old(t) ELSE firstFree
    /\ StepTo(t, IF firstFree = 0 THEN "GrowUnlock" ELSE "Reverse")
    /\ UNCHANGED <<lastFree, next, pool, Locking, out, raced>>

MoveReverse(t) ==
    /\ at[t] = "Reverse"
    /\ StepTo(t, "GrowUnlock")
    /\ UNCHANGED <<Lists, Locking, out, raced>>

(* Back in the loop with a value. *)
GrowUnlock(t) ==
    /\ at[t] = "GrowUnlock"
    /\ Unlock(t, 0)
    /\ StepTo(t, "Pop")
    /\ UNCHANGED <<Lists, out, raced>>

-----------------------------------------------------------------------------
(* ExpAllocateHandleTableEntrySlow: a new low level table, or no memory. *)
SlowAllocate(t) ==
    /\ at[t] = "Slow"
    /\ \/ /\ pool + PerTable <= MaxHandles
          /\ pool' = pool + PerTable
          /\ next' = Linked(pool + 1, pool + PerTable)
          /\ GoOn(t, "SlowLoad", [var[t] EXCEPT !.i = pool + 1, !.ok = TRUE])
       \/ /\ StepTo(t, "SlowUnlock")
          /\ UNCHANGED <<pool, next>>
    /\ UNCHANGED <<firstFree, lastFree, Locking, out, raced>>

(* Its entries are put before the first free one. *)
SlowLoad(t) ==
    /\ at[t] = "SlowLoad"
    /\ next' = [next EXCEPT ![var[t].i + PerTable - 1] = firstFree]
    /\ GoOn(t, "SlowCas", [var[t] EXCEPT !.old = firstFree])
    /\ UNCHANGED <<firstFree, lastFree, pool, Locking, out, raced>>

SlowCas(t) ==
    /\ at[t] = "SlowCas"
    /\ firstFree' = IF firstFree = Old(t) THEN var[t].i ELSE firstFree
    /\ StepTo(t, IF firstFree = Old(t) THEN "SlowUnlock" ELSE "SlowLoad")
    /\ UNCHANGED <<lastFree, next, pool, Locking, out, raced>>

SlowUnlock(t) ==
    /\ at[t] = "SlowUnlock"
    /\ Unlock(t, 0)
    /\ StepTo(t, "SlowReload")
    /\ UNCHANGED <<Lists, out, raced>>

(* Fail only if the table could not grow and nothing was freed meanwhile. *)
SlowReload(t) ==
    /\ at[t] = "SlowReload"
    /\ \/ /\ firstFree # 0
          /\ GoOn(t, "Pop", [NoVars EXCEPT !.old = firstFree])
       \/ /\ firstFree = 0
          /\ GoOn(t, IF var[t].ok THEN "Grow" ELSE "Idle", NoVars)
    /\ UNCHANGED <<Lists, Locking, out, raced>>

-----------------------------------------------------------------------------
(* The threads that have seen h first under its lock and not yet exchanged it. *)
Popping(h) == {t \in Callers : at[t] \in {"PopNext", "PopCas"} /\ Old(t) = h}

(* ExpFreeHandleTableEntry, of a handle in use: select a list. *)
FreeSelect(t, h) ==
    /\ at[t] = "Idle" /\ out[h] > 0
    /\ out' = [out EXCEPT ![h] = @ - 1]
    /\ LET list == IF IsLocked(LockIndex(h)) THEN "first" ELSE "last"
       IN  /\ GoOn(t, "FreeLoad", [NoVars EXCEPT !.h = h, !.free = list])
           /\ raced' = (raced \/ (list = "first" /\ Popping(h) # {}))
    /\ UNCHANGED <<Lists, Locking>>

Top(f) == IF f = "first" THEN firstFree ELSE lastFree

FreeLoad(t) ==
    /\ at[t] = "FreeLoad"
    /\ LET top == Top(var[t].free)
       IN  /\ next' = [next EXCEPT ![var[t].h] = top]
           /\ GoOn(t, "FreeCas", [var[t] EXCEPT !.old = top])
    /\ UNCHANGED <<firstFree, lastFree, pool, Locking, out, raced>>

(* Mutant: the handle is stored, whatever is first by now. *)
FreeCasStore(t) ==
    /\ at[t] = "FreeCas"
    /\ firstFree' = IF var[t].free = "first" THEN var[t].h ELSE firstFree
    /\ lastFree' = IF var[t].free = "last" THEN var[t].h ELSE lastFree
    /\ GoOn(t, "Idle", NoVars)
    /\ UNCHANGED <<next, pool, Locking, out, raced>>

FreeCas(t) ==
    /\ at[t] = "FreeCas"
    /\ \/ /\ Top(var[t].free) = Old(t)
          /\ firstFree' = IF var[t].free = "first" THEN var[t].h ELSE firstFree
          /\ lastFree' = IF var[t].free = "last" THEN var[t].h ELSE lastFree
          /\ GoOn(t, "Idle", NoVars)
       \/ /\ Top(var[t].free) # Old(t)
          /\ StepTo(t, "FreeLoad")
          /\ UNCHANGED <<firstFree, lastFree>>
    /\ UNCHANGED <<next, pool, Locking, out, raced>>

-----------------------------------------------------------------------------
Pop(t) ==
    \/ AllocateLoad(t) \/ PopLock(t) \/ PopCheck(t) \/ PopNext(t) \/ PopCas(t)
    \/ PopUnlock(t) \/ WriteHandle(t)

Grow(t) ==
    \/ GrowLock(t) \/ GrowCheck(t) \/ GrowUnlock(t)
    \/ MoveTake(t) \/ MoveWait(t) \/ MoveLock(t) \/ MoveUnlock(t) \/ MoveCas(t)
    \/ MoveReverse(t)
    \/ SlowAllocate(t) \/ SlowLoad(t) \/ SlowCas(t) \/ SlowUnlock(t) \/ SlowReload(t)

Push(t) == (\E h \in Handles : FreeSelect(t, h)) \/ FreeLoad(t) \/ FreeCas(t)

FreeListNext == \E t \in Callers : Pop(t) \/ Grow(t) \/ Push(t)

FreeListSpec == FreeListInit /\ [][FreeListNext]_freeListVars

-----------------------------------------------------------------------------
Link == 0 .. MaxHandles \cup {Granted}

Places == {"Idle", "Load", "Pop", "PopCheck", "PopNext", "PopCas", "PopUnlock",
        "Write", "Grow", "GrowCheck", "GrowUnlock", "Move", "MoveWait", "MoveLock",
        "MoveUnlock", "MoveCas", "Reverse", "Slow", "SlowLoad", "SlowCas",
        "SlowUnlock", "SlowReload", "FreeLoad", "FreeCas"}

FreeListTypeOK ==
    /\ firstFree \in 0 .. MaxHandles /\ lastFree \in 0 .. MaxHandles
    /\ next \in [Handles -> Link]
    /\ pool \in 0 .. MaxHandles
    /\ owner \in [Locks -> Callers \cup {NoThread}]
    /\ sharers \in [Locks -> SUBSET Callers]
    /\ at \in [Callers -> Places]
    /\ var \in [Callers -> [old : 0 .. MaxHandles, new : Link, h : 0 .. MaxHandles,
                            free : {"first", "last"}, i : 0 .. MaxHandles + LockCount, ok : BOOLEAN]]
    /\ out \in [Handles -> Nat]

(* The threads that have just got a handle, or are giving it back. *)
Taking(h)  == {t \in Callers : at[t] \in {"PopUnlock", "Write"} /\ var[t].ok /\ Old(t) = h}
Freeing(h) == {t \in Callers : at[t] \in {"FreeLoad", "FreeCas"} /\ var[t].h = h}

(* A handle has one user: it is not handed out while it is in use, however  *)
(* pops, frees, the growth of the table and the move of the second list     *)
(* interleave, as long as no handle is freed to the first list while        *)
(* another thread pops it, which line 304 lets happen.                      *)
OneUserUnlessRaced ==
    raced \/ /\ FreeListTypeOK
             /\ \A h \in Handles :
                   out[h] + Cardinality(Taking(h)) + Cardinality(Freeing(h)) <= 1

(* "Make sure that the new handle is in range" (handle.c 778): a pop that   *)
(* succeeded has made a handle, or none, the first free one, and not what   *)
(* an entry in use has in the same place.                                   *)
NewHandleInRange ==
    \A t \in Callers : at[t] = "PopUnlock" /\ var[t].ok => var[t].new \in 0 .. pool

(* It is in range as long as that race has not happened: no other order of  *)
(* pops, frees, moves and growth makes the compare-exchange install a link  *)
(* that is out of date.                                                     *)
InRangeUnlessRaced == raced \/ NewHandleInRange
=============================================================================
