------------------------------ MODULE PushLock ------------------------------
(***************************************************************************)
(* Push locks: ntoskrnl/ex/pushlock.c and the inlined fast paths of        *)
(* ntoskrnl/include/internal/ex.h.                                         *)
(*                                                                         *)
(* The lock is one word.  Threads that cannot have it push a wait block    *)
(* from their stack on a list the word points to; a releaser that finds    *)
(* waiters takes the Waking bit and wakes from the far end of the list.    *)
(*                                                                         *)
(* Each action is one load or one interlocked operation on shared memory,  *)
(* with the local computation around it.  A walk along the list is part of *)
(* the step that follows it: Next is set before a block is published, and  *)
(* Last and Previous are written by the one holder of the Waking bit only  *)
(* (OneWaker).  The SMP spin before the wait bit is tested only delays.    *)
(***************************************************************************)
EXTENDS Integers, FiniteSets

CONSTANTS Threads,      \* the threads that use the lock
          Calls,        \* the calls they use: "X", the exclusive ones; "S", the
                        \* shared ones; "Any", the release for either mode
          NoBlock       \* a null wait block pointer

ASSUME PushLockAssumption ==
    /\ Calls \subseteq {"X", "S", "Any"}
    /\ NoBlock \notin Threads
    /\ IsFiniteSet(Threads)

VARIABLES word,         \* the push lock
          blk,          \* blk[t]: the wait block on the stack of t
          gate,         \* gate[t]: its WakeGate is signalled
          pc,           \* what each thread does next
          loc,          \* loc[t]: its local variables
          held          \* history: what each thread holds

vars == <<word, blk, gate, pc, loc, held>>

Blocks == Threads \cup {NoBlock}

(* EX_PUSH_LOCK: above the four bits is a share count or, when Waiting is   *)
(* set, the address of the wait block pushed last.                          *)
Word == [locked : BOOLEAN, waiting : BOOLEAN, waking : BOOLEAN,
         multi : BOOLEAN, shared : Nat, ptr : Blocks]

Free == [locked |-> FALSE, waiting |-> FALSE, waking |-> FALSE,
         multi |-> FALSE, shared |-> 0, ptr |-> NoBlock]

LockedBy(n) == [Free EXCEPT !.locked = TRUE, !.shared = n]

(* EX_PUSH_LOCK_WAIT_BLOCK with the flags Exclusive and Wait *)
WaitBlock == [next : Blocks, prev : Blocks, last : Blocks, share : Nat,
              exclusive : BOOLEAN, wait : BOOLEAN, signaled : BOOLEAN]

NullBlock == [next |-> NoBlock, prev |-> NoBlock, last |-> NoBlock, share |-> 0,
              exclusive |-> FALSE, wait |-> FALSE, signaled |-> FALSE]

(***************************************************************************)
(* The local variables: OldValue of the acquire or release call; OldValue  *)
(* of ExpOptimizePushLockList and ExfWakePushLock; the block being         *)
(* signalled and its Previous; where to go on after waking; the mode asked *)
(* for.  They are cleared when their function returns.                     *)
(***************************************************************************)
NoLocals == [old |-> Free, wk |-> Free, cur |-> NoBlock, nxt |-> NoBlock,
             ret |-> "Idle", want |-> "X"]

Init ==
    /\ word = Free
    /\ blk = [t \in Threads |-> NullBlock]
    /\ gate = [t \in Threads |-> FALSE]
    /\ pc = [t \in Threads |-> "Idle"]
    /\ loc = [t \in Threads |-> NoLocals]
    /\ held = [t \in Threads |-> "no"]

Old(t) == loc[t].old
Wk(t)  == loc[t].wk

Goto(t, l, r) == pc' = [pc EXCEPT ![t] = l] /\ loc' = [loc EXCEPT ![t] = r]
Stay          == UNCHANGED <<pc, loc>>
Return(t)     == Goto(t, "Idle", NoLocals)

(* Load or reload OldValue, and go to l. *)
Load(t, l) == Goto(t, l, [loc[t] EXCEPT !.old = word])

(* ExpOptimizePushLockList or ExfWakePushLock returns. *)
Resume(t) ==
    IF loc[t].ret = "Idle" THEN Return(t)
    ELSE Goto(t, "WaitBit", [NoLocals EXCEPT !.old = Old(t), !.want = loc[t].want])

Hold(t, m) == held' = [held EXCEPT ![t] = m]

-----------------------------------------------------------------------------
(***************************************************************************)
(* The list.  Path(b)[k] is the block reached from b after k steps to the  *)
(* next one, stopping at the first block that knows the last.  It does not *)
(* come to a null pointer: NoDanglingBlock.                                *)
(***************************************************************************)
Path(b) ==
    LET path[k \in 0 .. Cardinality(Threads)] ==
            IF k = 0 THEN b
            ELSE IF path[k-1] = NoBlock THEN NoBlock
            ELSE IF blk[path[k-1]].last # NoBlock THEN path[k-1]
            ELSE blk[path[k-1]].next
    IN  path

Visited(b) == {Path(b)[k] : k \in DOMAIN Path(b)}
LastOf(b)  == blk[Path(b)[Cardinality(Threads)]].last

(* The blocks after the walk has saved the previous block in each of them. *)
Linked(b) ==
    [u \in Threads |->
        [blk[u] EXCEPT !.prev =
            IF \E k \in 1 .. Cardinality(Threads) :
                  Path(b)[k] = u /\ Path(b)[k-1] # u
            THEN CHOOSE p \in Visited(b) : blk[p].last = NoBlock /\ blk[p].next = u
            ELSE @]]

-----------------------------------------------------------------------------
(* ExAcquirePushLockExclusive, and ExTryToAcquirePushLockExclusive, which   *)
(* gives up where the other takes the slow path.                            *)
AcquireExclusive(t) ==
    /\ pc[t] = "Idle" /\ held[t] = "no" /\ "X" \in Calls
    /\ IF ~word.locked
       THEN word' = [word EXCEPT !.locked = TRUE] /\ Hold(t, "X") /\ Stay
       ELSE /\ Goto(t, "AcqLoad", [NoLocals EXCEPT !.want = "X"])
            /\ UNCHANGED <<word, held>>
    /\ UNCHANGED <<blk, gate>>

(* ExAcquirePushLockShared *)
AcquireShared(t) ==
    /\ pc[t] = "Idle" /\ held[t] = "no" /\ "S" \in Calls
    /\ IF word = Free
       THEN word' = LockedBy(1) /\ Hold(t, "S") /\ Stay
       ELSE /\ Goto(t, "AcqLoad", [NoLocals EXCEPT !.want = "S"])
            /\ UNCHANGED <<word, held>>
    /\ UNCHANGED <<blk, gate>>

(* The load of *PushLock before the loop, and after a lost race in it. *)
AcquireLoad(t) ==
    /\ pc[t] = "AcqLoad"
    /\ Load(t, "AcqLoop")
    /\ UNCHANGED <<word, blk, gate, held>>

(* Mutants: sharers join an exclusive owner; a sharer is not counted. *)
CanLockAnyHolder(v, m) == ~v.locked \/ (m = "S" /\ ~v.waiting)
LockedUncounted(v, m)  == [v EXCEPT !.locked = TRUE]

(* When the acquire loops set the lock bit, and what they make of the word: *)
(* a sharer counts itself only when nobody waits.                           *)
CanLock(v, m) ==
    \/ ~v.locked
    \/ m = "S" /\ ~v.waiting /\ v.shared > 0

Locked(v, m) ==
    [v EXCEPT !.locked = TRUE,
              !.shared = IF m = "S" /\ ~v.waiting THEN @ + 1 ELSE @]

AcquireLoopLock(t) ==
    /\ pc[t] = "AcqLoop" /\ CanLock(Old(t), loc[t].want)
    /\ IF word = Old(t)
       THEN word' = Locked(Old(t), loc[t].want) /\ Hold(t, loc[t].want) /\ Return(t)
       ELSE Goto(t, "AcqLoad", loc[t]) /\ UNCHANGED <<word, held>>
    /\ UNCHANGED <<blk, gate>>

(* The wait block a thread pushes on the list. *)
NewBlock(t, v, m) ==
    [next |-> IF v.waiting THEN v.ptr ELSE NoBlock,
     prev |-> NoBlock,
     last |-> IF v.waiting THEN NoBlock ELSE t,
     share |-> IF m = "X" /\ ~v.waiting /\ v.shared > 1 THEN v.shared ELSE 0,
     exclusive |-> m = "X",
     wait |-> TRUE,
     signaled |-> FALSE]

(* The word that points to it.  The second and later waiters take the       *)
(* Waking bit; the first moves a share count above one to its block.        *)
Pushed(t, v, m) ==
    IF v.waiting
    THEN [v EXCEPT !.waking = TRUE, !.ptr = t]
    ELSE [v EXCEPT !.waiting = TRUE, !.ptr = t, !.shared = 0,
                   !.multi = (m = "X" /\ v.shared > 1)]

(* Push the block; whoever set the Waking bit optimizes the list.  The      *)
(* exclusive path hands on the value it wrote, the shared one what it was.  *)
AcquireLoopPush(t) ==
    /\ pc[t] = "AcqLoop" /\ ~CanLock(Old(t), loc[t].want)
    /\ IF word = Old(t)
       THEN LET m   == loc[t].want
                new == Pushed(t, Old(t), m)
            IN  /\ word' = new
                /\ blk' = [blk EXCEPT ![t] = NewBlock(t, Old(t), m)]
                /\ IF Old(t).waiting /\ ~Old(t).waking
                   THEN Goto(t, "Optimize", [loc[t] EXCEPT !.ret = "WaitBit",
                                  !.wk = IF m = "X" THEN new ELSE Old(t)])
                   ELSE Goto(t, "WaitBit", loc[t])
       ELSE Goto(t, "AcqLoad", loc[t]) /\ UNCHANGED <<word, blk>>
    /\ UNCHANGED <<gate, held>>

(* The gate is initialized; then, if the wait bit is still set, wait.  When *)
(* the wait is over the block is out of use, and the loop goes on with the  *)
(* value it had before.                                                     *)
WaitBit(t) ==
    /\ pc[t] = "WaitBit"
    /\ gate' = [gate EXCEPT ![t] = FALSE]
    /\ IF blk[t].wait
       THEN blk' = [blk EXCEPT ![t].wait = FALSE] /\ Goto(t, "Gate", loc[t])
       ELSE blk' = [blk EXCEPT ![t] = NullBlock] /\ Goto(t, "AcqLoop", loc[t])
    /\ UNCHANGED <<word, held>>

(* Mutant: the wait does not depend on the gate. *)
WaitGateSpurious(t) ==
    /\ pc[t] = "Gate"
    /\ blk' = [blk EXCEPT ![t] = NullBlock]
    /\ Goto(t, "AcqLoop", loc[t])
    /\ UNCHANGED <<word, gate, held>>

(* KeWaitForGate *)
WaitGate(t) ==
    /\ pc[t] = "Gate" /\ gate[t]
    /\ gate' = [gate EXCEPT ![t] = FALSE]
    /\ blk' = [blk EXCEPT ![t] = NullBlock]
    /\ Goto(t, "AcqLoop", loc[t])
    /\ UNCHANGED <<word, held>>

-----------------------------------------------------------------------------
(* ExpOptimizePushLockList: link the list, then give the Waking bit back.   *)
(* An unlocked push lock is woken instead.                                  *)
Optimize(t) ==
    /\ pc[t] = "Optimize"
    /\ blk' = [Linked(Wk(t).ptr) EXCEPT ![Wk(t).ptr].last = LastOf(Wk(t).ptr)]
    /\ IF word = Wk(t)
       THEN word' = [word EXCEPT !.waking = FALSE] /\ Resume(t)
       ELSE /\ Goto(t, IF word.locked THEN "Optimize" ELSE "Wake",
                    [loc[t] EXCEPT !.wk = word])
            /\ UNCHANGED word
    /\ UNCHANGED <<gate, held>>

(* A compare-exchange of ExfWakePushLock failed: try again with the value.  *)
WakeAgain(t) == Goto(t, "Wake", [loc[t] EXCEPT !.wk = word]) /\ UNCHANGED word

(* ExfWakePushLock, while the lock is held again: give the Waking bit back. *)
WakeLocked(t) ==
    /\ pc[t] = "Wake" /\ Wk(t).locked
    /\ IF word = Wk(t)
       THEN word' = [word EXCEPT !.waking = FALSE] /\ Resume(t)
       ELSE WakeAgain(t)
    /\ UNCHANGED <<blk, gate, held>>

(* The last waiter is to be woken alone when it is exclusive and others are *)
(* waiting before it; otherwise everyone is.                                *)
WakesAlone(t) ==
    LET last == LastOf(Wk(t).ptr)
    IN  blk[last].exclusive /\ Linked(Wk(t).ptr)[last].prev # NoBlock

(* Go on to the signalling loop, from this block. *)
SignalFrom(t, b) ==
    Goto(t, "Signal", [loc[t] EXCEPT !.wk = Free, !.cur = b])

WakeAll(t) ==
    /\ pc[t] = "Wake" /\ ~Wk(t).locked /\ ~WakesAlone(t)
    /\ blk' = Linked(Wk(t).ptr)
    /\ IF word = Wk(t)
       THEN word' = Free /\ SignalFrom(t, LastOf(Wk(t).ptr))
       ELSE WakeAgain(t)
    /\ UNCHANGED <<gate, held>>

(* Take the last one off the list and give the Waking bit back. *)
WakeOne(t) ==
    /\ pc[t] = "Wake" /\ ~Wk(t).locked /\ WakesAlone(t)
    /\ LET first  == Wk(t).ptr
           last   == LastOf(first)
           linked == Linked(first)
       IN  /\ blk' = [linked EXCEPT ![first].last = linked[last].prev,
                                    ![last].prev = NoBlock]
           /\ SignalFrom(t, last)
    /\ word' = [word EXCEPT !.waking = FALSE]
    /\ UNCHANGED <<gate, held>>

(* On to the next block to signal, if there is one. *)
SignalNext(t, b) ==
    IF b = NoBlock THEN Resume(t)
    ELSE Goto(t, "Signal", [loc[t] EXCEPT !.cur = b, !.nxt = NoBlock])

(* The signalling loop: the block may be gone as soon as its wait bit is    *)
(* cleared, so Previous is read first.                                      *)
Signal(t) ==
    /\ pc[t] = "Signal"
    /\ LET b == loc[t].cur IN
       /\ blk' = [blk EXCEPT ![b].wait = FALSE, ![b].signaled = TRUE]
       /\ IF blk[b].wait
          THEN SignalNext(t, blk[b].prev)
          ELSE Goto(t, "SignalGate", [loc[t] EXCEPT !.nxt = blk[b].prev])
    /\ UNCHANGED <<word, gate, held>>

(* KeSignalGateBoostPriority *)
SignalGate(t) ==
    /\ pc[t] = "SignalGate"
    /\ gate' = [gate EXCEPT ![loc[t].cur] = TRUE]
    /\ SignalNext(t, loc[t].nxt)
    /\ UNCHANGED <<word, blk, held>>

(* The release that unlocked the word and set the Waking bit wakes. *)
StartWake(t, v) == Goto(t, "Wake", [NoLocals EXCEPT !.wk = v])

-----------------------------------------------------------------------------
(* Mutant: the waiters are left to someone else. *)
ReleaseExclusiveNoWake(t) ==
    /\ pc[t] = "Idle" /\ held[t] = "X"
    /\ word' = [word EXCEPT !.locked = FALSE]
    /\ Hold(t, "no")
    /\ Stay
    /\ UNCHANGED <<blk, gate>>

(* ExReleasePushLockExclusive *)
ReleaseExclusive(t) ==
    /\ pc[t] = "Idle" /\ held[t] = "X"
    /\ word' = [word EXCEPT !.locked = FALSE]
    /\ Hold(t, "no")
    /\ IF word.waiting /\ ~word.waking THEN Goto(t, "TryLoad", NoLocals) ELSE Stay
    /\ UNCHANGED <<blk, gate>>

(* Mutant: the Waking bit is not looked at. *)
TryToWakeLoadAnyway(t) ==
    /\ pc[t] = "TryLoad"
    /\ IF word.locked \/ ~word.waiting THEN Return(t) ELSE Load(t, "TryCas")
    /\ UNCHANGED <<word, blk, gate, held>>

(* ExfTryToWakePushLock *)
TryToWakeLoad(t) ==
    /\ pc[t] = "TryLoad"
    /\ IF word.waking \/ word.locked \/ ~word.waiting THEN Return(t) ELSE Load(t, "TryCas")
    /\ UNCHANGED <<word, blk, gate, held>>

TryToWake(t) ==
    /\ pc[t] = "TryCas"
    /\ IF word = Old(t)
       THEN word' = [word EXCEPT !.waking = TRUE] /\ StartWake(t, word')
       ELSE Return(t) /\ UNCHANGED word
    /\ UNCHANGED <<blk, gate, held>>

(* ExfReleasePushLockExclusive *)
ReleaseExclusiveLoad(t) ==
    /\ pc[t] = "Idle" /\ held[t] = "X"
    /\ Load(t, "RXLoop")
    /\ UNCHANGED <<word, blk, gate, held>>

ReleaseExclusiveLoop(t) ==
    /\ pc[t] = "RXLoop"
    /\ IF word = Old(t)
       THEN LET wake == word.waiting /\ ~word.waking
            IN  /\ word' = [word EXCEPT !.locked = FALSE, !.waking = @ \/ wake]
                /\ Hold(t, "no")
                /\ IF wake THEN StartWake(t, word') ELSE Return(t)
       ELSE Load(t, "RXLoop") /\ UNCHANGED <<word, held>>
    /\ UNCHANGED <<blk, gate>>

(* The word after a sharer, or the owner, left with nobody waiting. *)
OneLess(v) == IF v.shared > 1 THEN [v EXCEPT !.shared = @ - 1] ELSE Free

(* ExReleasePushLockShared; the slow path is ExfReleasePushLockShared. *)
ReleaseShared(t) ==
    /\ pc[t] = "Idle" /\ held[t] = "S"
    /\ IF word = LockedBy(1)
       THEN word' = Free /\ Hold(t, "no") /\ Stay
       ELSE Goto(t, "RSLoad", NoLocals) /\ UNCHANGED <<word, held>>
    /\ UNCHANGED <<blk, gate>>

(* ExReleasePushLock, for either mode; the slow path is ExfReleasePushLock. *)
ReleaseAnyLoad(t) ==
    /\ pc[t] = "Idle" /\ held[t] # "no" /\ "Any" \in Calls
    /\ IF word.waiting THEN Goto(t, "RALoad", NoLocals) ELSE Load(t, "RAFast")
    /\ UNCHANGED <<word, blk, gate, held>>

ReleaseAnyFast(t) ==
    /\ pc[t] = "RAFast"
    /\ IF word = Old(t)
       THEN word' = OneLess(word) /\ Hold(t, "no") /\ Return(t)
       ELSE Goto(t, "RALoad", NoLocals) /\ UNCHANGED <<word, held>>
    /\ UNCHANGED <<blk, gate>>

(***************************************************************************)
(* ExfReleasePushLockShared (a = "RS") and ExfReleasePushLock (a = "RA")   *)
(* have the same steps.                                                    *)
(***************************************************************************)
LoadAt(a)   == IF a = "RS" THEN "RSLoad" ELSE "RALoad"
LoopAt(a)   == IF a = "RS" THEN "RSLoop" ELSE "RALoop"
UnlockAt(a) == IF a = "RS" THEN "RSUnlock" ELSE "RAUnlock"

ReleaseLoad(t, a) ==
    /\ pc[t] = LoadAt(a)
    /\ Load(t, LoopAt(a))
    /\ UNCHANGED <<word, blk, gate, held>>

(* Nobody waits: one sharer less, or free. *)
ReleaseLoop(t, a) ==
    /\ pc[t] = LoopAt(a) /\ ~Old(t).waiting
    /\ IF word = Old(t)
       THEN word' = OneLess(word) /\ Hold(t, "no") /\ Return(t)
       ELSE Load(t, LoopAt(a)) /\ UNCHANGED <<word, held>>
    /\ UNCHANGED <<blk, gate>>

(* Someone waits.  With several sharers the count is in the last block, and *)
(* only the sharer that takes it to zero unlocks.  ExfReleasePushLock tests *)
(* that the count is above zero first, the other one asserts it.            *)
Counted(t, a) ==
    Old(t).multi /\ (a = "RS" \/ blk[LastOf(Old(t).ptr)].share > 0)

ReleaseCount(t, a) ==
    /\ pc[t] = LoopAt(a) /\ Old(t).waiting
    /\ IF Counted(t, a)
       THEN LET last == LastOf(Old(t).ptr)
            IN  /\ blk' = [blk EXCEPT ![last].share = @ - 1]
                /\ Hold(t, "no")
                /\ IF blk[last].share > 1 THEN Return(t)
                                          ELSE Goto(t, UnlockAt(a), loc[t])
       ELSE Goto(t, UnlockAt(a), loc[t]) /\ UNCHANGED <<blk, held>>
    /\ UNCHANGED <<word, gate>>

(* Mutant: the MultipleShared bit is kept. *)
ReleaseUnlockMulti(t, a) ==
    /\ pc[t] = UnlockAt(a)
    /\ IF word = Old(t)
       THEN /\ word' = [word EXCEPT !.locked = FALSE, !.waking = TRUE]
            /\ Hold(t, "no")
            /\ IF word.waking THEN Return(t) ELSE StartWake(t, word')
       ELSE UNCHANGED <<word, held, pc, loc>>
    /\ UNCHANGED <<blk, gate>>

(* Unlock and wake, or leave that to whoever is waking already.  The loop   *)
(* does not read the word again: after a lost race it tries the same value. *)
ReleaseUnlock(t, a) ==
    /\ pc[t] = UnlockAt(a)
    /\ IF word = Old(t)
       THEN /\ word' = [word EXCEPT !.locked = FALSE, !.multi = FALSE, !.waking = TRUE]
            /\ Hold(t, "no")
            /\ IF word.waking THEN Return(t) ELSE StartWake(t, word')
       ELSE UNCHANGED <<word, held, pc, loc>>
    /\ UNCHANGED <<blk, gate>>

(* ExConvertPushLockSharedToExclusive, when it succeeds. *)
ConvertToExclusive(t) ==
    /\ pc[t] = "Idle" /\ held[t] = "S" /\ "X" \in Calls
    /\ word = LockedBy(1)
    /\ word' = LockedBy(0)
    /\ Hold(t, "X")
    /\ UNCHANGED <<blk, gate, pc, loc>>

-----------------------------------------------------------------------------
StartAcquire(t) == AcquireExclusive(t) \/ AcquireShared(t)

StartRelease(t) ==
    \/ ReleaseExclusive(t) \/ ReleaseExclusiveLoad(t)
    \/ ReleaseShared(t) \/ ReleaseAnyLoad(t)

(* Waiting, and waking others. *)
WaitAndWake(t) ==
    \/ WaitBit(t) \/ WaitGate(t) \/ Optimize(t)
    \/ WakeLocked(t) \/ WakeAll(t) \/ WakeOne(t) \/ Signal(t) \/ SignalGate(t)

Continue(t) ==
    \/ AcquireLoad(t) \/ AcquireLoopLock(t) \/ AcquireLoopPush(t)
    \/ WaitAndWake(t)
    \/ TryToWakeLoad(t) \/ TryToWake(t)
    \/ ReleaseExclusiveLoop(t) \/ ReleaseAnyFast(t)
    \/ \E a \in {"RS", "RA"} :
          ReleaseLoad(t, a) \/ ReleaseLoop(t, a) \/ ReleaseCount(t, a)
             \/ ReleaseUnlock(t, a)

Next == \E t \in Threads :
            StartAcquire(t) \/ StartRelease(t) \/ ConvertToExclusive(t) \/ Continue(t)

Spec == Init /\ [][Next]_vars

(* A thread inside a call is scheduled, and a holder releases in the end. *)
FairSpec ==
    /\ Spec
    /\ \A t \in Threads : WF_vars(Continue(t)) /\ WF_vars(StartRelease(t))

-----------------------------------------------------------------------------
TypeOK ==
    /\ word \in Word
    /\ blk \in [Threads -> WaitBlock]
    /\ gate \in [Threads -> BOOLEAN]
    /\ loc \in [Threads -> [old : Word, wk : Word, cur : Blocks, nxt : Blocks,
                            ret : {"Idle", "WaitBit"}, want : {"X", "S"}]]
    /\ held \in [Threads -> {"no", "X", "S"}]

Sharers == {t \in Threads : held[t] = "S"}
Owners  == {t \in Threads : held[t] = "X"}

(* The lock bit, the share count in the word or, once someone waits, the    *)
(* one in the last wait block always tell who holds the lock: one exclusive *)
(* owner, or the sharers that were counted.                                 *)
WordCountsHolders ==
    /\ TypeOK
    /\ ~word.locked => Sharers \cup Owners = {}
    /\ word.locked /\ ~word.waiting =>
          /\ word.shared = Cardinality(Sharers)
          /\ Cardinality(Owners) = IF word.shared = 0 THEN 1 ELSE 0
    /\ word.locked /\ word.waiting /\ word.multi =>
          Owners = {} /\ blk[LastOf(word.ptr)].share = Cardinality(Sharers)
    /\ word.locked /\ word.waiting /\ ~word.multi =>
          Cardinality(Owners \cup Sharers) = 1

(* Only one thread works on the list of waiters at a time, and while it     *)
(* does the Waking bit is set.                                              *)
Working(t) == pc[t] \in {"Optimize", "Wake"}
OneWaker ==
    \A t \in Threads : Working(t) =>
        word.waking /\ \A u \in Threads : Working(u) => u = t

(* A block can be used while its owner is in the wait it was pushed for. *)
Alive(b) ==
    /\ b \in Threads
    /\ \/ pc[b] \in {"WaitBit", "Gate"}
       \/ pc[b] \in {"Optimize", "Wake", "Signal", "SignalGate"} /\ loc[b].ret = "WaitBit"

WalkAlive(b) == (\A c \in Visited(b) : Alive(c)) /\ Alive(LastOf(b))

(* No walk along the list and no signal touches a block of a thread that    *)
(* has gone on: the blocks live on the stacks of the waiters.               *)
NoDanglingBlock ==
    \A t \in Threads :
        /\ Working(t) => WalkAlive(Wk(t).ptr)
        /\ pc[t] \in {"RSLoop", "RALoop"} /\ Old(t).waiting /\ Old(t).multi =>
              WalkAlive(Old(t).ptr)
        /\ pc[t] \in {"Signal", "SignalGate"} => Alive(loc[t].cur)
        /\ pc[t] = "SignalGate" => pc[loc[t].cur] = "Gate" /\ ~gate[loc[t].cur]

(* The sanity checks of the code: pushlock.c 87, 98, 164, 165, 190, 616 and *)
(* 783, 620 and 787, 877 and 1014, 1013, 1101.                              *)
SanityChecks ==
    \A t \in Threads :
        /\ pc[t] = "Wake" => Wk(t).waiting /\ Wk(t).waking /\ ~Wk(t).multi
        /\ pc[t] = "Wake" /\ ~Wk(t).locked /\ WakesAlone(t) =>
              word.waiting /\ Wk(t).ptr # LastOf(Wk(t).ptr)
        /\ pc[t] = "Signal" => ~blk[loc[t].cur].signaled
        /\ pc[t] = "Gate" /\ gate[t] => blk[t].signaled /\ blk[t].share = 0
        /\ pc[t] \in {"RSLoop", "RALoop"} /\ Old(t).waiting /\ Old(t).multi =>
              blk[LastOf(Old(t).ptr)].share > 0 /\ blk[LastOf(Old(t).ptr)].exclusive
        /\ pc[t] = "RXLoop" => Old(t).locked /\ (Old(t).waiting \/ Old(t).shared = 0)

(* No wake-up is lost: when nobody holds the lock and nobody is on the way  *)
(* to do something about it, no thread is left asleep on its gate.          *)
NoLostWakeup ==
    (\A t \in Threads : held[t] = "no" /\ (pc[t] = "Idle" \/ (pc[t] = "Gate" /\ ~gate[t])))
        => \A t \in Threads : pc[t] = "Idle"

Abstract == INSTANCE RWLock

(* Every step of the code locks, upgrades or unlocks as RWLock allows, or   *)
(* leaves the holders as they are.                                          *)
ImplementsRWLock == Abstract!Spec

(* The unlock loop of ExfReleasePushLockShared and of ExfReleasePushLock    *)
(* has lost its race once and can only fail again.                          *)
Unlocking(t) == pc[t] \in {"RSUnlock", "RAUnlock"}

(* When no new acquire comes, every call returns and the lock becomes free, *)
(* unless a release has gone into the unlock loop and stays there.          *)
CallsReturn ==
    <>[][\A t \in Threads : ~StartAcquire(t)]_vars
        => \/ <>[](word = Free /\ \A t \in Threads : pc[t] = "Idle")
           \/ \E t \in Threads : <>[](Unlocking(t) /\ word # Old(t))

(* "Therefore, at this point, we can now 'satisfy' the wait" (pushlock.c    *)
(* 889 and 1025): a release that has come to the unlock loop unlocks.       *)
ReleaseUnlocks == \A t \in Threads : Unlocking(t) ~> ~Unlocking(t)
=============================================================================
