# Specifications of the kernel's synchronization core

This directory holds TLA+ specifications of Windivs (a ReactOS derivative, an
NT-compatible operating system in C), the TLC configurations that check them,
and TLAPS proofs about them. The subject is `ntoskrnl/ex` and `ntoskrnl/ke`, with
one user of theirs from the run-time library: the lock-free words, wait blocks and gates on which the object manager, the
process manager, the memory manager and the drivers rely. This is code where an
interleaving nobody tested brings the machine down, and it is small enough to be
modelled access by access.

`PROJECT.json` names the source lines of every definition, the runs, the hazards
the properties are aimed at, and the findings.

## The system

| Component | State it keeps | Operations | Used by |
|---|---|---|---|
| Run-down protection (`ex/rundown.c`, inlines in `include/internal/ex.h`) | one word: count, or ACTIVE bit, or address of the waiter's stack block | acquire, release (one or several), wait, completed, re-initialize | process and thread exit, objects' deleters |
| Cache-aware run-down protection (`ex/rundown.c` 380-744) | one such word per processor, one wait block for all of them | the same; allocate, free, size, initialize in a buffer | class driver's remove lock |
| Push locks (`ex/pushlock.c`, inlines in `ex.h`) | one word: Locked, Waiting, Waking, MultipleShared, share count or list of stack blocks | acquire and release exclusive, shared, either; try; convert; wake; optimize the list; block, unblock | handle tables, memory manager, registry |
| Guarded mutexes (`include/internal/ke_x.h`, `ke/wait.c`, `ke/gmutex.c`) | Count (lock bit, woken bit, waiters), Owner, a gate | acquire, try, release | memory manager, configuration manager |
| Gates (`ke/gate.c`) | SignalState and a wait list under a lock bit | wait, signal with boost | push locks, guarded mutexes |
| Keyed events (`ex/keyedevt.c`) | hashed lists of waiting threads | wait with timeout, release | condition variables, critical sections out of memory |
| Condition variables (`sdk/lib/rtl/condvar.c`) | one word: newest entry of a list of stack entries, a lock flag | sleep with timeout, wake one, wake all | user-mode programs |
| Callbacks and fast references (`ex/callback.c`, `ex.h`) | pointer with a small count in its low bits | reference, dereference, compare-and-swap, slow path over run-down protection | notification routines |
| Kernel queues, worker threads (`ke/queue.c`, `ex/work.c`) | entry list, current and maximum count | insert, remove, rundown; balance | deferred work |
| Executive resources (`ex/resource.c`) | owner table, waiters, semaphore and event | acquire shared/exclusive, convert, release | file systems |
| Handle tables (`ex/handle.c`) | three-level tables, free lists, entry lock bits | create, change, destroy, enumerate | object manager, processes |
| Ports (`lpc/`) | queues of messages and replies | request, reply, connect | system services |

The other parts (object, process, memory, I/O, cache and configuration managers,
security monitor, scheduler, HAL, boot loader, drivers, win32 subsystem, user
mode) are listed in `PROJECT.json` with the reason they are not modelled.

How the parts interact: everything meets in shared words. Push locks and guarded
mutexes sleep on gates; run-down protection sleeps on a dispatcher event; fast
references and callbacks are built over run-down protection, handle tables and
keyed events over push locks, condition variables over keyed events. Executive
resources are the exception: a spin lock guards their fields, and what is hard is
what they do after they dropped it.

What is hard here, and what would make a component correct:

* a compare-exchange made with a value read long before; correct means that
  exclusion, counts and the refusal of late acquirers survive every stale value;
* wait blocks that live on the stack of a thread which may return at any moment;
  correct means that nobody touches a block after its owner went on;
* a count that moves (from the word to a block, or from many words to one block)
  while it is being changed; correct means that nothing is lost or counted twice;
* a duty to wake that moves from thread to thread when somebody steals the lock;
  correct means that no thread sleeps without someone left to wake it;
* a loop that goes on with the value it had; correct means that calls return;
* an allocation that fails half way; correct means that nothing leaks.

## Modules

| Module | Models |
|---|---|
| `RundownProtection` | abstract: an object that is open, draining or closed, and the references that are out |
| `Rundown` | one `EX_RUNDOWN_REF` and its callers; implements `RundownProtection` |
| `RundownProofs` | theorems about `Rundown` |
| `RundownCacheAware` | the words of the processors and the collection of their counts |
| `RundownLayout` | allocation, in-buffer layout and freeing of these words |
| `RWLock` | abstract: one exclusive owner or any number of sharers |
| `PushLock` | `EX_PUSH_LOCK` and its callers; implements `RWLock` |
| `PushLockProofs` | theorems about `PushLock` |
| `GuardedMutex` | `KGUARDED_MUTEX`, its contended path and the gate |
| `GuardedMutexProofs` | theorems about `GuardedMutex` |
| `HandleEntryLock` | the lock bit of handle table entries and the blocking push lock its waiters sleep on |
| `HandleFreeList` | the two lists of free handles and the growth of the table |
| `HandleTableProofs` | theorems about `HandleEntryLock` and `HandleFreeList` |
| `RundownObject` | composes `RundownCacheAware` and `RundownLayout`: an object is allocated, used, run down and freed, over and over |
| `RundownObjectProofs` | theorems about `RundownObject`: the references and the memory |
| `Resource` | `ERESOURCE`: the reader/writer lock with owner entries, conversion and owner pointers |
| `ResourceProofs` | theorems about `Resource` |
| `KeyedEvent` | one bucket of a keyed event: what a wait and a release do, for the modules that use them |
| `CondVar` | condition variables, composed with `KeyedEvent` |
| `CondVarProofs` | theorems about `KeyedEvent` and `CondVar` |
| `DataTheorems` | lemmas on induction, linked lists and sums, for the proofs |
| `MC...` | TLC instances of these: symmetry sets, constants |

The grain is one action for the code between two accesses to shared memory: one
load, one interlocked operation, or one section under the dispatcher or gate
lock. `pc[t]` is the place in the code, named after the function and the step;
the local variables that outlive an access (`Value`, `OldValue`, ...) are
variables of the model, so a stale value is stale in the model as well.
Operators whose comment says "Mutant" are deliberate errors that no
specification uses; the mutants of `PROJECT.json` put them in the place of the
right ones to show that a property depends on the code it is about.

### Rundown

`runRef` is the word: `Counter(k)`, `Active`, or `Ptr(t)`, the wait block on the
stack of `t`. `val[t]` is the local `Value`. Masked words (`Value &
~EX_RUNDOWN_ACTIVE`) are kept distinct from the words themselves, because that
is what makes the inlined fast paths fail when a rundown is active. References
are tokens: `out` is the set of tokens that were granted and not given back, a
history variable the code does not have, against which the code's counts are
judged. A token may be released by another thread than the one that took it.

The contract on the callers' side is explicit: only a token that is out is
released, one thread at a time runs the object down (`NoRundown`; each caller in
the repository is the object's deleter), and an object is initialized again, or
declared completed, only after its wait returned.

### RundownCacheAware

Acquire and release on a word with a count are one step each (their loops are
those of `Rundown`); a release that finds the wait block has its three steps.
The waiter (`wpc`) exchanges the words one after the other, adds the total to
the count of the block, and then decides whether to sleep. A thread may release
on another processor than it acquired on, so a single word may be negative.
The decision is `rundown.c` 492-498 as it is written: the waiter sleeps when the
count of the block was the negative of the total, and returns otherwise (see
Findings). A sleep begun that way is never ended, as `WaitOutcome` shows, so the
return from `KeWaitForSingleObject` (`WaitSatisfied`) is not a step. Two parts of
the contract are taken from the only caller, the class driver: one thread waits,
and nobody uses the object while its words are being initialized again. After a
wait that returned too early the words point into a frame that is gone: what a
release then finds in the place of the count is anything, so it may or may not
set the event, and the object is initialized again or freed only when nothing is
out and nobody is in a call.

### RundownLayout

The pool fails or returns memory of its own, at any alignment. `ExAllocateCacheAware...` allocates
the master structure, then the words, then once more with one word extra when
the block is not aligned; `ExInitialize...CacheAware` lays the words out in a
buffer of the size `ExSizeOf...` reports. Sizes and alignment are constants, the
arithmetic is the code's. Memory is counted in units of the smallest structure.

### RundownObject

The words of `RundownCacheAware` are used once `RundownLayout` has laid out as
many of them as there are processors; the object is freed when it was run down
and nobody is inside a call, or when nobody got to use it, and another one
follows. The caller's buffer of `ExInitialize...` goes with the buffer.

### PushLock

`word` has the four bits and, above them, a share count or a block. `blk[t]` is
the block on the stack of `t`, `held` the history of who holds the lock and how.
A walk along the list is part of the step that follows it: `Next` does not
change once a block is published, and `Last` and `Previous` are written only by
the thread that has the Waking bit, which is checked (`OneWaker`), not assumed.
`ExTryToAcquirePushLockExclusive` is `AcquireExclusive` without the slow path,
and `ExWaitOnPushLock` is an acquire followed by a release. The spin before the
wait on several processors only delays and is left out.

### GuardedMutex

`count` has the lock bit (set when the mutex is free), the woken bit and the
number of waiters; adding the woken bit to a word that has it carries into the
number, as in the code (`Registered`). The gate is one signal and the set of
sleepers. Its wait list is a queue in the code; here any sleeper may be chosen,
which allows more behaviours. APC disabling, the boost and the Contention
statistic are left out.

### HandleEntryLock

`entry[e]` is the pointer word of an entry: an object and the lock bit, which is
set while the entry is *not* locked. Waiters of all entries share the list
`head` of `HandleContentionEvent`; whoever unlocks or clears an entry takes the
whole list and wakes everyone on it, and everyone tries again. A thread pushes
its block before it looks at the entry once more; if the entry is unlocked by
then it must unblock the list itself, and wait if its own block is in another
unblocker's hands. Creating, looking up (`ExMapHandleToPointer`,
`ExChangeHandle`, enumeration) and closing are the calls; the free lists are a
set here and a module of their own below. The wait has no timeout, as in its
only caller.

### HandleFreeList

`firstFree` is a lock-free stack linked through `next`, whose place an entry in
use needs for its access mask (`Granted`). A popper holds one of four push locks,
chosen by the handle (`LockCount` is their number), between its check and its compare-exchange; the push locks
are what `RWLock` says of them. A free decides by the state of that lock between
`firstFree` and `lastFree`, as `handle.c` 304 has it: the first if the lock is
held (see Findings). `raced` is a history: whether a handle was ever freed to the
first list while another thread was popping that very handle. Handles are indexes, and
the three levels of tables are the number `pool` of handles there are; a growth
may fail for lack of memory at any time. `out` is a history of which handles are
in use. What becomes of a table whose first free handle is an access mask is not
followed. `StrictFIFO` is never set in the repository and is FALSE in the model.
`at` and `var` are what `pc` and `loc` are elsewhere: one module of proofs extends
this module and `HandleEntryLock`, so their names differ.

### Resource

An action is what a call does under the resource's spin lock, or one step it
makes without it: allocating the semaphore, the event or a larger owner table
(after which it starts again), waiting, posting the semaphore or the event after
the lock was dropped, writing its name as the owner. `held` is the history of who
has acquired what, `exclusive`, `activeEntries`, `activeCount` and the entries
are the code's. The owner entry is `ownerEntry`, the table `ownerTable` from
entry 1. The contract of the callers: nobody asks for exclusive access while it
shares the resource; an owner pointer only releases. `ExReinitialize...` clears
the first entry of the table, whose count shares its word with the size of the
table, and so shortens the table; that is modelled. A wait that times out waits
again and prints, and the index a thread keeps as a hint saves a search: neither
changes the state. Recursion is bounded by `MaxCount`.

### KeyedEvent and CondVar

A call of `ExpReleaseOrWaitForKeyedEvent` is one step under the push lock of the
bucket (find the partner, or enlist), the wait, and, if that fails, another step
under the lock. `keyed[t]` is where `t` is in the call, its key, and its
semaphore. All keys share one bucket. A thread that was found after its wait
failed still reports a timeout; its partner reports success.

`CondVar` names the entry on the stack of `t`, and the key it sleeps on, by `t`.
`word` is the head and the lock flag, `list` the linked entries, newest first.
Only the holder of the lock touches the links, so they change in the step that
takes the lock or sets `ListRemovalHandled`; that exactly one thread holds it is
checked (`NoDanglingEntry`). The word keeps an entry that was unlinked until it
is unlocked, as in the code. `seen` is a history of what the thread in
`InternalWake` found when it locked the list and whom it woke. The release of the
keyed event in `InternalWake` has a timeout of zero, and the status of one that
met nobody, `STATUS_TIMEOUT`, is not negative: `NT_SUCCESS` at `condvar.c` 312
accepts it, and `SignalReturns` removes the entry in either case (see Findings). The lock of the
caller is external; with `SharedMode` it is an SRW lock held shared and excludes
nobody, which allows more behaviours than an exclusive one.

## Runs

| Run | What it checks and shows |
|---|---|
| `rundown` | 3 threads, 2 tokens. A wait returns only when nothing is out and nothing can be taken; no releaser touches a returned frame; the assertions of the code hold; a stale fast path never acquires late; the code implements `RundownProtection`; a published wait ends, however releases and signal interleave |
| `rundown_object` | the whole life of a cache-aware object. Memory: each processor has a word inside the allocation, on its own cache line; failures leak nothing and freeing gives everything back. Use: no reference is lost or counted twice while the words are collected, the total is not negative although words can be and the event is not set before it is initialized (`CollectingSound`), nobody acquires after the last word was collected. The test of `rundown.c` 492 is the code's. `WaitOutcome` says what is left of the contract with it: a wait that collected nothing returns with nothing out, and a wait that sleeps does so when nothing is out, nobody is in a call and nobody will ever set the event |
| `rundown_cache_aware_drained` | finding: the wait returns while references are out |
| `pushlock` | 3 threads, all calls: holders and counts agree wherever the count is, one waker, no dead block touched, the assertions hold, no lost wake-up, `RWLock` is implemented; once no new acquire comes every call returns, or a release is in the unlock loop with a value that is gone (the next run) and nothing else is the cause |
| `pushlock_unlock` | finding: a shared release can spin for ever |
| `guarded_mutex` | 3 threads: exclusion and Owner, exact number of waiters, at most one wake-up in progress, none lost; every thread gets the mutex once no new acquire comes |
| `handle_entry_lock` | 3 threads, 2 entries, 1 object: an entry has one owner and a free one none, also when it is closed and used again while others wait; no wait block is touched after its owner left; no sleeper is forgotten; every create, lookup and close returns once no new call comes |
| `handle_free_list` | 3 threads, up to 3 handles, 2 push locks, the choice of list as written. Until a handle is freed to the first list while another thread pops it, no handle has two users and no pop installs a value that is no handle, through pops, frees, moves and growth: that race, which the next run shows, is the only cause. The run stops where it has happened (`BeforeRace`), as nothing is claimed beyond it |
| `handle_free_list_in_range` | finding: with the four push locks of the code, a pop succeeds with a stale next handle |
| `resource` | 3 threads, 1 owner pointer. `WaitersCounted`: the waiters that are counted, and the semaphore tokens and event signals that were or will be posted, are exactly the threads that wait, although tokens are anonymous and a later waiter may take an earlier one's. `ActiveCountsOwners`: the active entries are the owners, those who were granted and do not know it yet included, and an exclusive owner is alone. `EntriesNameOwners`: every owner is found again by its release, so the bugcheck there is not reached, also when the table was replaced while the lock was dropped. `FirstEntryFree`: nobody has the first entry when it is overwritten to hand the resource over. Every call returns, and the resource is free, once no new acquire comes and owners release |
| `condvar` | 3 threads that sleep, with or without a timeout, and wake one or all. `NoDanglingEntry`: linked entries, and those a waker will still touch, are on the stacks of threads that have not left `InternalSleep`. `RendezvousPaired`: a wait and a release of one key are never both left waiting, and nobody is found twice, through all races of timeouts. `WakeTakesOldest`: a wake takes the oldest entry off the list, or all of them, whoever of these was in the keyed event is out of it, and nobody else is woken. `RemovedNotWoken`: who goes to sleep after its entry was removed is found by no wake. The list is always unlocked again, and calls end unless others lock it over and over |
| `condvar_removed_is_awake` | finding: a wake removes the entry of a thread that dropped its lock and is about to sleep, without waking it; it then sleeps for ever |

Bounds. Three threads give a waiter, a thread that races it and a thread that
wakes it; a list of two blocks and a block pushed while it is optimized; a
sharer, a second sharer and an exclusive waiter. Four threads on a push lock do
not finish in minutes. Tokens bound the references: two give two releasers, or
one of several references, and a late acquirer; more tokens, threads,
processors, entries and owners are what the proofs are for. `MaxDrift` bounds how
far a single per-processor word drifts and is at least the number of tokens, so
each imbalance of the tokens is reached; `Stride` only keeps blocks of the pool
apart, at every alignment. Processor counts of the object run include 1, which has
code of its own. An owner table of one entry, beside the first, that grows by one
is full and grows twice with three threads and a pointer; `MaxCount` 2 is the
least that has recursion. Symmetry is used for the free lists only, as liveness
forbids it elsewhere. Deadlock is checked except for condition variables, where
all threads may sleep without a timeout and nobody is left to wake them, and for
the cache-aware object, whose waiter may sleep for ever. One handle per low level table and three in all make the table grow twice and
let one thread pop, one free and one move the second list; with two push locks
the first and the third handle share one, and the second shares that of the table,
as the fourth does with four; two entries with
one list between them make a waiter be woken for the other entry.

Fairness. Weak fairness of a thread's steps inside a call: the scheduler runs
ready threads, and nothing in these calls needs more. Giving back: who has a
reference, a lock or a handle releases it in the end, which is the contract of
these objects. For locks weak fairness of the holder says that. The tokens of
`Rundown` have no owner, any idle thread may give one back, so it takes strong
fairness there: without it the threads could be busy with acquires that fail for
ever and never be idle together long enough. Nobody is obliged to begin an
acquire or a wait. `CallsReturn` of the locks and of the handle entries is stated for
executions in which new acquires stop, because these locks allow stealing and promise no more. The list lock of a condition variable is a spin lock without a queue, so a thread may
find it locked at each attempt; `CallsReturn` of `CondVar` therefore says that
the list is unlocked again and again, and that calls end in every execution in
which it is not locked again and again. A timeout expires in the end (weak
fairness); a sleep without one is owed nothing.

## Proofs

All proofs are for every value of the constants that the named assumptions of the
modules allow: finite sets of threads, tokens or owners, null values outside
them, and for the memory of an object that blocks of the pool do not overlap and
that a word is not larger than a cache line.
All of them are about the code as it is written; where a finding breaks a property,
the theorem says what is left of it (`WaitOutcome`, the `...UnlessRaced` properties
of the free lists, `RemovedNotWoken`).

`RundownProofs`. The properties are not inductive: that a wait returns only when
nothing is out follows from what the count in the word or block means, and that
in turn from what calls in flight remember. `IInv` has six parts:

* `TypeOK`; `ClaimsOK`: calls in flight claim disjoint tokens;
* `OneRundown`: one thread runs the object down;
* `WordOK`: the number of tokens out is in the word, or in the block the word
  points to;
* `SignalOK`: a published block's waiter sleeps; the event is set, or exactly one
  releaser is about to set it, only when nothing is out;
* `ValuesOK`: a remembered count still covers what the call gives back, and a
  remembered block is still the published one.

One lemma per part (`ClaimsStep`, `WordStep`, ...) has one step per action;
`Cards` and `Releasable` hold the facts on cardinalities. `Invariance` combines
them to `Spec => []IInv`. From it follow `TypeCorrect`, `Drained`
(`DrainedMeansUnused`), `NoDangling` (`NoDanglingWaitBlock`), `ChecksHold`
(`SanityChecks`), `NoLate` (the action property `NoLateAcquire`) and
`Implementation`: each step maps to a step of `RundownProtection` or leaves its
variables unchanged, under the mapping `gate <- Gate, refs <- out`.

`GuardedMutexProofs`. The five parts (`MutualExclusion`, `OwnerIsHolder`,
`WokenBit`, `WaiterCount`, `NoLostWakeup`) together with `TypeOK` and `LocalsOK`
(what a release or a woken thread remembers) are inductive; none of the later
ones is on its own. The number of waiters is exact only because there is at most
one wake-up, there is at most one wake-up only because a release looks at the
woken bit, and no wake-up is lost only because a failed compare-exchange of a
release means that someone else has the mutex or wakes. Again one lemma per
part, one step per action; `WaitersCard` holds the cardinality argument. Theorems:
`Invariance`, `Exclusive` (`Exclusion`), `OneWakeup`, `WaitersCounted`, `NoneLost`.

`PushLockProofs`. The list of waiters is spelled out by `Next` links, parts of it by
`Previous` links, and is being walked from old words while new blocks are pushed, so
the invariant has to say which list it is. `IInv` says that there is a row of numbered
seats (`q[i]` the block at seat `i`, `pos[b]` the seat of `b`): the list the word points to is
`lo[NoBlock] .. hi[NoBlock]`, with the last waiter at the low end; the blocks thread `u`
has detached and still has to signal are `lo[u] .. hi[u]`, further down; `m` is the first
seat, seen from the high end, whose block knows the last one. A push adds a seat at the
high end, a wake gives a part of the low end to the waker, a signal takes away the
lowest seat of one's own; a seat never moves, which is what keeps old words good. The
parts of `Inv(q, pos, lo, hi, m)` are

* `Queue`: the parts of the row are disjoint; the links of the blocks agree with it
  (`Links`, `Chains`); who has a seat waits and was not signalled (`Seated`), and who
  waits has a seat, is about to be signalled, or was (`WaiterOf`, `SignalOf`);
* `Wakers`: the thread that works on the list is the only one, has the Waking bit, and
  the word it remembers points to a seat between `m` and the high end;
* `Promise`: while the word is unlocked with waiters, somebody will look at it again;
* `Calling`, `Releasers`: what a call in flight remembers, and that a sharer on its way
  to the count starts its walk at a seat of the list;
* `Holders`: what the bits and the counts say of the holders (`Shape`, `Counts`), and the
  one sharer that took the count to zero and is to unlock (`Finish`).

`WalkEnds` and `WalkLinks` say where a walk gets and what linking it writes, by induction over
the seats; `MainWalk` and `MultiWalk` are the walks of a worker and of a leaving sharer, who may
meet a block that is being linked. There is one lemma per action (`PushStep`, `OptimizeStep`,
`WakeOneStep`, ...); `InitInv` and `NextInv` combine them. Theorems: `Invariance`,
`HoldersCountedRight` (`WordCountsHolders`), `OneWakerHolds` (`OneWaker`), `NoDangling`
(`NoDanglingBlock`), `ChecksHold` (`SanityChecks`), `NoWakeupLost` (`NoLostWakeup`) and
`Implementation` (`ImplementsRWLock`: `held` is the abstract lock's only variable). They hold with
the unlock loops as they are written: a release that spins for ever (see Findings) still
holds the lock, and breaks liveness only.

`RundownObjectProofs`. Two inductive invariants, since the users of the words never
touch their memory and the allocation never touches a count. `UseInv` is about the
references:

* `Words`, `Closed`: an exchanged word counts nothing; the words below `current`
  are closed while the waiter collects, and all of them afterwards;
* `Ops`: releases that found the block give back disjoint parts of what is out;
* `Balance`: the words, the total collected so far and the count of the block,
  together, are the number of references out. The sum is over integers, as a word
  may be negative;
* `Signals`: the event is not initialized and the count not positive before the total
  is added; while the waiter sleeps the event is clear, and nobody is about to set it;
  `Ends`: a waiter sleeps, or returns with a total of zero, only when nothing is out.

From it `WordsAddUp` (`Accounting`), `CollectingIsSound` (`CollectingSound`),
`NoLateAcquireAnywhere` (the action property `NoLateAcquireCacheAware`) and `WaitsEnd`
(`WaitOutcome`) follow. `LayoutInv` says what the pool holds at each stage (`HeapIs`), and where
the master structure and the words lie (`LayoutIs`); `Multiples` has the arithmetic
of rounding up. `NothingLeaks` (`NoLeak`) and `WordsHaveTheirLine`
(`OwnLine`) follow for every size, alignment and number of processors.

`HandleTableProofs`, entries. `EntryInv` says what each entry tells of the thread that has
it; with it alone `LockedByOne` (`EntryExclusive`) follows. The wait blocks need the
shape of the lists: `ListInv(q)` gives, for the shared list and for the list each
unblocker took, the sequence `q[x]` of blocks that the `next` links spell out, and says

* `Queues`: these sequences are disjoint, so nobody is woken by two unblockers;
* `Waiter`: a block on a list belongs to a thread that is still in its wait, and
  its wait bit tells whether that thread sleeps;
* `Waker`: who is about to set an event sets that of a sleeper, and is the only one;
* `Promised`: who is on the shared list and has looked at its entry again waits for
  an entry that is locked, or somebody is about to take the list.

`BlocksOutliveUse` (`NoDanglingBlock`) and `WakeupsArrive` (`NoLostWakeup`) follow; the
sequences are not in the model, the invariant says they exist.

`HandleTableProofs`, free lists. `FreeIInv` says that the race of the finding has
happened (`raced`), or that there are four disjoint sets of
handles: the first list `F`, the second list `L`, the list `M` that a thread moves and
the new low level table `S`, none of which anybody uses (`Apart`), and that

* `Stack`, `Row`: following `next` from a member leads to another member or to the end,
  never to the head, and to no member twice. Sets are enough: that a list is finite
  and complete is not needed for its safety;
* `PushLocks`: who grows or moves has the lock of the table alone, and who pops shares
  that of the handle;
* `OneUse`: a handle is in use, in the hands of one thread, or neither;
* `PutOf`: what a thread that moves, grows or frees has linked is still linked so;
* `GuardOf`: a popper holds a lock under which it saw its handle first. If the handle
  is still in `F` then its successor is the one the popper read. It may have left `F`,
  but it has not come back: it is not in `S`, and nobody frees it to the first list.

`GuardOf` is what the push locks are for. It is kept as long as nobody frees to the first list
a handle that is being popped; since the lock of such a handle is held, `handle.c` 304
sends it exactly there, and that step sets `raced` (`RaceStays`: for good). A handle
that is being popped is therefore never on its way to the second list, and the
waiting of the mover at 662, though the proof uses it, protects nothing before the race. `LockNumber` is all
that is used of the number of locks. `ListStep` reduces a step of one
thread to what it does to the lists and to the poppers (`Kept`). From `FreeInvariance`
follow `HandleHasOneUser` (`OneUserUnlessRaced`) and `HandleInRange`
(`InRangeUnlessRaced`).

`ResourceProofs`. The three things that must agree are what each thread does and has
(`Calls`), the table that names the owners (`Named`, `First`) and the counts
(`Counting`); none is inductive without the others. A release that wakes waiters moves
counts from the waiters to grants that are posted after the lock was dropped, so
`Counting` speaks of both, and `SharedGrants` is a sum over what threads still have
to post. A step of one thread changes a count by what that thread was and becomes
(`MovedCounts`), and the table by one or two entries (`NamedPut`, `NamedFree`,
`NamedPass`, `NamedMerge`, `NamedGrow`), so an action needs only what it does itself.
Theorems: `ResourceInvariance`, `WakeUpsMatchWaiters` (`WaitersCounted`),
`OwnersAreCounted` (`ActiveCountsOwners`), `EveryOwnerIsNamed` (`EntriesNameOwners`),
`FirstEntryIsNotReserved` (`FirstEntryFree`).

`CondVarProofs`. The keyed event is proved inside its user, as the two rely on each
other. `IInv` has

* `Paired`: who is on which list of the event, and that a wait and a release on the
  lists have different keys; `MeetEffect`, `WaitEnlists`, `ReleaseEnlists`,
  `KeyedStepEffect` and `ReturnEffect` say what the steps of a call do to it;
* `CallOf`: which thread is in the event, and for which key;
* `Lock`: the holder of the list; `ListedOf`: the list has exactly the sleepers not yet
  told of their removal;
* `LocalsOf`: what the holder remembers. In the loop of `InternalWake` there is a place
  `p` in the list (`Place`): up to it the list is as it was locked and nobody has been
  woken (`Loop`), behind it everything was removed and nobody still sleeps who slept
  then (`Past`). Where the loop has ended, `p` is the oldest entry, or the head;
* `Watched`: what the waker saw.

The argument for the wake-ups is that a thread the waker saw asleep cannot come back
to the keyed event while the list is locked, because it has to lock the list to do
so: of the threads it saw, those on the list of waits only get fewer. `Invariance` has one lemma per kind of action; from it
`KeyedEventPairs` (`RendezvousPaired`), `EntriesAlive` (`NoDanglingEntry`),
`OldestTaken` (`WakeTakesOldest`) and `RemovedStaysAsleep` (the action property
`RemovedNotWoken`: a release is for an entry that is linked, so it finds nobody whose
entry was removed). `CallsReturn`, and the finding at `condvar.c` 312, are for TLC.

`DataTheorems`. Induction over the numbers with a set in place of a predicate
(`Induction`, from `LeastNumber`), from which come what a push to and a pop from a
linked list do to the sequence it spells (`ListPush`, `ListPop`), how far a walk
along it gets (`ListLength`, `ListFollowed`), and that the sum of a function over a
finite set exists, and changes by what changed in one place (`SumAdd`, `SumRemove`,
`SumChange`).

The inductive invariants were checked on the small instances of the runs before
they were proved; the runs list the properties that follow from them.

Only model-checked: all liveness properties (fairness is out of the prover's
reach).

## Findings

* `rundown.c` 492-498: the cache-aware wait compares in the wrong sense. It
  sleeps when everything has been released, and nobody will set the event, and
  returns at once while references are out
  (`rundown_cache_aware_drained`; `WaitOutcome` of `rundown_object` shows the sleep
  without end).
* `pushlock.c` 890-935 and 1027-1070: the unlock loops of `ExfReleasePushLock` and
  `ExfReleasePushLockShared` do not reload `OldValue` after a failed
  compare-exchange. When a new waiter pushed its block meanwhile, the release
  spins with the value that is gone and the lock stays held (`pushlock_unlock`).
* `handle.c` 304: a freed handle goes to the first list exactly when its push lock
  is held, that is when another thread may be popping it; the lists are chosen the
  wrong way round. The popper's compare-exchange then succeeds with a stale value
  and an access mask or a handle in use becomes the first free one
  (`handle_free_list_in_range`; `handle_free_list` shows that nothing else breaks
  the lists).
* `handle.c` 669-678: when a handle is freed to the first list while the second is
  being moved, a table that is not strict FIFO reaches the assertion for strict
  FIFO, and the handles that were being moved are lost. This does not depend on
  the choice at 304: the step `MoveReverse` is taken in the run
  `handle_free_list`, and no property says it should not be.
* `condvar.c` 312: `InternalWake` takes `STATUS_TIMEOUT` for success. A sleeper that is
  on the list and has dropped the lock of its caller, but has not reached the keyed
  event, is not there to be woken; its entry is removed all the same, under the comment
  "We've woken a thread" (319), and a wake of one thread stops there. The sleeper then
  waits for a wake that can no longer find it, for ever if it has no timeout
  (`condvar_removed_is_awake`; `RemovedNotWoken` of `condvar`).

## Plan

Done: run-down protection and its cache-aware form, push locks, guarded mutexes,
entries and free lists of handle tables, executive resources, keyed events and
condition variables, with the proofs above. What is left, in this order:

1. Components: fast references and callbacks over run-down protection, with the
   races at `callback.c` 138 and 662; kernel queues and worker threads
   (concurrency limit, rundown of a queue); the duplication of handle tables; the
   gate with its thread-lock retry; request and reply on LPC ports.

## Not modelled

A timeout of `ExTimedWaitForUnblockPushLock`: nobody passes one. Of the handle
tables, the three-level lookup, quota, list of tables and duplication. Of the
executive resource, `ExDeleteResourceLite`, the queries, the priority boosts and
the debugging code; an owner table that cannot be allocated (the code does not
check). Of keyed events, creating and opening them, the hash and several
processes. The critical section or SRW lock of a condition variable's caller is a
primitive. Callbacks, fast references, kernel queues, worker threads and ports,
for now; the other parts of the system as `PROJECT.json` says. Dispatcher events and
`KeWaitForSingleObject` are primitives: waiting takes a signal. Weak memory: the
interlocked operations are full barriers, and plain accesses are taken to be
sequentially consistent, as on the x86 targets for the accesses made here. The
wrap-around of counts: a count is bounded by the references that exist, far
below the width of the word.
