------------------------------ MODULE Resource ------------------------------
(***************************************************************************)
(* Executive resources: the reader/writer locks of file systems and        *)
(* drivers (ntoskrnl/ex/resource.c).  They are recursive, can be downgraded*)
(* and handed to an owner pointer, and keep a table of their sharers.      *)
(*                                                                         *)
(* The fields are changed under the resource's spin lock: an action is     *)
(* what a call does between acquiring and releasing it, or one of the      *)
(* steps it makes without it: allocating, waiting, posting the semaphore   *)
(* or the event, setting the owner.  A call with Wait = FALSE that cannot  *)
(* be granted changes nothing, and a wait that times out waits again       *)
(* (ExpWaitForResource); neither is a step here.                           *)
(***************************************************************************)
EXTENDS Integers, Sequences, FiniteSets, FiniteSetsExt

CONSTANTS Threads,      \* the threads that use the resource
          Pointers,     \* the owner pointers of ExSetResourceOwnerPointer
          NoOwner,      \* a null owner
          HandedOver,   \* the owner 1, of a resource given to a waiter
          FirstSize,    \* the size of a new owner table: 3 in the code,
          MoreEntries,  \* and what an expansion adds: 4.  Entry 0 has the size
          MaxCount      \* bound: how often one owner has acquired

Owners == Threads \cup Pointers

ASSUME ResourceAssumption ==
    /\ IsFiniteSet(Owners) /\ Threads \cap Pointers = {}
    /\ NoOwner \notin Owners /\ HandedOver \notin Owners /\ NoOwner # HandedOver
    /\ FirstSize \in Nat \ {0, 1} /\ MoreEntries \in Nat \ {0}
    /\ MaxCount \in Nat \ {0}

VARIABLES exclusive,    \* Flag & ResourceOwnedExclusive
          activeEntries, activeCount,
          ownerEntry,   \* OwnerEntry
          ownerTable,   \* OwnerTable, from entry 1; empty: there is none
          sharedWaiters, exclusiveWaiters,      \* NumberOf...
          semaphore,    \* SharedWaiters: whether it exists, and its count
          event,        \* ExclusiveWaiters: whether it exists, and is set
          pc,           \* what each thread does next
          loc,          \* loc[t]: its locals
          held          \* history: what each owner has acquired, how often

entries == <<ownerEntry, ownerTable>>
counts  == <<exclusive, activeEntries, activeCount>>
waiters == <<sharedWaiters, exclusiveWaiters>>
objects == <<semaphore, event>>
vars    == <<counts, entries, waiters, objects, pc, loc, held>>

FreeEntry == [thread |-> NoOwner, count |-> 0]

(* Which call it is; OldSize of ExpExpandResourceOwnerTable; Count or       *)
(* OldWaiters, with which the semaphore is released.                        *)
NoLocals == [call |-> "none", size |-> 0, n |-> 0]
Nothing  == [mode |-> "no", n |-> 0]

(* ExInitializeResourceLite *)
Init ==
    /\ exclusive = FALSE /\ activeEntries = 0 /\ activeCount = 0
    /\ ownerEntry = FreeEntry /\ ownerTable = <<>>
    /\ sharedWaiters = 0 /\ exclusiveWaiters = 0
    /\ semaphore = [there |-> FALSE, count |-> 0]
    /\ event = [there |-> FALSE, set |-> FALSE]
    /\ pc = [o \in Owners |-> "Idle"]
    /\ loc = [o \in Owners |-> NoLocals]
    /\ held = [o \in Owners |-> Nothing]

Goto(t, l, r) == pc' = [pc EXCEPT ![t] = l] /\ loc' = [loc EXCEPT ![t] = r]
Return(t)     == Goto(t, "Idle", NoLocals)

(* What t has acquired: once more, in mode m *)
Hold(t, m) == held' = [held EXCEPT ![t] = [mode |-> m, n |-> @.n + 1]]

-----------------------------------------------------------------------------
(* The owner entries, by number; 0 is OwnerEntry. *)
Entry(i) == IF i = 0 THEN ownerEntry ELSE ownerTable[i]

PutEntry(i, e) ==
    /\ ownerEntry' = IF i = 0 THEN e ELSE ownerEntry
    /\ ownerTable' = IF i = 0 THEN ownerTable ELSE [ownerTable EXCEPT ![i] = e]

(* The entries of an owner, and the free entries, of the table. *)
Listed(o) == {i \in DOMAIN ownerTable : ownerTable[i].thread = o}

None == -1

(* ExpFindFreeEntry *)
FindFreeEntry == IF Listed(NoOwner) = {} THEN None ELSE Min(Listed(NoOwner))

(* Mutant: the first entry is taken whenever it is free. *)
FindAnyEntryForThread(t, firstIneligible) ==
    IF ownerEntry.thread = t THEN 0
    ELSE IF Listed(t) # {} THEN Min(Listed(t))
    ELSE IF ownerEntry.thread = NoOwner THEN 0
    ELSE FindFreeEntry

(* ExpFindEntryForThread, with a lock handle.  The index it leaves in the   *)
(* thread is a hint that saves a release the search.                        *)
FindEntryForThread(t, firstIneligible) ==
    IF ownerEntry.thread = t THEN 0
    ELSE IF Listed(t) # {} THEN Min(Listed(t))
    ELSE IF ~firstIneligible /\ ownerEntry.thread = NoOwner THEN 0
    ELSE FindFreeEntry

(* The entry of an owner, as the release and ExSetResourceOwnerPointer find *)
(* it; None is where they bugcheck.                                         *)
EntryOf(o) ==
    IF ownerEntry.thread = o THEN 0
    ELSE IF Listed(o) # {} THEN Min(Listed(o)) ELSE None

-----------------------------------------------------------------------------
(* A call drops the lock to allocate something, and then starts again. *)
AllocateFor(t, what, call) ==
    /\ Goto(t, what, [NoLocals EXCEPT !.call = call, !.size = Len(ownerTable)])
    /\ UNCHANGED <<counts, entries, waiters, held>>

(* Mutant: two threads that both saw no event each set their own. *)
AllocateEventAnyway(t) ==
    /\ pc[t] = "AllocEvent"
    /\ event' = [there |-> TRUE, set |-> FALSE]
    /\ Goto(t, "Again", [loc[t] EXCEPT !.size = 0])
    /\ UNCHANGED <<counts, entries, waiters, semaphore, held>>

(* ExpAllocateExclusiveWaiterEvent: kept if nobody else was faster. *)
AllocateEvent(t) ==
    /\ pc[t] = "AllocEvent"
    /\ event' = IF event.there THEN event ELSE [there |-> TRUE, set |-> FALSE]
    /\ Goto(t, "Again", [loc[t] EXCEPT !.size = 0])
    /\ UNCHANGED <<counts, entries, waiters, semaphore, held>>

(* ExpAllocateSharedWaiterSemaphore *)
AllocateSemaphore(t) ==
    /\ pc[t] = "AllocSemaphore"
    /\ semaphore' = IF semaphore.there THEN semaphore
                    ELSE [there |-> TRUE, count |-> 0]
    /\ Goto(t, "Again", [loc[t] EXCEPT !.size = 0])
    /\ UNCHANGED <<counts, entries, waiters, event, held>>

Free(n) == [i \in 1 .. n |-> FreeEntry]

(* The code goes on after an expansion. *)
Expanded(t) ==
    /\ Goto(t, IF loc[t].call = "List" THEN "List" ELSE "Again",
            [loc[t] EXCEPT !.size = 0])
    /\ UNCHANGED <<counts, ownerEntry, waiters, objects, held>>

(* Mutants: the new table is not a copy of the old one; the table is only   *)
(* replaced when it has changed.                                            *)
ExpandOwnerTableEmpty(t) ==
    /\ pc[t] = "Expand"
    /\ ownerTable' = IF Len(ownerTable) # loc[t].size THEN ownerTable
                     ELSE IF ownerTable = <<>> THEN Free(FirstSize - 1)
                     ELSE Free(Len(ownerTable) + MoreEntries)
    /\ Expanded(t)

ExpandOwnerTableNot(t) ==
    /\ pc[t] = "Expand"
    /\ ownerTable' = IF Len(ownerTable) = loc[t].size THEN ownerTable
                     ELSE ownerTable \o Free(MoreEntries)
    /\ Expanded(t)

(* ExpExpandResourceOwnerTable: the larger table replaces the one there was *)
(* unless somebody else replaced it first.                                  *)
ExpandOwnerTable(t) ==
    /\ pc[t] = "Expand"
    /\ ownerTable' = IF Len(ownerTable) # loc[t].size THEN ownerTable
                     ELSE IF ownerTable = <<>> THEN Free(FirstSize - 1)
                     ELSE ownerTable \o Free(MoreEntries)
    /\ Expanded(t)

-----------------------------------------------------------------------------
(* Nobody owns the resource: take it. *)
TakeFree(t, m) ==
    /\ exclusive' = (m = "X") /\ activeEntries' = 1 /\ activeCount' = 1
    /\ PutEntry(0, [thread |-> t, count |-> 1])
    /\ Hold(t, m) /\ Return(t)
    /\ UNCHANGED waiters

(* The owner of entry i acquires once more. *)
TakeAgain(t, i) ==
    /\ PutEntry(i, [Entry(i) EXCEPT !.count = @ + 1])
    /\ Hold(t, held[t].mode) /\ Return(t)
    /\ UNCHANGED <<counts, waiters>>

OwnsExclusive(t) == exclusive /\ ownerEntry.thread = t

(* ExAcquireResourceExclusiveLite; granted at once, it is also              *)
(* ExTryToAcquireResourceExclusiveLite, which tests ActiveCount.            *)
AcquireExclusive(t) ==
    /\ \/ activeEntries = 0 /\ TakeFree(t, "X")
       \/ activeEntries # 0 /\ OwnsExclusive(t) /\ TakeAgain(t, 0)
       \/ /\ activeEntries # 0 /\ ~OwnsExclusive(t) /\ ~event.there
          /\ AllocateFor(t, "AllocEvent", "Exclusive")
       \/ /\ activeEntries # 0 /\ ~OwnsExclusive(t) /\ event.there
          /\ exclusiveWaiters' = exclusiveWaiters + 1
          /\ Goto(t, "WaitExclusive", NoLocals)
          /\ UNCHANGED <<counts, entries, sharedWaiters, held>>
    /\ UNCHANGED objects

TryToAcquireExclusive(t) ==
    /\ activeCount = 0
    /\ TakeFree(t, "X")
    /\ UNCHANGED objects

(* Wait for shared access, with entry i reserved or, if None, without one. *)
WaitShared(t, i, call) ==
    \/ ~semaphore.there /\ AllocateFor(t, "AllocSemaphore", call)
    \/ /\ semaphore.there
       /\ IF i = None THEN UNCHANGED entries
          ELSE PutEntry(i, [thread |-> t, count |-> 1])
       /\ sharedWaiters' = sharedWaiters + 1
       /\ Goto(t, IF i = None THEN "WaitUnlisted" ELSE "WaitShared", NoLocals)
       /\ UNCHANGED <<counts, exclusiveWaiters, held>>

(* One more sharer, in entry i. *)
TakeShared(t, i) ==
    /\ activeEntries' = activeEntries + 1
    /\ PutEntry(i, [thread |-> t, count |-> 1])
    /\ Hold(t, "S") /\ Return(t)
    /\ UNCHANGED <<exclusive, activeCount, waiters>>

(* An exclusive waiter goes first: ExAcquireResourceSharedLite waits with   *)
(* an entry reserved, and not the first one.                                *)
MustQueue(call) == call = "Shared" /\ exclusiveWaiters > 0

(* ... ExAcquireSharedWaitForExclusive waits before it looks for an entry.  *)
MustWaitUnlisted(call) == call = "WaitForExclusive" /\ exclusiveWaiters > 0

SharedByOthers(t, i, call) ==
    \/ i = None /\ AllocateFor(t, "Expand", call)
    \/ i # None /\ Entry(i).thread = t /\ TakeAgain(t, i)
    \/ i # None /\ Entry(i).thread # t /\ ~MustQueue(call) /\ TakeShared(t, i)
    \/ i # None /\ Entry(i).thread # t /\ MustQueue(call) /\ WaitShared(t, i, call)

(* ExAcquireResourceSharedLite ("Shared"), ExAcquireSharedStarveExclusive   *)
(* ("Starve") and ExAcquireSharedWaitForExclusive ("WaitForExclusive")      *)
AcquireShared(t, call) ==
    /\ \/ activeEntries = 0 /\ TakeFree(t, "S")
       \/ activeEntries # 0 /\ OwnsExclusive(t) /\ TakeAgain(t, 0)
       \/ /\ activeEntries # 0 /\ exclusive /\ ~OwnsExclusive(t)
          /\ IF FindFreeEntry = None THEN AllocateFor(t, "Expand", call)
             ELSE WaitShared(t, FindFreeEntry, call)
       \/ /\ activeEntries # 0 /\ ~exclusive /\ MustWaitUnlisted(call)
          /\ WaitShared(t, None, call)
       \/ /\ activeEntries # 0 /\ ~exclusive /\ ~MustWaitUnlisted(call)
          /\ SharedByOthers(t, FindEntryForThread(t, MustQueue(call)), call)
    /\ UNCHANGED objects

(***************************************************************************)
(* The calls a thread may make.  It does not ask for exclusive access while*)
(* it shares the resource, nor wait for exclusive waiters that wait for it.*)
(***************************************************************************)
CanAcquire(t) == pc[t] = "Idle" /\ held[t].n < MaxCount

StartExclusive(t) ==
    /\ CanAcquire(t) /\ held[t].mode # "S"
    /\ AcquireExclusive(t) \/ TryToAcquireExclusive(t)

StartShared(t) ==
    /\ CanAcquire(t)
    /\ \E call \in {"Shared", "Starve", "WaitForExclusive"} :
          /\ call = "WaitForExclusive" => held[t].mode # "S" \/ exclusiveWaiters = 0
          /\ AcquireShared(t, call)

(* The call starts again after an allocation. *)
Again(t) ==
    /\ pc[t] = "Again"
    /\ \/ loc[t].call = "Exclusive" /\ AcquireExclusive(t)
       \/ loc[t].call # "Exclusive" /\ AcquireShared(t, loc[t].call)

-----------------------------------------------------------------------------
(* ExpWaitForResource on the semaphore, for the waiters with an entry ... *)
WakeShared(t) ==
    /\ pc[t] = "WaitShared" /\ semaphore.count > 0
    /\ semaphore' = [semaphore EXCEPT !.count = @ - 1]
    /\ Hold(t, "S") /\ Return(t)
    /\ UNCHANGED <<counts, entries, waiters, event>>

(* ... and those without. *)
WakeUnlisted(t) ==
    /\ pc[t] = "WaitUnlisted" /\ semaphore.count > 0
    /\ semaphore' = [semaphore EXCEPT !.count = @ - 1]
    /\ Goto(t, "List", [NoLocals EXCEPT !.call = "List"])
    /\ UNCHANGED <<counts, entries, waiters, event, held>>

(* They find or make one, not the first, now. *)
ListWoken(t) ==
    /\ pc[t] = "List"
    /\ LET i == FindEntryForThread(t, TRUE)
       IN  \/ i = None /\ AllocateFor(t, "Expand", "List")
           \/ /\ i # None
              /\ PutEntry(i, [thread |-> t, count |-> 1])
              /\ Hold(t, "S") /\ Return(t)
              /\ UNCHANGED <<counts, waiters>>
    /\ UNCHANGED objects

(* ... on the event *)
WakeExclusive(t) ==
    /\ pc[t] = "WaitExclusive" /\ event.set
    /\ event' = [event EXCEPT !.set = FALSE]
    /\ Goto(t, "SetOwner", NoLocals)
    /\ UNCHANGED <<counts, entries, waiters, semaphore, held>>

(* The new exclusive owner puts its name in place, without the lock. *)
SetOwner(t) ==
    /\ pc[t] = "SetOwner"
    /\ PutEntry(0, [ownerEntry EXCEPT !.thread = t])
    /\ Hold(t, "X") /\ Return(t)
    /\ UNCHANGED <<counts, waiters, objects>>

-----------------------------------------------------------------------------
Less(o) ==
    held' = [held EXCEPT ![o] = IF @.n = 1 THEN Nothing ELSE [mode |-> @.mode, n |-> @.n - 1]]

(* One release of several. *)
ReleaseOnce(o, i) ==
    /\ PutEntry(i, [Entry(i) EXCEPT !.count = @ - 1])
    /\ Return(o)
    /\ UNCHANGED <<counts, waiters>>

(* Give exclusive access to a waiter: the event is set after unlocking. *)
GiveExclusive(o) ==
    /\ exclusive' = TRUE /\ activeEntries' = 1
    /\ exclusiveWaiters' = exclusiveWaiters - 1
    /\ Goto(o, "SetEvent", NoLocals)
    /\ UNCHANGED <<activeCount, sharedWaiters>>

(* Mutant: the waiters replace whoever is active. *)
GiveSharedOnly(o, active) ==
    /\ exclusive' = FALSE /\ activeEntries' = sharedWaiters
    /\ sharedWaiters' = 0
    /\ Goto(o, "ReleaseSemaphore", [NoLocals EXCEPT !.n = sharedWaiters])
    /\ UNCHANGED <<activeCount, exclusiveWaiters>>

(* Make the waiters active owners: the semaphore is released later, too. *)
GiveShared(o, active) ==
    /\ exclusive' = FALSE /\ activeEntries' = active + sharedWaiters
    /\ sharedWaiters' = 0
    /\ Goto(o, "ReleaseSemaphore", [NoLocals EXCEPT !.n = sharedWaiters])
    /\ UNCHANGED <<activeCount, exclusiveWaiters>>

BecomeFree(o) ==
    /\ exclusive' = FALSE /\ activeEntries' = 0 /\ activeCount' = 0
    /\ Return(o)
    /\ UNCHANGED waiters

HandedEntry == [thread |-> HandedOver, count |-> 1]

(* ExReleaseResourceForThreadLite of an exclusive owner: the shared waiters *)
(* go first.                                                                *)
ReleaseExclusive(o) ==
    /\ pc[o] = "Idle" /\ held[o].n > 0 /\ exclusive
    /\ \/ ownerEntry.count > 1 /\ ReleaseOnce(o, 0)
       \/ /\ ownerEntry.count <= 1 /\ sharedWaiters > 0
          /\ PutEntry(0, FreeEntry) /\ GiveShared(o, 0)
       \/ /\ ownerEntry.count <= 1 /\ sharedWaiters = 0 /\ exclusiveWaiters > 0
          /\ PutEntry(0, HandedEntry) /\ GiveExclusive(o)
       \/ /\ ownerEntry.count <= 1 /\ sharedWaiters = 0 /\ exclusiveWaiters = 0
          /\ PutEntry(0, FreeEntry) /\ BecomeFree(o)
    /\ Less(o)
    /\ UNCHANGED objects

(* ... of a sharer: the last one lets an exclusive waiter in. *)
ReleaseShared(o) ==
    /\ pc[o] = "Idle" /\ held[o].n > 0 /\ ~exclusive /\ EntryOf(o) # None
    /\ LET i == EntryOf(o) IN
       \/ Entry(i).count > 1 /\ ReleaseOnce(o, i)
       \/ /\ Entry(i).count <= 1 /\ activeEntries > 1
          /\ PutEntry(i, FreeEntry)
          /\ activeEntries' = activeEntries - 1
          /\ Return(o)
          /\ UNCHANGED <<exclusive, activeCount, waiters>>
       \/ /\ Entry(i).count <= 1 /\ activeEntries <= 1 /\ exclusiveWaiters > 0
          /\ ownerEntry' = HandedEntry
          /\ ownerTable' = IF i = 0 THEN ownerTable
                           ELSE [ownerTable EXCEPT ![i] = FreeEntry]
          /\ GiveExclusive(o)
       \/ /\ Entry(i).count <= 1 /\ activeEntries <= 1 /\ exclusiveWaiters = 0
          /\ PutEntry(i, FreeEntry) /\ BecomeFree(o)
    /\ Less(o)
    /\ UNCHANGED objects

(* KeReleaseSemaphore *)
ReleaseSemaphore(o) ==
    /\ pc[o] = "ReleaseSemaphore"
    /\ semaphore' = [semaphore EXCEPT !.count = @ + loc[o].n]
    /\ Return(o)
    /\ UNCHANGED <<counts, entries, waiters, event, held>>

(* KeSetEventBoostPriority.  When the waiter sleeps already it also stores  *)
(* its name as the owner; the waiter does that itself, in SetOwner.         *)
SetEvent(o) ==
    /\ pc[o] = "SetEvent"
    /\ event' = [event EXCEPT !.set = TRUE]
    /\ Return(o)
    /\ UNCHANGED <<counts, entries, waiters, semaphore, held>>

-----------------------------------------------------------------------------
(* ExConvertExclusiveToSharedLite *)
ConvertToShared(t) ==
    /\ pc[t] = "Idle" /\ held[t].mode = "X"
    /\ \/ sharedWaiters > 0 /\ GiveShared(t, activeEntries)
       \/ /\ sharedWaiters = 0
          /\ exclusive' = FALSE
          /\ UNCHANGED <<activeEntries, activeCount, waiters, pc, loc>>
    /\ held' = [held EXCEPT ![t].mode = "S"]
    /\ UNCHANGED <<entries, objects>>

(* ExSetResourceOwnerPointer: an owner gives what it has to a pointer, which *)
(* may have something already.                                              *)
SetOwnerPointer(t, p) ==
    /\ pc[t] = "Idle" /\ held[t].n > 0 /\ held[t].n + held[p].n <= MaxCount
    /\ pc[p] = "Idle"
    /\ held' = [held EXCEPT ![t] = Nothing,
                            ![p] = [mode |-> held[t].mode, n |-> held[t].n + @.n]]
    /\ LET own  == IF exclusive THEN 0 ELSE EntryOf(t)
           this == IF exclusive THEN None ELSE EntryOf(p)
           sum  == [thread |-> p, count |-> Entry(this).count + Entry(own).count]
       IN  /\ own # None
           /\ \/ /\ this = None
                 /\ PutEntry(own, [Entry(own) EXCEPT !.thread = p])
                 /\ UNCHANGED activeEntries
              \/ /\ this # None
                 /\ ownerEntry' = CASE this = 0 -> sum [] own = 0 -> FreeEntry
                                    [] OTHER -> ownerEntry
                 /\ ownerTable' = [i \in DOMAIN ownerTable |->
                                      CASE i = this -> sum [] i = own -> FreeEntry
                                        [] OTHER -> ownerTable[i]]
                 /\ activeEntries' = activeEntries - 1
    /\ UNCHANGED <<exclusive, activeCount, waiters, objects, pc, loc>>

(* ExReinitializeResourceLite, called while nobody else uses the resource.  *)
(* Clearing OwnerCount of entry 0 takes TableSize back to its last two      *)
(* bits, that is to its first value.                                        *)
Reinitialize ==
    /\ \A o \in Owners : pc[o] = "Idle"
    /\ exclusive' = FALSE /\ activeEntries' = 0 /\ activeCount' = 0
    /\ ownerEntry' = FreeEntry
    /\ ownerTable' = IF ownerTable = <<>> THEN <<>> ELSE Free(FirstSize - 1)
    /\ sharedWaiters' = 0 /\ exclusiveWaiters' = 0
    /\ semaphore' = [semaphore EXCEPT !.count = 0]
    /\ event' = [event EXCEPT !.set = FALSE]
    /\ held' = [o \in Owners |-> Nothing]
    /\ UNCHANGED <<pc, loc>>

-----------------------------------------------------------------------------
Start(t) == StartExclusive(t) \/ StartShared(t)

Release(o) == ReleaseExclusive(o) \/ ReleaseShared(o)

Continue(t) ==
    \/ AllocateEvent(t) \/ AllocateSemaphore(t) \/ ExpandOwnerTable(t) \/ Again(t)
    \/ WakeShared(t) \/ WakeUnlisted(t) \/ ListWoken(t)
    \/ WakeExclusive(t) \/ SetOwner(t)
    \/ ReleaseSemaphore(t) \/ SetEvent(t)

Next ==
    \/ \E t \in Threads : Start(t) \/ ConvertToShared(t)
    \/ \E t \in Threads, p \in Pointers : SetOwnerPointer(t, p)
    \/ \E o \in Owners : Release(o) \/ Continue(o)
    \/ Reinitialize

Spec == Init /\ [][Next]_vars

(* A thread inside a call is scheduled, and owners release in the end. *)
FairSpec ==
    Spec /\ \A o \in Owners : WF_vars(Continue(o)) /\ WF_vars(Release(o))

-----------------------------------------------------------------------------
PCs == {"Idle", "Again", "AllocEvent", "AllocSemaphore", "Expand", "WaitShared",
        "WaitUnlisted", "List", "WaitExclusive", "SetOwner", "ReleaseSemaphore",
        "SetEvent"}

OwnerEntries(o) == [thread : o, count : Nat]
Locals   == [call : {"none", "Exclusive", "Shared", "Starve", "WaitForExclusive", "List"},
             size : Nat, n : Nat]
Holdings == [mode : {"no", "S", "X"}, n : Nat]

TypeOK ==
    /\ exclusive \in BOOLEAN /\ activeEntries \in Nat /\ activeCount \in {0, 1}
    /\ ownerTable \in Seq(OwnerEntries(Owners \cup {NoOwner}))
    /\ ownerEntry \in OwnerEntries(Owners \cup {NoOwner, HandedOver})
    /\ sharedWaiters \in Nat /\ exclusiveWaiters \in Nat
    /\ semaphore \in [there : BOOLEAN, count : Nat]
    /\ event \in [there : BOOLEAN, set : BOOLEAN]
    /\ pc \in [Owners -> PCs]
    /\ loc \in [Owners -> Locals] /\ held \in [Owners -> Holdings]

At(l)     == {o \in Owners : pc[o] = l}
In(m)     == {o \in Owners : held[o].mode = m}
Number(b) == IF b THEN 1 ELSE 0

(* Shared access that was given to waiters and has not reached them, which  *)
(* is not addressed to anyone: the semaphore has it or is about to get it.  *)
Posting == [o \in Owners |-> IF pc[o] = "ReleaseSemaphore" THEN loc[o].n ELSE 0]
SharedGrants == semaphore.count + SumFunctionOnSet(Posting, Owners)

(* The same for exclusive access *)
ExclusiveGrants == Number(event.set) + Cardinality(At("SetEvent"))

(* The counts tell who is in, although access is given away before the one  *)
(* who gets it knows, and can reach another waiter than the one that was    *)
(* counted: an owned resource has one exclusive owner, present or on its    *)
(* way, and nobody else; a shared one has as many active entries as owners  *)
(* and grants on their way.                                                 *)
ActiveCountsOwners ==
    /\ TypeOK
    /\ activeCount = Number(activeEntries > 0)
    /\ exclusive =>
          /\ activeEntries = 1 /\ In("S") = {}
          /\ SharedGrants = 0 /\ At("List") = {} /\ \A o \in Owners : loc[o].call # "List"
          /\ Cardinality(In("X") \cup At("SetOwner")) + ExclusiveGrants = 1
    /\ ~exclusive =>
          /\ In("X") \cup At("SetOwner") = {} /\ ExclusiveGrants = 0
          /\ activeEntries = Cardinality(In("S")) + SharedGrants
                 + Cardinality({o \in Owners : loc[o].call = "List"})

(* Every waiter is counted, or access is on its way: no wake-up is lost and *)
(* none is one too many, whoever takes it.                                  *)
WaitersCounted ==
    /\ Cardinality(At("WaitShared") \cup At("WaitUnlisted")) = sharedWaiters + SharedGrants
    /\ Cardinality(At("WaitExclusive")) = exclusiveWaiters + ExclusiveGrants
    /\ sharedWaiters > 0 => exclusive \/ exclusiveWaiters > 0
    /\ exclusiveWaiters > 0 => activeEntries > 0

(* The entries name each owner once, with the number of its acquisitions,   *)
(* and each waiter that reserved one; so a release finds its entry          *)
(* (RESOURCE_NOT_OWNED is not reached, resource.c 1955 and 2088), and an    *)
(* expansion of the table that raced others has lost none.                  *)
Indices == 0 .. Len(ownerTable)
Count(o) == IF pc[o] = "WaitShared" THEN 1 ELSE held[o].n
EntriesNameOwners ==
    /\ \A o \in Owners :
          LET mine == {i \in Indices : Entry(i).thread = o} IN
          /\ Cardinality(mine) = Number(Count(o) > 0)
          /\ \A i \in mine : Entry(i).count = Count(o)
          /\ held[o].mode = "X" => mine = {0}
    /\ \A i \in Indices : Entry(i).thread = NoOwner => Entry(i).count = 0

(* What the code asserts where it gives exclusive access away or lists a    *)
(* waiter: the first entry is not one that somebody has reserved            *)
(* (resource.c 1997 overwrites it), and a woken sharer has no entry yet and *)
(* is active in a shared resource (1307 to 1309).                           *)
FirstEntryFree ==
    /\ ownerEntry.thread = HandedOver <=> At("SetOwner") # {} \/ ExclusiveGrants > 0
    /\ ownerEntry.thread \in Owners => held[ownerEntry.thread].n > 0
    /\ \A t \in At("List") : ~exclusive /\ activeEntries > 0 /\ EntryOf(t) = None

(* When no new call comes, every call returns and the resource is free.     *)
CallsReturn ==
    <>[][\A t \in Threads : ~Start(t)]_vars
        => <>[](activeEntries = 0 /\ \A o \in Owners : pc[o] = "Idle")
=============================================================================
