-------------------------- MODULE HandleEntryLock --------------------------
(***************************************************************************)
(* The lock bit of handle table entries (ntoskrnl/ex/handle.c) and the     *)
(* blocking push lock its waiters sleep on (ExBlockPushLock and            *)
(* ExfUnblockPushLock of ntoskrnl/ex/pushlock.c).                          *)
(*                                                                         *)
(* All entries of a table share one push lock, HandleContentionEvent: a    *)
(* bare list of wait blocks.  Whoever unlocks an entry takes the whole     *)
(* list and wakes everyone on it.  Each action is one access to shared     *)
(* memory.  The list of free entries is the set avail.                     *)
(***************************************************************************)
EXTENDS Integers, FiniteSets

CONSTANTS Threads,      \* the threads that use the table
          Entries,      \* its entries
          Objects,      \* the objects a handle can refer to
          Null          \* a null pointer

ASSUME HandleAssumption ==
    Null \notin Threads \cup Objects /\ IsFiniteSet(Threads)

VARIABLES entry,        \* entry[e]: Value, an object and the lock bit
          avail,        \* the entries on the free lists
          head,         \* HandleTable->HandleContentionEvent
          blk,          \* blk[t]: the wait block on the stack of t
          event,        \* event[t]: its WakeEvent is set
          pc,           \* what each thread does next
          loc           \* loc[t]: its local variables

vars == <<entry, avail, head, blk, event, pc, loc>>

Blocks == Threads \cup {Null}

(* EXHANDLE_TABLE_ENTRY_LOCK_BIT is set while the entry is not locked. *)
Value   == [obj : Objects \cup {Null}, bit : BOOLEAN]
Cleared == [obj |-> Null, bit |-> FALSE]

(***************************************************************************)
(* The local variables: the entry the call is about; OldValue of           *)
(* ExpLockHandleTableEntry and of ExBlockPushLock; WaitBlock and           *)
(* NextWaitBlock of ExfUnblockPushLock; where that returns to, which also  *)
(* says whether it was called with a block of the caller's own.            *)
(***************************************************************************)
NoLocals == [ent |-> Null, old |-> Cleared, ptr |-> Null, list |-> Null,
             nxt |-> Null, ret |-> "Idle"]

NoBlock == [next |-> Null, wait |-> FALSE]

Init ==
    /\ entry = [e \in Entries |-> Cleared]
    /\ avail = Entries
    /\ head = Null
    /\ blk = [t \in Threads |-> NoBlock]
    /\ event = [t \in Threads |-> FALSE]
    /\ pc = [t \in Threads |-> "Idle"]
    /\ loc = [t \in Threads |-> NoLocals]

Ent(t) == loc[t].ent

Goto(t, l, r) == pc' = [pc EXCEPT ![t] = l] /\ loc' = [loc EXCEPT ![t] = r]
At(t, l)      == Goto(t, l, loc[t])
Return(t)     == Goto(t, "Idle", NoLocals)

(* ExpBlockOnLockedHandleEntry returns, and with it goes the frame that     *)
(* holds the wait block; back to the head of the loop of                    *)
(* ExpLockHandleTableEntry.                                                 *)
LockAgain(t) ==
    /\ blk' = [blk EXCEPT ![t] = NoBlock]
    /\ event' = [event EXCEPT ![t] = FALSE]
    /\ Goto(t, "LockLoad", [NoLocals EXCEPT !.ent = Ent(t)])

Table == <<entry, avail>>
List  == <<head, blk, event>>

-----------------------------------------------------------------------------
(* ExCreateHandle: an entry is taken from the free list ... *)
CreateHandle(t, e) ==
    /\ pc[t] = "Idle" /\ e \in avail
    /\ avail' = avail \ {e}
    /\ Goto(t, "Write", [NoLocals EXCEPT !.ent = e])
    /\ UNCHANGED <<entry, List>>

(* ... and written, without the lock bit: it is locked by its creator, who  *)
(* unlocks it next.                                                         *)
WriteEntry(t) ==
    /\ pc[t] = "Write"
    /\ \E o \in Objects : entry' = [entry EXCEPT ![Ent(t)] = [obj |-> o, bit |-> FALSE]]
    /\ At(t, "Created")
    /\ UNCHANGED <<avail, List>>

(* A call that locks an entry: ExMapHandleToPointer, ExChangeHandle, ...    *)
LookupHandle(t, e) ==
    /\ pc[t] = "Idle"
    /\ Goto(t, "LockLoad", [NoLocals EXCEPT !.ent = e])
    /\ UNCHANGED <<Table, List>>

(* ExpLockHandleTableEntry: read the entry; fail if it is free. *)
LockLoad(t) ==
    /\ pc[t] = "LockLoad"
    /\ LET v == entry[Ent(t)]
       IN  \/ v.bit /\ Goto(t, "LockCas", [loc[t] EXCEPT !.old = v])
           \/ ~v.bit /\ v.obj = Null /\ Return(t)
           \/ ~v.bit /\ v.obj # Null /\ At(t, "BlockLoad")
    /\ UNCHANGED <<Table, List>>

(* Mutant: the bit is reset by a plain store. *)
LockCasStore(t) ==
    /\ pc[t] = "LockCas"
    /\ entry' = [entry EXCEPT ![Ent(t)] = [loc[t].old EXCEPT !.bit = FALSE]]
    /\ Goto(t, "Held", [NoLocals EXCEPT !.ent = Ent(t)])
    /\ UNCHANGED <<avail, List>>

(* Reset the lock bit, or block after a lost race. *)
LockCas(t) ==
    /\ pc[t] = "LockCas"
    /\ \/ /\ entry[Ent(t)] = loc[t].old
          /\ entry' = [entry EXCEPT ![Ent(t)].bit = FALSE]
          /\ Goto(t, "Held", [NoLocals EXCEPT !.ent = Ent(t)])
       \/ /\ entry[Ent(t)] # loc[t].old
          /\ Goto(t, "BlockLoad", [NoLocals EXCEPT !.ent = Ent(t)])
          /\ UNCHANGED entry
    /\ UNCHANGED <<avail, List>>

-----------------------------------------------------------------------------
(* ExBlockPushLock: the wait bit is set and the list read ... *)
BlockLoad(t) ==
    /\ pc[t] = "BlockLoad"
    /\ blk' = [blk EXCEPT ![t].wait = TRUE]
    /\ Goto(t, "BlockCas", [loc[t] EXCEPT !.ptr = head])
    /\ UNCHANGED <<Table, head, event>>

(* ... and the block pushed on it. *)
BlockCas(t) ==
    /\ pc[t] = "BlockCas"
    /\ blk' = [blk EXCEPT ![t].next = loc[t].ptr]
    /\ \/ /\ head = loc[t].ptr
          /\ head' = t
          /\ Goto(t, "Check", [NoLocals EXCEPT !.ent = Ent(t)])
       \/ /\ head # loc[t].ptr
          /\ Goto(t, "BlockCas", [loc[t] EXCEPT !.ptr = head])
          /\ UNCHANGED head
    /\ UNCHANGED <<Table, event>>

(* Mutant: the entry is not looked at again. *)
CheckEntryNot(t) ==
    /\ pc[t] = "Check"
    /\ At(t, "WaitBit")
    /\ UNCHANGED <<Table, List>>

(* ExpBlockOnLockedHandleEntry: was it unlocked or freed meanwhile? *)
CheckEntry(t) ==
    /\ pc[t] = "Check"
    /\ LET v == entry[Ent(t)]
       IN  IF v.bit \/ v = Cleared
           THEN Goto(t, "Unblock", [loc[t] EXCEPT !.ret = "LockLoad"])
           ELSE At(t, "WaitBit")
    /\ UNCHANGED <<Table, List>>

(* ExWaitForUnblockPushLock: initialize the event; wait if the wait bit is  *)
(* still there.                                                             *)
WaitBit(t) ==
    /\ pc[t] = "WaitBit"
    /\ \/ /\ blk[t].wait
          /\ event' = [event EXCEPT ![t] = FALSE]
          /\ blk' = [blk EXCEPT ![t].wait = FALSE]
          /\ At(t, "Sleep")
       \/ ~blk[t].wait /\ LockAgain(t)
    /\ UNCHANGED <<Table, head>>

(* KeWaitForSingleObject, without a timeout *)
Sleep(t) ==
    /\ pc[t] = "Sleep" /\ event[t]
    /\ LockAgain(t)
    /\ UNCHANGED <<Table, head>>

-----------------------------------------------------------------------------
(* ExfUnblockPushLock: take the whole list. *)
Unblock(t) ==
    /\ pc[t] = "Unblock"
    /\ head' = Null
    /\ Goto(t, "UnblockLoop", [loc[t] EXCEPT !.list = head])
    /\ UNCHANGED <<Table, blk, event>>

(* One block: its next one is read before its wait bit is cleared, as its   *)
(* owner may return at once.                                                *)
UnblockBlock(t) ==
    /\ pc[t] = "UnblockLoop" /\ loc[t].list # Null
    /\ LET b == loc[t].list IN
       /\ blk' = [blk EXCEPT ![b].wait = FALSE]
       /\ IF blk[b].wait
          THEN Goto(t, "UnblockLoop", [loc[t] EXCEPT !.list = blk[b].next])
          ELSE Goto(t, "SetEvent", [loc[t] EXCEPT !.nxt = blk[b].next])
    /\ UNCHANGED <<Table, head, event>>

(* Mutant: the event is not set. *)
SetEventNot(t) ==
    /\ pc[t] = "SetEvent"
    /\ Goto(t, "UnblockLoop", [loc[t] EXCEPT !.list = loc[t].nxt, !.nxt = Null])
    /\ UNCHANGED <<Table, List>>

(* KeSetEventBoostPriority *)
SetEvent(t) ==
    /\ pc[t] = "SetEvent"
    /\ event' = [event EXCEPT ![loc[t].list] = TRUE]
    /\ Goto(t, "UnblockLoop", [loc[t] EXCEPT !.list = loc[t].nxt, !.nxt = Null])
    /\ UNCHANGED <<Table, head, blk>>

(* The function returns. *)
UnblockReturn(t) ==
    /\ \/ loc[t].ret = "Idle" /\ Return(t) /\ UNCHANGED <<blk, event>>
       \/ /\ loc[t].ret = "Free"
          /\ Goto(t, "Free", [NoLocals EXCEPT !.ent = Ent(t)])
          /\ UNCHANGED <<blk, event>>
       \/ loc[t].ret = "LockLoad" /\ LockAgain(t)
    /\ UNCHANGED <<Table, head>>

(* Mutant: a pending block of the caller's own is forgotten. *)
UnblockEndAtOnce(t) ==
    pc[t] = "UnblockLoop" /\ loc[t].list = Null /\ UnblockReturn(t)

(* The list is done.  If the caller's own block was not on it, somebody     *)
(* else has taken it off and is not through with it: wait for that.         *)
UnblockEnd(t) ==
    /\ pc[t] = "UnblockLoop" /\ loc[t].list = Null
    /\ \/ /\ loc[t].ret = "LockLoad" /\ blk[t].wait
          /\ At(t, "WaitBit")
          /\ UNCHANGED <<Table, List>>
       \/ /\ ~(loc[t].ret = "LockLoad" /\ blk[t].wait)
          /\ UnblockReturn(t)

-----------------------------------------------------------------------------
Holding == {"Created", "Held"}

(* ExUnlockHandleTableEntry: set the lock bit, then unblock the waiters. *)
UnlockEntry(t) ==
    /\ pc[t] \in Holding
    /\ entry' = [entry EXCEPT ![Ent(t)].bit = TRUE]
    /\ Goto(t, "Unblock", NoLocals)
    /\ UNCHANGED <<avail, List>>

(* ExDestroyHandle: clear the locked entry, unblock the waiters, and give   *)
(* the entry back to the free list.                                         *)
DestroyHandle(t) ==
    /\ pc[t] = "Held"
    /\ entry' = [entry EXCEPT ![Ent(t)] = Cleared]
    /\ Goto(t, "Unblock", [loc[t] EXCEPT !.ret = "Free"])
    /\ UNCHANGED <<avail, List>>

FreeEntry(t) ==
    /\ pc[t] = "Free"
    /\ avail' = avail \cup {Ent(t)}
    /\ Return(t)
    /\ UNCHANGED <<entry, List>>

-----------------------------------------------------------------------------
Start(t) == \E e \in Entries : CreateHandle(t, e) \/ LookupHandle(t, e)

Finish(t) == UnlockEntry(t) \/ DestroyHandle(t)

Continue(t) ==
    \/ WriteEntry(t) \/ LockLoad(t) \/ LockCas(t)
    \/ BlockLoad(t) \/ BlockCas(t) \/ CheckEntry(t) \/ WaitBit(t) \/ Sleep(t)
    \/ Unblock(t) \/ UnblockBlock(t) \/ SetEvent(t) \/ UnblockEnd(t)
    \/ FreeEntry(t)

Next == \E t \in Threads : Start(t) \/ Finish(t) \/ Continue(t)

Spec == Init /\ [][Next]_vars

(* A thread inside a call is scheduled, and who has locked an entry unlocks *)
(* it or closes the handle.                                                 *)
FairSpec ==
    Spec /\ \A t \in Threads : WF_vars(Continue(t)) /\ WF_vars(Finish(t))

-----------------------------------------------------------------------------
PCs == {"Idle", "Write", "Created", "Held", "LockLoad", "LockCas", "BlockLoad",
        "BlockCas", "Check", "WaitBit", "Sleep", "Unblock", "UnblockLoop", "SetEvent",
        "Free"}

WaitBlock == [next : Blocks, wait : BOOLEAN]
LocalVars == [ent : Entries \cup {Null}, old : Value, ptr : Blocks, list : Blocks,
              nxt : Blocks, ret : {"Idle", "LockLoad", "Free"}]

TypeOK ==
    /\ entry \in [Entries -> Value]
    /\ avail \in SUBSET Entries
    /\ head \in Blocks
    /\ blk \in [Threads -> WaitBlock]
    /\ event \in [Threads -> BOOLEAN]
    /\ pc \in [Threads -> PCs]
    /\ loc \in [Threads -> LocalVars]

(* An entry that holds an object and no lock bit has exactly one thread     *)
(* that locked it, and no other entry has one; a free entry has none.  The  *)
(* assertions of ExUnlockHandleTableEntry (handle.c 936) and of             *)
(* ExDestroyHandle (1030, 1031) follow.                                     *)
Holders(e) == {t \in Threads : pc[t] \in Holding /\ Ent(t) = e}
EntryExclusive ==
    /\ TypeOK
    /\ \A e \in Entries :
          Cardinality(Holders(e)) = IF entry[e].obj # Null /\ ~entry[e].bit THEN 1 ELSE 0
    /\ \A e \in avail : entry[e] = Cleared

(* The blocks from b on, as Next links them. *)
Chain(b) ==
    LET chain[k \in 0 .. Cardinality(Threads)] ==
            IF k = 0 THEN b
            ELSE IF chain[k-1] = Null THEN Null ELSE blk[chain[k-1]].next
    IN  {chain[k] : k \in 0 .. Cardinality(Threads)} \ {Null}

(* The blocks a thread inside ExfUnblockPushLock has still to deal with. *)
Pending(t) ==
    CASE pc[t] = "UnblockLoop" -> Chain(loc[t].list)
      [] pc[t] = "SetEvent"    -> {loc[t].list} \cup Chain(loc[t].nxt)
      [] OTHER                 -> {}

(* The owner of a block has not left ExpBlockOnLockedHandleEntry. *)
Alive(b) ==
    \/ pc[b] \in {"Check", "WaitBit", "Sleep"}
    \/ pc[b] \in {"Unblock", "UnblockLoop", "SetEvent"} /\ loc[b].ret = "LockLoad"

(* The blocks live on the stacks of the waiters: each one that is on the    *)
(* list, or that somebody still works on, has an owner that waits, and no   *)
(* two threads work on the same one.                                        *)
NoDanglingBlock ==
    /\ \A b \in Chain(head) : Alive(b)
    /\ \A t \in Threads : \A b \in Pending(t) : Alive(b) /\ b \notin Chain(head)
    /\ \A t, u \in Threads : t # u => Pending(t) \cap Pending(u) = {}
    /\ \A t \in Threads : pc[t] = "SetEvent" => pc[loc[t].list] = "Sleep"

(* No wake-up is lost: a sleeper whose event is not set is on the private   *)
(* list of a waker, or it is on the shared list and the entry it waits for  *)
(* is locked or somebody is about to take that list.                        *)
NoLostWakeup ==
    \A t \in Threads : pc[t] = "Sleep" /\ ~event[t] =>
        \/ \E u \in Threads : t \in Pending(u)
        \/ /\ t \in Chain(head)
           /\ \/ Holders(Ent(t)) # {}
              \/ \E u \in Threads : pc[u] = "Unblock"

(* When no new call comes, every call returns: nobody waits for an entry    *)
(* that was unlocked, freed, or freed and used again.                       *)
CallsReturn ==
    <>[][\A t \in Threads : ~Start(t)]_vars
        => <>[](\A t \in Threads : pc[t] = "Idle")
=============================================================================
