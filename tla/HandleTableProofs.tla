-------------------------- MODULE HandleTableProofs --------------------------
(***************************************************************************)
(* Proofs about handle tables.  HandleEntryLock: an entry has one locker,  *)
(* no wait block outlives its owner's wait, and no wake-up is lost.  After *)
(* it HandleFreeList: a handle has one user.                               *)
(***************************************************************************)
EXTENDS HandleEntryLock, HandleFreeList, DataTheorems

USE HandleAssumption

-----------------------------------------------------------------------------
(* The threads that have an entry to themselves: the creator before and     *)
(* after it writes, who has locked it, and who destroys it.                 *)
Unblocking == {"Unblock", "UnblockLoop", "SetEvent"}
Has(t) ==
    \/ pc[t] \in {"Write", "Created", "Held", "Free"}
    \/ pc[t] \in Unblocking /\ loc[t].ret = "Free"

IsLockedEntry(e) == entry[e].obj # Null /\ ~entry[e].bit

LocalsOf(t) ==
        /\ pc[t] \notin {"Idle"} \cup Unblocking => Ent(t) \in Entries
        /\ pc[t] \in Unblocking /\ loc[t].ret # "Idle" => Ent(t) \in Entries
        /\ pc[t] = "LockCas" => loc[t].old.bit /\ loc[t].old.obj # Null

Locals == \A t \in Threads : LocalsOf(t)

(* What an entry says of its holder. *)
Entry1 ==
    /\ \A e \in Entries : entry[e].bit => entry[e].obj # Null
    /\ \A e \in avail : entry[e] = Cleared
    /\ \A t \in Threads : Has(t) =>
          /\ Ent(t) \in Entries \ avail
          /\ IF pc[t] \in Holding THEN IsLockedEntry(Ent(t)) ELSE entry[Ent(t)] = Cleared
          /\ \A u \in Threads : Has(u) /\ Ent(u) = Ent(t) => u = t
    /\ \A e \in Entries : IsLockedEntry(e) =>
          \E t \in Threads : pc[t] \in Holding /\ Ent(t) = e

EntryInv == TypeOK /\ Locals /\ Entry1

(* Each part holds at the start.                                            *)
LEMMA EntryInit == Init => EntryInv
  BY DEF Init, EntryInv, TypeOK, Locals, LocalsOf, Ent, Entry1, Has, Value, Cleared, NoBlock, NoLocals,
         Blocks, PCs, Unblocking, IsLockedEntry, Holding, LocalVars, WaitBlock

(* Where a thread goes, and what it does not change.                        *)
LEMMA GotoStep ==
    ASSUME TypeOK, NEW t \in Threads, NEW l \in PCs, NEW r \in LocalVars, Goto(t, l, r)
    PROVE  /\ pc' \in [Threads -> PCs] /\ loc' \in [Threads -> LocalVars]
           /\ pc'[t] = l /\ loc'[t] = r
           /\ \A u \in Threads : u # t => pc'[u] = pc[u] /\ loc'[u] = loc[u]
  BY DEF TypeOK, Goto

(* Updates of one local variable keep the type.                             *)
LEMMA LocalsTypes ==
    /\ NoLocals \in LocalVars
    /\ \A r \in LocalVars :
         /\ r.ent \in Entries \cup {Null} /\ r.old \in Value
         /\ r.ptr \in Blocks /\ r.list \in Blocks /\ r.nxt \in Blocks
         /\ r.ret \in {"Idle", "LockLoad", "Free"}
         /\ \A v \in Value : [r EXCEPT !.old = v] \in LocalVars
         /\ \A b \in Blocks : /\ [r EXCEPT !.ptr = b] \in LocalVars
                              /\ [r EXCEPT !.list = b] \in LocalVars
                              /\ [r EXCEPT !.nxt = b] \in LocalVars
                              /\ [r EXCEPT !.list = b, !.nxt = Null] \in LocalVars
         /\ \A e \in Entries \cup {Null} : [NoLocals EXCEPT !.ent = e] \in LocalVars
         /\ \A x \in {"Idle", "LockLoad", "Free"} : [r EXCEPT !.ret = x] \in LocalVars
<1>1. NoLocals \in LocalVars
  BY DEF LocalVars, NoLocals, Blocks, Value, Cleared
<1>2. \A e \in Entries \cup {Null} : [NoLocals EXCEPT !.ent = e] \in LocalVars
  BY <1>1 DEF LocalVars
<1>3. Null \in Blocks
  BY DEF Blocks
<1> QED BY <1>1, <1>2, <1>3 DEF LocalVars

(* So do updates of a wait block.                                           *)
LEMMA BlockTypes ==
    ASSUME TypeOK, NEW t \in Threads
    PROVE  /\ [blk EXCEPT ![t].wait = TRUE] \in [Threads -> WaitBlock]
           /\ [blk EXCEPT ![t].wait = FALSE] \in [Threads -> WaitBlock]
           /\ [blk EXCEPT ![t] = NoBlock] \in [Threads -> WaitBlock]
           /\ \A b \in Blocks : [blk EXCEPT ![t].next = b] \in [Threads -> WaitBlock]
<1>1. blk[t] \in WaitBlock
  BY DEF TypeOK
<1> QED BY <1>1 DEF TypeOK, WaitBlock, NoBlock, Blocks

(* A thread that neither gets nor gives up an entry.                        *)
LEMMA EntryFrame ==
    ASSUME EntryInv, UNCHANGED <<entry, avail>>,
           \A u \in Threads : /\ Has(u)' <=> Has(u)
                              /\ Has(u) => Ent(u)' = Ent(u)
                              /\ pc'[u] \in Holding <=> pc[u] \in Holding
    PROVE  Entry1'
<1>1. \A u \in Threads : pc[u] \in Holding => Has(u)
  BY DEF Has, Holding
<1> QED BY <1>1 DEF EntryInv, Entry1, IsLockedEntry

(* The steps of ExBlockPushLock and of the wait.                            *)
LEMMA BlockSteps ==
    ASSUME EntryInv, NEW t \in Threads,
           BlockLoad(t) \/ BlockCas(t) \/ CheckEntry(t) \/ WaitBit(t) \/ Sleep(t)
    PROVE  EntryInv'
<1> USE DEF EntryInv
<1>0. loc[t] \in LocalVars /\ blk[t] \in WaitBlock /\ loc[t].ptr \in Blocks
      /\ head \in Blocks /\ Ent(t) \in Entries
  BY LocalsTypes DEF TypeOK, Locals, LocalsOf, BlockLoad, BlockCas, CheckEntry, WaitBit,
     Sleep, Ent, Unblocking
<1>1. PICK l \in {"BlockCas", "Check", "Unblock", "WaitBit", "Sleep", "LockLoad"},
           r \in LocalVars :
        Goto(t, l, r) /\ r.ent = Ent(t) /\ (l = "Unblock" => r.ret = "LockLoad")
  <2>1. CASE BlockLoad(t)
    <3> DEFINE r == [loc[t] EXCEPT !.ptr = head]
    <3>1. r \in LocalVars /\ r.ent = Ent(t) /\ Goto(t, "BlockCas", r)
      BY <2>1, <1>0, LocalsTypes DEF BlockLoad, Ent, LocalVars
    <3> QED BY <3>1
  <2>2. CASE BlockCas(t)
    <3>1. CASE Goto(t, "Check", [NoLocals EXCEPT !.ent = Ent(t)])
      <4>1. [NoLocals EXCEPT !.ent = Ent(t)].ent = Ent(t)
        BY DEF NoLocals
      <4> QED BY <3>1, <4>1, <1>0, LocalsTypes
    <3>2. CASE Goto(t, "BlockCas", [loc[t] EXCEPT !.ptr = head])
      <4>1. [loc[t] EXCEPT !.ptr = head].ent = Ent(t)
        BY <1>0 DEF Ent, LocalVars
      <4> QED BY <3>2, <4>1, <1>0, LocalsTypes
    <3> QED BY <2>2, <3>1, <3>2 DEF BlockCas
  <2>3. CASE CheckEntry(t)
    <3>1. CASE Goto(t, "Unblock", [loc[t] EXCEPT !.ret = "LockLoad"])
      <4>1. [loc[t] EXCEPT !.ret = "LockLoad"].ent = Ent(t)
            /\ [loc[t] EXCEPT !.ret = "LockLoad"].ret = "LockLoad"
        BY <1>0 DEF Ent, LocalVars
      <4> QED BY <3>1, <4>1, <1>0, LocalsTypes
    <3>2. CASE Goto(t, "WaitBit", loc[t])
      BY <3>2, <1>0 DEF Ent
    <3> QED BY <2>3, <3>1, <3>2 DEF CheckEntry, At
  <2>4. CASE WaitBit(t) \/ Sleep(t)
    <3>1. CASE Goto(t, "Sleep", loc[t])
      BY <3>1, <1>0 DEF Ent
    <3>2. CASE Goto(t, "LockLoad", [NoLocals EXCEPT !.ent = Ent(t)])
      <4>1. [NoLocals EXCEPT !.ent = Ent(t)].ent = Ent(t)
        BY DEF NoLocals
      <4> QED BY <3>2, <4>1, <1>0, LocalsTypes
    <3> QED BY <2>4, <3>1, <3>2 DEF WaitBit, Sleep, LockAgain, At
  <2> QED BY <2>1, <2>2, <2>3, <2>4
<1>2. /\ pc' \in [Threads -> PCs] /\ loc' \in [Threads -> LocalVars]
      /\ pc'[t] = l /\ loc'[t] = r
      /\ \A u \in Threads : u # t => pc'[u] = pc[u] /\ loc'[u] = loc[u]
  <2>1. l \in PCs
    BY DEF PCs
  <2> QED BY <2>1, <1>1, GotoStep
<1>3. UNCHANGED <<entry, avail>>
      /\ pc[t] \in {"BlockLoad", "BlockCas", "Check", "WaitBit", "Sleep"}
  BY DEF BlockLoad, BlockCas, CheckEntry, WaitBit, Sleep, Table
<1>4. TypeOK'
  <2>1. head' \in Blocks
    BY <1>0 DEF BlockLoad, BlockCas, CheckEntry, WaitBit, Sleep, List, TypeOK, Blocks
  <2>2. event' \in [Threads -> BOOLEAN]
    BY DEF BlockLoad, BlockCas, CheckEntry, WaitBit, Sleep, List, TypeOK, LockAgain
  <2>3. blk' \in [Threads -> WaitBlock]
    <3>1. \/ blk' = [blk EXCEPT ![t].wait = TRUE]
          \/ blk' = [blk EXCEPT ![t].next = loc[t].ptr]
          \/ blk' = [blk EXCEPT ![t].wait = FALSE]
          \/ blk' = [blk EXCEPT ![t] = NoBlock]
          \/ blk' = blk
      BY DEF BlockLoad, BlockCas, CheckEntry, WaitBit, Sleep, List, LockAgain
    <3>2. TypeOK /\ blk \in [Threads -> WaitBlock]
      BY DEF TypeOK
    <3>3. [blk EXCEPT ![t].next = loc[t].ptr] \in [Threads -> WaitBlock]
      BY <3>2, <1>0 DEF WaitBlock
    <3>4. /\ [blk EXCEPT ![t].wait = TRUE] \in [Threads -> WaitBlock]
          /\ [blk EXCEPT ![t].wait = FALSE] \in [Threads -> WaitBlock]
          /\ [blk EXCEPT ![t] = NoBlock] \in [Threads -> WaitBlock]
      BY <3>2, BlockTypes
    <3> QED BY <3>1, <3>2, <3>3, <3>4
  <2> QED BY <1>2, <1>3, <2>1, <2>2, <2>3 DEF TypeOK
<1>5. Locals'
  BY <1>0, <1>1, <1>2, <1>3 DEF Locals, LocalsOf, Ent, Unblocking
<1>6. Entry1'
  <2>1. ASSUME NEW u \in Threads
        PROVE  /\ Has(u)' <=> Has(u)
               /\ Has(u) => Ent(u)' = Ent(u)
               /\ pc'[u] \in Holding <=> pc[u] \in Holding
    BY <1>1, <1>2, <1>3 DEF Has, Holding, Unblocking, Ent
  <2> QED BY <2>1, <1>3, EntryFrame
<1> QED BY <1>4, <1>5, <1>6

(* The steps of ExfUnblockPushLock.                                         *)
LEMMA UnblockSteps ==
    ASSUME EntryInv, NEW t \in Threads,
           Unblock(t) \/ UnblockBlock(t) \/ SetEvent(t) \/ UnblockEnd(t)
    PROVE  EntryInv'
<1> USE DEF EntryInv
<1>0. /\ loc[t] \in LocalVars /\ head \in Blocks
      /\ loc[t].list \in Blocks /\ loc[t].nxt \in Blocks
      /\ Ent(t) \in Entries \cup {Null}
      /\ loc[t].ret # "Idle" => Ent(t) \in Entries
      /\ loc[t].ret \in {"Idle", "LockLoad", "Free"}
      /\ \A b \in Threads : blk[b].next \in Blocks
  <2>1. \A b \in Threads : blk[b].next \in Blocks
    BY DEF TypeOK, WaitBlock
  <2> QED BY <2>1, LocalsTypes DEF TypeOK, Locals, LocalsOf, Unblock, UnblockBlock,
             SetEvent, UnblockEnd, Ent, Unblocking
<1>1. PICK l \in PCs, r \in LocalVars :
        /\ Goto(t, l, r)
        /\ \/ l \in Unblocking /\ r.ent = Ent(t) /\ r.ret = loc[t].ret
           \/ l \in {"WaitBit", "LockLoad"} /\ r.ent = Ent(t) /\ loc[t].ret = "LockLoad"
           \/ l = "Free" /\ r.ent = Ent(t) /\ loc[t].ret = "Free"
           \/ l = "Idle" /\ loc[t].ret = "Idle"
  <2>1. CASE Unblock(t)
    <3> DEFINE r == [loc[t] EXCEPT !.list = head]
    <3>1. r \in LocalVars /\ r.ent = Ent(t) /\ r.ret = loc[t].ret
      BY <1>0, LocalsTypes DEF Ent, LocalVars
    <3>2. Goto(t, "UnblockLoop", r)
      BY <2>1 DEF Unblock
    <3> QED BY <3>1, <3>2 DEF PCs, Unblocking
  <2>2. CASE UnblockBlock(t)
    <3> DEFINE b == blk[loc[t].list].next
               r == [loc[t] EXCEPT !.list = b]
               q == [loc[t] EXCEPT !.nxt = b]
    <3>1. loc[t].list \in Threads /\ b \in Blocks
      BY <2>2, <1>0 DEF UnblockBlock, Blocks
    <3>2. /\ r \in LocalVars /\ r.ent = Ent(t) /\ r.ret = loc[t].ret
          /\ q \in LocalVars /\ q.ent = Ent(t) /\ q.ret = loc[t].ret
      BY <1>0, <3>1, LocalsTypes DEF Ent, LocalVars
    <3>3. Goto(t, "UnblockLoop", r) \/ Goto(t, "SetEvent", q)
      BY <2>2 DEF UnblockBlock
    <3> QED BY <3>2, <3>3 DEF PCs, Unblocking
  <2>3. CASE SetEvent(t)
    <3> DEFINE r == [loc[t] EXCEPT !.list = loc[t].nxt, !.nxt = Null]
    <3>1. r \in LocalVars /\ r.ent = Ent(t) /\ r.ret = loc[t].ret
      BY <1>0, LocalsTypes DEF Ent, LocalVars
    <3>2. Goto(t, "UnblockLoop", r)
      BY <2>3 DEF SetEvent
    <3> QED BY <3>1, <3>2 DEF PCs, Unblocking
  <2>4. CASE UnblockEnd(t)
    <3> DEFINE r == [NoLocals EXCEPT !.ent = Ent(t)]
    <3>1. r.ent = Ent(t) /\ r \in LocalVars /\ NoLocals \in LocalVars
      BY <1>0, LocalsTypes DEF NoLocals
    <3>2. \/ Goto(t, "WaitBit", loc[t]) /\ loc[t].ret = "LockLoad"
          \/ Goto(t, "LockLoad", r) /\ loc[t].ret = "LockLoad"
          \/ Goto(t, "Free", r) /\ loc[t].ret = "Free"
          \/ Goto(t, "Idle", NoLocals) /\ loc[t].ret = "Idle"
      BY <2>4 DEF UnblockEnd, UnblockReturn, At, Return, LockAgain
    <3> HIDE DEF r
    <3> QED BY <3>1, <3>2, <1>0 DEF PCs, Ent
  <2> QED BY <2>1, <2>2, <2>3, <2>4
<1>2. /\ pc' \in [Threads -> PCs] /\ loc' \in [Threads -> LocalVars]
      /\ pc'[t] = l /\ loc'[t] = r
      /\ \A u \in Threads : u # t => pc'[u] = pc[u] /\ loc'[u] = loc[u]
  BY <1>1, GotoStep
<1>3. UNCHANGED <<entry, avail>> /\ pc[t] \in Unblocking
  BY DEF Unblock, UnblockBlock, SetEvent, UnblockEnd, UnblockReturn, Table, Unblocking
<1>4. TypeOK'
  <2>1. head' \in Blocks
    BY DEF Unblock, UnblockBlock, SetEvent, UnblockEnd, UnblockReturn, LockAgain, List,
           TypeOK, Blocks
  <2>2. event' \in [Threads -> BOOLEAN]
    BY DEF Unblock, UnblockBlock, SetEvent, UnblockEnd, UnblockReturn, LockAgain, List,
           TypeOK
  <2>3. blk' \in [Threads -> WaitBlock]
    <3>1. CASE UnblockBlock(t)
      <4>1. loc[t].list \in Threads
        BY <3>1, <1>0 DEF UnblockBlock, Blocks
      <4> QED BY <3>1, <4>1, BlockTypes DEF UnblockBlock
    <3>2. CASE Unblock(t) \/ SetEvent(t) \/ UnblockEnd(t)
      <4>1. blk' = [blk EXCEPT ![t] = NoBlock] \/ blk' = blk
        BY <3>2 DEF Unblock, SetEvent, UnblockEnd, UnblockReturn, LockAgain, List
      <4>2. TypeOK /\ blk \in [Threads -> WaitBlock]
        BY DEF TypeOK
      <4> QED BY <4>1, <4>2, BlockTypes
    <3> QED BY <3>1, <3>2
  <2> QED BY <1>2, <1>3, <2>1, <2>2, <2>3 DEF TypeOK
<1>5. Locals'
  BY <1>0, <1>1, <1>2, <1>3 DEF Locals, LocalsOf, Ent, Unblocking
<1>6. Entry1'
  <2>1. ASSUME NEW u \in Threads
        PROVE  /\ Has(u)' <=> Has(u)
               /\ Has(u) => Ent(u)' = Ent(u)
               /\ pc'[u] \in Holding <=> pc[u] \in Holding
    BY <1>1, <1>2, <1>3 DEF Has, Holding, Unblocking, Ent
  <2> QED BY <2>1, <1>3, EntryFrame
<1> QED BY <1>4, <1>5, <1>6

(* A thread that has an entry to itself: the others keep what they have.    *)
LEMMA EntryOfOthers ==
    ASSUME EntryInv, NEW t \in Threads,
           \A u \in Threads : u # t => pc'[u] = pc[u] /\ loc'[u] = loc[u]
    PROVE  \A u \in Threads : u # t =>
             (Has(u)' <=> Has(u)) /\ Ent(u)' = Ent(u)
  BY DEF Has, Ent

(* The steps that take an entry, lock or write it, and give it up.          *)
LEMMA EntrySteps ==
    ASSUME EntryInv, NEW t \in Threads,
           \/ Start(t) \/ Finish(t) \/ WriteEntry(t) \/ LockLoad(t) \/ LockCas(t)
           \/ FreeEntry(t)
    PROVE  EntryInv'
<1> USE DEF EntryInv
<1>0. /\ loc[t] \in LocalVars /\ UNCHANGED <<head, blk, event>>
      /\ pc[t] # "Idle" => Ent(t) \in Entries
  BY DEF TypeOK, Locals, LocalsOf, Start, CreateHandle, LookupHandle, Finish, UnlockEntry,
     DestroyHandle, WriteEntry, LockLoad, LockCas, FreeEntry, List, Unblocking, Holding
<1> DEFINE At1(l, r) ==
             /\ pc' \in [Threads -> PCs] /\ loc' \in [Threads -> LocalVars]
             /\ pc'[t] = l /\ loc'[t] = r
             /\ \A u \in Threads : u # t => pc'[u] = pc[u] /\ loc'[u] = loc[u]
<1>1. ASSUME NEW l \in PCs, NEW r \in LocalVars, Goto(t, l, r) PROVE At1(l, r)
  BY <1>1, GotoStep
<1>2. ASSUME NEW l \in PCs, NEW r \in LocalVars, At1(l, r),
             entry' \in [Entries -> Value], avail' \in SUBSET Entries
      PROVE  TypeOK'
  BY <1>0, <1>2 DEF TypeOK
<1>3. ASSUME NEW l, NEW r, At1(l, r), LocalsOf(t)' PROVE Locals'
  BY <1>3 DEF Locals, LocalsOf, Ent
<1>4. \A e \in Entries : /\ [NoLocals EXCEPT !.ent = e] \in LocalVars
                         /\ [NoLocals EXCEPT !.ent = e].ent = e
  BY LocalsTypes DEF NoLocals
<1>5. entry \in [Entries -> Value] /\ avail \in SUBSET Entries /\ Cleared \in Value
      /\ Cleared.obj = Null /\ Cleared.bit = FALSE
  BY DEF TypeOK, Value, Cleared
<1> USE <1>0, <1>5
<1> HIDE DEF At1
<1>6. ASSUME NEW e \in Entries, CreateHandle(t, e) PROVE EntryInv'
  <2> DEFINE r == [NoLocals EXCEPT !.ent = e]
  <2>1. At1("Write", r) /\ r.ent = e /\ "Write" \in PCs
    BY <1>1, <1>4, <1>6 DEF CreateHandle, PCs
  <2> HIDE DEF r
  <2>2. entry' = entry /\ avail' = avail \ {e} /\ e \in avail /\ pc[t] = "Idle"
    BY <1>6 DEF CreateHandle
  <2>3. TypeOK'
    BY <2>1, <2>2, <1>2, <1>4 DEF r
  <2>4. Locals'
    BY <2>1, <1>3 DEF LocalsOf, Ent, At1, Unblocking
  <2>5. Entry1'
    BY <2>1, <2>2, EntryOfOthers DEF Entry1, Has, Ent, At1, Holding, IsLockedEntry, Unblocking
  <2> QED BY <2>3, <2>4, <2>5
<1>7. ASSUME NEW e \in Entries, LookupHandle(t, e) PROVE EntryInv'
  <2> DEFINE r == [NoLocals EXCEPT !.ent = e]
  <2>1. At1("LockLoad", r) /\ r.ent = e /\ "LockLoad" \in PCs
    BY <1>1, <1>4, <1>7 DEF LookupHandle, PCs
  <2> HIDE DEF r
  <2>2. entry' = entry /\ avail' = avail /\ pc[t] = "Idle"
    BY <1>7 DEF LookupHandle, Table
  <2>3. TypeOK'
    BY <2>1, <2>2, <1>2, <1>4 DEF r
  <2>4. Locals'
    BY <2>1, <1>3 DEF LocalsOf, Ent, At1, Unblocking
  <2>5. Entry1'
    BY <2>1, <2>2, EntryFrame DEF Has, Ent, At1, Holding, Unblocking
  <2> QED BY <2>3, <2>4, <2>5
<1>8. CASE WriteEntry(t)
  <2>1. At1("Created", loc[t]) /\ "Created" \in PCs
    BY <1>1, <1>8 DEF WriteEntry, PCs, At
  <2>2. PICK o \in Objects : entry' = [entry EXCEPT ![Ent(t)] = [obj |-> o, bit |-> FALSE]]
    BY <1>8 DEF WriteEntry
  <2>3. avail' = avail /\ pc[t] = "Write" /\ Ent(t) \in Entries /\ o # Null
        /\ [obj |-> o, bit |-> FALSE] \in Value
    BY <1>8 DEF WriteEntry, Value
  <2>4. TypeOK'
    BY <2>1, <2>2, <2>3, <1>2
  <2>5. Locals'
    BY <2>1, <2>3, <1>3 DEF LocalsOf, Ent, At1, Unblocking
  <2>6. Entry1'
    BY <2>1, <2>2, <2>3, EntryOfOthers DEF Entry1, Has, Ent, At1, Holding, IsLockedEntry, Unblocking
  <2> QED BY <2>4, <2>5, <2>6
<1>9. CASE LockLoad(t)
  <2> DEFINE v == entry[Ent(t)]
             r == [loc[t] EXCEPT !.old = v]
  <2>1. pc[t] = "LockLoad" /\ Ent(t) \in Entries /\ v \in Value
        /\ entry' = entry /\ avail' = avail
    BY <1>9 DEF LockLoad, Table
  <2>2. r \in LocalVars /\ r.ent = Ent(t) /\ r.old = v
    <3>1. r \in LocalVars
      BY <2>1, LocalsTypes
    <3>2. r.ent = Ent(t) /\ r.old = v
      BY DEF Ent, LocalVars
    <3> QED BY <3>1, <3>2
  <2>3. \/ At1("LockCas", r) /\ v.bit
        \/ At1("Idle", NoLocals)
        \/ At1("BlockLoad", loc[t])
    <3>1. \/ Goto(t, "LockCas", r) /\ v.bit
          \/ Goto(t, "Idle", NoLocals)
          \/ Goto(t, "BlockLoad", loc[t])
      BY <1>9 DEF LockLoad, Return, At
    <3> QED BY <3>1, <2>2, <1>1, LocalsTypes DEF PCs
  <2>4. v.bit => v.obj # Null
    BY <2>1 DEF Entry1
  <2> HIDE DEF r, v
  <2>5. TypeOK'
    BY <2>1, <2>2, <2>3, <1>2, LocalsTypes DEF PCs
  <2>6. Locals'
    BY <2>1, <2>2, <2>3, <2>4, <1>3 DEF LocalsOf, Ent, At1, Unblocking
  <2>7. Entry1'
    BY <2>1, <2>3, EntryFrame DEF Has, Ent, At1, Holding, Unblocking
  <2> QED BY <2>5, <2>6, <2>7
<1>10. CASE LockCas(t)
  <2> DEFINE r == [NoLocals EXCEPT !.ent = Ent(t)]
  <2>1. /\ pc[t] = "LockCas" /\ Ent(t) \in Entries /\ avail' = avail
        /\ r \in LocalVars /\ r.ent = Ent(t)
        /\ loc[t].old.bit /\ loc[t].old.obj # Null
    BY <1>10, <1>4 DEF LockCas, Locals, LocalsOf
  <2> HIDE DEF r
  <2>2. CASE entry[Ent(t)] = loc[t].old
    <3>1. entry' = [entry EXCEPT ![Ent(t)].bit = FALSE] /\ Goto(t, "Held", r)
      BY <1>10, <2>2 DEF LockCas, r
    <3>2. At1("Held", r) /\ "Held" \in PCs
      BY <3>1, <2>1, <1>1 DEF PCs
    <3>3. /\ entry' \in [Entries -> Value]
          /\ entry'[Ent(t)].obj = entry[Ent(t)].obj /\ ~entry'[Ent(t)].bit
          /\ \A e \in Entries : e # Ent(t) => entry'[e] = entry[e]
      BY <3>1, <2>1 DEF Value
    <3>4. TypeOK'
      BY <3>2, <3>3, <2>1, <1>2
    <3>5. Locals'
      BY <2>1, <3>2, <1>3 DEF LocalsOf, Ent, At1, Unblocking
    <3>6. Ent(t) \notin avail /\ \A u \in Threads : Has(u) => Ent(u) # Ent(t)
      BY <2>1, <2>2 DEF Entry1, IsLockedEntry
    <3>7. Entry1'
      BY <2>1, <2>2, <3>2, <3>3, <3>6, EntryOfOthers DEF Entry1, Has, Ent, At1, Holding,
         IsLockedEntry, Unblocking
    <3> QED BY <3>4, <3>5, <3>7
  <2>3. CASE entry[Ent(t)] # loc[t].old
    <3>1. entry' = entry /\ Goto(t, "BlockLoad", r)
      BY <1>10, <2>3 DEF LockCas, r
    <3>2. At1("BlockLoad", r) /\ "BlockLoad" \in PCs
      BY <3>1, <2>1, <1>1 DEF PCs
    <3>4. TypeOK'
      BY <3>1, <3>2, <2>1, <1>2
    <3>5. Locals'
      BY <2>1, <3>2, <1>3 DEF LocalsOf, Ent, At1, Unblocking
    <3>6. Entry1'
      BY <2>1, <3>1, <3>2, EntryFrame DEF Has, Ent, At1, Holding, Unblocking
    <3> QED BY <3>4, <3>5, <3>6
  <2> QED BY <2>2, <2>3
<1>11. CASE UnlockEntry(t)
  <2>1. /\ At1("Unblock", NoLocals) /\ "Unblock" \in PCs /\ NoLocals \in LocalVars
        /\ NoLocals.ret = "Idle"
    BY <1>1, <1>11, LocalsTypes DEF UnlockEntry, PCs, NoLocals
  <2>2. /\ pc[t] \in Holding /\ Has(t) /\ Ent(t) \in Entries /\ avail' = avail
        /\ entry' = [entry EXCEPT ![Ent(t)].bit = TRUE]
    BY <1>11 DEF UnlockEntry, Has, Holding
  <2>3. /\ entry' \in [Entries -> Value]
        /\ entry'[Ent(t)].obj = entry[Ent(t)].obj /\ entry'[Ent(t)].bit
        /\ \A e \in Entries : e # Ent(t) => entry'[e] = entry[e]
    BY <2>2 DEF Value
  <2>4. TypeOK'
    BY <2>1, <2>2, <2>3, <1>2
  <2>5. Locals'
    BY <2>1, <1>3 DEF LocalsOf, Ent, At1, Unblocking
  <2>6. Entry1'
    BY <2>1, <2>2, <2>3, EntryOfOthers DEF Entry1, Has, Ent, At1, Holding, IsLockedEntry,
       Unblocking
  <2> QED BY <2>4, <2>5, <2>6
<1>12. CASE DestroyHandle(t)
  <2> DEFINE r == [loc[t] EXCEPT !.ret = "Free"]
  <2>1. r \in LocalVars /\ r.ent = Ent(t) /\ r.ret = "Free"
    <3>1. r \in LocalVars
      BY LocalsTypes
    <3>2. r.ent = Ent(t) /\ r.ret = "Free"
      BY DEF Ent, LocalVars
    <3> QED BY <3>1, <3>2
  <2>2. At1("Unblock", r) /\ "Unblock" \in PCs
    BY <1>1, <1>12, <2>1 DEF DestroyHandle, PCs
  <2> HIDE DEF r
  <2>3. /\ pc[t] = "Held" /\ Has(t) /\ Ent(t) \in Entries /\ avail' = avail
        /\ entry' = [entry EXCEPT ![Ent(t)] = Cleared]
    BY <1>12 DEF DestroyHandle, Has
  <2>4. TypeOK'
    BY <2>1, <2>2, <2>3, <1>2
  <2>5. Locals'
    BY <2>1, <2>2, <2>3, <1>3 DEF LocalsOf, Ent, At1, Unblocking
  <2>6. Entry1'
    BY <2>1, <2>2, <2>3, EntryOfOthers DEF Entry1, Has, Ent, At1, Holding, IsLockedEntry,
       Unblocking
  <2> QED BY <2>4, <2>5, <2>6
<1>13. CASE FreeEntry(t)
  <2>1. /\ At1("Idle", NoLocals) /\ "Idle" \in PCs /\ NoLocals \in LocalVars
    BY <1>1, <1>13, LocalsTypes DEF FreeEntry, PCs, Return
  <2>2. /\ pc[t] = "Free" /\ Has(t) /\ Ent(t) \in Entries
        /\ avail' = avail \cup {Ent(t)} /\ entry' = entry
    BY <1>13 DEF FreeEntry, Has
  <2>4. TypeOK'
    BY <2>1, <2>2, <1>2
  <2>5. Locals'
    BY <2>1, <1>3 DEF LocalsOf, Ent, At1, Unblocking
  <2>6. Entry1'
    BY <2>1, <2>2, EntryOfOthers DEF Entry1, Has, Ent, At1, Holding, IsLockedEntry,
       Unblocking
  <2> QED BY <2>4, <2>5, <2>6
<1> QED BY <1>6, <1>7, <1>8, <1>9, <1>10, <1>11, <1>12, <1>13 DEF Start, Finish

(* Every step keeps the first part of the invariant.                        *)
LEMMA EntryStep ==
    ASSUME EntryInv, [Next]_vars
    PROVE  EntryInv'
<1>1. CASE UNCHANGED vars
  BY <1>1 DEF vars, EntryInv, TypeOK, Locals, LocalsOf, Ent, Entry1, Has, IsLockedEntry
<1>2. CASE Next
  BY <1>2, BlockSteps, UnblockSteps, EntrySteps DEF Next, Continue
<1> QED BY <1>1, <1>2
-----------------------------------------------------------------------------
(***************************************************************************)
(* The lists: q[Null] is the shared one, q[t] the one t has taken and has  *)
(* still to go through.                                                    *)
(***************************************************************************)
NextOf == [u \in Threads |-> blk[u].next]

First(x) ==
    IF x = Null THEN head
    ELSE IF pc[x] = "UnblockLoop" THEN loc[x].list
    ELSE IF pc[x] = "SetEvent" THEN loc[x].nxt
    ELSE Null

Queues(q) ==
    /\ \A x \in Blocks : IsList(Threads, NextOf, Null, First(x), q[x])
    /\ \A x, y \in Blocks : x # y => Members(q[x]) \cap Members(q[y]) = {}

On(q, u) == \E x \in Blocks : u \in Members(q[x])

(* Somebody has taken the block of u off a list and is about to set its     *)
(* event.                                                                   *)
Target(v, u) == pc[v] = "SetEvent" /\ loc[v].list = u

(* The wait bit of a block tells whether its owner sleeps, while it is on a *)
(* list; the block of a thread that still has its wait bit is on one, and   *)
(* who sleeps is on one or about to be woken.                               *)
Waiter(q, u) ==
    /\ On(q, u) => Alive(u) /\ (pc[u] = "Sleep" <=> ~blk[u].wait)
    /\ On(q, u) /\ pc[u] = "Sleep" => ~event[u]
    /\ Alive(u) /\ blk[u].wait => On(q, u)
    /\ pc[u] = "BlockCas" => blk[u].wait
    /\ pc[u] = "Sleep" => ~blk[u].wait
    /\ pc[u] = "Sleep" /\ ~event[u] => On(q, u) \/ \E v \in Threads : Target(v, u)
    /\ pc[u] \in {"UnblockLoop", "SetEvent"} => u \notin Members(q[Null])

Waker(q, v) ==
    pc[v] = "SetEvent" =>
        /\ loc[v].list \in Threads /\ ~On(q, loc[v].list)
        /\ pc[loc[v].list] = "Sleep" /\ ~event[loc[v].list]
        /\ \A w \in Threads : Target(w, loc[v].list) => w = v

(* Who has looked at its entry and waits on the shared list will be woken.  *)
Promised(q) ==
    \A u \in Members(q[Null]) : pc[u] \in {"WaitBit", "Sleep"} =>
        IsLockedEntry(Ent(u)) \/ \E v \in Threads : pc[v] = "Unblock"

ListInv(q) ==
    /\ Queues(q)
    /\ \A u \in Threads : Waiter(q, u) /\ Waker(q, u)
    /\ Promised(q)

IInv == EntryInv /\ \E q : ListInv(q)

(* The other threads stay where they are.                                   *)
Moves(t) ==
    /\ pc' \in [Threads -> PCs] /\ loc' \in [Threads -> LocalVars]
    /\ \A u \in Threads : u # t => pc'[u] = pc[u] /\ loc'[u] = loc[u]

(* A step of one thread goes where it says.                                 *)
LEMMA GotoMoves ==
    ASSUME TypeOK, NEW t \in Threads, NEW l \in PCs, NEW r \in LocalVars, Goto(t, l, r)
    PROVE  Moves(t) /\ pc'[t] = l /\ loc'[t] = r
  BY GotoStep DEF Moves

(* The lists stay when their first blocks and their links do.               *)
LEMMA QueuesFrame ==
    ASSUME NEW q, Queues(q), TypeOK, TypeOK',
           \A x \in Blocks : First(x)' = First(x),
           \A u \in Threads : On(q, u) => blk'[u].next = blk[u].next
    PROVE  Queues(q)'
<1>1. ASSUME NEW x \in Blocks PROVE IsList(Threads, NextOf', Null, First(x)', q[x])
  <2>1. IsList(Threads, NextOf, Null, First(x), q[x])
    BY DEF Queues
  <2>2. ASSUME NEW u \in Members(q[x]) PROVE NextOf'[u] = NextOf[u]
    <3>1. u \in Threads
      BY <2>1, ListMembers
    <3>2. On(q, u)
      BY DEF On
    <3> QED BY <3>1, <3>2 DEF NextOf
  <2>3. IsList(Threads, NextOf', Null, First(x), q[x])
    BY <2>1, <2>2, ListFrame
  <2> QED BY <2>3
<1> QED BY <1>1 DEF Queues

(* A thread outside of the wait and of ExfUnblockPushLock does not touch    *)
(* the lists.                                                               *)
Outside(l) == l \in {"Idle", "Write", "Created", "Held", "LockLoad", "LockCas", "BlockLoad",
                     "Free"}

(* A step of a thread that has no block leaves the list as it was.          *)
LEMMA OutsideSteps ==
    ASSUME NEW q, ListInv(q), EntryInv, EntryInv', NEW t \in Threads, Moves(t),
           UNCHANGED <<head, blk, event>>,
           Outside(pc[t]),
           Outside(pc'[t]) \/ (pc'[t] = "Unblock" /\ loc'[t].ret # "LockLoad"),
           \/ pc'[t] = "Unblock"
           \/ \A e \in Entries : IsLockedEntry(e) => IsLockedEntry(e)'
    PROVE  ListInv(q)'
<1>1. Queues(q)'
  <2>1. ASSUME NEW x \in Blocks PROVE First(x)' = First(x)
    BY DEF First, Moves, Outside, Blocks
  <2> QED BY <2>1, QueuesFrame DEF ListInv, EntryInv
<1>2. ASSUME NEW u \in Threads PROVE Waiter(q, u)' /\ Waker(q, u)'
  <2>1. \A v \in Threads : Target(v, u)' <=> Target(v, u)
    BY DEF Target, Moves, Outside
  <2>2. Alive(u)' <=> Alive(u)
    BY DEF Alive, Moves, Outside
  <2>3. Waiter(q, u)'
    BY <2>1, <2>2 DEF ListInv, Waiter, Moves, Outside
  <2>4. Waker(q, u)'
    BY DEF ListInv, Waker, Target, Moves, Outside
  <2> QED BY <2>3, <2>4
<1>3. Promised(q)'
  <2> SUFFICES ASSUME NEW u \in Members(q[Null]), pc'[u] \in {"WaitBit", "Sleep"}
               PROVE  IsLockedEntry(Ent(u))' \/ \E v \in Threads : pc'[v] = "Unblock"
    BY DEF Promised
  <2>1. u \in Threads
    BY ListMembers DEF ListInv, Queues, Blocks
  <2>2. u # t /\ pc[u] = pc'[u] /\ Ent(u)' = Ent(u)
    BY <2>1 DEF Moves, Outside, Ent
  <2>3. Ent(u) \in Entries
    BY <2>1, <2>2 DEF EntryInv, Locals, LocalsOf, Unblocking
  <2>4. CASE \E v \in Threads : pc[v] = "Unblock"
    BY <2>4 DEF Moves, Outside
  <2>5. CASE IsLockedEntry(Ent(u))
    BY <2>5, <2>2, <2>3
  <2> QED BY <2>2, <2>4, <2>5 DEF ListInv, Promised
<1> QED BY <1>1, <1>2, <1>3 DEF ListInv

(* A step of a thread that is on no list and stays off them changes its own *)
(* block only; no other thread sees the difference.                         *)
LEMMA PrivateSteps ==
    ASSUME NEW q, ListInv(q), EntryInv, EntryInv', NEW t \in Threads, Moves(t),
           UNCHANGED <<entry, head>>, ~On(q, t),
           \A u \in Threads : u # t => blk'[u] = blk[u] /\ event'[u] = event[u],
           pc[t] \notin {"Unblock", "SetEvent"}, pc'[t] \notin {"SetEvent", "Sleep"},
           pc[t] = "UnblockLoop" => loc[t].list = Null,
           pc'[t] = "UnblockLoop" => loc'[t].list = Null,
           \A v \in Threads : ~Target(v, t),
           Alive(t)' => ~blk'[t].wait,
           pc'[t] = "BlockCas" => blk'[t].wait
    PROVE  ListInv(q)'
<1>0. t \notin Members(q[Null])
  BY DEF On, Blocks
<1>1. Queues(q)'
  <2>1. ASSUME NEW x \in Blocks PROVE First(x)' = First(x)
    BY DEF First, Moves, Blocks
  <2> QED BY <2>1, QueuesFrame DEF ListInv, EntryInv
<1>2. ASSUME NEW u \in Threads PROVE Waiter(q, u)' /\ Waker(q, u)'
  <2>1. \A v \in Threads : Target(v, u)' <=> Target(v, u)
    BY DEF Target, Moves
  <2>2. Waiter(q, u)'
    <3>1. CASE u = t
      BY <3>1, <1>0, <2>1 DEF ListInv, Waiter, Moves
    <3>2. CASE u # t
      <4>1. Alive(u)' <=> Alive(u)
        BY <3>2 DEF Alive, Moves
      <4> QED BY <3>2, <4>1, <2>1 DEF ListInv, Waiter, Moves
    <3> QED BY <3>1, <3>2
  <2>3. Waker(q, u)'
    <3>1. CASE pc[u] = "SetEvent"
      <4>1. u # t /\ loc'[u] = loc[u] /\ pc'[u] = "SetEvent"
        BY <3>1 DEF Moves
      <4>2. loc[u].list \in Threads /\ loc[u].list # t
        BY <3>1 DEF ListInv, Waker, Target
      <4> QED BY <3>1, <4>1, <4>2 DEF ListInv, Waker, Target, Moves
    <3>2. CASE pc[u] # "SetEvent"
      BY <3>2 DEF Waker, Moves
    <3> QED BY <3>1, <3>2
  <2> QED BY <2>2, <2>3
<1>3. Promised(q)'
  <2> SUFFICES ASSUME NEW u \in Members(q[Null]), pc'[u] \in {"WaitBit", "Sleep"}
               PROVE  IsLockedEntry(Ent(u))' \/ \E v \in Threads : pc'[v] = "Unblock"
    BY DEF Promised
  <2>1. u \in Threads
    BY ListMembers DEF ListInv, Queues, Blocks
  <2>2. u # t /\ pc[u] = pc'[u] /\ Ent(u)' = Ent(u)
    BY <2>1, <1>0 DEF Moves, Ent
  <2>3. IsLockedEntry(Ent(u)) \/ \E v \in Threads : pc[v] = "Unblock"
    BY <2>2 DEF ListInv, Promised
  <2>4. IsLockedEntry(Ent(u))' <=> IsLockedEntry(Ent(u))
    BY <2>2 DEF IsLockedEntry
  <2>5. \A v \in Threads : pc[v] = "Unblock" => pc'[v] = "Unblock"
    BY DEF Moves
  <2> QED BY <2>3, <2>4, <2>5
<1> QED BY <1>1, <1>2, <1>3 DEF ListInv

(* A step of a thread in the wait, which may be on a list.                  *)
LEMMA WaitingSteps ==
    ASSUME NEW q, ListInv(q), EntryInv, EntryInv', NEW t \in Threads, Moves(t),
           UNCHANGED <<entry, head>>, Alive(t), Alive(t)',
           \A u \in Threads : u # t => blk'[u] = blk[u] /\ event'[u] = event[u],
           blk'[t].next = blk[t].next,
           pc[t] \notin {"Sleep", "SetEvent", "Unblock"},
           pc'[t] \notin {"SetEvent", "UnblockLoop"},
           pc[t] = "UnblockLoop" => loc[t].list = Null,
           \/ pc'[t] # "Sleep" /\ blk'[t].wait = blk[t].wait
           \/ pc'[t] = "Sleep" /\ blk[t].wait /\ ~blk'[t].wait /\ ~event'[t],
           t \in Members(q[Null]) /\ pc'[t] \in {"WaitBit", "Sleep"} =>
              IsLockedEntry(Ent(t))' \/ \E v \in Threads : pc[v] = "Unblock"
    PROVE  ListInv(q)'
<1>1. Queues(q)'
  <2>1. ASSUME NEW x \in Blocks PROVE First(x)' = First(x)
    BY DEF First, Moves, Blocks
  <2> QED BY <2>1, QueuesFrame DEF ListInv, EntryInv
<1>2. ASSUME NEW u \in Threads PROVE Waiter(q, u)' /\ Waker(q, u)'
  <2>1. \A v \in Threads : Target(v, u)' <=> Target(v, u)
    BY DEF Target, Moves
  <2>2. Waiter(q, u)'
    <3>1. CASE u = t
      <4>1. Waiter(q, t) /\ (pc[t] # "BlockCas") /\ pc'[t] # "BlockCas"
        BY DEF ListInv, Alive
      <4> QED BY <3>1, <4>1, <2>1 DEF Waiter, Moves
    <3>2. CASE u # t
      <4>1. Alive(u)' <=> Alive(u)
        BY <3>2 DEF Alive, Moves
      <4> QED BY <3>2, <4>1, <2>1 DEF ListInv, Waiter, Moves
    <3> QED BY <3>1, <3>2
  <2>3. Waker(q, u)'
    <3>1. CASE pc[u] = "SetEvent"
      <4>1. u # t /\ loc'[u] = loc[u] /\ pc'[u] = "SetEvent"
        BY <3>1 DEF Moves
      <4>2. loc[u].list \in Threads /\ loc[u].list # t
        BY <3>1 DEF ListInv, Waker, Target
      <4> QED BY <3>1, <4>1, <4>2 DEF ListInv, Waker, Target, Moves
    <3>2. CASE pc[u] # "SetEvent"
      BY <3>2 DEF Waker, Moves
    <3> QED BY <3>1, <3>2
  <2> QED BY <2>2, <2>3
<1>3. Promised(q)'
  <2> SUFFICES ASSUME NEW u \in Members(q[Null]), pc'[u] \in {"WaitBit", "Sleep"}
               PROVE  IsLockedEntry(Ent(u))' \/ \E v \in Threads : pc'[v] = "Unblock"
    BY DEF Promised
  <2>1. u \in Threads
    BY ListMembers DEF ListInv, Queues, Blocks
  <2>5. \A v \in Threads : pc[v] = "Unblock" => pc'[v] = "Unblock"
    BY DEF Moves
  <2>6. CASE u = t
    BY <2>5, <2>6
  <2>7. CASE u # t
    <3>2. pc[u] = pc'[u] /\ Ent(u)' = Ent(u)
      BY <2>1, <2>7 DEF Moves, Ent
    <3>3. IsLockedEntry(Ent(u)) \/ \E v \in Threads : pc[v] = "Unblock"
      BY <3>2 DEF ListInv, Promised
    <3>4. IsLockedEntry(Ent(u))' <=> IsLockedEntry(Ent(u))
      BY <3>2 DEF IsLockedEntry
    <3> QED BY <3>3, <3>4, <2>5
  <2> QED BY <2>6, <2>7
<1> QED BY <1>1, <1>2, <1>3 DEF ListInv

(* A block is pushed.                                                       *)
LEMMA PushStep ==
    ASSUME NEW q, ListInv(q), EntryInv, EntryInv', NEW t \in Threads, Moves(t),
           UNCHANGED <<entry, event>>, head' = t,
           \A u \in Threads : u # t => blk'[u] = blk[u],
           blk'[t].next = head, blk'[t].wait = blk[t].wait,
           pc[t] = "BlockCas", pc'[t] = "Check"
    PROVE  \E p : ListInv(p)'
<1> DEFINE p == [x \in Blocks |-> IF x = Null THEN <<t>> \o q[Null] ELSE q[x]]
<1>0. ~On(q, t) /\ Null \in Blocks /\ t \in Blocks /\ blk[t].wait
  BY DEF ListInv, Waiter, Alive, Blocks
<1>1. ASSUME NEW x \in Blocks
      PROVE  /\ IsList(Threads, NextOf', Null, First(x), q[x])
             /\ t \notin Members(q[x])
  <2>1. IsList(Threads, NextOf, Null, First(x), q[x]) /\ t \notin Members(q[x])
    BY <1>0 DEF ListInv, Queues, On
  <2>2. ASSUME NEW u \in Members(q[x]) PROVE NextOf'[u] = NextOf[u]
    <3>1. u \in Threads /\ u # t
      BY <2>1, ListMembers
    <3> QED BY <3>1 DEF NextOf
  <2> QED BY <2>1, <2>2, ListFrame
<1>2. /\ IsList(Threads, NextOf', Null, t, <<t>> \o q[Null])
      /\ Members(<<t>> \o q[Null]) = Members(q[Null]) \cup {t}
  <2>1. NextOf'[t] = head /\ First(Null) = head
    BY DEF NextOf, First
  <2>2. IsList(Threads, NextOf', Null, head, q[Null]) /\ t \notin Members(q[Null])
    BY <1>0, <1>1, <2>1
  <2> QED BY <2>1, <2>2, ListPush
<1>3. /\ p[Null] = <<t>> \o q[Null] /\ Members(p[Null]) = Members(q[Null]) \cup {t}
      /\ \A x \in Blocks : x # Null => p[x] = q[x]
  BY <1>0, <1>2
<1> HIDE DEF p
<1>9. \A x \in Blocks : Members(p[x]) = IF x = Null THEN Members(q[Null]) \cup {t}
                                         ELSE Members(q[x])
  BY <1>3
<1>4. ASSUME NEW u \in Threads PROVE On(p, u) <=> On(q, u) \/ u = t
  <2>1. CASE u = t
    BY <2>1, <1>0, <1>9 DEF On
  <2>2. CASE u # t
    <3>1. \A x \in Blocks : u \in Members(p[x]) <=> u \in Members(q[x])
      BY <2>2, <1>9
    <3> QED BY <2>2, <3>1 DEF On
  <2> QED BY <2>1, <2>2
<1>5. Queues(p)'
  <2>1. ASSUME NEW x \in Blocks PROVE IsList(Threads, NextOf', Null, First(x)', p[x])
    <3>1. CASE x = Null
      BY <3>1, <1>2, <1>3 DEF First
    <3>2. CASE x # Null
      <4>1. First(x)' = First(x)
        BY <3>2 DEF First, Moves, Blocks
      <4> QED BY <3>2, <4>1, <1>1, <1>3
    <3> QED BY <3>1, <3>2
  <2>2. ASSUME NEW x \in Blocks, NEW y \in Blocks, x # y
        PROVE  Members(p[x]) \cap Members(p[y]) = {}
    <3>1. Members(q[x]) \cap Members(q[y]) = {}
      BY <2>2 DEF ListInv, Queues
    <3>2. t \notin Members(q[x]) /\ t \notin Members(q[y])
      BY <1>1
    <3> QED BY <2>2, <3>1, <3>2, <1>9
  <2> QED BY <2>1, <2>2 DEF Queues
<1>6. ASSUME NEW u \in Threads PROVE Waiter(p, u)' /\ Waker(p, u)'
  <2>1. \A v \in Threads : Target(v, u)' <=> Target(v, u)
    BY DEF Target, Moves
  <2>2. Waiter(p, u)'
    <3>1. CASE u = t
      BY <3>1, <1>0, <1>4 DEF Waiter, Alive, Moves
    <3>2. CASE u # t
      <4>1. (Alive(u)' <=> Alive(u)) /\ (On(p, u) <=> On(q, u))
            /\ (u \in Members(p[Null]) <=> u \in Members(q[Null]))
        BY <3>2, <1>3, <1>4 DEF Alive, Moves
      <4> QED BY <3>2, <4>1, <2>1 DEF ListInv, Waiter, Moves
    <3> QED BY <3>1, <3>2
  <2>3. Waker(p, u)'
    BY <1>4 DEF ListInv, Waker, Target, Moves
  <2> QED BY <2>2, <2>3
<1>7. Promised(p)'
  <2> SUFFICES ASSUME NEW u \in Members(p[Null]), pc'[u] \in {"WaitBit", "Sleep"}
               PROVE  IsLockedEntry(Ent(u))' \/ \E v \in Threads : pc'[v] = "Unblock"
    BY DEF Promised
  <2>1. u # t /\ u \in Members(q[Null])
    BY <1>3
  <2>2. u \in Threads
    BY <2>1, <1>0, <1>1, ListMembers
  <2>3. pc[u] = pc'[u] /\ Ent(u)' = Ent(u)
    BY <2>1, <2>2 DEF Moves, Ent
  <2>4. IsLockedEntry(Ent(u)) \/ \E v \in Threads : pc[v] = "Unblock"
    BY <2>1, <2>3 DEF ListInv, Promised
  <2>5. IsLockedEntry(Ent(u))' <=> IsLockedEntry(Ent(u))
    BY <2>3 DEF IsLockedEntry
  <2>6. \A v \in Threads : pc[v] = "Unblock" => pc'[v] = "Unblock"
    BY DEF Moves
  <2> QED BY <2>4, <2>5, <2>6
<1>8. ListInv(p)'
  BY <1>5, <1>6, <1>7 DEF ListInv
<1> QED BY <1>8

(* ExfUnblockPushLock takes the shared list.                                *)
LEMMA TakeStep ==
    ASSUME NEW q, ListInv(q), EntryInv, EntryInv', NEW t \in Threads, Moves(t),
           UNCHANGED <<entry, blk, event>>, head' = Null,
           pc[t] = "Unblock", pc'[t] = "UnblockLoop",
           loc'[t].list = head, loc'[t].ret = loc[t].ret
    PROVE  \E p : ListInv(p)'
<1> DEFINE p == [x \in Blocks |-> IF x = Null THEN <<>> ELSE IF x = t THEN q[Null] ELSE q[x]]
<1>0. Null \in Blocks /\ t \in Blocks /\ t # Null /\ NextOf' = NextOf
  BY DEF Blocks, NextOf
<1>1. \A x \in Blocks : IsList(Threads, NextOf, Null, First(x), q[x])
  BY DEF ListInv, Queues
<1>2. q[t] = <<>> /\ Members(<<>>) = {} /\ IsList(Threads, NextOf, Null, Null, <<>>)
  <2>1. First(t) = Null
    BY <1>0 DEF First
  <2> QED BY <2>1, <1>0, <1>1, NullList
<1>3. /\ p[Null] = <<>> /\ p[t] = q[Null]
      /\ \A x \in Blocks : x # Null /\ x # t => p[x] = q[x]
  BY <1>0
<1> HIDE DEF p
<1>4. ASSUME NEW u \in Threads PROVE On(p, u) <=> On(q, u)
  BY <1>0, <1>2, <1>3 DEF On
<1>5. Queues(p)'
  <2>1. ASSUME NEW x \in Blocks PROVE IsList(Threads, NextOf', Null, First(x)', p[x])
    <3>1. CASE x = Null
      BY <3>1, <1>0, <1>2, <1>3 DEF First
    <3>2. CASE x = t
      <4>1. First(x)' = First(Null)
        BY <3>2, <1>0 DEF First
      <4> QED BY <3>2, <4>1, <1>0, <1>1, <1>3
    <3>3. CASE x # Null /\ x # t
      <4>1. First(x)' = First(x)
        BY <3>3 DEF First, Moves, Blocks
      <4> QED BY <3>3, <4>1, <1>0, <1>1, <1>3
    <3> QED BY <3>1, <3>2, <3>3
  <2>2. ASSUME NEW x \in Blocks, NEW y \in Blocks, x # y
        PROVE  Members(p[x]) \cap Members(p[y]) = {}
    BY <2>2, <1>0, <1>2, <1>3 DEF ListInv, Queues
  <2> QED BY <2>1, <2>2 DEF Queues
<1>6. ASSUME NEW u \in Threads PROVE Waiter(p, u)' /\ Waker(p, u)'
  <2>1. \A v \in Threads : Target(v, u)' <=> Target(v, u)
    BY DEF Target, Moves
  <2>2. Alive(u)' <=> Alive(u)
    BY DEF Alive, Moves
  <2>3. u \notin Members(p[Null])
    BY <1>2, <1>3
  <2>4. Waiter(p, u)'
    BY <2>1, <2>2, <2>3, <1>4 DEF ListInv, Waiter, Moves
  <2>5. Waker(p, u)'
    BY <1>4 DEF ListInv, Waker, Target, Moves
  <2> QED BY <2>4, <2>5
<1>7. Promised(p)'
  BY <1>2, <1>3 DEF Promised
<1>8. ListInv(p)'
  BY <1>5, <1>6, <1>7 DEF ListInv
<1> QED BY <1>8

(* It takes one block off its list, and if the owner sleeps already goes to *)
(* set its event.                                                           *)
LEMMA PopStep ==
    ASSUME NEW q, ListInv(q), EntryInv, EntryInv', NEW t \in Threads, Moves(t),
           UNCHANGED <<entry, event, head>>,
           NEW b \in Threads, b = loc[t].list, pc[t] = "UnblockLoop",
           \A u \in Threads : u # b => blk'[u] = blk[u],
           blk'[b].next = blk[b].next, ~blk'[b].wait,
           loc'[t].ret = loc[t].ret,
           \/ blk[b].wait /\ pc'[t] = "UnblockLoop" /\ loc'[t].list = blk[b].next
           \/ /\ ~blk[b].wait /\ pc'[t] = "SetEvent"
              /\ loc'[t].nxt = blk[b].next /\ loc'[t].list = b
    PROVE  \E p : ListInv(p)'
<1> DEFINE p == [x \in Blocks |-> IF x = t THEN Tail(q[t]) ELSE q[x]]
<1>0. /\ Null \in Blocks /\ t \in Blocks /\ t # Null
      /\ \A u \in Threads : NextOf[u] = blk[u].next /\ NextOf'[u] = NextOf[u]
  BY DEF Blocks, NextOf
<1>1. ASSUME NEW x \in Blocks
      PROVE  /\ IsList(Threads, NextOf', Null, First(x), q[x])
             /\ Members(q[x]) \subseteq Threads
  <2>1. IsList(Threads, NextOf, Null, First(x), q[x])
    BY DEF ListInv, Queues
  <2>2. Members(q[x]) \subseteq Threads
    BY <2>1, ListMembers
  <2>3. IsList(Threads, NextOf', Null, First(x), q[x])
    BY <2>1, <2>2, <1>0, ListFrame
  <2> QED BY <2>2, <2>3
<1>2. /\ IsList(Threads, NextOf', Null, blk[b].next, Tail(q[t]))
      /\ Members(Tail(q[t])) = Members(q[t]) \ {b}
      /\ b \in Members(q[t])
  <2>1. First(t) = b
    BY <1>0 DEF First
  <2>2. IsList(Threads, NextOf', Null, b, q[t])
    BY <2>1, <1>0, <1>1
  <2> QED BY <2>2, <1>0, ListPop
<1>3. p[t] = Tail(q[t]) /\ \A x \in Blocks : x # t => p[x] = q[x]
  BY <1>0
<1> HIDE DEF p
<1>4. \A x \in Blocks : Members(p[x]) = Members(q[x]) \ {b}
  <2> SUFFICES ASSUME NEW x \in Blocks PROVE Members(p[x]) = Members(q[x]) \ {b}
    OBVIOUS
  <2>1. CASE x = t
    BY <2>1, <1>2, <1>3
  <2>2. CASE x # t
    <3>1. b \notin Members(q[x])
      BY <2>2, <1>0, <1>2 DEF ListInv, Queues
    <3> QED BY <2>2, <3>1, <1>3
  <2> QED BY <2>1, <2>2
<1>5. ASSUME NEW u \in Threads PROVE On(p, u) <=> On(q, u) /\ u # b
  BY <1>4 DEF On
<1>6. On(q, b) /\ Alive(b)
  <2>1. On(q, b)
    BY <1>0, <1>2 DEF On
  <2> QED BY <2>1 DEF ListInv, Waiter
<1>7. Queues(p)'
  <2>1. ASSUME NEW x \in Blocks PROVE IsList(Threads, NextOf', Null, First(x)', p[x])
    <3>1. CASE x = t
      <4>1. First(x)' = blk[b].next
        BY <3>1, <1>0 DEF First
      <4> QED BY <3>1, <4>1, <1>2, <1>3
    <3>2. CASE x # t
      <4>1. First(x)' = First(x)
        BY <3>2 DEF First, Moves, Blocks
      <4> QED BY <3>2, <4>1, <1>1, <1>3
    <3> QED BY <3>1, <3>2
  <2>2. ASSUME NEW x \in Blocks, NEW y \in Blocks, x # y
        PROVE  Members(p[x]) \cap Members(p[y]) = {}
    <3>1. Members(q[x]) \cap Members(q[y]) = {}
      BY <2>2 DEF ListInv, Queues
    <3> QED BY <3>1, <1>4
  <2> QED BY <2>1, <2>2 DEF Queues
<1>8. ASSUME NEW u \in Threads PROVE Waiter(p, u)' /\ Waker(p, u)'
  <2>1. Waiter(q, u) /\ Waker(q, u) /\ Waiter(q, b)
    BY DEF ListInv
  <2>2. Alive(u)' <=> Alive(u)
    BY DEF Alive, Moves
  <2>3. u \in Members(p[Null]) => u \in Members(q[Null])
    BY <1>0, <1>4
  <2>4. u # t => pc'[u] = pc[u] /\ loc'[u] = loc[u]
    BY DEF Moves
  <2>5. \A v \in Threads : Target(v, u) => Target(v, u)'
    BY DEF Target, Moves
  <2>6. ASSUME ~blk[b].wait PROVE pc[b] = "Sleep" /\ b # t /\ ~event[b] /\ Target(t, b)'
    BY <2>1, <2>6, <1>6 DEF Waiter, Target
  <2>7. Waiter(p, u)'
    <3>1. CASE u = b
      <4>1. ~On(p, u)
        BY <3>1, <1>5
      <4>2. CASE blk[b].wait
        <5>1. pc[b] # "Sleep" /\ pc[b] # "BlockCas"
          BY <2>1, <1>6, <4>2 DEF Waiter, Alive
        <5>2. pc'[b] # "Sleep" /\ pc'[b] # "BlockCas"
          BY <5>1, <4>2 DEF Moves
        <5>3. pc'[u] \in {"UnblockLoop", "SetEvent"} => u \notin Members(p[Null])
          BY <4>1, <1>0 DEF On
        <5> QED BY <3>1, <4>1, <5>2, <5>3 DEF Waiter
      <4>3. CASE ~blk[b].wait
        <5>1. pc'[b] = "Sleep" /\ \E v \in Threads : Target(v, u)'
          BY <2>4, <2>6, <4>3, <3>1
        <5> QED BY <3>1, <4>1, <5>1 DEF Waiter
      <4> QED BY <4>2, <4>3
    <3>2. CASE u # b
      <4>1. On(p, u) <=> On(q, u)
        BY <3>2, <1>5
      <4>2. CASE u = t
        BY <3>2, <4>1, <4>2, <2>1, <2>2, <2>3 DEF Waiter
      <4>3. CASE u # t
        BY <3>2, <4>1, <4>3, <2>1, <2>2, <2>3, <2>4, <2>5 DEF Waiter
      <4> QED BY <4>2, <4>3
    <3> QED BY <3>1, <3>2
  <2>8. Waker(p, u)'
    <3>1. CASE u = t /\ pc'[t] = "SetEvent"
      <4>1. ~blk[b].wait /\ loc'[u].list = b
        BY <3>1
      <4>2. pc'[b] = "Sleep" /\ ~event'[b] /\ ~On(p, b)
        BY <4>1, <2>6, <1>5 DEF Moves
      <4>3. ASSUME NEW w \in Threads, Target(w, b)', w # t PROVE FALSE
        <5>1. Target(w, b) /\ Waker(q, w)
          BY <4>3 DEF Target, Moves, ListInv
        <5> QED BY <5>1, <1>6 DEF Waker, Target
      <4> QED BY <3>1, <4>1, <4>2, <4>3 DEF Waker
    <3>2. CASE u # t /\ pc[u] = "SetEvent"
      <4>1. /\ loc'[u] = loc[u] /\ loc[u].list \in Threads /\ ~On(q, loc[u].list)
            /\ pc[loc[u].list] = "Sleep" /\ ~event[loc[u].list]
        BY <3>2, <2>1, <2>4 DEF Waker
      <4>2. loc[u].list # b /\ loc[u].list # t
        BY <4>1, <1>6
      <4>3. ASSUME NEW w \in Threads, Target(w, loc[u].list)' PROVE w = u
        <5>1. w # t
          BY <4>1, <4>2, <4>3 DEF Target
        <5>2. Target(w, loc[u].list)
          BY <5>1, <4>1, <4>3 DEF Target, Moves
        <5> QED BY <5>2, <3>2, <2>1 DEF Waker
      <4>4. pc'[loc[u].list] = "Sleep" /\ ~event'[loc[u].list] /\ ~On(p, loc[u].list)
        BY <4>1, <4>2, <1>5 DEF Moves
      <4> QED BY <4>1, <4>3, <4>4 DEF Waker
    <3>3. CASE pc'[u] # "SetEvent"
      BY <3>3 DEF Waker
    <3> QED BY <3>1, <3>2, <3>3, <2>4
  <2> QED BY <2>7, <2>8
<1>9. Promised(p)'
  <2> SUFFICES ASSUME NEW u \in Members(p[Null]), pc'[u] \in {"WaitBit", "Sleep"}
               PROVE  IsLockedEntry(Ent(u))' \/ \E v \in Threads : pc'[v] = "Unblock"
    BY DEF Promised
  <2>1. u \in Members(q[Null]) /\ u \in Threads /\ u # t
    BY <1>0, <1>1, <1>4
  <2>3. pc[u] = pc'[u] /\ Ent(u)' = Ent(u)
    BY <2>1 DEF Moves, Ent
  <2>4. IsLockedEntry(Ent(u)) \/ \E v \in Threads : pc[v] = "Unblock"
    BY <2>1, <2>3 DEF ListInv, Promised
  <2>5. IsLockedEntry(Ent(u))' <=> IsLockedEntry(Ent(u))
    BY <2>3 DEF IsLockedEntry
  <2>6. \A v \in Threads : pc[v] = "Unblock" => pc'[v] = "Unblock"
    BY DEF Moves
  <2> QED BY <2>4, <2>5, <2>6
<1>10. ListInv(p)'
  BY <1>7, <1>8, <1>9 DEF ListInv
<1> QED BY <1>10

(* It sets the event of a sleeper.                                          *)
LEMMA SetEventStep ==
    ASSUME NEW q, ListInv(q), EntryInv, EntryInv', NEW t \in Threads, Moves(t),
           UNCHANGED <<entry, blk, head>>, pc[t] = "SetEvent",
           event' = [event EXCEPT ![loc[t].list] = TRUE],
           pc'[t] = "UnblockLoop", loc'[t].list = loc[t].nxt, loc'[t].ret = loc[t].ret
    PROVE  ListInv(q)'
<1>0. /\ loc[t].list \in Threads /\ ~On(q, loc[t].list) /\ pc[loc[t].list] = "Sleep"
      /\ \A w \in Threads : Target(w, loc[t].list) => w = t
      /\ event \in [Threads -> BOOLEAN]
  BY DEF ListInv, Waker, EntryInv, TypeOK
<1>1. Queues(q)'
  <2>1. ASSUME NEW x \in Blocks PROVE First(x)' = First(x)
    BY DEF First, Moves, Blocks
  <2> QED BY <2>1, QueuesFrame DEF ListInv, EntryInv
<1>2. ASSUME NEW u \in Threads PROVE Waiter(q, u)' /\ Waker(q, u)'
  <2>1. Waiter(q, u) /\ Waker(q, u)
    BY DEF ListInv
  <2>2. Alive(u)' <=> Alive(u)
    BY DEF Alive, Moves
  <2>3. u # t => pc'[u] = pc[u] /\ loc'[u] = loc[u]
    BY DEF Moves
  <2>4. Waiter(q, u)'
    <3>1. CASE u = loc[t].list
      BY <3>1, <1>0, <2>1, <2>2, <2>3 DEF Waiter
    <3>2. CASE u # loc[t].list
      <4>1. event'[u] = event[u]
        BY <3>2, <1>0
      <4>2. \A v \in Threads : Target(v, u) => Target(v, u)'
        BY <3>2 DEF Target, Moves
      <4>3. CASE u = t
        BY <4>1, <4>2, <4>3, <2>1, <2>2 DEF Waiter
      <4>4. CASE u # t
        BY <4>1, <4>2, <4>4, <2>1, <2>2, <2>3 DEF Waiter
      <4> QED BY <4>3, <4>4
    <3> QED BY <3>1, <3>2
  <2>5. Waker(q, u)'
    <3>1. CASE u # t /\ pc[u] = "SetEvent"
      <4>1. /\ loc'[u] = loc[u] /\ loc[u].list \in Threads /\ ~On(q, loc[u].list)
            /\ pc[loc[u].list] = "Sleep" /\ ~event[loc[u].list]
        BY <3>1, <2>1, <2>3 DEF Waker
      <4>2. loc[u].list # loc[t].list /\ loc[u].list # t
        BY <3>1, <4>1, <1>0 DEF Target
      <4>3. ASSUME NEW w \in Threads, Target(w, loc[u].list)' PROVE w = u
        <5>1. Target(w, loc[u].list)
          BY <4>1, <4>3 DEF Target, Moves
        <5> QED BY <5>1, <3>1, <2>1 DEF Waker
      <4>4. pc'[loc[u].list] = "Sleep" /\ ~event'[loc[u].list]
        BY <4>1, <4>2, <1>0 DEF Moves
      <4> QED BY <4>1, <4>3, <4>4 DEF Waker
    <3>2. CASE pc'[u] # "SetEvent"
      BY <3>2 DEF Waker
    <3> QED BY <3>1, <3>2, <2>3
  <2> QED BY <2>4, <2>5
<1>3. Promised(q)'
  <2> SUFFICES ASSUME NEW u \in Members(q[Null]), pc'[u] \in {"WaitBit", "Sleep"}
               PROVE  IsLockedEntry(Ent(u))' \/ \E v \in Threads : pc'[v] = "Unblock"
    BY DEF Promised
  <2>1. u \in Threads /\ u # t
    BY ListMembers DEF ListInv, Queues, Blocks
  <2>2. pc[u] = pc'[u] /\ Ent(u)' = Ent(u)
    BY <2>1 DEF Moves, Ent
  <2>3. IsLockedEntry(Ent(u)) \/ \E v \in Threads : pc[v] = "Unblock"
    BY <2>2 DEF ListInv, Promised
  <2>4. IsLockedEntry(Ent(u))' <=> IsLockedEntry(Ent(u))
    BY <2>2 DEF IsLockedEntry
  <2>5. \A v \in Threads : pc[v] = "Unblock" => pc'[v] = "Unblock"
    BY DEF Moves
  <2> QED BY <2>3, <2>4, <2>5
<1> QED BY <1>1, <1>2, <1>3 DEF ListInv

-----------------------------------------------------------------------------
(* The calls outside of the wait, up to ExfUnblockPushLock.                 *)
LEMMA OutsideLists ==
    ASSUME NEW q, ListInv(q), EntryInv, EntryInv', NEW t \in Threads,
           \/ Start(t) \/ Finish(t) \/ WriteEntry(t) \/ LockLoad(t) \/ LockCas(t)
           \/ FreeEntry(t)
    PROVE  ListInv(q)'
<1>0. TypeOK /\ loc[t] \in LocalVars /\ Ent(t) \in Entries \cup {Null}
  BY LocalsTypes DEF EntryInv, TypeOK, Ent
<1>1. UNCHANGED <<head, blk, event>> /\ Outside(pc[t])
  BY DEF Start, Finish, CreateHandle, LookupHandle, WriteEntry, LockLoad, LockCas, FreeEntry,
     UnlockEntry, DestroyHandle, List, Outside, Holding
<1>2. CASE Start(t)
  <2>1. PICK e \in Entries, l \in {"Write", "LockLoad"} :
          Goto(t, l, [NoLocals EXCEPT !.ent = e]) /\ entry' = entry
    BY <1>2 DEF Start, CreateHandle, LookupHandle, Table
  <2>2. Moves(t) /\ pc'[t] = l
    <3>1. [NoLocals EXCEPT !.ent = e] \in LocalVars /\ l \in PCs
      BY <1>0, LocalsTypes DEF PCs
    <3> QED BY <3>1, <2>1, <1>0, GotoMoves
  <2> QED BY <2>1, <2>2, <1>1, OutsideSteps DEF Outside, IsLockedEntry
<1>3. CASE Finish(t)
  <2>1. PICK r \in LocalVars : Goto(t, "Unblock", r) /\ r.ret # "LockLoad"
    <3>1. CASE UnlockEntry(t)
      BY <3>1, LocalsTypes DEF UnlockEntry, NoLocals
    <3>2. CASE DestroyHandle(t)
      <4> DEFINE r == [loc[t] EXCEPT !.ret = "Free"]
      <4>1. r \in LocalVars
        BY <1>0, LocalsTypes
      <4>2. r.ret = "Free"
        BY <1>0 DEF LocalVars
      <4>3. Goto(t, "Unblock", r)
        BY <3>2 DEF DestroyHandle
      <4> QED BY <4>1, <4>2, <4>3
    <3> QED BY <1>3, <3>1, <3>2 DEF Finish
  <2>2. Moves(t) /\ pc'[t] = "Unblock" /\ loc'[t] = r
    BY <2>1, <1>0, GotoMoves DEF PCs
  <2> QED BY <2>1, <2>2, <1>1, OutsideSteps
<1>4. CASE WriteEntry(t)
  <2>1. Goto(t, "Created", loc[t])
    BY <1>4 DEF WriteEntry, At
  <2>2. Moves(t) /\ pc'[t] = "Created"
    BY <2>1, <1>0, GotoMoves DEF PCs
  <2>3. PICK o \in Objects : entry' = [entry EXCEPT ![Ent(t)] = [obj |-> o, bit |-> FALSE]]
    BY <1>4 DEF WriteEntry
  <2>4. ASSUME NEW e \in Entries, IsLockedEntry(e) PROVE IsLockedEntry(e)'
    BY <2>3, <2>4, <1>0 DEF IsLockedEntry, TypeOK
  <2> QED BY <2>2, <2>4, <1>1, OutsideSteps DEF Outside
<1>5. CASE LockLoad(t)
  <2> DEFINE v == entry[Ent(t)]
             r == [loc[t] EXCEPT !.old = v]
  <2>1. /\ \/ Goto(t, "LockCas", r)
           \/ Goto(t, "Idle", NoLocals)
           \/ Goto(t, "BlockLoad", loc[t])
        /\ entry' = entry
    BY <1>5 DEF LockLoad, Return, At, Table
  <2>2. r \in LocalVars
    <3>1. v \in Value
      BY <1>5 DEF LockLoad, EntryInv, TypeOK, Locals, LocalsOf, Unblocking
    <3> QED BY <3>1, <1>0, LocalsTypes
  <2> HIDE DEF r, v
  <2>3. Moves(t) /\ pc'[t] \in {"LockCas", "Idle", "BlockLoad"}
    BY <2>1, <2>2, <1>0, GotoMoves, LocalsTypes DEF PCs
  <2> QED BY <2>1, <2>3, <1>1, OutsideSteps DEF Outside, IsLockedEntry
<1>6. CASE LockCas(t)
  <2> DEFINE r == [NoLocals EXCEPT !.ent = Ent(t)]
  <2>1. Goto(t, "Held", r) \/ Goto(t, "BlockLoad", r)
    BY <1>6 DEF LockCas
  <2>2. Moves(t) /\ pc'[t] \in {"Held", "BlockLoad"}
    <3>1. r \in LocalVars
      BY <1>0, LocalsTypes
    <3> HIDE DEF r
    <3> QED BY <3>1, <2>1, <1>0, GotoMoves DEF PCs
  <2>3. entry' = entry \/ entry' = [entry EXCEPT ![Ent(t)].bit = FALSE]
    BY <1>6 DEF LockCas
  <2>4. ASSUME NEW e \in Entries, IsLockedEntry(e) PROVE IsLockedEntry(e)'
    BY <2>3, <2>4, <1>0 DEF IsLockedEntry, TypeOK, Value
  <2> QED BY <2>2, <2>4, <1>1, OutsideSteps DEF Outside
<1>7. CASE FreeEntry(t)
  <2>1. Goto(t, "Idle", NoLocals) /\ entry' = entry
    BY <1>7 DEF FreeEntry, Return
  <2>2. Moves(t) /\ pc'[t] = "Idle"
    BY <2>1, <1>0, GotoMoves, LocalsTypes DEF PCs
  <2> QED BY <2>1, <2>2, <1>1, OutsideSteps DEF Outside, IsLockedEntry
<1> QED BY <1>2, <1>3, <1>4, <1>5, <1>6, <1>7

(* The block of a thread that is not in the wait, or whose wait bit is gone *)
(* while it does not sleep, is on no list, and nobody is about to wake it.  *)
LEMMA OffLists ==
    ASSUME NEW q, ListInv(q), NEW t \in Threads,
           \/ ~Alive(t)
           \/ pc[t] # "Sleep" /\ ~blk[t].wait
           \/ pc[t] = "Sleep" /\ event[t]
    PROVE  ~On(q, t) /\ \A v \in Threads : ~Target(v, t)
<1>1. ~On(q, t)
  BY DEF ListInv, Waiter
<1>2. ASSUME NEW v \in Threads, Target(v, t) PROVE FALSE
  <2>1. pc[t] = "Sleep" /\ ~event[t]
    BY <1>2 DEF ListInv, Waker, Target
  <2> QED BY <2>1 DEF Alive, ListInv, Waiter
<1> QED BY <1>1, <1>2

(* The frame that holds the wait block is left.                             *)
LEMMA LeaveStep ==
    ASSUME NEW q, ListInv(q), EntryInv, EntryInv', NEW t \in Threads, LockAgain(t),
           UNCHANGED <<entry, head>>, Alive(t),
           \/ pc[t] # "Sleep" /\ ~blk[t].wait
           \/ pc[t] = "Sleep" /\ event[t],
           pc[t] \notin {"Unblock", "SetEvent"},
           pc[t] = "UnblockLoop" => loc[t].list = Null
    PROVE  ListInv(q)'
<1>0. TypeOK /\ Ent(t) \in Entries \cup {Null} /\ "LockLoad" \in PCs
  BY LocalsTypes DEF EntryInv, TypeOK, Ent, PCs
<1>1. Moves(t) /\ pc'[t] = "LockLoad"
  BY <1>0, GotoMoves, LocalsTypes DEF LockAgain
<1>2. \A u \in Threads : u # t => blk'[u] = blk[u] /\ event'[u] = event[u]
  BY <1>0 DEF LockAgain, TypeOK
<1>3. ~On(q, t) /\ \A v \in Threads : ~Target(v, t)
  BY OffLists
<1>4. ~Alive(t)'
  BY <1>1 DEF Alive
<1> QED BY <1>1, <1>2, <1>3, <1>4, PrivateSteps

(* ExBlockPushLock and the wait.                                            *)
LEMMA BlockLists ==
    ASSUME NEW q, ListInv(q), EntryInv, EntryInv', NEW t \in Threads,
           BlockLoad(t) \/ BlockCas(t) \/ CheckEntry(t) \/ WaitBit(t) \/ Sleep(t)
    PROVE  \E p : ListInv(p)'
<1>0. /\ TypeOK /\ loc[t] \in LocalVars /\ blk[t] \in WaitBlock /\ Ent(t) \in Entries
      /\ head \in Blocks /\ blk \in [Threads -> WaitBlock] /\ event \in [Threads -> BOOLEAN]
      /\ entry[Ent(t)] \in Value
  BY LocalsTypes DEF EntryInv, TypeOK, Locals, LocalsOf, BlockLoad, BlockCas, CheckEntry,
     WaitBit, Sleep, Ent, Unblocking
<1>1. entry' = entry
  BY DEF BlockLoad, BlockCas, CheckEntry, WaitBit, Sleep, Table
<1>2. CASE BlockLoad(t)
  <2> DEFINE r == [loc[t] EXCEPT !.ptr = head]
  <2>1. r \in LocalVars /\ Goto(t, "BlockCas", r)
    BY <1>2, <1>0, LocalsTypes DEF BlockLoad
  <2> HIDE DEF r
  <2>2. Moves(t) /\ pc'[t] = "BlockCas" /\ pc[t] = "BlockLoad"
    BY <2>1, <1>0, <1>2, GotoMoves DEF PCs, BlockLoad
  <2>3. /\ \A u \in Threads : u # t => blk'[u] = blk[u] /\ event'[u] = event[u]
        /\ blk'[t].wait /\ head' = head
    BY <1>0, <1>2 DEF BlockLoad, WaitBlock
  <2>4. ~Alive(t) /\ ~Alive(t)'
    BY <2>2 DEF Alive
  <2>5. ListInv(q)'
    BY <2>2, <2>3, <2>4, <1>1, OffLists, PrivateSteps
  <2> QED BY <2>5
<1>3. CASE BlockCas(t)
  <2>0. /\ pc[t] = "BlockCas" /\ blk[t].wait /\ event' = event
        /\ blk' = [blk EXCEPT ![t].next = loc[t].ptr]
    BY <1>3 DEF BlockCas, ListInv, Waiter
  <2>1. /\ \A u \in Threads : u # t => blk'[u] = blk[u]
        /\ blk'[t].next = loc[t].ptr /\ blk'[t].wait = blk[t].wait
    BY <2>0, <1>0 DEF WaitBlock
  <2>2. CASE head = loc[t].ptr
    <3>1. head' = t /\ Goto(t, "Check", [NoLocals EXCEPT !.ent = Ent(t)])
      BY <1>3, <2>2 DEF BlockCas
    <3>2. Moves(t) /\ pc'[t] = "Check"
      BY <3>1, <1>0, GotoMoves, LocalsTypes DEF PCs
    <3> QED BY <2>0, <2>1, <2>2, <3>1, <3>2, <1>1, PushStep
  <2>3. CASE head # loc[t].ptr
    <3> DEFINE r == [loc[t] EXCEPT !.ptr = head]
    <3>1. head' = head /\ r \in LocalVars /\ Goto(t, "BlockCas", r)
      BY <1>3, <2>3, <1>0, LocalsTypes DEF BlockCas
    <3> HIDE DEF r
    <3>2. Moves(t) /\ pc'[t] = "BlockCas"
      BY <3>1, <1>0, GotoMoves DEF PCs
    <3>3. ~Alive(t) /\ ~Alive(t)'
      BY <2>0, <3>2 DEF Alive
    <3>4. ListInv(q)'
      BY <2>0, <2>1, <3>1, <3>2, <3>3, <1>1, OffLists, PrivateSteps
    <3> QED BY <3>4
  <2> QED BY <2>2, <2>3
<1>4. CASE CheckEntry(t)
  <2>0. pc[t] = "Check" /\ UNCHANGED <<head, blk, event>> /\ Alive(t)
    BY <1>4 DEF CheckEntry, List, Alive
  <2>1. CASE entry[Ent(t)].bit \/ entry[Ent(t)] = Cleared
    <3> DEFINE r == [loc[t] EXCEPT !.ret = "LockLoad"]
    <3>1. r \in LocalVars /\ Goto(t, "Unblock", r)
      BY <1>4, <2>1, <1>0, LocalsTypes DEF CheckEntry
    <3>2. r.ret = "LockLoad"
      BY <1>0 DEF LocalVars
    <3> HIDE DEF r
    <3>3. Moves(t) /\ pc'[t] = "Unblock" /\ loc'[t].ret = "LockLoad"
      BY <3>1, <3>2, <1>0, GotoMoves DEF PCs
    <3>4. Alive(t)'
      BY <3>3 DEF Alive
    <3>5. ListInv(q)'
      BY <2>0, <3>3, <3>4, <1>1, WaitingSteps
    <3> QED BY <3>5
  <2>2. CASE ~(entry[Ent(t)].bit \/ entry[Ent(t)] = Cleared)
    <3>1. Goto(t, "WaitBit", loc[t])
      BY <1>4, <2>2 DEF CheckEntry, At
    <3>2. Moves(t) /\ pc'[t] = "WaitBit" /\ loc'[t] = loc[t]
      BY <3>1, <1>0, GotoMoves DEF PCs
    <3>3. IsLockedEntry(Ent(t))
      BY <2>2, <1>0 DEF IsLockedEntry, Value, Cleared
    <3>4. IsLockedEntry(Ent(t))' /\ Alive(t)'
      BY <3>2, <3>3, <1>1 DEF Alive, Ent, IsLockedEntry
    <3>5. ListInv(q)'
      BY <2>0, <3>2, <3>4, <1>1, WaitingSteps
    <3> QED BY <3>5
  <2> QED BY <2>1, <2>2
<1>5. CASE WaitBit(t)
  <2>0. pc[t] = "WaitBit" /\ head' = head /\ Alive(t)
    BY <1>5 DEF WaitBit, Alive
  <2>1. CASE blk[t].wait
    <3>1. /\ Goto(t, "Sleep", loc[t])
          /\ event' = [event EXCEPT ![t] = FALSE] /\ blk' = [blk EXCEPT ![t].wait = FALSE]
      BY <1>5, <2>1 DEF WaitBit, At
    <3>2. Moves(t) /\ pc'[t] = "Sleep" /\ loc'[t] = loc[t]
      BY <3>1, <1>0, GotoMoves DEF PCs
    <3>3. /\ \A u \in Threads : u # t => blk'[u] = blk[u] /\ event'[u] = event[u]
          /\ blk'[t].next = blk[t].next /\ ~blk'[t].wait /\ ~event'[t]
      BY <3>1, <1>0 DEF WaitBlock
    <3>4. t \in Members(q[Null]) =>
            IsLockedEntry(Ent(t))' \/ \E v \in Threads : pc[v] = "Unblock"
      BY <2>0, <3>2, <1>1 DEF ListInv, Promised, IsLockedEntry, Ent
    <3>5. Alive(t)'
      BY <3>2 DEF Alive
    <3>6. ListInv(q)'
      BY <2>0, <2>1, <3>2, <3>3, <3>4, <3>5, <1>1, WaitingSteps
    <3> QED BY <3>6
  <2>2. CASE ~blk[t].wait
    <3>1. LockAgain(t)
      BY <1>5, <2>2 DEF WaitBit
    <3>2. ListInv(q)'
      BY <3>1, <2>0, <2>2, <1>1, LeaveStep
    <3> QED BY <3>2
  <2> QED BY <2>1, <2>2
<1>6. CASE Sleep(t)
  <2>1. pc[t] = "Sleep" /\ event[t] /\ LockAgain(t) /\ head' = head /\ Alive(t)
    BY <1>6 DEF Sleep, Alive
  <2>2. ListInv(q)'
    BY <2>1, <1>1, LeaveStep
  <2> QED BY <2>2
<1> QED BY <1>2, <1>3, <1>4, <1>5, <1>6

(* ExfUnblockPushLock.                                                      *)
LEMMA UnblockLists ==
    ASSUME NEW q, ListInv(q), EntryInv, EntryInv', NEW t \in Threads,
           Unblock(t) \/ UnblockBlock(t) \/ SetEvent(t) \/ UnblockEnd(t)
    PROVE  \E p : ListInv(p)'
<1>0. /\ TypeOK /\ loc[t] \in LocalVars /\ Ent(t) \in Entries \cup {Null}
      /\ head \in Blocks /\ blk \in [Threads -> WaitBlock] /\ event \in [Threads -> BOOLEAN]
      /\ loc[t].list \in Blocks /\ loc[t].nxt \in Blocks /\ Null \in Blocks
  BY LocalsTypes DEF EntryInv, TypeOK, Ent, Blocks
<1>1. entry' = entry
  BY DEF Unblock, UnblockBlock, SetEvent, UnblockEnd, UnblockReturn, Table
<1>2. CASE Unblock(t)
  <2> DEFINE r == [loc[t] EXCEPT !.list = head]
  <2>1. r \in LocalVars
    BY <1>0, LocalsTypes
  <2>2. r.list = head /\ r.ret = loc[t].ret
    BY <1>0 DEF LocalVars
  <2>3. Goto(t, "UnblockLoop", r) /\ pc[t] = "Unblock" /\ UNCHANGED <<blk, event>> /\ head' = Null
    BY <1>2 DEF Unblock
  <2> HIDE DEF r
  <2>4. Moves(t) /\ pc'[t] = "UnblockLoop" /\ loc'[t] = r
    BY <2>1, <2>3, <1>0, GotoMoves DEF PCs
  <2> QED BY <2>2, <2>3, <2>4, <1>1, TakeStep
<1>3. CASE UnblockBlock(t)
  <2> DEFINE b == loc[t].list
             r == IF blk[b].wait THEN [loc[t] EXCEPT !.list = blk[b].next]
                  ELSE [loc[t] EXCEPT !.nxt = blk[b].next]
  <2>1. b \in Threads /\ pc[t] = "UnblockLoop" /\ UNCHANGED <<head, event>>
    BY <1>3, <1>0 DEF UnblockBlock, Blocks
  <2>2. blk[b] \in WaitBlock /\ blk[b].next \in Blocks
    BY <2>1, <1>0 DEF WaitBlock
  <2>3. r \in LocalVars
    BY <1>0, <2>2, LocalsTypes
  <2>4. /\ r.ret = loc[t].ret
        /\ blk[b].wait => r.list = blk[b].next
        /\ ~blk[b].wait => r.nxt = blk[b].next /\ r.list = b
    BY <1>0 DEF LocalVars
  <2>5. /\ blk' = [blk EXCEPT ![b].wait = FALSE]
        /\ blk[b].wait => Goto(t, "UnblockLoop", r)
        /\ ~blk[b].wait => Goto(t, "SetEvent", r)
    BY <1>3 DEF UnblockBlock
  <2>6. /\ \A u \in Threads : u # b => blk'[u] = blk[u]
        /\ blk'[b].next = blk[b].next /\ ~blk'[b].wait
    BY <2>1, <2>5, <1>0 DEF WaitBlock
  <2> HIDE DEF r
  <2>7. /\ Moves(t) /\ loc'[t] = r
        /\ pc'[t] = IF blk[b].wait THEN "UnblockLoop" ELSE "SetEvent"
    <3>1. "UnblockLoop" \in PCs /\ "SetEvent" \in PCs
      BY DEF PCs
    <3>2. CASE blk[b].wait
      BY <3>1, <3>2, <2>3, <2>5, <1>0, GotoMoves
    <3>3. CASE ~blk[b].wait
      BY <3>1, <3>3, <2>3, <2>5, <1>0, GotoMoves
    <3> QED BY <3>2, <3>3
  <2> QED BY <2>1, <2>4, <2>6, <2>7, <1>1, PopStep
<1>4. CASE SetEvent(t)
  <2> DEFINE r == [loc[t] EXCEPT !.list = loc[t].nxt, !.nxt = Null]
  <2>1. r \in LocalVars
    BY <1>0, LocalsTypes
  <2>2. r.list = loc[t].nxt /\ r.ret = loc[t].ret
    BY <1>0 DEF LocalVars
  <2>3. /\ Goto(t, "UnblockLoop", r) /\ pc[t] = "SetEvent" /\ UNCHANGED <<blk, head>>
        /\ event' = [event EXCEPT ![loc[t].list] = TRUE]
    BY <1>4 DEF SetEvent
  <2> HIDE DEF r
  <2>4. Moves(t) /\ pc'[t] = "UnblockLoop" /\ loc'[t] = r
    BY <2>1, <2>3, <1>0, GotoMoves DEF PCs
  <2>5. ListInv(q)'
    BY <2>2, <2>3, <2>4, <1>1, SetEventStep
  <2> QED BY <2>5
<1>5. CASE UnblockEnd(t)
  <2>0. pc[t] = "UnblockLoop" /\ loc[t].list = Null /\ head' = head
    BY <1>5 DEF UnblockEnd, UnblockReturn, List
  <2>1. CASE loc[t].ret = "LockLoad" /\ blk[t].wait
    <3>1. Goto(t, "WaitBit", loc[t]) /\ UNCHANGED <<blk, event>>
      BY <1>5, <2>1 DEF UnblockEnd, At, List
    <3>2. Moves(t) /\ pc'[t] = "WaitBit" /\ loc'[t] = loc[t]
      BY <3>1, <1>0, GotoMoves DEF PCs
    <3>3. Alive(t) /\ Alive(t)' /\ t \notin Members(q[Null])
      BY <2>0, <2>1, <3>2 DEF Alive, ListInv, Waiter
    <3>4. ListInv(q)'
      BY <2>0, <3>1, <3>2, <3>3, <1>1, WaitingSteps
    <3> QED BY <3>4
  <2>2. CASE loc[t].ret = "LockLoad" /\ ~blk[t].wait
    <3>1. LockAgain(t) /\ Alive(t)
      BY <1>5, <2>0, <2>2 DEF UnblockEnd, UnblockReturn, Alive
    <3>2. ListInv(q)'
      BY <3>1, <2>0, <2>2, <1>1, LeaveStep
    <3> QED BY <3>2
  <2>3. CASE loc[t].ret # "LockLoad"
    <3>1. PICK l \in {"Idle", "Free"}, r \in LocalVars :
            Goto(t, l, r) /\ UNCHANGED <<blk, event>>
      BY <1>5, <2>3, <1>0, LocalsTypes DEF UnblockEnd, UnblockReturn, Return
    <3>2. Moves(t) /\ pc'[t] = l
      BY <3>1, <1>0, GotoMoves DEF PCs
    <3>3. ~Alive(t) /\ ~Alive(t)'
      BY <2>0, <2>3, <3>2 DEF Alive
    <3>4. ListInv(q)'
      BY <2>0, <3>1, <3>2, <3>3, <1>1, OffLists, PrivateSteps
    <3> QED BY <3>4
  <2> QED BY <2>1, <2>2, <2>3
<1> QED BY <1>2, <1>3, <1>4, <1>5

(* The whole invariant: at the start every list is empty.                   *)
LEMMA ListInit ==
    ASSUME Init
    PROVE  \E q : ListInv(q)
<1> DEFINE q == [x \in Blocks |-> <<>>]
<1>1. \A x \in Blocks : First(x) = Null /\ q[x] = <<>>
  BY DEF Init, First, Blocks
<1>2. Members(<<>>) = {} /\ IsList(Threads, NextOf, Null, Null, <<>>)
  BY NullList
<1> HIDE DEF q
<1>3. Queues(q) /\ \A u \in Threads : ~On(q, u)
  BY <1>1, <1>2 DEF Queues, On
<1>4. \A u \in Threads : Waiter(q, u) /\ Waker(q, u)
  BY <1>3 DEF Init, Waiter, Waker, Alive, NoBlock, NoLocals
<1>5. Promised(q)
  BY <1>1, <1>2 DEF Promised, Blocks
<1> QED BY <1>3, <1>4, <1>5 DEF ListInv

(* Every step of the table keeps the inductive invariant.                   *)
LEMMA IInvStep ==
    ASSUME IInv, [Next]_vars
    PROVE  IInv'
<1>1. EntryInv'
  BY EntryStep DEF IInv
<1>2. PICK q : ListInv(q)
  BY DEF IInv
<1>3. CASE UNCHANGED vars
  <2>1. ListInv(q)'
    BY <1>2, <1>3 DEF vars, ListInv, Queues, NextOf, First, On, Target, Waiter, Waker, Promised,
       IsLockedEntry, Ent, Alive
  <2> QED BY <2>1, <1>1 DEF IInv
<1>4. CASE Next
  <2>1. PICK t \in Threads : Start(t) \/ Finish(t) \/ Continue(t)
    BY <1>4 DEF Next
  <2>2. \E p : ListInv(p)'
    BY <2>1, <1>1, <1>2, OutsideLists, BlockLists, UnblockLists DEF Continue, IInv
  <2> QED BY <2>2, <1>1 DEF IInv
<1> QED BY <1>3, <1>4

(* The inductive invariant holds in every reachable state, for any number   *)
(* of threads, entries and objects.                                         *)
THEOREM Invariance == Spec => []IInv
<1>1. Init => IInv
  BY EntryInit, ListInit DEF IInv
<1>2. IInv /\ [Next]_vars => IInv'
  BY IInvStep
<1> QED BY <1>1, <1>2, PTL DEF Spec

-----------------------------------------------------------------------------
(* One locker for each locked entry, none for the others, and the free list *)
(* holds cleared entries only.                                              *)
THEOREM LockedByOne == Spec => []EntryExclusive
<1>1. ASSUME IInv PROVE EntryExclusive
  <2>1. TypeOK /\ Entry1
    BY <1>1 DEF IInv, EntryInv
  <2>2. ASSUME NEW e \in Entries
        PROVE  Cardinality(Holders(e)) = IF entry[e].obj # Null /\ ~entry[e].bit THEN 1 ELSE 0
    <3>1. CASE IsLockedEntry(e)
      <4>1. PICK t \in Threads : pc[t] \in Holding /\ Ent(t) = e
        BY <2>1, <3>1 DEF Entry1
      <4>2. Holders(e) = {t}
        BY <4>1, <2>1 DEF Entry1, Holders, Has, Holding
      <4> QED BY <4>2, <3>1, FS_Singleton DEF IsLockedEntry
    <3>2. CASE ~IsLockedEntry(e)
      <4>1. Holders(e) = {}
        BY <3>2, <2>1 DEF Entry1, Holders, Has, Holding
      <4> QED BY <4>1, <3>2, FS_EmptySet DEF IsLockedEntry
    <3> QED BY <3>1, <3>2
  <2> QED BY <2>1, <2>2 DEF EntryExclusive, Entry1
<1> QED BY <1>1, Invariance, PTL

(* What Chain computes by following the links is what is on the list.       *)
LEMMA ChainIsList ==
    ASSUME NEW b, NEW s, IsList(Threads, NextOf, Null, b, s)
    PROVE  Chain(b) = Members(s)
<1> DEFINE N == Cardinality(Threads)
           Eqn(f) == f = [k \in 0 .. N |-> IF k = 0 THEN b
                             ELSE IF f[k-1] = Null THEN Null ELSE blk[f[k-1]].next]
           w == [k \in 0 .. N |-> IF k < Len(s) THEN s[k + 1] ELSE Null]
<1>1. Len(s) \in Nat /\ Len(s) <= N /\ N \in Nat
  BY ListLength
<1>2. Eqn(w)
  <2>1. ASSUME NEW k \in 0 .. N
        PROVE  w[k] = IF k = 0 THEN b ELSE IF w[k-1] = Null THEN Null ELSE blk[w[k-1]].next
    <3>0. \A i \in 1 .. Len(s) : s[i] \in Threads /\ s[i] # Null
                                 /\ blk[s[i]].next = IF i = Len(s) THEN Null ELSE s[i + 1]
      <4> SUFFICES ASSUME NEW i \in 1 .. Len(s)
                   PROVE  /\ s[i] \in Threads /\ s[i] # Null
                          /\ blk[s[i]].next = IF i = Len(s) THEN Null ELSE s[i + 1]
        OBVIOUS
      <4>1. s[i] \in Threads
        BY DEF IsList
      <4>2. NextOf[s[i]] = IF i = Len(s) THEN Null ELSE s[i + 1]
        BY DEF IsList
      <4> QED BY <4>1, <4>2 DEF NextOf
    <3>1. CASE k = 0
      BY <3>1, <1>1 DEF IsList
    <3>2. CASE k # 0 /\ k - 1 < Len(s)
      <4>1. w[k-1] = s[k] /\ k \in 1 .. Len(s)
        BY <3>2, <1>1
      <4>2. w[k] = IF k = Len(s) THEN Null ELSE s[k + 1]
        BY <3>2, <1>1
      <4> QED BY <3>0, <3>2, <4>1, <4>2
    <3>3. CASE k # 0 /\ ~(k - 1 < Len(s))
      BY <3>3, <1>1
    <3> QED BY <3>1, <3>2, <3>3
  <2> QED BY <2>1
<1>3. PICK c : Eqn(c) /\ Chain(b) = {c[k] : k \in 0 .. N} \ {Null}
  <2>1. Eqn(CHOOSE f : Eqn(f))
    BY <1>2
  <2>2. Chain(b) = {(CHOOSE f : Eqn(f))[k] : k \in 0 .. N} \ {Null}
    BY DEF Chain
  <2> QED BY <2>1, <2>2
<1>4. Follows(Threads, NextOf, Null, b, c, N)
  <2>1. \A k \in 0 .. N : c[k] = IF k = 0 THEN b
                             ELSE IF c[k-1] = Null THEN Null ELSE blk[c[k-1]].next
    BY <1>3
  <2> HIDE DEF N
  <2>2. c[0] = b
    BY <2>1, <1>1
  <2>3. ASSUME NEW k \in 1 .. N
        PROVE  /\ c[k - 1] = Null => c[k] = Null
               /\ c[k - 1] \in Threads => c[k] = NextOf[c[k - 1]]
    BY <2>1, <1>1 DEF NextOf
  <2> QED BY <2>2, <2>3 DEF Follows
<1>5. Null \notin Threads /\ IsFiniteSet(Threads)
  OBVIOUS
<1>6. \A k \in 0 .. N : c[k] = IF k < Len(s) THEN s[k + 1] ELSE Null
  <2>1. Follows(Threads, NextOf, Null, b, c, Cardinality(Threads))
    BY <1>4
  <2> HIDE DEF N, Eqn, w
  <2>2. Visits(c, s, Null, Cardinality(Threads))
    BY <1>5, <2>1, ListFollowed
  <2> USE DEF N
  <2> QED BY <2>2 DEF Visits
<1>7. {c[k] : k \in 0 .. N} \ {Null} = Members(s)
  <2>1. \A i \in 1 .. Len(s) : s[i] \in Threads /\ s[i] # Null
    BY DEF IsList
  <2>2. \A i \in 1 .. Len(s) : i - 1 \in 0 .. N /\ s[i] = c[i - 1]
    BY <1>1, <1>6
  <2>3. \A k \in 0 .. N : c[k] # Null => k + 1 \in 1 .. Len(s) /\ c[k] = s[k + 1]
    BY <1>1, <1>6
  <2> QED BY <2>1, <2>2, <2>3 DEF Members
<1> QED BY <1>3, <1>7

(* So the lists of the invariant are the ones the properties speak of.      *)
LEMMA ListsOf ==
    ASSUME NEW q, ListInv(q)
    PROVE  /\ Chain(head) = Members(q[Null]) /\ Members(q[Null]) \subseteq Threads
           /\ \A t \in Threads :
                /\ Members(q[t]) \subseteq Threads
                /\ pc[t] = "UnblockLoop" => Pending(t) = Members(q[t])
                /\ pc[t] = "SetEvent" => Pending(t) = {loc[t].list} \cup Members(q[t])
                /\ pc[t] \notin {"UnblockLoop", "SetEvent"} => Pending(t) = {}
<1>0. Null \in Blocks /\ \A t \in Threads : t \in Blocks /\ t # Null
  BY DEF Blocks
<1>1. \A x \in Blocks : Chain(First(x)) = Members(q[x]) /\ Members(q[x]) \subseteq Threads
  BY ChainIsList, ListMembers DEF ListInv, Queues
<1>2. First(Null) = head
  BY DEF First
<1>3. ASSUME NEW t \in Threads
      PROVE  /\ pc[t] = "UnblockLoop" => Pending(t) = Members(q[t])
             /\ pc[t] = "SetEvent" => Pending(t) = {loc[t].list} \cup Members(q[t])
             /\ pc[t] \notin {"UnblockLoop", "SetEvent"} => Pending(t) = {}
  BY <1>0, <1>1 DEF Pending, First
<1> QED BY <1>0, <1>1, <1>2, <1>3

(* No wait block that is still on a list, or in somebody's hands, outlives  *)
(* the wait of its owner, and no two wakers have the same one.              *)
THEOREM BlocksOutliveUse == Spec => []NoDanglingBlock
<1>1. ASSUME IInv PROVE NoDanglingBlock
  <2>1. PICK q : ListInv(q)
    BY <1>1 DEF IInv
  <2>2. /\ Chain(head) = Members(q[Null]) /\ Members(q[Null]) \subseteq Threads
        /\ \A t \in Threads :
             /\ Members(q[t]) \subseteq Threads
             /\ pc[t] = "UnblockLoop" => Pending(t) = Members(q[t])
             /\ pc[t] = "SetEvent" => Pending(t) = {loc[t].list} \cup Members(q[t])
             /\ pc[t] \notin {"UnblockLoop", "SetEvent"} => Pending(t) = {}
    BY <2>1, ListsOf
  <2>3. /\ \A x \in Blocks, u \in Threads : u \in Members(q[x]) => On(q, u) /\ Alive(u)
        /\ \A x, y \in Blocks : \A u : u \in Members(q[x]) /\ u \in Members(q[y]) => x = y
        /\ Null \in Blocks /\ \A t \in Threads : t \in Blocks /\ t # Null
    BY <2>1 DEF ListInv, Queues, Waiter, On, Blocks
  <2>4. \A t \in Threads : pc[t] = "SetEvent" =>
           /\ loc[t].list \in Threads /\ ~On(q, loc[t].list) /\ Alive(loc[t].list)
           /\ pc[loc[t].list] = "Sleep"
           /\ \A u \in Threads : pc[u] = "SetEvent" /\ loc[u].list = loc[t].list => u = t
    BY <2>1 DEF ListInv, Waker, Target, Alive
  <2>5. \A b \in Chain(head) : Alive(b)
    BY <2>2, <2>3
  <2>6. ASSUME NEW t \in Threads, NEW b \in Pending(t)
        PROVE  /\ b \in Threads /\ Alive(b) /\ b \notin Chain(head)
               /\ b \in Members(q[t]) \/ (pc[t] = "SetEvent" /\ b = loc[t].list /\ ~On(q, b))
    <3>1. b \in Members(q[t]) \/ (pc[t] = "SetEvent" /\ b = loc[t].list)
      BY <2>2, <2>6
    <3>2. CASE b \in Members(q[t])
      BY <3>2, <2>2, <2>3
    <3>3. CASE pc[t] = "SetEvent" /\ b = loc[t].list
      BY <3>3, <2>2, <2>3, <2>4
    <3> QED BY <3>1, <3>2, <3>3
  <2>7. ASSUME NEW t \in Threads, NEW u \in Threads, t # u,
               NEW b \in Pending(t), b \in Pending(u)
        PROVE  FALSE
    BY <2>3, <2>4, <2>6, <2>7
  <2> QED BY <2>4, <2>5, <2>6, <2>7 DEF NoDanglingBlock
<1> QED BY <1>1, Invariance, PTL

(* No wake-up is lost: whoever sleeps without its event set is on a list    *)
(* that somebody is going through or will take.                             *)
THEOREM WakeupsArrive == Spec => []NoLostWakeup
<1>1. ASSUME IInv PROVE NoLostWakeup
  <2>1. PICK q : ListInv(q)
    BY <1>1 DEF IInv
  <2> SUFFICES ASSUME NEW t \in Threads, pc[t] = "Sleep", ~event[t]
               PROVE  \/ \E u \in Threads : t \in Pending(u)
                      \/ /\ t \in Chain(head)
                         /\ \/ Holders(Ent(t)) # {}
                            \/ \E u \in Threads : pc[u] = "Unblock"
    BY DEF NoLostWakeup
  <2>2. /\ Chain(head) = Members(q[Null])
        /\ \A u \in Threads :
             /\ pc[u] = "UnblockLoop" => Pending(u) = Members(q[u])
             /\ pc[u] = "SetEvent" => Pending(u) = {loc[u].list} \cup Members(q[u])
    BY <2>1, ListsOf
  <2>3. On(q, t) \/ \E v \in Threads : Target(v, t)
    BY <2>1 DEF ListInv, Waiter
  <2>4. CASE \E v \in Threads : Target(v, t)
    BY <2>2, <2>4 DEF Target
  <2>5. CASE t \in Members(q[Null])
    <3>1. IsLockedEntry(Ent(t)) \/ \E v \in Threads : pc[v] = "Unblock"
      BY <2>1, <2>5 DEF ListInv, Promised
    <3>2. Ent(t) \in Entries
      BY <1>1 DEF IInv, EntryInv, Locals, LocalsOf, Unblocking
    <3>3. IsLockedEntry(Ent(t)) => Holders(Ent(t)) # {}
      BY <1>1, <3>2 DEF IInv, EntryInv, Entry1, Holders
    <3> QED BY <3>1, <3>3, <2>2, <2>5
  <2>6. CASE \E x \in Threads : t \in Members(q[x])
    <3>1. PICK x \in Threads : t \in Members(q[x])
      BY <2>6
    <3>2. pc[x] \in {"UnblockLoop", "SetEvent"}
      <4>1. IsList(Threads, NextOf, Null, First(x), q[x]) /\ x # Null
        BY <2>1 DEF ListInv, Queues, Blocks
      <4>2. First(x) # Null
        BY <3>1, <4>1, NullList
      <4> QED BY <4>1, <4>2 DEF First
    <3> QED BY <3>1, <3>2, <2>2
  <2> QED BY <2>3, <2>4, <2>5, <2>6 DEF On, Blocks
<1> QED BY <1>1, Invariance, PTL

-----------------------------------------------------------------------------
(***************************************************************************)
(* The free lists of handles: HandleFreeList, up to the race that the      *)
(* choice of handle.c 304 lets happen.                                     *)
(***************************************************************************)
Setting ==
    /\ PerTable \in Nat \ {0} /\ MaxHandles \in Nat /\ PerTable <= MaxHandles
    /\ Granted \notin 0 .. MaxHandles
    /\ NoThread \notin Callers
    /\ LockCount \in Nat \ {0, 1}

FreeVars == [old : 0 .. MaxHandles, new : Link, h : 0 .. MaxHandles,
             free : {"first", "last"}, i : 0 .. MaxHandles + LockCount, ok : BOOLEAN]

FreeTypes ==
    /\ firstFree \in 0 .. MaxHandles /\ lastFree \in 0 .. MaxHandles
    /\ next \in [Handles -> Link]
    /\ pool \in 0 .. MaxHandles
    /\ owner \in [Locks -> Callers \cup {NoThread}]
    /\ sharers \in [Locks -> SUBSET Callers]
    /\ at \in [Callers -> Places]
    /\ var \in [Callers -> FreeVars]
    /\ out \in [Handles -> Nat]

(* Who has which of the push locks. *)
Moving  == {"MoveWait", "MoveLock", "MoveUnlock", "MoveCas"}
Growing == {"GrowCheck", "GrowUnlock", "Move", "Reverse", "Slow", "SlowLoad", "SlowCas",
            "SlowUnlock"} \cup Moving

LocksHeld(t) ==
    /\ at[t] \in Growing => owner[0] = t
    /\ at[t] = "MoveUnlock" => owner[var[t].i] = t
    /\ at[t] \in {"PopCheck", "PopNext", "PopCas", "PopUnlock"} => t \in sharers[LockIndex(var[t].old)]

PushLocks ==
    /\ \A i \in Locks : owner[i] # NoThread => sharers[i] = {}
    /\ \A t \in Callers : LocksHeld(t)

(* What a call remembers. *)
FreeLocals(t) ==
    /\ at[t] \in {"Pop", "PopCheck", "PopNext", "PopCas", "Grow", "GrowCheck", "GrowUnlock",
                  "Move", "Reverse", "Slow"} \cup Moving => ~var[t].ok
    /\ at[t] \in {"Pop", "PopCheck", "PopNext", "PopCas", "PopUnlock", "Write", "GrowUnlock",
                  "Reverse"} \cup Moving => var[t].old \in 1 .. pool
    /\ at[t] \in Moving \ {"MoveCas"} => var[t].i \in 1 .. LockCount - 1
    /\ at[t] = "MoveCas" => var[t].i = LockCount
    /\ at[t] \in {"FreeLoad", "FreeCas"} => var[t].h \in 1 .. pool
    /\ at[t] = "PopUnlock" /\ var[t].ok => var[t].new \in 0 .. pool
    /\ at[t] = "Write" => var[t].ok

(* Thread t has taken handle h and not told its caller, or frees it. *)
Frees(t, h) == at[t] \in {"FreeLoad", "FreeCas"} /\ var[t].h = h
User(t, h) ==
    \/ at[t] \in {"PopUnlock", "Write"} /\ var[t].ok /\ var[t].old = h
    \/ Frees(t, h)

OneUse(h) ==
    /\ out[h] \in {0, 1} /\ (out[h] = 1 => h <= pool)
    /\ \A t \in Callers : User(t, h) => out[h] = 0 /\ \A u \in Callers : User(u, h) => u = t

Unused(h) == out[h] = 0 /\ \A t \in Callers : ~User(t, h)

(* The handles of a list that begins at top; of a row that does and ends at *)
(* end.                                                                     *)
Stack(X, top) ==
    /\ top = 0 \/ top \in X
    /\ \A x \in X : next[x] = 0 \/ (next[x] \in X /\ next[x] # top)
    /\ \A x, y \in X : next[x] = next[y] /\ next[x] # 0 => x = y

Row(X, top, end) ==
    /\ top \in X /\ end \in X
    /\ \A x \in X : x # end => next[x] \in X /\ next[x] # top
    /\ \A x, y \in X : x # end /\ y # end /\ next[x] = next[y] => x = y

(* The lists have different handles, and nobody uses one of them. *)
Apart(F, L, M, S) ==
    /\ F \cup L \cup M \cup S \subseteq 1 .. pool
    /\ F \cap L = {} /\ F \cap M = {} /\ F \cap S = {}
    /\ L \cap M = {} /\ L \cap S = {} /\ M \cap S = {}
    /\ \A h \in F \cup L \cup M \cup S : Unused(h)

(* The list being moved, the new low level table, and a handle being freed. *)
PutOf(M, S, t) ==
    /\ at[t] \in Moving => Stack(M, var[t].old)
    /\ at[t] \in {"SlowLoad", "SlowCas"} =>
          Row(S, var[t].i, var[t].i + PerTable - 1)
    /\ at[t] = "SlowCas" => next[var[t].i + PerTable - 1] = var[t].old
    /\ at[t] = "FreeCas" => next[var[t].h] = var[t].old

(* A thread that pops has looked at the list under the lock of the handle:  *)
(* before the race the handle does not come back to the first list.         *)
GuardOf(F, M, S, t) ==
    at[t] \in {"PopNext", "PopCas"} =>
        /\ at[t] = "PopCas" /\ var[t].old \in F => var[t].new = next[var[t].old]
        /\ var[t].old \notin S
        /\ \A u \in Callers : Frees(u, var[t].old) => var[u].free = "last"
        /\ \A u \in Callers : at[u] \in Moving /\ var[t].old \in M => LockIndex(var[t].old) >= var[u].i

FreeInv(F, L, M, S) ==
    /\ Setting /\ FreeTypes /\ PushLocks
    /\ \A t \in Callers : FreeLocals(t)
    /\ \A h \in Handles : OneUse(h)
    /\ Apart(F, L, M, S)
    /\ Stack(F, firstFree) /\ Stack(L, lastFree)
    /\ \A t \in Callers : PutOf(M, S, t) /\ GuardOf(F, M, S, t)

FreeIInv == raced \/ \E F, L, M, S : FreeInv(F, L, M, S)

-----------------------------------------------------------------------------
(* The local variables.                                                     *)
LEMMA FreeVarsFields ==
    ASSUME Setting
    PROVE  /\ NoVars \in FreeVars /\ NoVars.ok = FALSE
           /\ NoVars.old = 0 /\ NoVars.i = 0
           /\ \A r \in FreeVars : /\ r.old \in 0 .. MaxHandles /\ r.new \in Link
                                  /\ r.h \in 0 .. MaxHandles /\ r.free \in {"first", "last"}
                                  /\ r.i \in 0 .. MaxHandles + LockCount /\ r.ok \in BOOLEAN
  BY DEF NoVars, FreeVars, Link, Setting

(* The threads that do not move.                                            *)
Rest(t) == \A u \in Callers : u # t => at'[u] = at[u] /\ var'[u] = var[u]

(* A thread goes on.                                                        *)
LEMMA FreeGoto ==
    ASSUME FreeTypes, NEW t \in Callers, NEW l \in Places, NEW r \in FreeVars,
           GoOn(t, l, r)
    PROVE  /\ at' \in [Callers -> Places] /\ var' \in [Callers -> FreeVars]
           /\ at'[t] = l /\ var'[t] = r /\ Rest(t)
  BY DEF FreeTypes, GoOn, Rest

(* The numbers.                                                             *)
LEMMA HandleRange ==
    ASSUME Setting
    PROVE  /\ Handles = 1 .. MaxHandles /\ Locks = 0 .. LockCount - 1
           /\ \A h \in Nat : LockIndex(h) \in 0 .. LockCount - 1
  BY DEF Setting, Handles, Locks, LockIndex

(* There is a push lock beside that of the table.                           *)
LEMMA LockNumber ==
    LockCount \in Nat /\ 1 < LockCount /\ 0 \in Locks /\ 1 \in 1 .. LockCount - 1
  BY FreeListAssumption DEF Locks

(* One thread has the table to itself.                                      *)
LEMMA OneGrower ==
    ASSUME PushLocks, NEW t \in Callers, NEW u \in Callers, at[t] \in Growing, at[u] \in Growing
    PROVE  t = u
  BY DEF PushLocks, LocksHeld

(* The locks, when one thread takes or gives up one.                        *)
LEMMA PushLocksStep ==
    ASSUME PushLocks, NEW t \in Callers, Rest(t), LocksHeld(t)',
           \A i \in Locks : owner'[i] # NoThread => sharers'[i] = {},
           \A u \in Callers : u # t =>
              \A i \in Locks : /\ owner[i] = u => owner'[i] = u
                               /\ u \in sharers[i] => u \in sharers'[i],
           Setting, FreeTypes, \A u \in Callers : FreeLocals(u)
    PROVE  PushLocks'
<1>1. Locks = 0 .. LockCount - 1 /\ \A h \in Nat : LockIndex(h) \in 0 .. LockCount - 1
  BY HandleRange
<1>2. ASSUME NEW u \in Callers PROVE LocksHeld(u)'
  <2>1. CASE u = t
    BY <2>1
  <2>2. CASE u # t
    <3>1. at'[u] = at[u] /\ var'[u] = var[u] /\ LocksHeld(u) /\ FreeLocals(u)
      BY <2>2 DEF Rest, PushLocks
    <3>2. var[u].old \in Nat
      <4>1. var[u] \in FreeVars /\ MaxHandles \in Nat
        BY DEF FreeTypes, Setting
      <4>2. var[u].old \in 0 .. MaxHandles
        BY <4>1, FreeVarsFields
      <4> QED BY <4>1, <4>2
    <3>3. LockIndex(var[u].old) \in Locks
      BY <3>2, <1>1
    <3>4. at[u] \in Growing => owner'[0] = u
      BY <2>2, <3>1, <1>1, LockNumber DEF LocksHeld
    <3>5. at[u] = "MoveUnlock" => var[u].i \in Locks
      <4>1. at[u] = "MoveUnlock" => at[u] \in Moving \ {"MoveCas"}
        BY DEF Moving
      <4>2. at[u] = "MoveUnlock" => var[u].i \in 1 .. LockCount - 1
        BY <3>1, <4>1 DEF FreeLocals
      <4>3. \A i \in 1 .. LockCount - 1 : i \in Locks
        BY <1>1, LockNumber
      <4> QED BY <4>2, <4>3
    <3>6. at[u] = "MoveUnlock" => owner'[var[u].i] = u
      BY <2>2, <3>1, <3>5 DEF LocksHeld
    <3>7. at[u] \in {"PopCheck", "PopNext", "PopCas", "PopUnlock"} => u \in sharers'[LockIndex(var[u].old)]
      BY <2>2, <3>1, <3>3 DEF LocksHeld
    <3> QED BY <3>1, <3>4, <3>6, <3>7 DEF LocksHeld, LockIndex
  <2> QED BY <2>1, <2>2
<1> QED BY <1>2 DEF PushLocks

(* What the invariant says of one thread.                                   *)
LEMMA ThreadFacts ==
    ASSUME NEW F, NEW L, NEW M, NEW S, FreeInv(F, L, M, S), NEW t \in Callers
    PROVE  /\ Setting /\ FreeTypes /\ PushLocks /\ LocksHeld(t) /\ FreeLocals(t)
           /\ PutOf(M, S, t) /\ GuardOf(F, M, S, t)
           /\ var[t] \in FreeVars /\ var[t].old \in 0 .. MaxHandles /\ var[t].ok \in BOOLEAN
           /\ var[t].i \in 0 .. MaxHandles + LockCount /\ var[t].h \in 0 .. MaxHandles
           /\ var[t].new \in Link /\ var[t].free \in {"first", "last"}
           /\ at[t] \in Places
           /\ pool \in Nat /\ pool <= MaxHandles /\ MaxHandles \in Nat
<1>1. Setting /\ FreeTypes /\ PushLocks /\ FreeLocals(t) /\ PutOf(M, S, t) /\ GuardOf(F, M, S, t)
  BY DEF FreeInv
<1>2. LocksHeld(t)
  BY <1>1 DEF PushLocks
<1>3. var[t] \in FreeVars /\ at[t] \in Places /\ pool \in 0 .. MaxHandles /\ MaxHandles \in Nat
  BY <1>1 DEF FreeTypes, Setting
<1>4. pool \in Nat /\ pool <= MaxHandles
  BY <1>3
<1> QED BY <1>1, <1>2, <1>3, <1>4, FreeVarsFields

(* A step of t that leaves the lists and the uses as they are.              *)
Quiet(t) == UNCHANGED <<firstFree, lastFree, next, pool, out>> /\ Rest(t)

LEMMA QuietFree ==
    ASSUME NEW F, NEW L, NEW M, NEW S, FreeInv(F, L, M, S), NEW t \in Callers,
           Quiet(t), FreeTypes', PushLocks', FreeLocals(t)',
           \A h \in Handles : User(t, h)' <=> User(t, h),
           \A h \in Handles : Frees(t, h)' => Frees(t, h) /\ var'[t].free = var[t].free,
           PutOf(M, S, t)', GuardOf(F, M, S, t)',
           at'[t] \in Moving => \A u \in Callers : u # t /\ at[u] \in {"PopNext", "PopCas"} =>
                                   (var[u].old \in M => LockIndex(var[u].old) >= var'[t].i)
    PROVE  FreeInv(F, L, M, S)'
<1>1. /\ Setting /\ Apart(F, L, M, S) /\ Stack(F, firstFree) /\ Stack(L, lastFree)
      /\ Handles = 1 .. MaxHandles
  BY HandleRange DEF FreeInv
<1>2. /\ \A u \in Callers : u # t => at'[u] = at[u] /\ var'[u] = var[u]
      /\ firstFree' = firstFree /\ lastFree' = lastFree /\ next' = next /\ pool' = pool /\ out' = out
  BY DEF Quiet, Rest
<1>3. \A u \in Callers, h \in Handles : User(u, h)' <=> User(u, h)
  BY <1>2 DEF User, Frees
<1>4. \A h \in Handles : OneUse(h)'
  BY <1>2, <1>3 DEF FreeInv, OneUse
<1>5. Apart(F, L, M, S)'
  <2>1. \A h \in F \cup L \cup M \cup S : h \in Handles
    BY <1>1, ThreadFacts DEF Apart
  <2>2. \A h \in F \cup L \cup M \cup S : Unused(h)'
    BY <1>1, <1>2, <1>3, <2>1 DEF Apart, Unused
  <2> QED BY <1>1, <1>2, <2>2 DEF Apart
<1>6. Stack(F, firstFree)' /\ Stack(L, lastFree)'
  BY <1>1, <1>2 DEF Stack
<1>7. \A u \in Callers : FreeLocals(u)'
  BY <1>2 DEF FreeInv, FreeLocals
<1>8. \A u \in Callers : PutOf(M, S, u)'
  <2> SUFFICES ASSUME NEW u \in Callers, u # t PROVE PutOf(M, S, u)'
    OBVIOUS
  <2>1. PutOf(M, S, u) /\ at'[u] = at[u] /\ var'[u] = var[u]
    BY <1>2 DEF FreeInv
  <2> QED BY <1>2, <2>1 DEF PutOf, Stack, Row
<1>9. \A u \in Callers : GuardOf(F, M, S, u)'
  <2> SUFFICES ASSUME NEW u \in Callers, u # t, at[u] \in {"PopNext", "PopCas"}
               PROVE  GuardOf(F, M, S, u)'
    BY <1>2 DEF GuardOf
  <2>1. GuardOf(F, M, S, u) /\ at'[u] = at[u] /\ var'[u] = var[u] /\ var[u].old \in Handles
    <3>1. GuardOf(F, M, S, u) /\ FreeLocals(u) /\ pool \in Nat /\ pool <= MaxHandles /\ MaxHandles \in Nat
      BY ThreadFacts
    <3>2. var[u].old \in 1 .. pool
      BY <3>1 DEF FreeLocals
    <3> QED BY <1>1, <1>2, <3>1, <3>2
  <2>2. PICK o \in Handles : o = var[u].old
    BY <2>1
  <2>3. \A v \in Callers : Frees(v, o)' => var'[v].free = "last"
    <3> SUFFICES ASSUME NEW v \in Callers, Frees(v, o)' PROVE var'[v].free = "last"
      OBVIOUS
    <3>1. Frees(v, o) /\ var'[v].free = var[v].free
      BY <1>2 DEF Frees
    <3> QED BY <2>1, <2>2, <3>1 DEF GuardOf
  <2>4. \A v \in Callers : at'[v] \in Moving /\ o \in M => LockIndex(o) >= var'[v].i
    BY <1>2, <2>1, <2>2 DEF GuardOf
  <2> QED BY <1>2, <2>1, <2>2, <2>3, <2>4 DEF GuardOf, LockIndex
<1> QED BY <1>1, <1>4, <1>5, <1>6, <1>7, <1>8, <1>9 DEF FreeInv, Setting

(* A push lock is taken exclusively.                                        *)
LEMMA ExclusiveLock ==
    ASSUME NEW F, NEW L, NEW M, NEW S, FreeInv(F, L, M, S), NEW t \in Callers,
           NEW i \in Locks, Exclusive(t, i), Rest(t), FreeLocals(t)',
           at'[t] \in Growing => i = 0 \/ owner[0] = t,
           at'[t] = "MoveUnlock" => i = var'[t].i,
           at'[t] \notin {"PopCheck", "PopNext", "PopCas", "PopUnlock"}
    PROVE  /\ PushLocks' /\ owner' \in [Locks -> Callers \cup {NoThread}]
           /\ sharers' \in [Locks -> SUBSET Callers]
<1>1. /\ Setting /\ FreeTypes /\ PushLocks /\ \A u \in Callers : FreeLocals(u)
      /\ Locks = 0 .. LockCount - 1
  BY HandleRange DEF FreeInv
<1>2. /\ owner \in [Locks -> Callers \cup {NoThread}]
      /\ sharers \in [Locks -> SUBSET Callers]
      /\ \A j \in Locks : owner[j] # NoThread => sharers[j] = {}
  BY <1>1 DEF FreeTypes, PushLocks
<1>3. owner[i] = NoThread /\ sharers[i] = {} /\ owner' = [owner EXCEPT ![i] = t] /\ sharers' = sharers
  BY DEF Exclusive, IsLocked
<1>4. /\ owner' \in [Locks -> Callers \cup {NoThread}] /\ owner'[i] = t
      /\ \A j \in Locks : j # i => owner'[j] = owner[j]
  BY <1>2, <1>3
<1>5. LocksHeld(t)'
  <2>1. at'[t] \in Growing => owner'[0] = t
    BY <1>1, <1>4, LockNumber
  <2> QED BY <2>1, <1>4 DEF LocksHeld
<1>6. \A j \in Locks : owner'[j] # NoThread => sharers'[j] = {}
  BY <1>2, <1>3, <1>4
<1>7. \A u \in Callers : u # t =>
         \A j \in Locks : /\ owner[j] = u => owner'[j] = u
                          /\ u \in sharers[j] => u \in sharers'[j]
  <2>1. \A u \in Callers : u # NoThread
    BY <1>1 DEF Setting
  <2> QED BY <2>1, <1>3, <1>4
<1>8. PushLocks'
  BY <1>1, <1>5, <1>6, <1>7, PushLocksStep
<1> QED BY <1>2, <1>3, <1>4, <1>8

(* A push lock is given up.                                                 *)
LEMMA UnlockLock ==
    ASSUME NEW F, NEW L, NEW M, NEW S, FreeInv(F, L, M, S), NEW t \in Callers,
           NEW i \in Locks, Unlock(t, i), Rest(t),
           at'[t] \in Growing => i # 0 /\ owner[0] = t,
           at'[t] \notin {"MoveUnlock", "PopCheck", "PopNext", "PopCas", "PopUnlock"}
    PROVE  /\ PushLocks' /\ owner' \in [Locks -> Callers \cup {NoThread}]
           /\ sharers' \in [Locks -> SUBSET Callers]
<1>1. /\ Setting /\ FreeTypes /\ PushLocks /\ \A u \in Callers : FreeLocals(u)
      /\ Locks = 0 .. LockCount - 1
  BY HandleRange DEF FreeInv
<1>2. /\ owner \in [Locks -> Callers \cup {NoThread}]
      /\ sharers \in [Locks -> SUBSET Callers]
      /\ \A j \in Locks : owner[j] # NoThread => sharers[j] = {}
  BY <1>1 DEF FreeTypes, PushLocks
<1>3. /\ owner' = [owner EXCEPT ![i] = IF @ = t THEN NoThread ELSE @]
      /\ sharers' = [sharers EXCEPT ![i] = @ \ {t}]
  BY DEF Unlock
<1>4. /\ owner' \in [Locks -> Callers \cup {NoThread}]
      /\ owner'[i] = IF owner[i] = t THEN NoThread ELSE owner[i]
      /\ \A j \in Locks : j # i => owner'[j] = owner[j]
  BY <1>2, <1>3
<1>5. /\ sharers' \in [Locks -> SUBSET Callers] /\ sharers'[i] = sharers[i] \ {t}
      /\ \A j \in Locks : j # i => sharers'[j] = sharers[j]
  BY <1>2, <1>3
<1>6. LocksHeld(t)'
  <2>1. at'[t] \in Growing => owner'[0] = t
    BY <1>1, <1>4, LockNumber
  <2> QED BY <2>1 DEF LocksHeld
<1>7. \A j \in Locks : owner'[j] # NoThread => sharers'[j] = {}
  BY <1>2, <1>4, <1>5
<1>8. \A u \in Callers : u # t =>
         \A j \in Locks : /\ owner[j] = u => owner'[j] = u
                          /\ u \in sharers[j] => u \in sharers'[j]
  BY <1>4, <1>5
<1>9. PushLocks'
  BY <1>1, <1>6, <1>7, <1>8, PushLocksStep
<1> QED BY <1>4, <1>5, <1>9

(* The locks are left alone.                                                *)
LEMMA SameLocks ==
    ASSUME NEW F, NEW L, NEW M, NEW S, FreeInv(F, L, M, S), NEW t \in Callers,
           UNCHANGED <<owner, sharers>>, Rest(t), LocksHeld(t)'
    PROVE  /\ PushLocks' /\ owner' \in [Locks -> Callers \cup {NoThread}]
           /\ sharers' \in [Locks -> SUBSET Callers]
<1>1. Setting /\ FreeTypes /\ PushLocks /\ \A u \in Callers : FreeLocals(u)
  BY DEF FreeInv
<1>2. \A j \in Locks : owner'[j] # NoThread => sharers'[j] = {}
  BY <1>1 DEF PushLocks
<1>3. \A u \in Callers : u # t =>
         \A j \in Locks : /\ owner[j] = u => owner'[j] = u
                          /\ u \in sharers[j] => u \in sharers'[j]
  OBVIOUS
<1>4. PushLocks'
  BY <1>1, <1>2, <1>3, PushLocksStep
<1> QED BY <1>1, <1>4 DEF FreeTypes

(* A step of a thread that uses no handle and is in no list.                *)
LEMMA PlainFree ==
    ASSUME NEW F, NEW L, NEW M, NEW S, FreeInv(F, L, M, S), NEW t \in Callers,
           UNCHANGED <<firstFree, lastFree, next, pool, out>>, Rest(t),
           at' \in [Callers -> Places], var' \in [Callers -> FreeVars],
           owner' \in [Locks -> Callers \cup {NoThread}],
           sharers' \in [Locks -> SUBSET Callers],
           PushLocks', FreeLocals(t)', \A h \in Handles : ~User(t, h) /\ ~User(t, h)',
           at'[t] \notin {"SlowLoad", "SlowCas", "FreeCas", "PopNext", "PopCas"} \cup Moving
    PROVE  FreeInv(F, L, M, S)'
<1>1. Quiet(t)
  BY DEF Quiet
<1>2. FreeTypes'
  BY DEF FreeInv, FreeTypes, Handles
<1>3. PutOf(M, S, t)' /\ GuardOf(F, M, S, t)'
  BY DEF PutOf, GuardOf
<1>4. /\ \A h \in Handles : User(t, h)' <=> User(t, h)
      /\ \A h \in Handles : Frees(t, h)' => Frees(t, h) /\ var'[t].free = var[t].free
  BY DEF User
<1>5. at'[t] \in Moving => \A u \in Callers : u # t /\ at[u] \in {"PopNext", "PopCas"} =>
                              (var[u].old \in M => LockIndex(var[u].old) >= var'[t].i)
  OBVIOUS
<1> QED BY <1>1, <1>2, <1>3, <1>4, <1>5, QuietFree

(* The head of the outer loop, and a load after a growth.                   *)
LEMMA AllocateLoads ==
    ASSUME NEW F, NEW L, NEW M, NEW S, FreeInv(F, L, M, S), NEW t \in Callers,
           AllocateLoad(t) \/ SlowReload(t)
    PROVE  FreeInv(F, L, M, S)'
<1>1. /\ Setting /\ FreeTypes /\ FreeLocals(t) /\ firstFree \in 0 .. MaxHandles
      /\ at[t] \in {"Idle", "Load", "SlowReload"} /\ pool \in Nat /\ MaxHandles \in Nat
      /\ UNCHANGED <<firstFree, lastFree, next, pool, owner, sharers, out>>
  BY ThreadFacts DEF FreeTypes, AllocateLoad, SlowReload, Lists,
                     Locking
<1>2. firstFree = 0 \/ firstFree \in 1 .. pool
  BY DEF FreeInv, Stack, Apart
<1>3. PICK l \in {"Grow", "Pop", "Idle"}, r \in FreeVars :
         /\ GoOn(t, l, r) /\ ~r.ok /\ (l = "Pop" => r.old \in 1 .. pool)
  <2> DEFINE n == NoVars
             f == [n EXCEPT !.old = firstFree]
  <2>1. n \in FreeVars /\ n.ok = FALSE
    BY <1>1, FreeVarsFields
  <2>2. f \in FreeVars /\ f.ok = FALSE /\ f.old = firstFree
    <3> HIDE DEF n
    <3> QED BY <1>1, <2>1 DEF FreeVars
  <2>3. \/ GoOn(t, IF firstFree = 0 THEN "Grow" ELSE "Pop", f)
        \/ firstFree # 0 /\ GoOn(t, "Pop", f)
        \/ firstFree = 0 /\ GoOn(t, IF var[t].ok THEN "Grow" ELSE "Idle", n)
    BY DEF AllocateLoad, SlowReload
  <2> HIDE DEF f, n
  <2> QED BY <1>2, <2>1, <2>2, <2>3
<1>4. l \in Places
  BY DEF Places
<1>5. /\ at' \in [Callers -> Places] /\ var' \in [Callers -> FreeVars]
      /\ at'[t] = l /\ var'[t] = r /\ Rest(t)
  BY <1>1, <1>3, <1>4, FreeGoto
<1>6. FreeLocals(t)' /\ LocksHeld(t)'
  BY <1>1, <1>3, <1>5 DEF FreeLocals, LocksHeld, Moving, Growing
<1>7. \A h \in Handles : ~User(t, h) /\ ~User(t, h)'
  BY <1>1, <1>5 DEF User, Frees
<1>8. /\ PushLocks' /\ owner' \in [Locks -> Callers \cup {NoThread}]
      /\ sharers' \in [Locks -> SUBSET Callers]
  BY <1>1, <1>5, <1>6, SameLocks
<1>9. at'[t] \notin {"SlowLoad", "SlowCas", "FreeCas", "PopNext", "PopCas"} \cup Moving
  BY <1>5 DEF Moving
<1> QED BY <1>1, <1>5, <1>6, <1>7, <1>8, <1>9, PlainFree

(* The lock of the handle is taken.                                         *)
LEMMA PopLockFree ==
    ASSUME NEW F, NEW L, NEW M, NEW S, FreeInv(F, L, M, S), NEW t \in Callers,
           PopLock(t)
    PROVE  FreeInv(F, L, M, S)'
<1>1. PICK i : i = LockIndex(var[t].old)
  OBVIOUS
<1>2. /\ Setting /\ FreeTypes /\ PushLocks /\ FreeLocals(t) /\ var[t] \in FreeVars /\ at[t] = "Pop"
      /\ UNCHANGED <<firstFree, lastFree, next, pool, owner, out>>
      /\ GoOn(t, "PopCheck", var[t]) /\ "PopCheck" \in Places
  BY ThreadFacts DEF PopLock, Lists, StepTo, Places
<1>3. owner[i] = NoThread /\ sharers' = [sharers EXCEPT ![i] = @ \cup {t}]
  BY <1>1 DEF PopLock, Old, LockIndex
<1>4. i \in Locks
  <2>1. var[t].old \in 0 .. MaxHandles /\ MaxHandles \in Nat
    BY ThreadFacts
  <2>2. var[t].old \in Nat
    BY <2>1
  <2> QED BY <1>1, <1>2, <2>2, HandleRange
<1>5. /\ owner \in [Locks -> Callers \cup {NoThread}]
      /\ sharers \in [Locks -> SUBSET Callers]
      /\ \A j \in Locks : owner[j] # NoThread => sharers[j] = {}
      /\ \A u \in Callers : FreeLocals(u)
  BY <1>2 DEF FreeTypes, PushLocks, FreeInv
<1>6. /\ sharers' \in [Locks -> SUBSET Callers] /\ sharers'[i] = sharers[i] \cup {t}
      /\ \A j \in Locks : j # i => sharers'[j] = sharers[j]
  BY <1>3, <1>4, <1>5
<1>7. /\ at' \in [Callers -> Places] /\ var' \in [Callers -> FreeVars]
      /\ at'[t] = "PopCheck" /\ var'[t] = var[t] /\ Rest(t)
  BY <1>2, FreeGoto
<1>8. FreeLocals(t)'
  BY <1>2, <1>7 DEF FreeLocals, Moving
<1>9. LocksHeld(t)'
  BY <1>1, <1>6, <1>7 DEF LocksHeld, Growing, Moving, LockIndex
<1>10. \A j \in Locks : owner'[j] # NoThread => sharers'[j] = {}
  BY <1>2, <1>3, <1>5, <1>6
<1>11. \A u \in Callers : u # t =>
          \A j \in Locks : /\ owner[j] = u => owner'[j] = u
                           /\ u \in sharers[j] => u \in sharers'[j]
  BY <1>2, <1>6
<1>12. PushLocks'
  BY <1>2, <1>5, <1>7, <1>9, <1>10, <1>11, PushLocksStep
<1>13. \A h \in Handles : ~User(t, h) /\ ~User(t, h)'
  BY <1>2, <1>7 DEF User, Frees
<1>14. owner' \in [Locks -> Callers \cup {NoThread}]
  BY <1>2, <1>5
<1>15. at'[t] \notin {"SlowLoad", "SlowCas", "FreeCas", "PopNext", "PopCas"} \cup Moving
  BY <1>7 DEF Moving
<1> QED BY <1>2, <1>6, <1>7, <1>8, <1>12, <1>13, <1>14, <1>15, PlainFree

(* The list is looked at again under the lock.                              *)
LEMMA PopCheckFree ==
    ASSUME NEW F, NEW L, NEW M, NEW S, FreeInv(F, L, M, S), NEW t \in Callers,
           PopCheck(t)
    PROVE  FreeInv(F, L, M, S)'
<1>1. /\ Setting /\ FreeTypes /\ PushLocks /\ LocksHeld(t) /\ FreeLocals(t) /\ var[t] \in FreeVars
      /\ UNCHANGED <<firstFree, lastFree, next, pool, owner, sharers, out>> /\ at[t] = "PopCheck"
      /\ GoOn(t, IF firstFree = var[t].old THEN "PopNext" ELSE "PopUnlock", var[t])
  BY ThreadFacts DEF PopCheck, Lists, Locking, StepTo, Old
<1>2. PICK l \in {"PopNext", "PopUnlock"} :
         l = IF firstFree = var[t].old THEN "PopNext" ELSE "PopUnlock"
  OBVIOUS
<1>3. l \in Places
  BY DEF Places
<1>4. /\ at' \in [Callers -> Places] /\ var' \in [Callers -> FreeVars]
      /\ at'[t] = l /\ var'[t] = var[t] /\ Rest(t)
  BY <1>1, <1>2, <1>3, FreeGoto
<1>5. ~var[t].ok /\ var[t].old \in 1 .. pool
  BY <1>1 DEF FreeLocals
<1>6. FreeLocals(t)' /\ LocksHeld(t)'
  <2>1. FreeLocals(t)'
    BY <1>1, <1>4, <1>5 DEF FreeLocals, Moving
  <2>2. LocksHeld(t)'
    BY <1>1, <1>4 DEF LocksHeld, Moving, Growing, LockIndex
  <2> QED BY <2>1, <2>2
<1>7. \A h \in Handles : ~User(t, h) /\ ~User(t, h)'
  BY <1>1, <1>4, <1>5 DEF User, Frees
<1>8. /\ PushLocks' /\ owner' \in [Locks -> Callers \cup {NoThread}]
      /\ sharers' \in [Locks -> SUBSET Callers]
  BY <1>1, <1>4, <1>6, SameLocks
<1>9. CASE l = "PopUnlock"
  <2>1. at'[t] \notin {"SlowLoad", "SlowCas", "FreeCas", "PopNext", "PopCas"} \cup Moving
    BY <1>4, <1>9 DEF Moving
  <2> QED BY <1>1, <1>4, <1>6, <1>7, <1>8, <2>1, PlainFree
<1>10. CASE l = "PopNext"
  <2>1. PICK o : o = var[t].old
    OBVIOUS
  <2>2. o # 0 /\ firstFree = o
    BY <1>2, <1>5, <1>10, <2>1
  <2>3. o \in F /\ Apart(F, L, M, S)
    BY <2>2 DEF FreeInv, Stack
  <2>4. o \notin S /\ o \notin M /\ \A u \in Callers : ~User(u, o)
    BY <2>3 DEF Apart, Unused
  <2>5. GuardOf(F, M, S, t)'
    <3>1. \A u \in Callers : ~Frees(u, o)'
      BY <2>4, <1>4, <1>10 DEF User, Frees, Rest
    <3> QED BY <2>1, <2>4, <3>1, <1>4, <1>10 DEF GuardOf
  <2>6. PutOf(M, S, t)'
    BY <1>4, <1>10 DEF PutOf, Moving
  <2>7. Quiet(t) /\ FreeTypes'
    BY <1>1, <1>4, <1>8 DEF Quiet, FreeTypes, Handles
  <2>8. /\ \A h \in Handles : User(t, h)' <=> User(t, h)
        /\ \A h \in Handles : Frees(t, h)' => Frees(t, h) /\ var'[t].free = var[t].free
    BY <1>7 DEF User
  <2>9. at'[t] \notin Moving
    BY <1>4, <1>10 DEF Moving
  <2> QED BY <1>6, <1>8, <2>5, <2>6, <2>7, <2>8, <2>9, QuietFree
<1> QED BY <1>9, <1>10

(* Its successor is read.                                                   *)
LEMMA PopNextFree ==
    ASSUME NEW F, NEW L, NEW M, NEW S, FreeInv(F, L, M, S), NEW t \in Callers,
           PopNext(t)
    PROVE  FreeInv(F, L, M, S)'
<1> DEFINE r == [var[t] EXCEPT !.new = next[var[t].old]]
<1>1. /\ Setting /\ FreeTypes /\ PushLocks /\ LocksHeld(t) /\ FreeLocals(t) /\ var[t] \in FreeVars
      /\ UNCHANGED <<firstFree, lastFree, next, pool, owner, sharers, out>> /\ at[t] = "PopNext"
      /\ GoOn(t, "PopCas", r) /\ "PopCas" \in Places /\ GuardOf(F, M, S, t)
  BY ThreadFacts DEF PopNext, Lists, Locking, Old, Places
<1>2. ~var[t].ok /\ var[t].old \in 1 .. pool
  BY <1>1 DEF FreeLocals
<1>3. next[var[t].old] \in Link
  <2>1. var[t].old \in Handles
    BY <1>1, <1>2, ThreadFacts, HandleRange
  <2> QED BY <1>1, <2>1 DEF FreeTypes
<1>4. /\ r \in FreeVars /\ r.old = var[t].old /\ r.ok = var[t].ok /\ r.new = next[var[t].old]
  BY <1>1, <1>3 DEF FreeVars
<1> HIDE DEF r
<1>5. /\ at' \in [Callers -> Places] /\ var' \in [Callers -> FreeVars]
      /\ at'[t] = "PopCas" /\ var'[t] = r /\ Rest(t)
  BY <1>1, <1>4, FreeGoto
<1>6. FreeLocals(t)' /\ LocksHeld(t)'
  <2>1. FreeLocals(t)'
    BY <1>1, <1>2, <1>4, <1>5 DEF FreeLocals, Moving
  <2>2. LocksHeld(t)'
    BY <1>1, <1>4, <1>5 DEF LocksHeld, Moving, Growing, LockIndex
  <2> QED BY <2>1, <2>2
<1>7. \A h \in Handles : ~User(t, h) /\ ~User(t, h)'
  BY <1>1, <1>5 DEF User, Frees
<1>8. /\ PushLocks' /\ owner' \in [Locks -> Callers \cup {NoThread}]
      /\ sharers' \in [Locks -> SUBSET Callers]
  BY <1>1, <1>5, <1>6, SameLocks
<1>9. GuardOf(F, M, S, t)'
  <2>1. PICK o : o = var[t].old /\ o = r.old
    BY <1>4
  <2>2. /\ o \notin S /\ \A u \in Callers : Frees(u, o) => var[u].free = "last"
        /\ \A u \in Callers : at[u] \in Moving /\ o \in M => LockIndex(o) >= var[u].i
    BY <1>1, <2>1 DEF GuardOf
  <2>3. \A u \in Callers : Frees(u, o)' => var'[u].free = "last"
    BY <1>5, <2>2 DEF Frees, Rest
  <2>4. \A u \in Callers : at'[u] \in Moving /\ o \in M => LockIndex(o) >= var'[u].i
    BY <1>5, <2>2 DEF Moving, Rest
  <2> QED BY <1>1, <1>4, <1>5, <2>1, <2>2, <2>3, <2>4 DEF GuardOf, LockIndex
<1>10. PutOf(M, S, t)'
  BY <1>5 DEF PutOf, Moving
<1>11. Quiet(t) /\ FreeTypes'
  BY <1>1, <1>5, <1>8 DEF Quiet, FreeTypes, Handles
<1>12. /\ \A h \in Handles : User(t, h)' <=> User(t, h)
       /\ \A h \in Handles : Frees(t, h)' => Frees(t, h) /\ var'[t].free = var[t].free
  BY <1>7 DEF User
<1>13. at'[t] \notin Moving
  BY <1>5 DEF Moving
<1> QED BY <1>6, <1>8, <1>9, <1>10, <1>11, <1>12, <1>13, QuietFree

(* The lock of the handle is given up.                                      *)
LEMMA PopUnlockFree ==
    ASSUME NEW F, NEW L, NEW M, NEW S, FreeInv(F, L, M, S), NEW t \in Callers,
           PopUnlock(t)
    PROVE  FreeInv(F, L, M, S)'
<1>1. /\ Setting /\ FreeTypes /\ PushLocks /\ FreeLocals(t) /\ var[t] \in FreeVars
      /\ UNCHANGED <<firstFree, lastFree, next, pool, out>> /\ at[t] = "PopUnlock"
      /\ GoOn(t, IF var[t].ok THEN "Write" ELSE "Load", var[t])
      /\ Unlock(t, LockIndex(var[t].old))
  BY ThreadFacts DEF PopUnlock, Lists, StepTo, Old, LockIndex
<1>2. PICK l \in {"Write", "Load"} : l = IF var[t].ok THEN "Write" ELSE "Load"
  OBVIOUS
<1>3. l \in Places
  BY DEF Places
<1>4. /\ at' \in [Callers -> Places] /\ var' \in [Callers -> FreeVars]
      /\ at'[t] = l /\ var'[t] = var[t] /\ Rest(t)
  BY <1>1, <1>2, <1>3, FreeGoto
<1>5. PICK i \in Locks : i = LockIndex(var[t].old)
  <2>1. var[t].old \in Nat
    BY ThreadFacts
  <2> QED BY <1>1, <2>1, HandleRange
<1>6. /\ PushLocks' /\ owner' \in [Locks -> Callers \cup {NoThread}]
      /\ sharers' \in [Locks -> SUBSET Callers]
  <2>1. Unlock(t, i)
    BY <1>1, <1>5
  <2>2. at'[t] \notin Growing \cup {"MoveUnlock", "PopCheck", "PopNext", "PopCas", "PopUnlock"}
    BY <1>2, <1>4 DEF Growing, Moving
  <2> QED BY <1>4, <2>1, <2>2, UnlockLock
<1>7. FreeLocals(t)'
  BY <1>1, <1>2, <1>4 DEF FreeLocals, Moving
<1>8. \A h \in Handles : User(t, h)' <=> User(t, h)
  BY <1>1, <1>2, <1>4 DEF User, Frees
<1>9. \A h \in Handles : Frees(t, h)' => Frees(t, h) /\ var'[t].free = var[t].free
  BY <1>4 DEF Frees
<1>10. PutOf(M, S, t)' /\ GuardOf(F, M, S, t)' /\ at'[t] \notin Moving
  BY <1>4 DEF PutOf, GuardOf, Moving
<1>11. Quiet(t) /\ FreeTypes'
  BY <1>1, <1>4, <1>6 DEF Quiet, FreeTypes, Handles
<1> QED BY <1>6, <1>7, <1>8, <1>9, <1>10, <1>11, QuietFree

(* A step of such a thread that leaves the locks alone too.                 *)
LEMMA PlainGoto ==
    ASSUME NEW F, NEW L, NEW M, NEW S, FreeInv(F, L, M, S), NEW t \in Callers,
           NEW l \in Places, NEW r \in FreeVars, GoOn(t, l, r),
           UNCHANGED <<firstFree, lastFree, next, pool, owner, sharers, out>>,
           at[t] \in {"PopCas"} \cup Growing,
           l \in {"PopUnlock", "GrowUnlock", "Move", "Slow", "Reverse", "SlowUnlock"},
           l = "PopUnlock" <=> at[t] = "PopCas",
           l = "PopUnlock" => r.old = var[t].old,
           l # "SlowUnlock" => ~r.ok,
           l \in {"GrowUnlock", "Reverse", "PopUnlock"} => r.old \in 1 .. pool
    PROVE  FreeInv(F, L, M, S)'
<1>1. Setting /\ FreeTypes /\ PushLocks /\ LocksHeld(t) /\ FreeLocals(t)
  BY ThreadFacts
<1>2. /\ at' \in [Callers -> Places] /\ var' \in [Callers -> FreeVars]
      /\ at'[t] = l /\ var'[t] = r /\ Rest(t)
  BY <1>1, FreeGoto
<1>3. LocksHeld(t)'
  <2>1. l # "PopUnlock" => owner[0] = t
    BY <1>1 DEF LocksHeld
  <2>2. l = "PopUnlock" => t \in sharers[LockIndex(var[t].old)]
    BY <1>1 DEF LocksHeld
  <2> QED BY <1>2, <2>1, <2>2 DEF LocksHeld, Growing, Moving, LockIndex
<1>4. FreeLocals(t)'
  BY <1>2 DEF FreeLocals, Moving
<1>5. \A h \in Handles : ~User(t, h) /\ ~User(t, h)'
  BY <1>1, <1>2 DEF User, Frees, Growing, Moving
<1>6. /\ PushLocks' /\ owner' \in [Locks -> Callers \cup {NoThread}]
      /\ sharers' \in [Locks -> SUBSET Callers]
  BY <1>1, <1>2, <1>3, SameLocks
<1>7. at'[t] \notin {"SlowLoad", "SlowCas", "FreeCas", "PopNext", "PopCas"} \cup Moving
  BY <1>2 DEF Moving
<1> QED BY <1>1, <1>2, <1>4, <1>5, <1>6, <1>7, PlainFree

(* A compare-exchange that fails.                                           *)
LEMMA PopCasFails ==
    ASSUME NEW F, NEW L, NEW M, NEW S, FreeInv(F, L, M, S), NEW t \in Callers,
           PopCas(t), firstFree # var[t].old
    PROVE  FreeInv(F, L, M, S)'
<1> DEFINE r == [var[t] EXCEPT !.ok = firstFree = var[t].old]
<1>1. /\ at[t] = "PopCas" /\ GoOn(t, "PopUnlock", r) /\ "PopUnlock" \in Places
      /\ UNCHANGED <<firstFree, lastFree, next, pool, owner, sharers, out>>
  BY DEF PopCas, Old, Locking, Places
<1>2. var[t] \in FreeVars /\ var[t].old \in 1 .. pool
  BY <1>1, ThreadFacts DEF FreeLocals
<1>3. r \in FreeVars /\ r.old = var[t].old /\ ~r.ok
  BY <1>2 DEF FreeVars
<1> HIDE DEF r
<1> QED BY <1>1, <1>2, <1>3, PlainGoto

(* The list is looked at again under the lock of the table.                 *)
LEMMA GrowCheckFree ==
    ASSUME NEW F, NEW L, NEW M, NEW S, FreeInv(F, L, M, S), NEW t \in Callers,
           GrowCheck(t)
    PROVE  FreeInv(F, L, M, S)'
<1> DEFINE r == [var[t] EXCEPT !.old = firstFree]
<1>1. PICK l \in {"Move", "GrowUnlock"} : l = IF firstFree = 0 THEN "Move" ELSE "GrowUnlock"
  OBVIOUS
<1>2. /\ at[t] = "GrowCheck" /\ GoOn(t, l, r) /\ l \in Places
      /\ UNCHANGED <<firstFree, lastFree, next, pool, owner, sharers, out>>
  BY <1>1 DEF GrowCheck, Old, Lists, Locking, Places
<1>3. var[t] \in FreeVars /\ ~var[t].ok /\ firstFree \in 0 .. MaxHandles
  BY <1>2, ThreadFacts DEF FreeLocals, FreeTypes
<1>4. firstFree # 0 => firstFree \in 1 .. pool
  BY DEF FreeInv, Stack, Apart
<1>5. r \in FreeVars /\ r.old = firstFree /\ ~r.ok
  BY <1>3 DEF FreeVars
<1> HIDE DEF r
<1>6. l = "GrowUnlock" => r.old \in 1 .. pool
  BY <1>1, <1>4, <1>5
<1>7. at[t] \in Growing
  BY <1>2 DEF Growing
<1> QED BY <1>1, <1>2, <1>5, <1>6, <1>7, PlainGoto

(* The second list is empty.                                                *)
LEMMA MoveTakeNone ==
    ASSUME NEW F, NEW L, NEW M, NEW S, FreeInv(F, L, M, S), NEW t \in Callers,
           MoveTake(t), lastFree = 0
    PROVE  FreeInv(F, L, M, S)'
<1> DEFINE r == [var[t] EXCEPT !.old = lastFree, !.i = 1]
<1>1. /\ at[t] = "Move" /\ GoOn(t, "Slow", r) /\ "Slow" \in Places
      /\ UNCHANGED <<firstFree, lastFree, next, pool, owner, sharers, out>>
  BY DEF MoveTake, Locking, Places
<1>2. var[t] \in FreeVars /\ ~var[t].ok /\ lastFree \in 0 .. MaxHandles /\ MaxHandles \in Nat
  BY <1>1, ThreadFacts DEF FreeLocals, FreeTypes
<1>3. r \in FreeVars /\ ~r.ok
  <2>1. 1 \in 0 .. MaxHandles + LockCount
    BY <1>2, LockNumber
  <2> QED BY <1>2, <2>1 DEF FreeVars
<1> HIDE DEF r
<1>4. at[t] \in Growing
  BY <1>1 DEF Growing
<1> QED BY <1>1, <1>3, <1>4, PlainGoto

(* The first list is not empty any more, or the table does not grow.        *)
LEMMA GrowOn ==
    ASSUME NEW F, NEW L, NEW M, NEW S, FreeInv(F, L, M, S), NEW t \in Callers,
           \/ MoveCas(t) /\ firstFree # 0
           \/ MoveReverse(t)
           \/ SlowAllocate(t) /\ pool' = pool /\ next' = next
              /\ GoOn(t, "SlowUnlock", var[t])
    PROVE  FreeInv(F, L, M, S)'
<1>1. PICK l \in {"Reverse", "GrowUnlock", "SlowUnlock"} :
         /\ GoOn(t, l, var[t])
         /\ at[t] \in {"MoveCas", "Reverse", "Slow"} /\ (l # "SlowUnlock" => at[t] # "Slow")
         /\ UNCHANGED <<firstFree, lastFree, next, pool, owner, sharers, out>>
  BY DEF MoveCas, MoveReverse, SlowAllocate, StepTo,
         Lists, Locking
<1>2. l \in Places
  BY DEF Places
<1>3. /\ var[t] \in FreeVars /\ ~var[t].ok
      /\ l \in {"GrowUnlock", "Reverse"} => var[t].old \in 1 .. pool
  BY <1>1, ThreadFacts DEF FreeLocals, Moving
<1>4. at[t] \in Growing
  BY <1>1 DEF Growing, Moving
<1> QED BY <1>1, <1>2, <1>3, <1>4, PlainGoto

(* The lock of the table is taken.                                          *)
LEMMA GrowLockFree ==
    ASSUME NEW F, NEW L, NEW M, NEW S, FreeInv(F, L, M, S), NEW t \in Callers,
           GrowLock(t)
    PROVE  FreeInv(F, L, M, S)'
<1>1. /\ at[t] = "Grow" /\ GoOn(t, "GrowCheck", var[t]) /\ "GrowCheck" \in Places
      /\ UNCHANGED <<firstFree, lastFree, next, pool, out>> /\ Exclusive(t, 0)
  BY DEF GrowLock, StepTo, Lists, Places
<1>2. Setting /\ FreeTypes /\ var[t] \in FreeVars /\ ~var[t].ok
  BY <1>1, ThreadFacts DEF FreeLocals
<1>3. /\ at' \in [Callers -> Places] /\ var' \in [Callers -> FreeVars]
      /\ at'[t] = "GrowCheck" /\ var'[t] = var[t] /\ Rest(t)
  BY <1>1, <1>2, FreeGoto
<1>4. FreeLocals(t)'
  BY <1>2, <1>3 DEF FreeLocals, Moving
<1>5. \A h \in Handles : ~User(t, h) /\ ~User(t, h)'
  BY <1>1, <1>3 DEF User, Frees
<1>6. 0 \in Locks
  BY <1>2, HandleRange, LockNumber
<1>7. /\ PushLocks' /\ owner' \in [Locks -> Callers \cup {NoThread}]
      /\ sharers' \in [Locks -> SUBSET Callers]
  BY <1>1, <1>3, <1>4, <1>6, ExclusiveLock
<1>8. at'[t] \notin {"SlowLoad", "SlowCas", "FreeCas", "PopNext", "PopCas"} \cup Moving
  BY <1>3 DEF Moving
<1> QED BY <1>1, <1>3, <1>4, <1>5, <1>7, <1>8, PlainFree

(* It is given up.                                                          *)
LEMMA GrowUnlocks ==
    ASSUME NEW F, NEW L, NEW M, NEW S, FreeInv(F, L, M, S), NEW t \in Callers,
           GrowUnlock(t) \/ SlowUnlock(t)
    PROVE  FreeInv(F, L, M, S)'
<1>1. PICK l \in {"Pop", "SlowReload"} :
         /\ GoOn(t, l, var[t]) /\ Unlock(t, 0)
         /\ at[t] = IF l = "Pop" THEN "GrowUnlock" ELSE "SlowUnlock"
         /\ UNCHANGED <<firstFree, lastFree, next, pool, out>>
  BY DEF GrowUnlock, SlowUnlock, StepTo, Lists
<1>2. l \in Places
  BY DEF Places
<1>3. /\ Setting /\ FreeTypes /\ var[t] \in FreeVars
      /\ l = "Pop" => ~var[t].ok /\ var[t].old \in 1 .. pool
  BY <1>1, ThreadFacts DEF FreeLocals
<1>4. /\ at' \in [Callers -> Places] /\ var' \in [Callers -> FreeVars]
      /\ at'[t] = l /\ var'[t] = var[t] /\ Rest(t)
  BY <1>1, <1>2, <1>3, FreeGoto
<1>5. FreeLocals(t)'
  BY <1>1, <1>3, <1>4 DEF FreeLocals, Moving
<1>6. \A h \in Handles : ~User(t, h) /\ ~User(t, h)'
  BY <1>1, <1>4 DEF User, Frees
<1>7. 0 \in Locks
  BY <1>3, HandleRange, LockNumber
<1>8. at'[t] \notin Growing \cup {"MoveUnlock", "PopCheck", "PopNext", "PopCas", "PopUnlock"}
  BY <1>4 DEF Growing, Moving
<1>9. /\ PushLocks' /\ owner' \in [Locks -> Callers \cup {NoThread}]
      /\ sharers' \in [Locks -> SUBSET Callers]
  BY <1>1, <1>4, <1>7, <1>8, UnlockLock
<1>10. at'[t] \notin {"SlowLoad", "SlowCas", "FreeCas", "PopNext", "PopCas"} \cup Moving
  BY <1>4 DEF Moving
<1> QED BY <1>1, <1>4, <1>5, <1>6, <1>9, <1>10, PlainFree

(* The thread that moves the second list has seen that nobody has a lock:   *)
(* nobody pops a handle of that lock from the list.                         *)
LEMMA MoveNextFree ==
    ASSUME NEW F, NEW L, NEW M, NEW S, FreeInv(F, L, M, S), NEW t \in Callers,
           at[t] \in {"MoveWait", "MoveUnlock"}, MoveNext(t), sharers[var[t].i] = {},
           UNCHANGED <<firstFree, lastFree, next, pool, out>>,
           \/ UNCHANGED <<owner, sharers>>
           \/ Unlock(t, var[t].i)
    PROVE  FreeInv(F, L, M, S)'
<1> DEFINE r == [var[t] EXCEPT !.i = var[t].i + 1]
<1>1. /\ Setting /\ FreeTypes /\ LocksHeld(t) /\ FreeLocals(t) /\ PutOf(M, S, t) /\ var[t] \in FreeVars
      /\ MaxHandles \in Nat
  BY ThreadFacts
<1>2. ~var[t].ok /\ var[t].old \in 1 .. pool /\ var[t].i \in 1 .. LockCount - 1 /\ at[t] \in Moving /\ owner[0] = t
  BY <1>1 DEF FreeLocals, LocksHeld, Moving, Growing
<1>3. /\ r \in FreeVars /\ r.old = var[t].old /\ r.ok = var[t].ok /\ r.i = var[t].i + 1
  <2>1. var[t].i + 1 \in 0 .. MaxHandles + LockCount
    BY <1>1, <1>2, LockNumber
  <2> QED BY <1>1, <2>1 DEF FreeVars
<1>4. PICK l \in {"MoveWait", "MoveCas"} : /\ l = IF var[t].i < LockCount - 1 THEN "MoveWait" ELSE "MoveCas"
                                           /\ GoOn(t, l, r)
  BY DEF MoveNext
<1> HIDE DEF r
<1>5. l \in Places
  BY DEF Places
<1>6. /\ at' \in [Callers -> Places] /\ var' \in [Callers -> FreeVars]
      /\ at'[t] = l /\ var'[t] = r /\ Rest(t)
  BY <1>1, <1>3, <1>4, <1>5, FreeGoto
<1>7. FreeLocals(t)'
  <2>1. l = "MoveWait" => r.i \in 1 .. LockCount - 1
    BY <1>2, <1>3, <1>4, LockNumber
  <2>2. l = "MoveCas" => r.i = LockCount
    BY <1>2, <1>3, <1>4, LockNumber
  <2> QED BY <1>2, <1>3, <1>6, <2>1, <2>2 DEF FreeLocals, Moving
<1>8. /\ PushLocks' /\ owner' \in [Locks -> Callers \cup {NoThread}]
      /\ sharers' \in [Locks -> SUBSET Callers]
  <2>1. CASE UNCHANGED <<owner, sharers>>
    <3>1. LocksHeld(t)'
      BY <1>2, <1>6, <2>1 DEF LocksHeld
    <3> QED BY <1>6, <2>1, <3>1, SameLocks
  <2>2. CASE Unlock(t, var[t].i)
    <3>1. PICK i \in Locks : i = var[t].i /\ i # 0
      <4>1. Locks = 0 .. LockCount - 1
        BY <1>1, HandleRange
      <4>2. var[t].i \in 0 .. LockCount - 1 /\ var[t].i # 0
        BY <1>2, LockNumber
      <4> QED BY <4>1, <4>2
    <3>2. Unlock(t, i)
      BY <2>2, <3>1
    <3>3. at'[t] \notin {"MoveUnlock", "PopCheck", "PopNext", "PopCas", "PopUnlock"}
      BY <1>6
    <3> QED BY <1>2, <1>6, <3>1, <3>2, <3>3, UnlockLock
  <2> QED BY <2>1, <2>2
<1>9. \A h \in Handles : ~User(t, h) /\ ~User(t, h)'
  BY <1>6, <1>2 DEF User, Frees, Moving
<1>10. PutOf(M, S, t)' /\ GuardOf(F, M, S, t)'
  BY <1>1, <1>2, <1>3, <1>6 DEF PutOf, GuardOf, Stack, Moving
<1>11. \A u \in Callers : u # t /\ at[u] \in {"PopNext", "PopCas"} =>
           (var[u].old \in M => LockIndex(var[u].old) >= var'[t].i)
  <2> SUFFICES ASSUME NEW u \in Callers, at[u] \in {"PopNext", "PopCas"}, var[u].old \in M
               PROVE  LockIndex(var[u].old) >= r.i
    BY <1>6
  <2>1. LocksHeld(u) /\ GuardOf(F, M, S, u) /\ var[u].old \in 0 .. MaxHandles
    BY ThreadFacts
  <2>2. PICK n \in 0 .. LockCount - 1 : n = LockIndex(var[u].old)
    BY <1>1, <2>1, HandleRange
  <2>3. n >= var[t].i
    BY <1>2, <2>1, <2>2 DEF GuardOf
  <2>4. n # var[t].i
    BY <2>1, <2>2 DEF LocksHeld
  <2> QED BY <1>2, <1>3, <2>2, <2>3, <2>4
<1>12. Quiet(t) /\ FreeTypes'
  BY <1>1, <1>6, <1>8 DEF Quiet, FreeTypes, Handles
<1>13. /\ \A h \in Handles : User(t, h)' <=> User(t, h)
       /\ \A h \in Handles : Frees(t, h)' => Frees(t, h) /\ var'[t].free = var[t].free
  BY <1>9 DEF User
<1> QED BY <1>7, <1>8, <1>10, <1>11, <1>12, <1>13, QuietFree

(* It waits for those who have a lock.                                      *)
LEMMA MoveLocks ==
    ASSUME NEW F, NEW L, NEW M, NEW S, FreeInv(F, L, M, S), NEW t \in Callers,
           \/ MoveWait(t) \/ MoveLock(t) \/ MoveUnlock(t)
    PROVE  FreeInv(F, L, M, S)'
<1>1. /\ Setting /\ FreeTypes /\ PushLocks /\ LocksHeld(t) /\ FreeLocals(t) /\ PutOf(M, S, t)
      /\ var[t] \in FreeVars
      /\ UNCHANGED <<firstFree, lastFree, next, pool, out>>
      /\ at[t] \in {"MoveWait", "MoveLock", "MoveUnlock"}
  BY ThreadFacts DEF MoveWait, MoveLock, MoveUnlock, Lists
<1>2. ~var[t].ok /\ var[t].old \in 1 .. pool /\ var[t].i \in 1 .. LockCount - 1 /\ owner[0] = t
  BY <1>1 DEF FreeLocals, LocksHeld, Moving, Growing
<1>3. PICK i \in Locks : i = var[t].i
  BY <1>1, <1>2, HandleRange
<1>4. CASE MoveWait(t) /\ ~IsLocked(i)
  <2>1. MoveNext(t) /\ UNCHANGED <<owner, sharers>> /\ sharers[i] = {} /\ at[t] = "MoveWait"
    BY <1>3, <1>4 DEF MoveWait, IsLocked, Locking
  <2> QED BY <1>1, <1>3, <2>1, MoveNextFree
<1>5. CASE MoveUnlock(t)
  <2>1. MoveNext(t) /\ Unlock(t, var[t].i) /\ owner[i] = t
    BY <1>1, <1>3, <1>5 DEF MoveUnlock, LocksHeld
  <2>2. t # NoThread
    BY <1>1 DEF Setting
  <2>3. sharers[i] = {}
    BY <1>1, <2>1, <2>2 DEF PushLocks
  <2>4. at[t] = "MoveUnlock" /\ sharers[var[t].i] = {}
    BY <1>3, <1>5, <2>3 DEF MoveUnlock
  <2> QED BY <1>1, <2>1, <2>4, MoveNextFree
<1>6. CASE (MoveWait(t) /\ IsLocked(i)) \/ MoveLock(t)
  <2>1. PICK l \in {"MoveLock", "MoveUnlock"} :
           /\ GoOn(t, l, var[t])
           /\ l = "MoveLock" => UNCHANGED <<owner, sharers>>
           /\ l = "MoveUnlock" => Exclusive(t, i)
    BY <1>3, <1>6 DEF MoveWait, MoveLock, StepTo, Locking
  <2>2. l \in Places
    BY DEF Places
  <2>3. /\ at' \in [Callers -> Places] /\ var' \in [Callers -> FreeVars]
        /\ at'[t] = l /\ var'[t] = var[t] /\ Rest(t)
    BY <1>1, <2>1, <2>2, FreeGoto
  <2>4. FreeLocals(t)'
    BY <1>1, <1>2, <2>3 DEF FreeLocals, Moving
  <2>5. /\ PushLocks' /\ owner' \in [Locks -> Callers \cup {NoThread}]
        /\ sharers' \in [Locks -> SUBSET Callers]
    <3>1. CASE l = "MoveLock"
      <4>1. LocksHeld(t)'
        BY <1>2, <2>1, <2>3, <3>1 DEF LocksHeld
      <4> QED BY <2>1, <2>3, <3>1, <4>1, SameLocks
    <3>2. CASE l = "MoveUnlock"
      <4>1. i = var'[t].i /\ at'[t] \notin {"PopCheck", "PopNext", "PopCas", "PopUnlock"}
        BY <1>3, <2>3, <3>2
      <4> QED BY <1>2, <2>1, <2>3, <2>4, <3>2, <4>1, ExclusiveLock
    <3> QED BY <3>1, <3>2
  <2>6. \A h \in Handles : ~User(t, h) /\ ~User(t, h)'
    BY <1>1, <2>3 DEF User, Frees
  <2>7. PutOf(M, S, t)' /\ GuardOf(F, M, S, t)'
    BY <1>1, <2>3 DEF PutOf, GuardOf, Stack, Moving
  <2>8. \A u \in Callers : u # t /\ at[u] \in {"PopNext", "PopCas"} =>
             (var[u].old \in M => LockIndex(var[u].old) >= var'[t].i)
    <3> SUFFICES ASSUME NEW u \in Callers, at[u] \in {"PopNext", "PopCas"}, var[u].old \in M
                 PROVE  LockIndex(var[u].old) >= var[t].i
      BY <2>3
    <3>1. GuardOf(F, M, S, u)
      BY ThreadFacts
    <3> QED BY <1>1, <3>1 DEF GuardOf, Moving
  <2>9. Quiet(t) /\ FreeTypes'
    BY <1>1, <2>3, <2>5 DEF Quiet, FreeTypes, Handles
  <2>10. /\ \A h \in Handles : User(t, h)' <=> User(t, h)
         /\ \A h \in Handles : Frees(t, h)' => Frees(t, h) /\ var'[t].free = var[t].free
    BY <2>6 DEF User
  <2> QED BY <2>4, <2>5, <2>7, <2>8, <2>9, <2>10, QuietFree
<1> QED BY <1>4, <1>5, <1>6

(* A thread that puts handles into a list has to try again.                 *)
LEMMA PushAgain ==
    ASSUME NEW F, NEW L, NEW M, NEW S, FreeInv(F, L, M, S), NEW t \in Callers,
           \/ SlowCas(t) /\ firstFree # var[t].old
           \/ FreeCas(t) /\ Top(var[t].free) # var[t].old
    PROVE  FreeInv(F, L, M, S)'
<1>1. PICK l \in {"SlowLoad", "FreeLoad"} :
         /\ GoOn(t, l, var[t]) /\ at[t] = IF l = "SlowLoad" THEN "SlowCas" ELSE "FreeCas"
         /\ UNCHANGED <<firstFree, lastFree, next, pool, owner, sharers, out>>
  BY DEF SlowCas, FreeCas, StepTo, Old, Locking
<1>2. /\ Setting /\ FreeTypes /\ PushLocks /\ LocksHeld(t) /\ FreeLocals(t) /\ PutOf(M, S, t)
      /\ var[t] \in FreeVars
  BY ThreadFacts
<1>3. l \in Places
  BY DEF Places
<1>4. /\ at' \in [Callers -> Places] /\ var' \in [Callers -> FreeVars]
      /\ at'[t] = l /\ var'[t] = var[t] /\ Rest(t)
  BY <1>1, <1>2, <1>3, FreeGoto
<1>5. FreeLocals(t)' /\ LocksHeld(t)' /\ GuardOf(F, M, S, t)' /\ at'[t] \notin Moving
  BY <1>1, <1>2, <1>4 DEF FreeLocals, LocksHeld, GuardOf, Moving, Growing
<1>6. /\ PushLocks' /\ owner' \in [Locks -> Callers \cup {NoThread}]
      /\ sharers' \in [Locks -> SUBSET Callers]
  BY <1>1, <1>4, <1>5, SameLocks
<1>7. PutOf(M, S, t)'
  BY <1>1, <1>2, <1>4 DEF PutOf, Row, Moving
<1>8. /\ \A h \in Handles : User(t, h)' <=> User(t, h)
      /\ \A h \in Handles : Frees(t, h)' => Frees(t, h) /\ var'[t].free = var[t].free
  BY <1>1, <1>4 DEF User, Frees
<1>9. Quiet(t) /\ FreeTypes'
  BY <1>1, <1>2, <1>4, <1>6 DEF Quiet, FreeTypes, Handles
<1> QED BY <1>5, <1>6, <1>7, <1>8, <1>9, QuietFree

-----------------------------------------------------------------------------
(* What a step of t has to leave for a thread u that pops.                  *)
Kept(F, F2, M2, S2, t, u) ==
    /\ at[u] = "PopCas" /\ var[u].old \in F2 => /\ var[u].old \in F
                                                /\ next'[var[u].old] = next[var[u].old]
    /\ var[u].old \notin S2
    /\ Frees(t, var[u].old)' => var'[t].free = "last"
    /\ at'[t] \in Moving /\ var[u].old \in M2 => LockIndex(var[u].old) >= var'[t].i

(* A step of t that changes the lists.                                      *)
Change(F, M, S, F2, L2, M2, S2, t) ==
    /\ Rest(t) /\ FreeTypes' /\ PushLocks' /\ FreeLocals(t)' /\ pool <= pool'
    /\ \A h \in Handles : OneUse(h)'
    /\ Apart(F2, L2, M2, S2)' /\ Stack(F2, firstFree)' /\ Stack(L2, lastFree)'
    /\ PutOf(M2, S2, t)' /\ GuardOf(F2, M2, S2, t)'
    /\ \/ at[t] \in Growing
       \/ M2 = M /\ S2 = S /\ \A h \in M \cup S : next'[h] = next[h]
    /\ \A u \in Callers : u # t =>
          /\ at[u] \in {"PopNext", "PopCas"} => Kept(F, F2, M2, S2, t, u)
          /\ at[u] = "FreeCas" => next'[var[u].h] = next[var[u].h]

LEMMA ListStep ==
    ASSUME NEW F, NEW L, NEW M, NEW S, FreeInv(F, L, M, S), NEW t \in Callers,
           NEW F2, NEW L2, NEW M2, NEW S2, Change(F, M, S, F2, L2, M2, S2, t)
    PROVE  FreeInv(F2, L2, M2, S2)'
<1> USE DEF Change
<1>1. /\ Setting /\ PushLocks /\ pool \in Nat /\ pool' \in Nat
      /\ \A u \in Callers : FreeLocals(u) /\ PutOf(M, S, u) /\ GuardOf(F, M, S, u)
  BY DEF FreeInv, FreeTypes, Setting
<1>2. \A u \in Callers : u # t => at'[u] = at[u] /\ var'[u] = var[u]
  BY DEF Rest
<1>3. \A u \in Callers : FreeLocals(u)'
  <2> SUFFICES ASSUME NEW u \in Callers, u # t PROVE FreeLocals(u)'
    OBVIOUS
  <2>1. FreeLocals(u) /\ at'[u] = at[u] /\ var'[u] = var[u]
    BY <1>1, <1>2
  <2>2. (\A x \in 1 .. pool : x \in 1 .. pool') /\ \A x \in 0 .. pool : x \in 0 .. pool'
    BY <1>1
  <2> QED BY <2>1, <2>2 DEF FreeLocals
<1>4. ASSUME NEW u \in Callers, u # t PROVE PutOf(M2, S2, u)'
  <2>1. PutOf(M, S, u) /\ at'[u] = at[u] /\ var'[u] = var[u]
    BY <1>1, <1>2, <1>4
  <2>4. at'[u] = "FreeCas" => next'[var'[u].h] = var'[u].old
    BY <1>4, <2>1 DEF PutOf
  <2>2. CASE at[t] \in Growing
    <3>1. at[u] \notin Growing
      BY <1>1, <1>4, <2>2, OneGrower
    <3> QED BY <2>1, <2>4, <3>1 DEF PutOf, Growing
  <2>3. CASE M2 = M /\ S2 = S /\ \A h \in M \cup S : next'[h] = next[h]
    <3>1. at[u] \in Moving => Stack(M, var[u].old)'
      <4> SUFFICES ASSUME at[u] \in Moving PROVE Stack(M, var[u].old)'
        OBVIOUS
      <4>1. PICK o : o = var[u].old /\ o = var'[u].old
        BY <2>1
      <4>2. Stack(M, o)
        BY <2>1, <4>1 DEF PutOf
      <4>3. Stack(M, o)'
        BY <2>3, <4>2 DEF Stack
      <4> QED BY <4>1, <4>3 DEF Stack
    <3>2. at[u] \in {"SlowLoad", "SlowCas"} => /\ Row(S, var[u].i, var[u].i + PerTable - 1)'
                                               /\ var[u].i + PerTable - 1 \in S
      <4> SUFFICES ASSUME at[u] \in {"SlowLoad", "SlowCas"}
                   PROVE /\ Row(S, var[u].i, var[u].i + PerTable - 1)'
                         /\ var[u].i + PerTable - 1 \in S
        OBVIOUS
      <4>1. PICK a, b : a = var[u].i /\ a = var'[u].i /\ b = var[u].i + PerTable - 1
                        /\ b = var'[u].i + PerTable - 1
        BY <2>1
      <4>2. Row(S, a, b)
        BY <2>1, <4>1 DEF PutOf
      <4>3. Row(S, a, b)' /\ b \in S
        BY <2>3, <4>2 DEF Row
      <4> QED BY <4>1, <4>3 DEF Row
    <3>3. at[u] = "SlowCas" => next'[var[u].i + PerTable - 1] = var[u].old
      BY <2>1, <2>3, <3>2 DEF PutOf
    <3> QED BY <2>1, <2>3, <2>4, <3>1, <3>2, <3>3 DEF PutOf, Stack, Row
  <2> QED BY <2>2, <2>3
<1>5. ASSUME NEW u \in Callers, u # t PROVE GuardOf(F2, M2, S2, u)'
  <2> SUFFICES ASSUME at[u] \in {"PopNext", "PopCas"} PROVE GuardOf(F2, M2, S2, u)'
    BY <1>2, <1>5 DEF GuardOf
  <2>1. GuardOf(F, M, S, u) /\ at'[u] = at[u] /\ var'[u] = var[u] /\ Kept(F, F2, M2, S2, t, u)
    BY <1>1, <1>2, <1>5
  <2>2. PICK o : o = var[u].old
    OBVIOUS
  <2>3. at[u] = "PopCas" /\ o \in F2 => var[u].new = next'[o]
    BY <2>1, <2>2 DEF GuardOf, Kept
  <2>4. \A v \in Callers : Frees(v, o)' => var'[v].free = "last"
    <3> SUFFICES ASSUME NEW v \in Callers, Frees(v, o)' PROVE var'[v].free = "last"
      OBVIOUS
    <3>1. CASE v = t
      <4>1. Frees(t, var[u].old)'
        BY <2>1, <2>2, <3>1 DEF Frees
      <4> QED BY <2>1, <3>1, <4>1 DEF Kept
    <3>2. CASE v # t
      <4>1. Frees(v, var[u].old) /\ var'[v] = var[v]
        BY <1>2, <2>2, <3>2 DEF Frees
      <4> QED BY <2>1, <4>1 DEF GuardOf
    <3> QED BY <3>1, <3>2
  <2>5. \A v \in Callers : at'[v] \in Moving /\ o \in M2 => LockIndex(o) >= var'[v].i
    <3> SUFFICES ASSUME NEW v \in Callers, at'[v] \in Moving, o \in M2 PROVE LockIndex(o) >= var'[v].i
      OBVIOUS
    <3>1. CASE v = t
      BY <2>1, <2>2, <3>1 DEF Kept
    <3>2. CASE v # t
      <4>1. at[v] \in Growing /\ at[v] \in Moving /\ var'[v] = var[v]
        BY <1>2, <3>2 DEF Growing
      <4>2. at[t] \notin Growing
        BY <1>1, <3>2, <4>1, OneGrower
      <4>3. o \in M
        BY <4>2
      <4> QED BY <2>1, <2>2, <4>1, <4>3 DEF GuardOf
    <3> QED BY <3>1, <3>2
  <2>6. o \notin S2
    BY <2>1, <2>2 DEF Kept
  <2> QED BY <2>1, <2>2, <2>3, <2>4, <2>5, <2>6 DEF GuardOf, LockIndex
<1>6. \A u \in Callers : PutOf(M2, S2, u)' /\ GuardOf(F2, M2, S2, u)'
  BY <1>4, <1>5
<1> QED BY <1>1, <1>3, <1>6 DEF FreeInv, Setting

(* A handle whose use a step leaves alone.                                  *)
LEMMA UseStep ==
    ASSUME NEW F, NEW L, NEW M, NEW S, FreeInv(F, L, M, S), NEW t \in Callers, Rest(t),
           NEW h \in Handles, out'[h] = out[h], User(t, h)' <=> User(t, h), pool' \in Nat, pool <= pool'
    PROVE  OneUse(h)' /\ (Unused(h)' <=> Unused(h))
<1>1. \A u \in Callers : User(u, h)' <=> User(u, h)
  BY DEF Rest, User, Frees
<1>2. OneUse(h) /\ pool \in Nat /\ h \in Nat
  <2>1. Setting /\ OneUse(h) /\ pool \in Nat /\ MaxHandles \in Nat
    BY ThreadFacts DEF FreeInv
  <2>2. h \in 1 .. MaxHandles
    BY <2>1, HandleRange
  <2> QED BY <2>1, <2>2
<1>3. h <= pool => h <= pool'
  BY <1>2
<1>4. OneUse(h)'
  BY <1>1, <1>2, <1>3 DEF OneUse
<1>5. Unused(h)' <=> Unused(h)
  BY <1>1 DEF Unused
<1> QED BY <1>4, <1>5

(* A handle that is freed.                                                  *)
LEMMA FreedHandle ==
    ASSUME NEW F, NEW L, NEW M, NEW S, FreeInv(F, L, M, S), NEW t \in Callers,
           at[t] \in {"FreeLoad", "FreeCas"}
    PROVE  var[t].h \in 1 .. pool /\ var[t].h \in Handles /\ ~Unused(var[t].h)
<1>1. Setting /\ FreeLocals(t) /\ pool \in Nat /\ pool <= MaxHandles /\ MaxHandles \in Nat
  BY ThreadFacts
<1>2. var[t].h \in 1 .. pool
  BY <1>1 DEF FreeLocals
<1>3. var[t].h \in Handles
  BY <1>1, <1>2, HandleRange
<1>4. User(t, var[t].h)
  BY DEF User, Frees
<1> QED BY <1>2, <1>3, <1>4 DEF Unused

(* The first handle is taken from the list.                                 *)
LEMMA PopCasSucceeds ==
    ASSUME NEW F, NEW L, NEW M, NEW S, FreeInv(F, L, M, S), NEW t \in Callers,
           PopCas(t), firstFree = var[t].old
    PROVE  \E G : FreeInv(G, L, M, S)'
<1> DEFINE r == [var[t] EXCEPT !.ok = TRUE]
<1>1. /\ at[t] = "PopCas" /\ GoOn(t, "PopUnlock", r) /\ "PopUnlock" \in Places
      /\ UNCHANGED <<lastFree, next, pool, owner, sharers, out>> /\ firstFree' = var[t].new
  BY DEF PopCas, Old, Locking, Places
<1>2. /\ Setting /\ FreeTypes /\ PushLocks /\ LocksHeld(t) /\ FreeLocals(t) /\ GuardOf(F, M, S, t)
      /\ var[t] \in FreeVars /\ pool \in Nat /\ pool <= MaxHandles /\ MaxHandles \in Nat
      /\ Handles = 1 .. MaxHandles
  BY ThreadFacts, HandleRange
<1>3. PICK o : o = firstFree /\ o = var[t].old
  OBVIOUS
<1>4. o \in 1 .. pool /\ o \in Handles
  BY <1>1, <1>2, <1>3 DEF FreeLocals
<1>5. /\ Apart(F, L, M, S) /\ Stack(F, o) /\ Stack(L, lastFree) /\ \A h \in Handles : OneUse(h)
  BY <1>3 DEF FreeInv
<1>6. o \in F /\ o # 0
  BY <1>4, <1>5 DEF Stack
<1> PICK G : G = F \ {o}
  OBVIOUS
<1>7. PICK n : n = var[t].new /\ n = next[o] /\ n = firstFree'
  BY <1>1, <1>2, <1>3, <1>6 DEF GuardOf
<1>8. n = 0 \/ (n \in F /\ n # o)
  BY <1>5, <1>6, <1>7 DEF Stack
<1>9. n \in 0 .. pool /\ n \in 0 .. MaxHandles
  <2>1. n = 0 \/ n \in 1 .. pool
    BY <1>5, <1>8 DEF Apart
  <2> QED BY <1>2, <2>1
<1>10. r \in FreeVars /\ r.old = o /\ r.ok /\ r.new = n
  BY <1>2, <1>3, <1>7 DEF FreeVars
<1> HIDE DEF r
<1>11. /\ at' \in [Callers -> Places] /\ var' \in [Callers -> FreeVars]
       /\ at'[t] = "PopUnlock" /\ var'[t] = r /\ Rest(t)
  BY <1>1, <1>2, <1>10, FreeGoto
<1>12. FreeLocals(t)'
  BY <1>1, <1>4, <1>9, <1>10, <1>11 DEF FreeLocals, Moving
<1>13. LocksHeld(t)'
  BY <1>1, <1>2, <1>3, <1>10, <1>11 DEF LocksHeld, Growing, Moving, LockIndex
<1>14. /\ PushLocks' /\ owner' \in [Locks -> Callers \cup {NoThread}]
       /\ sharers' \in [Locks -> SUBSET Callers]
  BY <1>1, <1>11, <1>13, SameLocks
<1>15. FreeTypes'
  BY <1>1, <1>2, <1>7, <1>9, <1>11, <1>14 DEF FreeTypes, Handles
<1>16. \A h \in Handles : User(t, h)' <=> h = o
  BY <1>10, <1>11 DEF User, Frees
<1>17. \A h \in Handles : ~User(t, h)
  BY <1>1, <1>2 DEF FreeLocals, User, Frees
<1>18. \A h \in Handles : h # o => OneUse(h)' /\ (Unused(h)' <=> Unused(h))
  BY <1>1, <1>2, <1>11, <1>16, <1>17, UseStep
<1>19. OneUse(o)'
  <2>1. out[o] = 0 /\ \A u \in Callers : ~User(u, o)
    BY <1>5, <1>6 DEF Apart, Unused
  <2>2. \A u \in Callers : User(u, o)' => u = t
    BY <1>11, <2>1 DEF Rest, User, Frees
  <2> QED BY <1>1, <2>1, <2>2 DEF OneUse
<1>20. \A h \in Handles : OneUse(h)'
  BY <1>18, <1>19
<1>21. Apart(G, L, M, S)'
  <2>1. \A h \in G \cup L \cup M \cup S : h \in Handles /\ h # o /\ Unused(h)
    BY <1>2, <1>5, <1>6 DEF Apart
  <2>2. \A h \in G \cup L \cup M \cup S : Unused(h)'
    BY <1>18, <2>1
  <2> QED BY <1>1, <1>5, <2>2 DEF Apart
<1>22. Stack(G, firstFree)'
  <2>1. \A x \in F : next[x] = 0 \/ (next[x] \in F /\ next[x] # o)
    BY <1>5 DEF Stack
  <2>2. \A x \in G : next[x] = n => n = 0
    BY <1>5, <1>6, <1>7 DEF Stack
  <2> QED BY <1>1, <1>5, <1>7, <1>8, <2>1, <2>2 DEF Stack
<1>23. Stack(L, lastFree)'
  BY <1>1, <1>5 DEF Stack
<1>24. PutOf(M, S, t)' /\ GuardOf(G, M, S, t)'
  BY <1>11 DEF PutOf, GuardOf, Moving
<1>25. ASSUME NEW u \in Callers, u # t, at[u] \in {"PopNext", "PopCas"}
       PROVE  Kept(F, G, M, S, t, u)
  <2>1. GuardOf(F, M, S, u)
    BY ThreadFacts
  <2>2. ~Frees(t, var[u].old)' /\ at'[t] \notin Moving
    BY <1>11 DEF Frees, Moving
  <2> QED BY <1>1, <1>25, <2>1, <2>2 DEF Kept, GuardOf
<1>26. /\ M = M /\ S = S /\ \A h \in M \cup S : next'[h] = next[h]
       /\ pool <= pool'
  BY <1>1, <1>2
<1>27. Change(F, M, S, G, L, M, S, t)
  BY <1>1, <1>11, <1>12, <1>14, <1>15, <1>20, <1>21, <1>22, <1>23, <1>24, <1>25, <1>26 DEF Change
<1> QED BY <1>27, ListStep

(* The entry of the handle is written.                                      *)
LEMMA WriteFree ==
    ASSUME NEW F, NEW L, NEW M, NEW S, FreeInv(F, L, M, S), NEW t \in Callers,
           WriteHandle(t)
    PROVE  FreeInv(F, L, M, S)'
<1>1. PICK o : o = var[t].old
  OBVIOUS
<1>2. /\ at[t] = "Write" /\ GoOn(t, "Idle", NoVars) /\ "Idle" \in Places
      /\ UNCHANGED <<firstFree, lastFree, pool, owner, sharers>>
      /\ next' = [next EXCEPT ![o] = Granted] /\ out' = [out EXCEPT ![o] = @ + 1]
  BY <1>1 DEF WriteHandle, Old, Locking, Places
<1>3. /\ Setting /\ FreeTypes /\ PushLocks /\ FreeLocals(t)
      /\ pool \in Nat /\ pool <= MaxHandles /\ MaxHandles \in Nat /\ Handles = 1 .. MaxHandles
  BY ThreadFacts, HandleRange
<1>4. /\ next \in [Handles -> Link] /\ out \in [Handles -> Nat] /\ Granted \in Link
  BY <1>3 DEF FreeTypes, Link
<1>5. o \in 1 .. pool /\ o \in Handles
  BY <1>1, <1>2, <1>3 DEF FreeLocals
<1>6. /\ next' \in [Handles -> Link] /\ out' \in [Handles -> Nat] /\ out'[o] = out[o] + 1
      /\ \A h \in Handles : h # o => next'[h] = next[h] /\ out'[h] = out[h]
  BY <1>2, <1>4, <1>5
<1>7. /\ at' \in [Callers -> Places] /\ var' \in [Callers -> FreeVars]
      /\ at'[t] = "Idle" /\ Rest(t)
  BY <1>2, <1>3, FreeVarsFields, FreeGoto
<1>8. FreeLocals(t)' /\ LocksHeld(t)' /\ PutOf(M, S, t)' /\ GuardOf(F, M, S, t)'
  BY <1>7 DEF FreeLocals, LocksHeld, PutOf, GuardOf, Moving, Growing
<1>9. /\ PushLocks' /\ owner' \in [Locks -> Callers \cup {NoThread}]
      /\ sharers' \in [Locks -> SUBSET Callers]
  BY <1>2, <1>7, <1>8, SameLocks
<1>10. FreeTypes'
  BY <1>2, <1>3, <1>6, <1>7, <1>9 DEF FreeTypes, Handles
<1>11. /\ Apart(F, L, M, S) /\ Stack(F, firstFree) /\ Stack(L, lastFree) /\ OneUse(o)
  BY <1>5 DEF FreeInv
<1>12. \A h \in Handles : ~User(t, h)'
  BY <1>7 DEF User, Frees
<1>13. \A h \in Handles : h # o => ~User(t, h)
  BY <1>1, <1>2 DEF User, Frees
<1>14. \A h \in Handles : h # o => OneUse(h)' /\ (Unused(h)' <=> Unused(h))
  BY <1>2, <1>3, <1>6, <1>7, <1>12, <1>13, UseStep
<1>15. User(t, o)
  BY <1>1, <1>2, <1>3 DEF User, FreeLocals
<1>16. out[o] = 0 /\ \A u \in Callers : User(u, o) => u = t
  BY <1>11, <1>15 DEF OneUse
<1>17. OneUse(o)'
  <2>1. \A u \in Callers : ~User(u, o)'
    BY <1>5, <1>7, <1>12, <1>16 DEF Rest, User, Frees
  <2>2. out'[o] = 1 /\ o <= pool'
    BY <1>2, <1>3, <1>5, <1>6, <1>16
  <2> QED BY <2>1, <2>2 DEF OneUse
<1>18. \A h \in Handles : OneUse(h)'
  BY <1>14, <1>17
<1>19. \A h \in F \cup L \cup M \cup S : h \in Handles /\ h # o /\ Unused(h)
  BY <1>3, <1>11, <1>15 DEF Apart, Unused
<1>20. Apart(F, L, M, S)'
  <2>1. \A h \in F \cup L \cup M \cup S : Unused(h)'
    BY <1>14, <1>19
  <2> QED BY <1>2, <1>11, <2>1 DEF Apart
<1>21. Stack(F, firstFree)' /\ Stack(L, lastFree)'
  BY <1>2, <1>6, <1>11, <1>19 DEF Stack
<1>22. ASSUME NEW u \in Callers, u # t, at[u] \in {"PopNext", "PopCas"}
       PROVE  Kept(F, F, M, S, t, u)
  <2>1. GuardOf(F, M, S, u)
    BY ThreadFacts
  <2>2. ~Frees(t, var[u].old)' /\ at'[t] \notin Moving
    BY <1>7 DEF Frees, Moving
  <2>3. var[u].old \in F => next'[var[u].old] = next[var[u].old]
    BY <1>6, <1>19
  <2> QED BY <1>22, <2>1, <2>2, <2>3 DEF Kept, GuardOf
<1>23. /\ M = M /\ S = S /\ \A h \in M \cup S : next'[h] = next[h]
       /\ pool <= pool'
  BY <1>2, <1>3, <1>6, <1>19
<1>24. ASSUME NEW u \in Callers, u # t, at[u] = "FreeCas"
       PROVE  next'[var[u].h] = next[var[u].h]
  <2>1. Frees(u, var[u].h) /\ var[u].h \in Handles
    BY <1>24, FreedHandle DEF Frees
  <2>2. var[u].h # o
    BY <1>16, <1>24, <2>1 DEF User
  <2> QED BY <1>6, <2>1, <2>2
<1>25. Change(F, M, S, F, L, M, S, t)
  BY <1>7, <1>8, <1>9, <1>10, <1>18, <1>20, <1>21, <1>22, <1>23, <1>24 DEF Change
<1> QED BY <1>25, ListStep

(* A step of the thread that has the table to itself.                       *)
LEMMA GrowFacts ==
    ASSUME NEW F, NEW L, NEW M, NEW S, FreeInv(F, L, M, S), NEW t \in Callers, at[t] \in Growing,
           NEW l \in Places, NEW r \in FreeVars, GoOn(t, l, r),
           l \in Growing \ {"MoveUnlock"}, UNCHANGED <<owner, sharers, out>>,
           firstFree' \in 0 .. MaxHandles, lastFree' \in 0 .. MaxHandles,
           next' \in [Handles -> Link], pool' \in 0 .. MaxHandles, pool <= pool'
    PROVE  /\ at'[t] = l /\ var'[t] = r /\ Rest(t) /\ PushLocks' /\ FreeTypes'
           /\ \A h \in Handles : OneUse(h)' /\ (Unused(h)' <=> Unused(h))
           /\ \A h : ~Frees(t, h)'
<1>1. Setting /\ FreeTypes /\ LocksHeld(t) /\ MaxHandles \in Nat
  BY ThreadFacts
<1>2. /\ at' \in [Callers -> Places] /\ var' \in [Callers -> FreeVars]
      /\ at'[t] = l /\ var'[t] = r /\ Rest(t)
  BY <1>1, FreeGoto
<1>3. LocksHeld(t)'
  BY <1>1, <1>2 DEF LocksHeld, Growing, Moving
<1>4. /\ PushLocks' /\ owner' \in [Locks -> Callers \cup {NoThread}]
      /\ sharers' \in [Locks -> SUBSET Callers]
  BY <1>2, <1>3, SameLocks
<1>5. FreeTypes'
  BY <1>1, <1>2, <1>4 DEF FreeTypes, Handles
<1>6. \A h \in Handles : ~User(t, h) /\ ~User(t, h)'
  BY <1>2 DEF User, Frees, Growing, Moving
<1>7. pool' \in Nat
  BY <1>1
<1>8. ASSUME NEW h \in Handles PROVE OneUse(h)' /\ (Unused(h)' <=> Unused(h))
  <2>1. out'[h] = out[h] /\ (User(t, h)' <=> User(t, h))
    BY <1>6
  <2> QED BY <1>2, <1>7, <2>1, UseStep
<1>9. \A h : ~Frees(t, h)'
  BY <1>2 DEF Frees, Growing, Moving
<1> QED BY <1>2, <1>4, <1>5, <1>8, <1>9

(* The second list is taken, to be moved.  The lock of the table is one of  *)
(* the four: nobody who has the first one pops.                             *)
LEMMA MoveTakeSome ==
    ASSUME NEW F, NEW L, NEW M, NEW S, FreeInv(F, L, M, S), NEW t \in Callers,
           MoveTake(t), lastFree # 0
    PROVE  FreeInv(F, {}, L, S)'
<1> DEFINE r == [var[t] EXCEPT !.old = lastFree, !.i = 1]
<1>1. /\ at[t] = "Move" /\ GoOn(t, "MoveWait", r) /\ "MoveWait" \in Places
      /\ UNCHANGED <<firstFree, next, pool, owner, sharers, out>> /\ lastFree' = 0
  BY DEF MoveTake, Locking, Places
<1>2. /\ Setting /\ PushLocks /\ var[t] \in FreeVars /\ ~var[t].ok /\ owner[0] = t
      /\ lastFree \in 0 .. MaxHandles /\ firstFree \in 0 .. MaxHandles
      /\ next \in [Handles -> Link] /\ pool \in 0 .. MaxHandles
      /\ pool \in Nat /\ pool <= MaxHandles /\ MaxHandles \in Nat /\ Handles = 1 .. MaxHandles
  BY <1>1, ThreadFacts, HandleRange DEF FreeLocals, FreeTypes, LocksHeld, Growing
<1>3. PICK top : top = lastFree
  OBVIOUS
<1>4. r \in FreeVars /\ r.ok = FALSE /\ r.old = top /\ r.i = 1
  <2>1. 1 \in 0 .. MaxHandles + LockCount
    BY <1>2, LockNumber
  <2> QED BY <1>2, <1>3, <2>1 DEF FreeVars
<1> HIDE DEF r
<1>5. Apart(F, L, M, S) /\ Stack(F, firstFree) /\ Stack(L, top)
  BY <1>3 DEF FreeInv
<1>6. top \in L /\ top \in 1 .. pool
  BY <1>3, <1>5 DEF Stack, Apart
<1>7. at[t] \in Growing /\ "MoveWait" \in Growing \ {"MoveUnlock"} /\ 0 \in 0 .. MaxHandles
  BY <1>1, <1>2 DEF Growing, Moving
<1>8. /\ at'[t] = "MoveWait" /\ var'[t] = r /\ Rest(t) /\ PushLocks' /\ FreeTypes'
      /\ \A h \in Handles : OneUse(h)' /\ (Unused(h)' <=> Unused(h))
      /\ \A h : ~Frees(t, h)'
  BY <1>1, <1>2, <1>4, <1>7, GrowFacts
<1>9. FreeLocals(t)'
  BY <1>1, <1>4, <1>6, <1>8, LockNumber DEF FreeLocals, Moving
<1>10. Apart(F, {}, L, S)'
  <2>1. \A h \in F \cup L \cup S : h \in Handles /\ Unused(h)
    BY <1>2, <1>5 DEF Apart
  <2>2. \A h \in F \cup {} \cup L \cup S : Unused(h)'
    BY <1>8, <2>1
  <2> QED BY <1>1, <1>5, <2>2 DEF Apart
<1>11. Stack(F, firstFree)' /\ Stack({}, lastFree)' /\ Stack(L, top)'
  BY <1>1, <1>5 DEF Stack
<1>12. PutOf(L, S, t)' /\ GuardOf(F, L, S, t)'
  BY <1>4, <1>8, <1>11 DEF PutOf, GuardOf, Stack
<1>13. ASSUME NEW u \in Callers, u # t, at[u] \in {"PopNext", "PopCas"}
       PROVE  Kept(F, F, L, S, t, u)
  <2>1. GuardOf(F, M, S, u) /\ LocksHeld(u) /\ var[u].old \in 0 .. MaxHandles
    BY ThreadFacts
  <2>2. PICK n \in 0 .. LockCount - 1 : n = LockIndex(var[u].old)
    BY <1>2, <2>1, HandleRange
  <2>3. n # 0
    <3>1. 0 \in Locks
      BY <1>2, HandleRange, LockNumber
    <3>2. sharers[0] = {}
      BY <1>2, <3>1 DEF PushLocks, Setting
    <3> QED BY <1>13, <2>1, <2>2, <3>2 DEF LocksHeld
  <2>4. LockIndex(var[u].old) >= var'[t].i
    BY <1>4, <1>8, <2>2, <2>3
  <2> QED BY <1>1, <1>8, <1>13, <2>1, <2>4 DEF Kept, GuardOf
<1>14. pool <= pool'
  BY <1>1, <1>2
<1>15. Change(F, M, S, F, {}, L, S, t)
  BY <1>1, <1>7, <1>8, <1>9, <1>10, <1>11, <1>12, <1>13, <1>14 DEF Change
<1> QED BY <1>15, ListStep

(* The list that is moved becomes the first one.  All locks have been       *)
(* waited for: nobody pops a handle of it.                                  *)
LEMMA MoveCasSucceeds ==
    ASSUME NEW F, NEW L, NEW M, NEW S, FreeInv(F, L, M, S), NEW t \in Callers,
           MoveCas(t), firstFree = 0
    PROVE  FreeInv(F \cup M, L, {}, S)'
<1>1. /\ at[t] = "MoveCas" /\ GoOn(t, "GrowUnlock", var[t]) /\ "GrowUnlock" \in Places
      /\ UNCHANGED <<lastFree, next, pool, owner, sharers, out>> /\ firstFree' = var[t].old
  BY DEF MoveCas, StepTo, Old, Locking, Places
<1>2. /\ Setting /\ PushLocks /\ var[t] \in FreeVars /\ ~var[t].ok
      /\ var[t].old \in 1 .. pool /\ var[t].i = LockCount /\ var[t].old \in 0 .. MaxHandles
      /\ lastFree \in 0 .. MaxHandles /\ next \in [Handles -> Link] /\ pool \in 0 .. MaxHandles
      /\ pool \in Nat /\ pool <= MaxHandles /\ MaxHandles \in Nat /\ Handles = 1 .. MaxHandles
  BY <1>1, ThreadFacts, HandleRange DEF FreeLocals, FreeTypes, Moving
<1>3. PICK top : top = var[t].old /\ top # 0
  BY <1>2
<1>4. Apart(F, L, M, S) /\ Stack(F, 0) /\ Stack(L, lastFree) /\ Stack(M, top)
  <2>1. PutOf(M, S, t)
    BY ThreadFacts
  <2>2. Stack(M, top)
    BY <1>1, <1>3, <2>1 DEF PutOf, Moving
  <2> QED BY <2>2 DEF FreeInv
<1>5. at[t] \in Growing /\ "GrowUnlock" \in Growing \ {"MoveUnlock"}
  BY <1>1 DEF Growing, Moving
<1>6. /\ at'[t] = "GrowUnlock" /\ var'[t] = var[t] /\ Rest(t) /\ PushLocks' /\ FreeTypes'
      /\ \A h \in Handles : OneUse(h)' /\ (Unused(h)' <=> Unused(h))
      /\ \A h : ~Frees(t, h)'
  BY <1>1, <1>2, <1>5, GrowFacts
<1>7. FreeLocals(t)'
  BY <1>1, <1>2, <1>6 DEF FreeLocals, Moving
<1>8. Apart(F \cup M, L, {}, S)'
  <2>1. \A h \in F \cup M \cup L \cup S : h \in Handles /\ Unused(h)
    BY <1>2, <1>4 DEF Apart
  <2>2. \A h \in F \cup M \cup L \cup {} \cup S : Unused(h)'
    BY <1>6, <2>1
  <2> QED BY <1>1, <1>4, <2>2 DEF Apart
<1>9. Stack(F \cup M, firstFree)' /\ Stack(L, lastFree)'
  <2>1. F \cap M = {} /\ top \in M
    BY <1>3, <1>4 DEF Apart, Stack
  <2>2. \A x \in F \cup M : next[x] = 0 \/ (next[x] \in F \cup M /\ next[x] # top)
    BY <1>4, <2>1 DEF Stack
  <2>3. \A x, y \in F \cup M : next[x] = next[y] /\ next[x] # 0 => x = y
    BY <1>4, <2>1 DEF Stack
  <2> QED BY <1>1, <1>3, <1>4, <2>1, <2>2, <2>3 DEF Stack
<1>10. PutOf({}, S, t)' /\ GuardOf(F \cup M, {}, S, t)' /\ at'[t] \notin Moving
  BY <1>6 DEF PutOf, GuardOf, Moving
<1>11. ASSUME NEW u \in Callers, u # t, at[u] \in {"PopNext", "PopCas"}
       PROVE  Kept(F, F \cup M, {}, S, t, u)
  <2>1. GuardOf(F, M, S, u) /\ var[u].old \in 0 .. MaxHandles
    BY ThreadFacts
  <2>2. PICK n \in 0 .. LockCount - 1 : n = LockIndex(var[u].old)
    BY <1>2, <2>1, HandleRange
  <2>3. var[u].old \in M => n >= LockCount
    BY <1>1, <1>2, <1>11, <2>1, <2>2 DEF GuardOf, Moving
  <2>4. var[u].old \notin M
    BY <2>2, <2>3, LockNumber
  <2> QED BY <1>1, <1>6, <1>10, <1>11, <2>1, <2>4 DEF Kept, GuardOf
<1>12. pool <= pool'
  BY <1>1, <1>2
<1>13. Change(F, M, S, F \cup M, L, {}, S, t)
  BY <1>1, <1>5, <1>6, <1>7, <1>8, <1>9, <1>10, <1>11, <1>12 DEF Change
<1> QED BY <1>13, ListStep

(* The table grows: the handles of the new low level table are in a row.    *)
LEMMA SlowGrows ==
    ASSUME NEW F, NEW L, NEW M, NEW S, FreeInv(F, L, M, S), NEW t \in Callers,
           SlowAllocate(t), pool + PerTable <= MaxHandles, pool' = pool + PerTable,
           next' = Linked(pool + 1, pool + PerTable),
           GoOn(t, "SlowLoad", [var[t] EXCEPT !.i = pool + 1, !.ok = TRUE])
    PROVE  \E R : FreeInv(F, L, M, R)'
<1> DEFINE r == [var[t] EXCEPT !.i = pool + 1, !.ok = TRUE]
<1>1. /\ at[t] = "Slow" /\ GoOn(t, "SlowLoad", r) /\ "SlowLoad" \in Places
      /\ UNCHANGED <<firstFree, lastFree, owner, sharers, out>>
  BY DEF SlowAllocate, Locking, Places
<1>2. /\ Setting /\ PushLocks /\ var[t] \in FreeVars
      /\ lastFree \in 0 .. MaxHandles /\ firstFree \in 0 .. MaxHandles
      /\ next \in [Handles -> Link]
      /\ pool \in Nat /\ pool <= MaxHandles /\ MaxHandles \in Nat /\ Handles = 1 .. MaxHandles
  BY <1>1, ThreadFacts, HandleRange DEF FreeTypes
<1>3. PICK a, e : a = pool + 1 /\ e = pool + PerTable
  OBVIOUS
<1>4. /\ PerTable \in Nat /\ PerTable >= 1 /\ a \in Nat /\ e \in Nat /\ 1 <= a /\ a <= e
      /\ e <= MaxHandles /\ pool < a /\ pool' = e /\ pool' \in 0 .. MaxHandles /\ pool <= pool'
  BY <1>2, <1>3 DEF Setting
<1>5. r \in FreeVars /\ r.i = a
  <2>1. a \in 0 .. MaxHandles + LockCount
    BY <1>2, <1>4, LockNumber
  <2> QED BY <1>2, <1>3, <2>1 DEF FreeVars
<1> HIDE DEF r
<1>6. PICK R : R = a .. e
  OBVIOUS
<1>7. /\ \A h \in Handles : h \notin R => next'[h] = next[h]
      /\ \A h \in R : h # e => next'[h] = h + 1
      /\ next'[e] = 0
      /\ next' \in [Handles -> Link]
  <2>1. next' = [h \in Handles |-> IF h \in a .. e - 1 THEN h + 1 ELSE IF h = e THEN 0 ELSE next[h]]
    BY <1>3 DEF Linked, Handles
  <2>2. R \subseteq Handles /\ e \in Handles
    BY <1>2, <1>4, <1>6
  <2>3. \A h \in Handles : h \notin R => h \notin a .. e - 1 /\ h # e
    BY <1>2, <1>4, <1>6
  <2>4. \A h \in R : h # e => h \in a .. e - 1
    BY <1>4, <1>6
  <2>5. e \notin a .. e - 1
    BY <1>4
  <2>6. \A h \in Handles : next'[h] \in Link
    <3> SUFFICES ASSUME NEW h \in Handles PROVE next'[h] \in Link
      OBVIOUS
    <3>1. h \in a .. e - 1 => h + 1 \in 0 .. MaxHandles
      BY <1>2, <1>4
    <3>2. 0 \in 0 .. MaxHandles
      BY <1>2
    <3>3. next[h] \in Link
      BY <1>2
    <3> QED BY <2>1, <3>1, <3>2, <3>3 DEF Link
  <2> QED BY <2>1, <2>2, <2>3, <2>4, <2>5, <2>6
<1>8. Apart(F, L, M, S) /\ Stack(F, firstFree) /\ Stack(L, lastFree) /\ PutOf(M, S, t)
  BY ThreadFacts DEF FreeInv
<1>9. at[t] \in Growing /\ "SlowLoad" \in Growing \ {"MoveUnlock"}
  BY <1>1 DEF Growing, Moving
<1>10. /\ at'[t] = "SlowLoad" /\ var'[t] = r /\ Rest(t) /\ PushLocks' /\ FreeTypes'
       /\ \A h \in Handles : OneUse(h)' /\ (Unused(h)' <=> Unused(h))
       /\ \A h : ~Frees(t, h)'
  BY <1>1, <1>2, <1>4, <1>5, <1>7, <1>9, GrowFacts
<1>11. FreeLocals(t)' /\ GuardOf(F, M, R, t)' /\ at'[t] \notin Moving
  BY <1>10 DEF FreeLocals, GuardOf, Moving
<1>12. \A h \in F \cup L \cup M : h \in Handles /\ h \notin R /\ h \in 1 .. pool /\ Unused(h)
  <2>1. \A h \in 1 .. pool : h \in Handles /\ h \notin R
    BY <1>2, <1>4, <1>6
  <2> QED BY <1>8, <2>1 DEF Apart
<1>13. \A h \in R : h \in Handles /\ h \in 1 .. pool' /\ Unused(h)
  <2> SUFFICES ASSUME NEW h \in R PROVE h \in Handles /\ h \in 1 .. pool' /\ Unused(h)
    OBVIOUS
  <2>1. h \in Handles /\ h \in 1 .. pool' /\ h \notin 1 .. pool /\ ~(h <= pool)
    BY <1>2, <1>4, <1>6
  <2>2. out[h] = 0
    BY <2>1 DEF FreeInv, OneUse
  <2>3. \A u \in Callers : ~User(u, h)
    <3> SUFFICES ASSUME NEW u \in Callers PROVE ~User(u, h)
      OBVIOUS
    <3>1. FreeLocals(u)
      BY ThreadFacts
    <3> QED BY <2>1, <3>1 DEF FreeLocals, User, Frees
  <2> QED BY <2>1, <2>2, <2>3 DEF Unused
<1>14. Apart(F, L, M, R)'
  <2>1. \A h \in F \cup L \cup M \cup R : Unused(h)'
    BY <1>10, <1>12, <1>13
  <2>2. 1 .. pool \subseteq 1 .. pool'
    BY <1>2, <1>4
  <2>3. F \cup L \cup M \cup R \subseteq 1 .. pool'
    BY <1>12, <1>13, <2>2
  <2>4. F \cap R = {} /\ L \cap R = {} /\ M \cap R = {}
    BY <1>12
  <2> QED BY <1>8, <2>1, <2>3, <2>4 DEF Apart
<1>15. Stack(F, firstFree)' /\ Stack(L, lastFree)'
  <2>1. \A h \in F \cup L : next'[h] = next[h]
    BY <1>7, <1>12
  <2> QED BY <1>1, <1>8, <2>1 DEF Stack
<1>16. Row(R, a, e)'
  <2>1. \A x \in R : x # e => x + 1 \in R /\ x + 1 # a
    BY <1>4, <1>6
  <2>2. a \in R /\ e \in R
    BY <1>4, <1>6
  <2>3. \A x, y \in R : x + 1 = y + 1 => x = y
    BY <1>4, <1>6
  <2>4. \A x \in R : x # e => next'[x] \in R /\ next'[x] # a
    BY <1>7, <2>1
  <2>5. \A x, y \in R : x # e /\ y # e /\ next'[x] = next'[y] => x = y
    BY <1>7, <2>3
  <2> QED BY <2>2, <2>4, <2>5 DEF Row
<1>17. PutOf(M, R, t)'
  <2>1. e = a + PerTable - 1
    BY <1>2, <1>3, <1>4
  <2>2. var'[t].i = a /\ var'[t].i + PerTable - 1 = e
    BY <1>5, <1>10, <2>1
  <2> QED BY <1>10, <1>16, <2>2 DEF PutOf, Row, Moving
<1>18. ASSUME NEW u \in Callers, u # t, at[u] \in {"PopNext", "PopCas"}
       PROVE  Kept(F, F, M, R, t, u)
  <2>1. GuardOf(F, M, S, u) /\ FreeLocals(u)
    BY ThreadFacts
  <2>2. var[u].old \in 1 .. pool
    BY <1>18, <2>1 DEF FreeLocals
  <2>3. var[u].old \notin R
    BY <1>2, <1>4, <1>6, <2>2
  <2>4. var[u].old \in F => next'[var[u].old] = next[var[u].old]
    BY <1>7, <1>12
  <2> QED BY <1>10, <1>11, <2>3, <2>4 DEF Kept
<1>19. ASSUME NEW u \in Callers, u # t, at[u] = "FreeCas"
       PROVE  next'[var[u].h] = next[var[u].h]
  <2>1. var[u].h \in Handles /\ ~Unused(var[u].h)
    BY <1>19, FreedHandle
  <2> QED BY <1>7, <1>13, <2>1
<1>20. Change(F, M, S, F, L, M, R, t)
  BY <1>4, <1>9, <1>10, <1>11, <1>14, <1>15, <1>17, <1>18, <1>19 DEF Change
<1> QED BY <1>20, ListStep

(* The end of the new row is linked to the first free handle.               *)
LEMMA SlowLoadFree ==
    ASSUME NEW F, NEW L, NEW M, NEW S, FreeInv(F, L, M, S), NEW t \in Callers,
           SlowLoad(t)
    PROVE  FreeInv(F, L, M, S)'
<1> DEFINE r == [var[t] EXCEPT !.old = firstFree]
<1>1. PICK a, e : a = var[t].i /\ e = a + PerTable - 1
  OBVIOUS
<1>2. /\ at[t] = "SlowLoad" /\ GoOn(t, "SlowCas", r) /\ "SlowCas" \in Places
      /\ UNCHANGED <<firstFree, lastFree, pool, owner, sharers, out>>
      /\ next' = [next EXCEPT ![e] = firstFree]
  BY <1>1 DEF SlowLoad, Locking, Places
<1>3. /\ Setting /\ PushLocks /\ var[t] \in FreeVars /\ PutOf(M, S, t)
      /\ lastFree \in 0 .. MaxHandles /\ firstFree \in 0 .. MaxHandles
      /\ next \in [Handles -> Link] /\ pool \in 0 .. MaxHandles
      /\ pool \in Nat /\ pool <= MaxHandles /\ MaxHandles \in Nat /\ Handles = 1 .. MaxHandles
  BY <1>2, ThreadFacts, HandleRange DEF FreeTypes
<1>4. r \in FreeVars /\ r.i = a /\ r.old = firstFree
  BY <1>1, <1>3 DEF FreeVars
<1> HIDE DEF r
<1>5. Apart(F, L, M, S) /\ Stack(F, firstFree) /\ Stack(L, lastFree)
  BY DEF FreeInv
<1>6. Row(S, a, e)
  BY <1>1, <1>2, <1>3 DEF PutOf
<1>7. e \in S /\ e \in Handles /\ firstFree \in Link
  BY <1>3, <1>5, <1>6 DEF Apart, Row, Link
<1>8. /\ next' \in [Handles -> Link] /\ next'[e] = firstFree
      /\ \A h \in Handles : h # e => next'[h] = next[h]
  BY <1>2, <1>3, <1>7
<1>9. at[t] \in Growing /\ "SlowCas" \in Growing \ {"MoveUnlock"} /\ pool <= pool'
  BY <1>2, <1>3 DEF Growing, Moving
<1>10. /\ at'[t] = "SlowCas" /\ var'[t] = r /\ Rest(t) /\ PushLocks' /\ FreeTypes'
       /\ \A h \in Handles : OneUse(h)' /\ (Unused(h)' <=> Unused(h))
       /\ \A h : ~Frees(t, h)'
  BY <1>2, <1>3, <1>4, <1>8, <1>9, GrowFacts
<1>11. FreeLocals(t)' /\ GuardOf(F, M, S, t)' /\ at'[t] \notin Moving
  BY <1>10 DEF FreeLocals, GuardOf, Moving
<1>12. \A h \in F \cup L \cup M \cup S : h \in Handles /\ Unused(h)
  BY <1>3, <1>5 DEF Apart
<1>13. e \notin F /\ e \notin L
  BY <1>5, <1>7 DEF Apart
<1>14. Apart(F, L, M, S)'
  <2>1. \A h \in F \cup L \cup M \cup S : Unused(h)'
    BY <1>10, <1>12
  <2> QED BY <1>2, <1>5, <2>1 DEF Apart
<1>15. Stack(F, firstFree)' /\ Stack(L, lastFree)'
  <2>1. \A h \in F \cup L : next'[h] = next[h]
    BY <1>8, <1>12, <1>13
  <2> QED BY <1>2, <1>5, <2>1 DEF Stack
<1>16. PutOf(M, S, t)'
  <2>1. Row(S, a, e)'
    <3>1. \A h \in S : h # e => next'[h] = next[h]
      BY <1>8, <1>12
    <3> QED BY <1>6, <3>1 DEF Row
  <2>2. var'[t].i = a /\ var'[t].i + PerTable - 1 = e /\ next'[e] = var'[t].old
    BY <1>1, <1>4, <1>8, <1>10
  <2> QED BY <1>10, <2>1, <2>2 DEF PutOf, Row, Moving
<1>17. ASSUME NEW u \in Callers, u # t, at[u] \in {"PopNext", "PopCas"}
       PROVE  Kept(F, F, M, S, t, u)
  <2>1. GuardOf(F, M, S, u)
    BY ThreadFacts
  <2>2. var[u].old \in F => next'[var[u].old] = next[var[u].old]
    BY <1>8, <1>12, <1>13
  <2> QED BY <1>10, <1>11, <1>17, <2>1, <2>2 DEF Kept, GuardOf
<1>18. ASSUME NEW u \in Callers, u # t, at[u] = "FreeCas"
       PROVE  next'[var[u].h] = next[var[u].h]
  <2>1. var[u].h \in Handles /\ ~Unused(var[u].h)
    BY <1>18, FreedHandle
  <2> QED BY <1>7, <1>8, <1>12, <2>1
<1>19. Change(F, M, S, F, L, M, S, t)
  BY <1>9, <1>10, <1>11, <1>14, <1>15, <1>16, <1>17, <1>18 DEF Change
<1> QED BY <1>19, ListStep

(* The new row is put before the first free handle.                         *)
LEMMA SlowCasSucceeds ==
    ASSUME NEW F, NEW L, NEW M, NEW S, FreeInv(F, L, M, S), NEW t \in Callers,
           SlowCas(t), firstFree = var[t].old
    PROVE  FreeInv(F \cup S, L, M, {})'
<1>1. PICK a, e, top : a = var[t].i /\ e = a + PerTable - 1 /\ top = firstFree
  OBVIOUS
<1>2. /\ at[t] = "SlowCas" /\ GoOn(t, "SlowUnlock", var[t]) /\ "SlowUnlock" \in Places
      /\ UNCHANGED <<lastFree, next, pool, owner, sharers, out>> /\ firstFree' = a
  BY <1>1 DEF SlowCas, StepTo, Old, Locking, Places
<1>3. /\ Setting /\ PushLocks /\ var[t] \in FreeVars /\ PutOf(M, S, t)
      /\ lastFree \in 0 .. MaxHandles
      /\ next \in [Handles -> Link] /\ pool \in 0 .. MaxHandles
      /\ pool \in Nat /\ pool <= MaxHandles /\ MaxHandles \in Nat /\ Handles = 1 .. MaxHandles
  BY <1>2, ThreadFacts, HandleRange DEF FreeTypes
<1>4. Apart(F, L, M, S) /\ Stack(F, top) /\ Stack(L, lastFree)
  BY <1>1 DEF FreeInv
<1>5. Row(S, a, e) /\ next[e] = top
  BY <1>1, <1>2, <1>3 DEF PutOf
<1>6. \A h \in F \cup L \cup M \cup S : h \in Handles /\ Unused(h)
  BY <1>3, <1>4 DEF Apart
<1>7. a \in S /\ e \in S /\ a \in 0 .. MaxHandles
  <2>1. a \in S /\ e \in S
    BY <1>5 DEF Row
  <2>2. a \in 1 .. MaxHandles
    BY <1>3, <1>6, <2>1
  <2> QED BY <1>3, <2>1, <2>2
<1>8. at[t] \in Growing /\ "SlowUnlock" \in Growing \ {"MoveUnlock"} /\ pool <= pool'
  BY <1>2, <1>3 DEF Growing, Moving
<1>9. /\ at'[t] = "SlowUnlock" /\ var'[t] = var[t] /\ Rest(t) /\ PushLocks' /\ FreeTypes'
      /\ \A h \in Handles : OneUse(h)' /\ (Unused(h)' <=> Unused(h))
      /\ \A h : ~Frees(t, h)'
  BY <1>2, <1>3, <1>7, <1>8, GrowFacts
<1>10. /\ FreeLocals(t)' /\ GuardOf(F \cup S, M, {}, t)' /\ PutOf(M, {}, t)' /\ at'[t] \notin Moving
  BY <1>9 DEF FreeLocals, GuardOf, PutOf, Moving
<1>11. Apart(F \cup S, L, M, {})'
  <2>1. \A h \in F \cup S \cup L \cup M \cup {} : Unused(h)'
    BY <1>6, <1>9
  <2> QED BY <1>2, <1>4, <2>1 DEF Apart
<1>12. Stack(F \cup S, firstFree)' /\ Stack(L, lastFree)'
  <2>1. F \cap S = {} /\ (top = 0 \/ top \in F)
    BY <1>4 DEF Apart, Stack
  <2>2. \A x \in F : next[x] = 0 \/ (next[x] \in F /\ next[x] # top)
    BY <1>4 DEF Stack
  <2>3. \A x \in S : x # e => next[x] \in S /\ next[x] # a
    BY <1>5 DEF Row
  <2>4. \A x \in F \cup S : next[x] = 0 \/ (next[x] \in F \cup S /\ next[x] # a)
    BY <1>5, <1>7, <2>1, <2>2, <2>3
  <2>5. \A x, y \in F : next[x] = next[y] /\ next[x] # 0 => x = y
    BY <1>4 DEF Stack
  <2>6. \A x, y \in S : x # e /\ y # e /\ next[x] = next[y] => x = y
    BY <1>5 DEF Row
  <2>7. \A x, y \in F \cup S : next[x] = next[y] /\ next[x] # 0 => x = y
    <3> SUFFICES ASSUME NEW x \in F \cup S, NEW y \in F \cup S, next[x] = next[y], next[x] # 0
                 PROVE  x = y
      OBVIOUS
    <3>1. CASE x \in F /\ y \in F
      BY <2>5, <3>1
    <3>2. CASE x \in S /\ y \in S
      BY <1>5, <2>1, <2>3, <2>6, <3>2
    <3>3. CASE x \in F /\ y \in S
      BY <1>5, <2>1, <2>2, <2>3, <3>3
    <3>4. CASE x \in S /\ y \in F
      BY <1>5, <2>1, <2>2, <2>3, <3>4
    <3> QED BY <3>1, <3>2, <3>3, <3>4
  <2> QED BY <1>2, <1>4, <1>7, <2>4, <2>7 DEF Stack
<1>13. ASSUME NEW u \in Callers, u # t, at[u] \in {"PopNext", "PopCas"}
       PROVE  Kept(F, F \cup S, M, {}, t, u)
  <2>1. GuardOf(F, M, S, u)
    BY ThreadFacts
  <2> QED BY <1>2, <1>9, <1>10, <1>13, <2>1 DEF Kept, GuardOf
<1>14. Change(F, M, S, F \cup S, L, M, {}, t)
  BY <1>2, <1>8, <1>9, <1>10, <1>11, <1>12, <1>13 DEF Change
<1> QED BY <1>14, ListStep

-----------------------------------------------------------------------------
(* A list is selected, the first one if somebody has the lock of the        *)
(* handle: no race if nobody pops that handle.                              *)
LEMMA FreeSelects ==
    ASSUME NEW F, NEW L, NEW M, NEW S, FreeInv(F, L, M, S), NEW t \in Callers,
           NEW h \in Handles, FreeSelect(t, h), ~raced'
    PROVE  FreeInv(F, L, M, S)'
<1>1. PICK f \in {"first", "last"} :
         f = IF IsLocked(LockIndex(h)) THEN "first" ELSE "last"
  OBVIOUS
<1> DEFINE n == NoVars
           r == [n EXCEPT !.h = h, !.free = f]
<1>2. /\ at[t] = "Idle" /\ out[h] > 0 /\ out' = [out EXCEPT ![h] = @ - 1]
      /\ GoOn(t, "FreeLoad", r) /\ "FreeLoad" \in Places
      /\ UNCHANGED <<firstFree, lastFree, next, pool, owner, sharers>>
      /\ raced' = (raced \/ (f = "first" /\ Popping(h) # {}))
  BY <1>1 DEF FreeSelect, Lists, Locking, Places, LockIndex
<1>3. /\ Setting /\ FreeTypes /\ PushLocks /\ out \in [Handles -> Nat]
      /\ pool \in Nat /\ pool <= MaxHandles /\ MaxHandles \in Nat /\ Handles = 1 .. MaxHandles
  BY ThreadFacts, HandleRange DEF FreeTypes
<1>4. n \in FreeVars
  BY <1>3, FreeVarsFields
<1>5. h \in 0 .. MaxHandles
  BY <1>3
<1>6. r \in FreeVars /\ r.h = h /\ r.free = f
  <2> HIDE DEF n
  <2> QED BY <1>1, <1>4, <1>5 DEF FreeVars
<1> HIDE DEF r
<1>7. OneUse(h) /\ out[h] \in Nat
  BY <1>3 DEF FreeInv
<1>8. out[h] = 1 /\ h <= pool /\ \A u \in Callers : ~User(u, h)
  BY <1>2, <1>7 DEF OneUse
<1>9. /\ out' \in [Handles -> Nat] /\ out'[h] = 0
      /\ \A k \in Handles : k # h => out'[k] = out[k]
  BY <1>2, <1>3, <1>8
<1>10. /\ at' \in [Callers -> Places] /\ var' \in [Callers -> FreeVars]
       /\ at'[t] = "FreeLoad" /\ var'[t] = r /\ Rest(t)
  BY <1>2, <1>3, <1>6, FreeGoto
<1>11. LocksHeld(t)' /\ PutOf(M, S, t)' /\ GuardOf(F, M, S, t)' /\ at'[t] \notin Moving
  BY <1>10 DEF LocksHeld, PutOf, GuardOf, Moving, Growing
<1>12. FreeLocals(t)'
  <2>1. r.h \in 1 .. pool'
    BY <1>2, <1>3, <1>6, <1>8
  <2> QED BY <1>10, <2>1 DEF FreeLocals, Moving
<1>13. /\ PushLocks' /\ owner' \in [Locks -> Callers \cup {NoThread}]
       /\ sharers' \in [Locks -> SUBSET Callers]
  BY <1>2, <1>10, <1>11, SameLocks
<1>14. FreeTypes'
  BY <1>2, <1>3, <1>9, <1>10, <1>13 DEF FreeTypes, Handles
<1>15. \A k \in Handles : ~User(t, k) /\ (User(t, k)' <=> k = h)
  BY <1>2, <1>6, <1>10 DEF User, Frees
<1>16. \A k \in Handles : k # h => OneUse(k)' /\ (Unused(k)' <=> Unused(k))
  BY <1>2, <1>3, <1>9, <1>10, <1>15, UseStep
<1>17. OneUse(h)'
  <2>1. \A u \in Callers : User(u, h)' => u = t
    BY <1>8, <1>10 DEF Rest, User, Frees
  <2> QED BY <1>9, <2>1 DEF OneUse
<1>18. \A k \in Handles : OneUse(k)'
  BY <1>16, <1>17
<1>19. Apart(F, L, M, S) /\ Stack(F, firstFree) /\ Stack(L, lastFree)
  BY DEF FreeInv
<1>20. Apart(F, L, M, S)'
  <2>1. \A k \in F \cup L \cup M \cup S : k \in Handles /\ Unused(k)
    BY <1>3, <1>19 DEF Apart
  <2>2. \A k \in F \cup L \cup M \cup S : k # h
    BY <1>8, <2>1 DEF Unused
  <2>3. \A k \in F \cup L \cup M \cup S : Unused(k)'
    BY <1>16, <2>1, <2>2
  <2> QED BY <1>2, <1>19, <2>3 DEF Apart
<1>21. Stack(F, firstFree)' /\ Stack(L, lastFree)'
  BY <1>2, <1>19 DEF Stack
<1>22. ASSUME NEW u \in Callers, u # t, at[u] \in {"PopNext", "PopCas"}
       PROVE  Kept(F, F, M, S, t, u)
  <2>1. GuardOf(F, M, S, u) /\ LocksHeld(u)
    BY ThreadFacts
  <2>2. Frees(t, var[u].old)' => var'[t].free = "last"
    <3> SUFFICES ASSUME Frees(t, var[u].old)' PROVE f = "last"
      BY <1>6, <1>10
    <3>1. var[u].old = h
      BY <1>6, <1>10, <1>22 DEF Frees, Rest
    <3>2. u \in Popping(h)
      BY <1>22, <3>1 DEF Popping, Old
    <3> QED BY <1>1, <1>2, <3>2
  <2> QED BY <1>2, <1>11, <1>22, <2>1, <2>2 DEF Kept, GuardOf
<1>23. /\ M = M /\ S = S /\ \A k \in M \cup S : next'[k] = next[k]
       /\ pool <= pool'
  BY <1>2, <1>3
<1>24. Change(F, M, S, F, L, M, S, t)
  BY <1>2, <1>10, <1>11, <1>12, <1>13, <1>14, <1>18, <1>20, <1>21, <1>22, <1>23 DEF Change
<1> QED BY <1>24, ListStep

(* The handle is linked to the first one of the list.                       *)
LEMMA FreeLoads ==
    ASSUME NEW F, NEW L, NEW M, NEW S, FreeInv(F, L, M, S), NEW t \in Callers,
           FreeLoad(t)
    PROVE  FreeInv(F, L, M, S)'
<1>1. PICK h, top : h = var[t].h /\ top = Top(var[t].free)
  OBVIOUS
<1> DEFINE r == [var[t] EXCEPT !.old = top]
<1>2. /\ at[t] = "FreeLoad" /\ next' = [next EXCEPT ![h] = top]
      /\ GoOn(t, "FreeCas", r) /\ "FreeCas" \in Places
      /\ UNCHANGED <<firstFree, lastFree, pool, owner, sharers, out>>
  BY <1>1 DEF FreeLoad, Locking, Places
<1>3. /\ Setting /\ FreeTypes /\ PushLocks /\ next \in [Handles -> Link] /\ var[t] \in FreeVars
      /\ firstFree \in 0 .. MaxHandles /\ lastFree \in 0 .. MaxHandles
      /\ pool \in Nat /\ pool <= MaxHandles /\ MaxHandles \in Nat /\ Handles = 1 .. MaxHandles
  BY ThreadFacts, HandleRange DEF FreeTypes
<1>4. top \in 0 .. MaxHandles /\ top \in Link
  BY <1>1, <1>3 DEF Top, Link
<1>5. r \in FreeVars /\ r.h = h /\ r.free = var[t].free /\ r.old = top
  BY <1>1, <1>3, <1>4 DEF FreeVars
<1> HIDE DEF r
<1>6. h \in 1 .. pool /\ h \in Handles /\ ~Unused(h)
  BY <1>1, <1>2, FreedHandle
<1>7. /\ next' \in [Handles -> Link] /\ next'[h] = top
      /\ \A k \in Handles : k # h => next'[k] = next[k]
  BY <1>2, <1>3, <1>4, <1>6
<1>8. /\ at' \in [Callers -> Places] /\ var' \in [Callers -> FreeVars]
      /\ at'[t] = "FreeCas" /\ var'[t] = r /\ Rest(t)
  BY <1>2, <1>3, <1>5, FreeGoto
<1>9. LocksHeld(t)' /\ PutOf(M, S, t)' /\ GuardOf(F, M, S, t)' /\ at'[t] \notin Moving
  BY <1>5, <1>7, <1>8 DEF LocksHeld, PutOf, GuardOf, Moving, Growing
<1>10. FreeLocals(t)'
  BY <1>2, <1>5, <1>6, <1>8 DEF FreeLocals, Moving
<1>11. /\ PushLocks' /\ owner' \in [Locks -> Callers \cup {NoThread}]
       /\ sharers' \in [Locks -> SUBSET Callers]
  BY <1>2, <1>8, <1>9, SameLocks
<1>12. FreeTypes'
  BY <1>2, <1>3, <1>7, <1>8, <1>11 DEF FreeTypes, Handles
<1>13. \A k \in Handles : User(t, k)' <=> User(t, k)
  BY <1>1, <1>2, <1>5, <1>8 DEF User, Frees
<1>14. \A k \in Handles : OneUse(k)' /\ (Unused(k)' <=> Unused(k))
  BY <1>2, <1>3, <1>8, <1>13, UseStep
<1>15. Apart(F, L, M, S) /\ Stack(F, firstFree) /\ Stack(L, lastFree)
  BY DEF FreeInv
<1>16. \A k \in F \cup L \cup M \cup S : k \in Handles /\ Unused(k) /\ next'[k] = next[k]
  <2>1. \A k \in F \cup L \cup M \cup S : k \in Handles /\ Unused(k)
    BY <1>3, <1>15 DEF Apart
  <2> QED BY <1>6, <1>7, <2>1
<1>17. Apart(F, L, M, S)'
  <2>1. \A k \in F \cup L \cup M \cup S : Unused(k)'
    BY <1>14, <1>16
  <2> QED BY <1>2, <1>15, <2>1 DEF Apart
<1>18. Stack(F, firstFree)' /\ Stack(L, lastFree)'
  BY <1>2, <1>15, <1>16 DEF Stack
<1>19. ASSUME NEW u \in Callers, u # t, at[u] \in {"PopNext", "PopCas"}
       PROVE  Kept(F, F, M, S, t, u)
  <2>1. GuardOf(F, M, S, u)
    BY ThreadFacts
  <2>2. Frees(t, var[u].old)' => var'[t].free = "last"
    <3> SUFFICES ASSUME Frees(t, var[u].old)' PROVE var[t].free = "last"
      BY <1>5, <1>8
    <3>1. Frees(t, var[u].old)
      BY <1>1, <1>2, <1>5, <1>8, <1>19 DEF Frees, Rest
    <3> QED BY <1>19, <2>1, <3>1 DEF GuardOf
  <2> QED BY <1>9, <1>16, <1>19, <2>1, <2>2 DEF Kept, GuardOf
<1>20. ASSUME NEW u \in Callers, u # t, at[u] = "FreeCas"
       PROVE  next'[var[u].h] = next[var[u].h]
  <2>1. var[u].h \in Handles
    BY <1>20, FreedHandle
  <2>2. OneUse(h)
    BY <1>6 DEF FreeInv
  <2>3. User(t, h) /\ (var[u].h = h => User(u, h))
    BY <1>1, <1>2, <1>20 DEF User, Frees
  <2>4. var[u].h # h
    BY <1>20, <2>2, <2>3 DEF OneUse
  <2> QED BY <1>7, <2>1, <2>4
<1>21. /\ M = M /\ S = S /\ \A k \in M \cup S : next'[k] = next[k]
       /\ pool <= pool'
  BY <1>2, <1>3, <1>16
<1>22. Change(F, M, S, F, L, M, S, t)
  BY <1>8, <1>9, <1>10, <1>11, <1>12, <1>14, <1>17, <1>18, <1>19, <1>20, <1>21 DEF Change
<1> QED BY <1>22, ListStep

(* A handle is put before a list.                                           *)
LEMMA StackPush ==
    ASSUME NEW X, NEW top, NEW h, Stack(X, top), h \notin X, h # 0, next[h] = top
    PROVE  Stack(X \cup {h}, h)
<1>1. \A x \in X : next[x] = 0 \/ (next[x] \in X /\ next[x] # top)
  BY DEF Stack
<1>2. \A x, y \in X : next[x] = next[y] /\ next[x] # 0 => x = y
  BY DEF Stack
<1>3. top = 0 \/ top \in X
  BY DEF Stack
<1>4. \A x \in X \cup {h} : next[x] = 0 \/ (next[x] \in X \cup {h} /\ next[x] # h)
  BY <1>1, <1>3
<1>5. \A x, y \in X \cup {h} : next[x] = next[y] /\ next[x] # 0 => x = y
  BY <1>1, <1>2
<1> QED BY <1>4, <1>5 DEF Stack

(* The handle is free.                                                      *)
LEMMA FreeCasSucceeds ==
    ASSUME NEW F, NEW L, NEW M, NEW S, FreeInv(F, L, M, S), NEW t \in Callers,
           FreeCas(t), Top(var[t].free) = var[t].old
    PROVE  \E G, K : FreeInv(G, K, M, S)'
<1>1. PICK h, top : h = var[t].h /\ top = Top(var[t].free)
  OBVIOUS
<1>2. /\ at[t] = "FreeCas"
      /\ GoOn(t, "Idle", NoVars) /\ "Idle" \in Places
      /\ firstFree' = IF var[t].free = "first" THEN h ELSE firstFree
      /\ lastFree' = IF var[t].free = "last" THEN h ELSE lastFree
      /\ UNCHANGED <<next, pool, owner, sharers, out>>
  BY <1>1 DEF FreeCas, Old, Locking, Places
<1>3. /\ Setting /\ FreeTypes /\ PushLocks /\ var[t].free \in {"first", "last"} /\ PutOf(M, S, t)
      /\ firstFree \in 0 .. MaxHandles /\ lastFree \in 0 .. MaxHandles
      /\ pool \in Nat /\ pool <= MaxHandles /\ MaxHandles \in Nat /\ Handles = 1 .. MaxHandles
  BY ThreadFacts, HandleRange DEF FreeTypes
<1>4. h \in 1 .. pool /\ h \in Handles /\ ~Unused(h)
  BY <1>1, <1>2, FreedHandle
<1>5. h # 0 /\ h \in 0 .. MaxHandles
  BY <1>3, <1>4
<1>6. next[h] = top
  BY <1>1, <1>2, <1>3 DEF PutOf
<1>7. Apart(F, L, M, S) /\ Stack(F, firstFree) /\ Stack(L, lastFree) /\ OneUse(h)
  BY <1>4 DEF FreeInv
<1>8. PICK G, K : /\ G = IF var[t].free = "first" THEN F \cup {h} ELSE F
                  /\ K = IF var[t].free = "last" THEN L \cup {h} ELSE L
  OBVIOUS
<1>9. \A k \in F \cup L \cup M \cup S : k \in Handles /\ Unused(k) /\ k # h
  <2>1. \A k \in F \cup L \cup M \cup S : k \in Handles /\ Unused(k)
    BY <1>3, <1>7 DEF Apart
  <2> QED BY <1>4, <2>1
<1>10. /\ at' \in [Callers -> Places] /\ var' \in [Callers -> FreeVars]
       /\ at'[t] = "Idle" /\ Rest(t)
  BY <1>2, <1>3, FreeVarsFields, FreeGoto
<1>11. /\ FreeLocals(t)' /\ LocksHeld(t)' /\ PutOf(M, S, t)' /\ GuardOf(G, M, S, t)'
       /\ at'[t] \notin Moving
  BY <1>10 DEF FreeLocals, LocksHeld, PutOf, GuardOf, Moving, Growing
<1>12. /\ PushLocks' /\ owner' \in [Locks -> Callers \cup {NoThread}]
       /\ sharers' \in [Locks -> SUBSET Callers]
  BY <1>2, <1>10, <1>11, SameLocks
<1>13. FreeTypes'
  <2>1. firstFree' \in 0 .. MaxHandles /\ lastFree' \in 0 .. MaxHandles
    BY <1>2, <1>3, <1>5
  <2> QED BY <1>2, <1>3, <1>10, <1>12, <2>1 DEF FreeTypes, Handles
<1>14. \A k \in Handles : ~User(t, k)' /\ (k # h => ~User(t, k))
  BY <1>1, <1>2, <1>10 DEF User, Frees
<1>15. \A k \in Handles : k # h => OneUse(k)' /\ (Unused(k)' <=> Unused(k))
  BY <1>2, <1>3, <1>10, <1>14, UseStep
<1>16. OneUse(h)' /\ Unused(h)'
  <2>1. User(t, h)
    BY <1>1, <1>2 DEF User, Frees
  <2>2. out[h] = 0 /\ \A u \in Callers : User(u, h) => u = t
    BY <1>7, <2>1 DEF OneUse
  <2>3. \A u \in Callers : ~User(u, h)'
    BY <1>4, <1>10, <1>14, <2>2 DEF Rest, User, Frees
  <2> QED BY <1>2, <2>2, <2>3 DEF OneUse, Unused
<1>17. \A k \in Handles : OneUse(k)'
  BY <1>15, <1>16
<1>18. Apart(G, K, M, S)'
  <2>1. G \cup K \cup M \cup S \subseteq F \cup L \cup M \cup S \cup {h}
    BY <1>8
  <2>2. \A k \in G \cup K \cup M \cup S : Unused(k)'
    BY <1>9, <1>15, <1>16, <2>1
  <2>3. G \cup K \cup M \cup S \subseteq 1 .. pool'
    BY <1>2, <1>4, <1>7, <2>1 DEF Apart
  <2>4. /\ G \cap K = {} /\ G \cap M = {} /\ G \cap S = {}
        /\ K \cap M = {} /\ K \cap S = {} /\ M \cap S = {}
    BY <1>3, <1>7, <1>8, <1>9 DEF Apart
  <2> QED BY <2>2, <2>3, <2>4 DEF Apart
<1>19. Stack(G, firstFree)' /\ Stack(K, lastFree)'
  <2>1. CASE var[t].free = "first"
    <3>1. top = firstFree /\ firstFree' = h /\ lastFree' = lastFree /\ G = F \cup {h} /\ K = L
      BY <1>1, <1>2, <1>8, <2>1 DEF Top
    <3>2. h \notin F /\ Stack(F, top)
      BY <1>7, <1>9, <3>1
    <3>3. Stack(G, h)
      BY <1>5, <1>6, <3>1, <3>2, StackPush
    <3> QED BY <1>2, <1>7, <3>1, <3>3 DEF Stack
  <2>2. CASE var[t].free = "last"
    <3>1. top = lastFree /\ lastFree' = h /\ firstFree' = firstFree /\ K = L \cup {h} /\ G = F
      BY <1>1, <1>2, <1>8, <2>2 DEF Top
    <3>2. h \notin L /\ Stack(L, top)
      BY <1>7, <1>9, <3>1
    <3>3. Stack(K, h)
      BY <1>5, <1>6, <3>1, <3>2, StackPush
    <3> QED BY <1>2, <1>7, <3>1, <3>3 DEF Stack
  <2> QED BY <1>3, <2>1, <2>2
<1>20. ASSUME NEW u \in Callers, u # t, at[u] \in {"PopNext", "PopCas"}
       PROVE  Kept(F, G, M, S, t, u)
  <2>1. GuardOf(F, M, S, u)
    BY ThreadFacts
  <2>2. ~Frees(t, var[u].old)'
    BY <1>10 DEF Frees
  <2>3. var[u].old \in G => var[u].old \in F
    <3> SUFFICES ASSUME var[u].old = h, var[t].free = "first" PROVE FALSE
      BY <1>8
    <3>1. Frees(t, var[u].old)
      BY <1>1, <1>2 DEF Frees
    <3> QED BY <1>20, <2>1, <3>1 DEF GuardOf
  <2> QED BY <1>2, <1>11, <1>20, <2>1, <2>2, <2>3 DEF Kept, GuardOf
<1>21. /\ M = M /\ S = S /\ \A k \in M \cup S : next'[k] = next[k]
       /\ pool <= pool'
  BY <1>2, <1>3
<1>22. Change(F, M, S, G, K, M, S, t)
  BY <1>2, <1>10, <1>11, <1>12, <1>13, <1>17, <1>18, <1>19, <1>20, <1>21 DEF Change
<1> QED BY <1>22, ListStep

-----------------------------------------------------------------------------
(* One thread of Next.                                                      *)
LEMMA ThreadStep ==
    ASSUME NEW F, NEW L, NEW M, NEW S, FreeInv(F, L, M, S), NEW t \in Callers,
           Pop(t) \/ Grow(t) \/ Push(t), ~raced'
    PROVE  \E G, K, N, R : FreeInv(G, K, N, R)'
<1>1. CASE AllocateLoad(t) \/ SlowReload(t)
  BY <1>1, AllocateLoads
<1>2. CASE PopLock(t)
  BY <1>2, PopLockFree
<1>3. CASE PopCheck(t)
  BY <1>3, PopCheckFree
<1>4. CASE PopNext(t)
  BY <1>4, PopNextFree
<1>5. CASE PopCas(t)
  BY <1>5, PopCasFails, PopCasSucceeds
<1>6. CASE PopUnlock(t)
  BY <1>6, PopUnlockFree
<1>7. CASE WriteHandle(t)
  BY <1>7, WriteFree
<1>8. CASE GrowLock(t)
  BY <1>8, GrowLockFree
<1>9. CASE GrowCheck(t)
  BY <1>9, GrowCheckFree
<1>10. CASE GrowUnlock(t) \/ SlowUnlock(t)
  BY <1>10, GrowUnlocks
<1>11. CASE MoveTake(t)
  BY <1>11, MoveTakeNone, MoveTakeSome
<1>12. CASE MoveWait(t) \/ MoveLock(t) \/ MoveUnlock(t)
  BY <1>12, MoveLocks
<1>13. CASE MoveCas(t)
  BY <1>13, GrowOn, MoveCasSucceeds
<1>14. CASE MoveReverse(t)
  BY <1>14, GrowOn
<1>15. CASE SlowAllocate(t)
  <2>1. \/ /\ pool + PerTable <= MaxHandles /\ pool' = pool + PerTable
           /\ next' = Linked(pool + 1, pool + PerTable)
           /\ GoOn(t, "SlowLoad", [var[t] EXCEPT !.i = pool + 1, !.ok = TRUE])
        \/ /\ pool' = pool /\ next' = next
           /\ GoOn(t, "SlowUnlock", var[t])
    BY <1>15 DEF SlowAllocate, StepTo
  <2> QED BY <1>15, <2>1, GrowOn, SlowGrows
<1>16. CASE SlowLoad(t)
  BY <1>16, SlowLoadFree
<1>17. CASE SlowCas(t)
  BY <1>17, PushAgain, SlowCasSucceeds
<1>18. CASE \E h \in Handles : FreeSelect(t, h)
  BY <1>18, FreeSelects DEF Handles
<1>19. CASE FreeLoad(t)
  BY <1>19, FreeLoads
<1>20. CASE FreeCas(t)
  BY <1>20, PushAgain, FreeCasSucceeds
<1> QED BY <1>1, <1>2, <1>3, <1>4, <1>5, <1>6, <1>7, <1>8, <1>9, <1>10, <1>11, <1>12, <1>13,
           <1>14, <1>15, <1>16, <1>17, <1>18, <1>19, <1>20
        DEF Pop, Grow, Push

(* A step that changes nothing.                                             *)
LEMMA FreeStutter ==
    ASSUME NEW F, NEW L, NEW M, NEW S, FreeInv(F, L, M, S), UNCHANGED freeListVars
    PROVE  FreeInv(F, L, M, S)'
  BY DEF freeListVars, FreeInv, Setting, FreeTypes, PushLocks, LocksHeld, FreeLocals, OneUse,
         Apart, Unused, User, Frees, Stack, Row, PutOf, GuardOf, Handles, LockIndex

(* In the beginning one low level table is free.                            *)
LEMMA FreeStart ==
    ASSUME Setting, FreeListInit
    PROVE  FreeInv(1 .. PerTable, {}, {}, {})
<1>0. Handles = 1 .. MaxHandles /\ Locks = 0 .. LockCount - 1
  BY HandleRange
<1>1. /\ Handles = 1 .. MaxHandles /\ Locks = 0 .. LockCount - 1
      /\ PerTable \in Nat /\ 1 <= PerTable /\ PerTable <= MaxHandles /\ MaxHandles \in Nat
  BY <1>0 DEF Setting
<1>2. /\ firstFree = 1 /\ lastFree = 0 /\ pool = PerTable
      /\ next = [h \in Handles |-> IF h < PerTable THEN h + 1 ELSE 0]
      /\ owner = [i \in Locks |-> NoThread]
      /\ sharers = [i \in Locks |-> {}]
      /\ at = [t \in Callers |-> "Idle"]
      /\ var = [t \in Callers |-> NoVars]
      /\ out = [h \in Handles |-> 0]
  BY DEF FreeListInit, Handles
<1>3. \A h \in Handles : next[h] = 0 \/ next[h] \in 0 .. MaxHandles
  BY <1>1, <1>2
<1>4. FreeTypes
  <2>1. next \in [Handles -> Link]
    <3>1. \A h \in Handles : next[h] \in Link
      BY <1>1, <1>3 DEF Link
    <3> QED BY <1>2, <3>1
  <2>2. NoVars \in FreeVars
    BY FreeVarsFields
  <2>3. "Idle" \in Places
    BY DEF Places
  <2>4. firstFree \in 0 .. MaxHandles /\ lastFree \in 0 .. MaxHandles /\ pool \in 0 .. MaxHandles
    BY <1>1, <1>2
  <2> QED BY <1>2, <2>1, <2>2, <2>3, <2>4 DEF FreeTypes
<1>5. \A t \in Callers : at[t] = "Idle"
  BY <1>2
<1>6. PushLocks
  BY <1>2, <1>5 DEF PushLocks, LocksHeld, Growing, Moving
<1>7. \A t \in Callers : FreeLocals(t) /\ PutOf({}, {}, t) /\ GuardOf(1 .. PerTable, {}, {}, t)
  BY <1>5 DEF FreeLocals, PutOf, GuardOf, Moving
<1>8. \A t \in Callers, h \in Handles : ~User(t, h)
  BY <1>5 DEF User, Frees
<1>9. \A h \in Handles : OneUse(h) /\ Unused(h)
  BY <1>2, <1>8 DEF OneUse, Unused
<1>10. PICK X : X = 1 .. PerTable
  OBVIOUS
<1>11. \A h \in X : h \in Handles
  BY <1>1, <1>10
<1>12. Apart(X, {}, {}, {})
  BY <1>2, <1>9, <1>10, <1>11 DEF Apart
<1>13. Stack(X, firstFree) /\ Stack({}, lastFree)
  <2>1. \A x \in X : next[x] = IF x < PerTable THEN x + 1 ELSE 0
    BY <1>2, <1>11
  <2>2. \A x \in X : x < PerTable => x + 1 \in X /\ x + 1 # 1
    BY <1>1, <1>10
  <2>3. \A x, y \in X : x + 1 = y + 1 => x = y
    BY <1>1, <1>10
  <2>4. 1 \in X
    BY <1>1, <1>10
  <2>5. \A x \in X : next[x] = 0 \/ (next[x] \in X /\ next[x] # 1)
    BY <2>1, <2>2
  <2>6. \A x, y \in X : next[x] = next[y] /\ next[x] # 0 => x = y
    BY <2>1, <2>3
  <2> QED BY <1>2, <2>4, <2>5, <2>6 DEF Stack
<1> QED BY <1>4, <1>6, <1>7, <1>9, <1>10, <1>12, <1>13 DEF FreeInv

(* What the invariant says of the properties.                               *)
LEMMA FreeProperties == FreeIInv => OneUserUnlessRaced /\ InRangeUnlessRaced
<1> SUFFICES ASSUME FreeIInv, ~raced PROVE OneUserUnlessRaced /\ InRangeUnlessRaced
  BY DEF OneUserUnlessRaced, InRangeUnlessRaced
<1>1. PICK F, L, M, S : FreeInv(F, L, M, S)
  BY DEF FreeIInv
<1>2. /\ Setting /\ FreeTypes /\ \A t \in Callers : FreeLocals(t)
      /\ \A h \in Handles : OneUse(h)
  BY <1>1 DEF FreeInv, Handles
<1>3. NewHandleInRange
  BY <1>2 DEF NewHandleInRange, FreeLocals
<1>4. FreeListTypeOK
  BY <1>2 DEF FreeTypes, FreeVars, FreeListTypeOK, Handles
<1>5. ASSUME NEW h \in Handles
      PROVE  out[h] + Cardinality(Taking(h)) + Cardinality(Freeing(h)) <= 1
  <2>1. OneUse(h)
    BY <1>2, <1>5
  <2>2. Cardinality({}) = 0 /\ \A t : Cardinality({t}) = 1
    BY FS_EmptySet, FS_Singleton
  <2>3. CASE \A t \in Callers : ~User(t, h)
    <3>1. Taking(h) = {} /\ Freeing(h) = {}
      BY <2>3 DEF Taking, Freeing, Old, User, Frees
    <3>2. out[h] \in {0, 1}
      BY <2>1 DEF OneUse
    <3> QED BY <2>2, <3>1, <3>2
  <2>4. CASE ~(\A t \in Callers : ~User(t, h))
    <3>1. PICK t \in Callers : User(t, h)
      BY <2>4
    <3>2. out[h] = 0 /\ \A u \in Callers : User(u, h) => u = t
      BY <2>1, <3>1 DEF OneUse
    <3>3. CASE Frees(t, h)
      <4>1. Taking(h) = {} /\ Freeing(h) = {t}
        BY <3>2, <3>3 DEF Taking, Freeing, Old, User, Frees
      <4>2. Cardinality(Taking(h)) = 0 /\ Cardinality(Freeing(h)) = 1
        BY <2>2, <4>1
      <4> QED BY <3>2, <4>2
    <3>4. CASE ~Frees(t, h)
      <4>1. Taking(h) = {t} /\ Freeing(h) = {}
        BY <3>1, <3>2, <3>4 DEF Taking, Freeing, Old, User, Frees
      <4>2. Cardinality(Taking(h)) = 1 /\ Cardinality(Freeing(h)) = 0
        BY <2>2, <4>1
      <4> QED BY <3>2, <4>2
    <3> QED BY <3>3, <3>4
  <2> QED BY <2>3, <2>4
<1> QED BY <1>3, <1>4, <1>5 DEF OneUserUnlessRaced, InRangeUnlessRaced

(* A race is not forgotten.                                                 *)
LEMMA RaceStays ==
    ASSUME raced, [FreeListNext]_freeListVars
    PROVE  raced'
<1>1. CASE UNCHANGED freeListVars
  BY <1>1 DEF freeListVars
<1>2. ASSUME NEW t \in Callers, Pop(t) PROVE raced'
  BY <1>2 DEF Pop, AllocateLoad, PopLock, PopCheck, PopNext, PopCas, PopUnlock, WriteHandle
<1>3. ASSUME NEW t \in Callers, Grow(t) PROVE raced'
  BY <1>3 DEF Grow, GrowLock, GrowCheck, GrowUnlock, MoveTake, MoveWait, MoveLock, MoveUnlock,
              MoveCas, MoveReverse, SlowAllocate, SlowLoad, SlowCas, SlowUnlock, SlowReload
<1>4. ASSUME NEW t \in Callers, Push(t) PROVE raced'
  BY <1>4 DEF Push, FreeSelect, FreeLoad, FreeCas
<1> QED BY <1>1, <1>2, <1>3, <1>4 DEF FreeListNext

(* The invariant of the free lists holds until a handle is freed to the     *)
(* first list while another thread pops it.                                 *)
THEOREM FreeInvariance == FreeListSpec => []FreeIInv
<1>1. FreeListInit => FreeIInv
  <2>1. Setting
    BY FreeListAssumption DEF Setting
  <2> QED BY <2>1, FreeStart DEF FreeIInv
<1>2. FreeIInv /\ [FreeListNext]_freeListVars => FreeIInv'
  <2> SUFFICES ASSUME FreeIInv, [FreeListNext]_freeListVars, ~raced' PROVE FreeIInv'
    BY DEF FreeIInv
  <2>1. PICK F, L, M, S : FreeInv(F, L, M, S)
    BY RaceStays DEF FreeIInv
  <2>2. \E G, K, N, R : FreeInv(G, K, N, R)'
    <3>1. CASE UNCHANGED freeListVars
      BY <2>1, <3>1, FreeStutter
    <3>2. CASE FreeListNext
      <4>1. PICK t \in Callers : Pop(t) \/ Grow(t) \/ Push(t)
        BY <3>2 DEF FreeListNext
      <4> QED BY <2>1, <4>1, ThreadStep
    <3> QED BY <3>1, <3>2
  <2> QED BY <2>2 DEF FreeIInv
<1> QED BY <1>1, <1>2, PTL DEF FreeListSpec

(* A handle has one user: allocation never hands out a handle that is in    *)
(* use, that another thread has just taken or that is being freed (handle.c *)
(* 282, 711, 749), until a handle is freed to the first list while another  *)
(* thread is between its check of that handle and its compare-exchange      *)
(* (handle.c 304, 758, 767); for every number of threads, handles and locks.*)
THEOREM HandleHasOneUser == FreeListSpec => []OneUserUnlessRaced
  BY FreeInvariance, FreeProperties, PTL

(* The handle that becomes the first free one is one, or none (handle.c     *)
(* 778), until that race: it is the only way to break the assertion.        *)
THEOREM HandleInRange == FreeListSpec => []InRangeUnlessRaced
  BY FreeInvariance, FreeProperties, PTL
=============================================================================
