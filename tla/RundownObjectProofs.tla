------------------------ MODULE RundownObjectProofs ------------------------
(***************************************************************************)
(* Proofs about cache-aware run-down protection: the words of the          *)
(* processors, what the waiter collects and what its block holds make up   *)
(* the references; how a wait ends with the test of rundown.c 492; and the *)
(* memory of the object.                                                   *)
(***************************************************************************)
EXTENDS RundownObject, DataTheorems

USE NumberAssumption, CARefsAssumption

-----------------------------------------------------------------------------
(* A word that is exchanged counts nothing. *)
Words == \A i \in Slots : ref[i].is # "count" => ref[i].n = 0

(* Which words are closed to new references. *)
Closed ==
    /\ wpc = "Idle" => \/ \A i \in Slots : ref[i].is = "count"
                       \/ out = {} /\ \A i \in Slots : ref[i].is = "active"
    /\ wpc = "Collect" => \A i \in Slots : i < current => ref[i].is # "count"
    /\ wpc \in {"Add", "Wait", "Returned", "Complete"} => \A i \in Slots : ref[i].is # "count"
    /\ wpc = "Complete" => \A i \in Slots : i < current => ref[i].is = "active"
    /\ wpc = "ReInit" => \A i \in Slots : /\ i < current => ref[i].is = "count"
                                          /\ ref[i].n = 0

(* The releases that found the block: each gives back references that are   *)
(* out, and no other one gives them back.                                   *)
Ops ==
    /\ \A t \in Threads : /\ op[t] \subseteq out
                          /\ pc[t] = "RelBlock" <=> op[t] # {}
    /\ \A t, u \in Threads : t # u => op[t] \cap op[u] = {}
    /\ wpc \in {"Idle", "Complete", "ReInit"} => \A t \in Threads : pc[t] = "Idle"

(* Every reference is counted once. *)
Balance ==
    /\ wpc = "Idle" => SumOfCounts = Cardinality(out)
    /\ wpc \in {"Collect", "Add"} => SumOfCounts + total + block.count = Cardinality(out)
    /\ wpc \in {"Complete", "ReInit"} => out = {}

(* Who sets the event, and when. *)
Signals ==
    /\ wpc \in {"Collect", "Add"} => block.event = "uninit" /\ block.count <= 0
    /\ wpc = "Wait" => block.event = "clear"
    /\ \A t \in Threads : pc[t] = "RelSignal" => wpc = "Returned" /\ block.event = "clear"

(* How a wait ends. *)
Ends ==
    /\ wpc = "Wait" => out = {}
    /\ wpc = "Returned" => IF total = 0 THEN out = {} ELSE block.event = "clear"

UseInv == TypeOK /\ Words /\ Closed /\ Ops /\ Balance /\ Signals /\ Ends

(* The counts of the words, and the sum of them. *)
Counts == [i \in Slots |-> ref[i].n]

(* The words are finitely many, and every processor has one of them.        *)
LEMMA SlotFacts ==
    /\ IsFiniteSet(Slots) /\ Slots \subseteq Nat /\ 0 \in Slots
    /\ \A p \in CPUs : Slot(p) \in Slots
<1>1. IsFiniteSet(Slots)
  BY FS_Interval DEF Slots
<1> QED BY <1>1 DEF Slots, Slot

(* The references taken out at any time are finitely many.                  *)
LEMMA RefsFinite ==
    ASSUME NEW R \in SUBSET Refs
    PROVE  /\ IsFiniteSet(R) /\ Cardinality(R) \in Nat
           /\ Cardinality(R) = 0 <=> R = {}
           /\ \A S \in SUBSET Refs :
                /\ S \subseteq R => Cardinality(R \ S) = Cardinality(R) - Cardinality(S)
                /\ S \cap R = {} => Cardinality(R \cup S) = Cardinality(R) + Cardinality(S)
<1>1. \A S \in SUBSET Refs : IsFiniteSet(S) /\ Cardinality(S) \in Nat
  BY FS_Subset, FS_CardinalityType
<1>2. Cardinality(R) = 0 <=> R = {}
  BY <1>1, FS_EmptySet
<1>3. ASSUME NEW S \in SUBSET Refs, S \cap R = {}
      PROVE  Cardinality(R \cup S) = Cardinality(R) + Cardinality(S)
  <2>1. /\ Cardinality(R \cup S) = Cardinality(R) + Cardinality(S) - Cardinality(R \cap S)
    BY <1>1, FS_Union
  <2>2. Cardinality(R \cap S) = 0
    BY <1>3, FS_EmptySet
  <2> QED BY <2>1, <2>2, <1>1
<1>4. ASSUME NEW S \in SUBSET Refs, S \subseteq R
      PROVE  Cardinality(R \ S) = Cardinality(R) - Cardinality(S)
  <2>1. Cardinality(R \ S) = Cardinality(R) - Cardinality(R \cap S)
    BY <1>1, FS_Difference
  <2>2. R \cap S = S
    BY <1>4
  <2> QED BY <2>1, <2>2
<1> QED BY <1>1, <1>2, <1>3, <1>4

(* How the sum follows the words.                                           *)
LEMMA SumFacts ==
    ASSUME TypeOK
    PROVE  /\ SumOfCounts \in Int
           /\ (\A i \in Slots : ref[i].n = 0) => SumOfCounts = 0
           /\ UNCHANGED ref => SumOfCounts' = SumOfCounts
           /\ \A x \in Slots :
                /\ ref' \in [Slots -> Word]
                /\ \A i \in Slots \ {x} : ref'[i] = ref[i]
                => SumOfCounts' = SumOfCounts - ref[x].n + ref'[x].n
<1>1. IsFiniteSet(Slots) /\ SumOfCounts = SumFunctionOnSet(Counts, Slots)
  BY SlotFacts DEF SumOfCounts, Counts
<1>2. \A i \in Slots : Counts[i] = ref[i].n /\ ref[i].n \in Int
  BY DEF Counts, TypeOK, Word
<1>3. SumOfCounts \in Int
  BY <1>1, <1>2, SumType
<1>4. (\A i \in Slots : ref[i].n = 0) => SumOfCounts = 0
  BY <1>1, <1>2, SumZero
<1>5. ASSUME NEW x \in Slots, ref' \in [Slots -> Word],
             \A i \in Slots \ {x} : ref'[i] = ref[i]
      PROVE  SumOfCounts' = SumOfCounts - ref[x].n + ref'[x].n
  <2>1. \A i \in Slots : Counts'[i] = ref'[i].n /\ ref'[i].n \in Int
    BY <1>5 DEF Counts, Word
  <2>2. SumOfCounts' = SumFunctionOnSet(Counts', Slots)
    BY DEF SumOfCounts, Counts
  <2>3. \A i \in Slots \ {x} : Counts'[i] = Counts[i]
    BY <2>1, <1>2, <1>5
  <2>4. \A i \in Slots : Counts[i] \in Int /\ Counts'[i] \in Int
    BY <2>1, <1>2
  <2>5. SumFunctionOnSet(Counts', Slots) = SumFunctionOnSet(Counts, Slots) - Counts[x] + Counts'[x]
    BY <1>1, <2>3, <2>4, SumChange
  <2> QED BY <2>1, <2>2, <2>5, <1>1, <1>2
<1>6. UNCHANGED ref => SumOfCounts' = SumOfCounts
  BY DEF SumOfCounts
<1> QED BY <1>3, <1>4, <1>5, <1>6

-----------------------------------------------------------------------------
(* The initial state has the invariant of use.                              *)
LEMMA UseInit == Init => UseInv
<1> SUFFICES ASSUME Init PROVE UseInv
  OBVIOUS
<1>1. TypeOK
  BY SlotFacts DEF Init, TypeOK, Count, Word
<1>2. Words /\ Closed /\ Ops /\ Signals /\ Ends
  BY DEF Init, Words, Closed, Ops, Signals, Ends, Count
<1>3. SumOfCounts = 0
  BY <1>1, SumFacts DEF Init, Count
<1>4. Balance
  BY <1>3, FS_EmptySet DEF Init, Balance
<1> QED BY <1>1, <1>2, <1>4 DEF UseInv

(* A reference is taken or given back on a word that holds a count.         *)
LEMMA CallSteps ==
    ASSUME UseInv, NEW t \in Threads, NEW p \in CPUs, NEW S \in SUBSET Refs,
           AcquireCacheAware(t, p, S) \/ ReleaseCacheAware(t, p, S)
    PROVE  UseInv'
<1> DEFINE x == Slot(p)
<1>0. /\ x \in Slots /\ ref[x] \in Word /\ ref \in [Slots -> Word] /\ out \in SUBSET Refs
      /\ IsFiniteSet(S) /\ Cardinality(S) \in Nat /\ Cardinality(out) \in Nat
      /\ TypeOK /\ ref[x].n \in Int /\ S # {}
  BY SlotFacts, RefsFinite DEF UseInv, TypeOK, Word, AcquireCacheAware, ReleaseCacheAware
<1>1. PICK d \in Int :
        /\ ref' = [ref EXCEPT ![x].n = ref[x].n + d] /\ ref[x].is = "count"
        /\ Cardinality(out') = Cardinality(out) + d /\ out' \in SUBSET Refs
        /\ \A u \in Threads : op[u] \subseteq out'
        /\ UNCHANGED <<block, wpc, current, total, pc, op>>
        /\ out = {} => wpc # "ReInit"
  <2>1. CASE AcquireCacheAware(t, p, S)
    <3>1. /\ ref' = [ref EXCEPT ![x].n = ref[x].n + Cardinality(S)] /\ ref[x].is = "count"
          /\ out' = out \cup S /\ S \cap out = {} /\ wpc # "ReInit"
          /\ UNCHANGED <<block, wpc, current, total, pc, op>>
      BY <2>1, <1>0 DEF AcquireCacheAware, Waiter
    <3>2. Cardinality(out') = Cardinality(out) + Cardinality(S)
      BY <3>1, <1>0, RefsFinite
    <3>3. \A u \in Threads : op[u] \subseteq out'
      BY <3>1 DEF UseInv, Ops
    <3>4. out' \in SUBSET Refs /\ Cardinality(S) \in Int
      BY <3>1, <1>0
    <3> QED BY <3>1, <3>2, <3>3, <3>4
  <2>2. CASE ReleaseCacheAware(t, p, S)
    <3>1. /\ ref' = [ref EXCEPT ![x].n = ref[x].n - Cardinality(S)] /\ ref[x].is = "count"
          /\ out' = out \ S /\ S \subseteq out /\ Unclaimed(S)
          /\ UNCHANGED <<block, wpc, current, total, pc, op>>
      BY <2>2, <1>0 DEF ReleaseCacheAware, Waiter
    <3>2. Cardinality(out') = Cardinality(out) + (-Cardinality(S))
      <4>1. Cardinality(out') = Cardinality(out) - Cardinality(S)
        BY <3>1, <1>0, RefsFinite
      <4> QED BY <4>1, <1>0
    <3>3. \A u \in Threads : op[u] \subseteq out'
      BY <3>1 DEF UseInv, Ops, Unclaimed
    <3>4. ref[x].n - Cardinality(S) = ref[x].n + (-Cardinality(S)) /\ -Cardinality(S) \in Int
      BY <1>0
    <3>5. out # {}
      BY <3>1, <1>0
    <3> QED BY <3>1, <3>2, <3>3, <3>4, <3>5, <1>0
  <2> QED BY <2>1, <2>2
<1> HIDE DEF x
<1>2. /\ ref' \in [Slots -> Word] /\ ref'[x].is = "count" /\ ref'[x].n = ref[x].n + d
      /\ \A i \in Slots \ {x} : ref'[i] = ref[i]
      /\ \A i \in Slots : ref'[i].is = ref[i].is
  BY <1>0, <1>1 DEF Word
<1>3. TypeOK'
  BY <1>1, <1>2 DEF UseInv, TypeOK
<1>4. Words'
  BY <1>2 DEF UseInv, Words
<1>5. wpc \notin {"Add", "Wait", "Returned", "Complete"} /\ (wpc = "Idle" => \A i \in Slots : ref[i].is = "count")
  BY <1>0, <1>1 DEF UseInv, Closed
<1>6. wpc # "ReInit"
  BY <1>1, <1>0 DEF UseInv, Balance
<1>7. Closed'
  BY <1>1, <1>2, <1>5, <1>6 DEF UseInv, Closed
<1>8. Ops'
  BY <1>1 DEF UseInv, Ops
<1>9. Balance'
  <2>1. SumOfCounts \in Int /\ SumOfCounts' = SumOfCounts - ref[x].n + ref'[x].n
    BY <1>0, <1>2, SumFacts
  <2>2. SumOfCounts' = SumOfCounts + d
    BY <2>1, <1>0, <1>2
  <2>3. total \in Int /\ block.count \in Int
    BY <1>0 DEF TypeOK
  <2> QED BY <2>1, <2>2, <2>3, <1>0, <1>1, <1>5, <1>6 DEF UseInv, Balance
<1>10. Signals' /\ Ends'
  BY <1>1, <1>5 DEF UseInv, Signals, Ends
<1> QED BY <1>3, <1>4, <1>7, <1>8, <1>9, <1>10 DEF UseInv

(* A release finds the block, counts down, and sets the event.              *)
LEMMA FindsBlockStep ==
    ASSUME UseInv, NEW t \in Threads, NEW p \in CPUs, NEW S \in SUBSET Refs,
           ReleaseFindsBlock(t, p, S)
    PROVE  UseInv'
<1>0. Slot(p) \in Slots /\ ref[Slot(p)].is = "block" /\ S \subseteq out /\ S # {} /\ Unclaimed(S)
  BY SlotFacts DEF ReleaseFindsBlock
<1>1. UNCHANGED <<ref, block, wpc, current, total, out>>
  BY DEF ReleaseFindsBlock, Waiter
<1>2. wpc \notin {"Idle", "Complete", "ReInit"}
  BY <1>0 DEF UseInv, Closed, Balance
<1>3. /\ pc[t] = "Idle" /\ pc'[t] = "RelBlock" /\ op'[t] = S
      /\ \A u \in Threads : u # t => pc'[u] = pc[u] /\ op'[u] = op[u]
      /\ pc' \in [Threads -> {"Idle", "RelBlock", "RelSignal"}]
      /\ op' \in [Threads -> SUBSET Refs]
  BY DEF ReleaseFindsBlock, UseInv, TypeOK
<1>4. TypeOK' /\ Words'
  BY <1>1, <1>3 DEF UseInv, TypeOK, Words
<1>5. Closed'
  BY <1>1 DEF UseInv, Closed
<1>6. Ops'
  BY <1>0, <1>1, <1>2, <1>3 DEF UseInv, Ops, Unclaimed
<1>7. Balance'
  BY <1>1, SumFacts DEF UseInv, Balance
<1>8. Signals' /\ Ends'
  BY <1>1, <1>3 DEF UseInv, Signals, Ends
<1> QED BY <1>4, <1>5, <1>6, <1>7, <1>8 DEF UseInv

(* A release after the run-down has begun takes its references from the block. *)
LEMMA ReleaseBlockStep ==
    ASSUME UseInv, NEW t \in Threads, ReleaseBlock(t)
    PROVE  UseInv'
<1> DEFINE left == block.count - Cardinality(op[t])
<1>0. /\ op[t] \in SUBSET Refs /\ op[t] \subseteq out /\ op[t] # {} /\ out \in SUBSET Refs
      /\ Cardinality(op[t]) \in Nat /\ Cardinality(op[t]) # 0
      /\ Cardinality(out) \in Nat
      /\ Cardinality(out \ op[t]) = Cardinality(out) - Cardinality(op[t])
  <2>1. op[t] \in SUBSET Refs /\ op[t] \subseteq out /\ op[t] # {} /\ out \in SUBSET Refs
    BY DEF UseInv, TypeOK, Ops, ReleaseBlock
  <2> QED BY <2>1, RefsFinite
<1>1. /\ UNCHANGED <<ref, wpc, current, total>> /\ out' = out \ op[t]
      /\ pc[t] = "RelBlock" /\ op'[t] = {} /\ op' \in [Threads -> SUBSET Refs]
      /\ \A u \in Threads : u # t => op'[u] = op[u]
  BY DEF ReleaseBlock, Waiter, UseInv, TypeOK
<1>2. wpc \in {"Collect", "Add", "Returned"}
  <2>1. wpc \in {"Collect", "Add", "Wait", "Returned"}
    BY <1>1 DEF UseInv, Ops, TypeOK
  <2> QED BY <2>1, <1>0 DEF UseInv, Ends
<1>3. /\ block.count \in Int /\ left \in Int
      /\ block' = IF BlockLive THEN [block EXCEPT !.count = left] ELSE block
  BY <1>0 DEF ReleaseBlock, UseInv, TypeOK
<1>4. /\ pc' \in [Threads -> {"Idle", "RelBlock", "RelSignal"}]
      /\ pc'[t] \in {"Idle", "RelSignal"}
      /\ BlockLive /\ left # 0 => pc'[t] = "Idle"
      /\ \A u \in Threads : u # t => pc'[u] = pc[u]
  <2>1. \E next \in {"Idle", "RelSignal"} :
           /\ pc' = [pc EXCEPT ![t] = next]
           /\ (BlockLive /\ left # 0) => next = "Idle"
    BY DEF ReleaseBlock
  <2> HIDE DEF left
  <2>2. PICK next \in {"Idle", "RelSignal"} :
           /\ pc' = [pc EXCEPT ![t] = next]
           /\ (BlockLive /\ left # 0) => next = "Idle"
    BY <2>1
  <2>3. pc \in [Threads -> {"Idle", "RelBlock", "RelSignal"}]
    BY DEF UseInv, TypeOK
  <2> QED BY <2>2, <2>3
<1> HIDE DEF left
<1>5. /\ block' \in [count : Int, event : {"uninit", "clear", "set"}]
      /\ block'.event = block.event
      /\ block'.count = IF BlockLive THEN left ELSE block.count
  BY <1>3 DEF UseInv, TypeOK
<1>6. TypeOK' /\ Words'
  BY <1>1, <1>4, <1>5 DEF UseInv, TypeOK, Words
<1>7. Closed'
  BY <1>1 DEF UseInv, Closed
<1>8. Ops'
  BY <1>0, <1>1, <1>2, <1>4 DEF UseInv, Ops
<1>9. Balance'
  <2>1. SumOfCounts' = SumOfCounts /\ SumOfCounts \in Int /\ total \in Int
    BY <1>1, SumFacts DEF UseInv, TypeOK
  <2> QED BY <2>1, <1>0, <1>1, <1>2, <1>3, <1>5 DEF UseInv, Balance, BlockLive, left
<1>10. Signals' /\ Ends'
  <2>1. CASE wpc \in {"Collect", "Add"}
    <3>1. block.count <= 0 /\ block.event = "uninit" /\ BlockLive
      BY <2>1 DEF UseInv, Signals, BlockLive
    <3>2. left < 0
      BY <3>1, <1>0, <1>3 DEF left
    <3>3. left # 0 /\ left <= 0
      BY <3>2, <1>3
    <3>4. pc'[t] = "Idle" /\ block'.count = left /\ block'.event = "uninit"
      BY <3>1, <3>3, <1>4, <1>5
    <3> QED BY <2>1, <3>3, <3>4, <1>1, <1>4 DEF UseInv, Signals, Ends
  <2>2. CASE wpc = "Returned"
    <3>1. total # 0 /\ block.event = "clear"
      BY <2>2, <1>0 DEF UseInv, Ends
    <3> QED BY <2>2, <3>1, <1>1, <1>4, <1>5 DEF UseInv, Signals, Ends
  <2> QED BY <2>1, <2>2, <1>2
<1> QED BY <1>6, <1>7, <1>8, <1>9, <1>10 DEF UseInv

(* A release that sets the event sets one on a stack frame that is gone.    *)
LEMMA ReleaseSignalStep ==
    ASSUME UseInv, NEW t \in Threads, ReleaseSignal(t)
    PROVE  UseInv'
<1>1. /\ UNCHANGED <<ref, wpc, current, total, op, out>> /\ pc[t] = "RelSignal"
      /\ pc' = [pc EXCEPT ![t] = "Idle"]
      /\ block' = IF BlockLive THEN [block EXCEPT !.event = "set"] ELSE block
  BY DEF ReleaseSignal, Waiter
<1>2. wpc = "Returned" /\ block' = block
  BY <1>1 DEF UseInv, Signals, BlockLive
<1>3. /\ pc' \in [Threads -> {"Idle", "RelBlock", "RelSignal"}] /\ pc'[t] = "Idle"
      /\ \A u \in Threads : u # t => pc'[u] = pc[u]
  BY <1>1 DEF UseInv, TypeOK
<1>4. TypeOK' /\ Words'
  BY <1>1, <1>2, <1>3 DEF UseInv, TypeOK, Words
<1>5. Closed'
  BY <1>1 DEF UseInv, Closed
<1>6. Ops'
  BY <1>1, <1>2, <1>3 DEF UseInv, Ops
<1>7. Balance'
  BY <1>1, <1>2, <1>3 DEF UseInv, Balance
<1>8. Signals' /\ Ends'
  BY <1>1, <1>2, <1>3 DEF UseInv, Signals, Ends
<1> QED BY <1>4, <1>5, <1>6, <1>7, <1>8 DEF UseInv

(* The waiter starts, and exchanges the words one by one.                   *)
LEMMA WaitStartStep ==
    ASSUME UseInv, WaitStart
    PROVE  UseInv'
<1>1. /\ UNCHANGED <<ref, pc, op, out>> /\ wpc = "Idle" /\ wpc' = "Collect"
      /\ current' = 0 /\ total' = 0 /\ block' = [count |-> 0, event |-> "uninit"]
      /\ \A t \in Threads : pc[t] = "Idle"
  BY DEF WaitStart, UseInv, Ops
<1>2. TypeOK' /\ Words'
  BY <1>1, SlotFacts DEF UseInv, TypeOK, Words
<1>3. Closed'
  BY <1>1 DEF Closed, Slots
<1>4. Ops' /\ Signals' /\ Ends'
  BY <1>1 DEF UseInv, Ops, Signals, Ends
<1>5. Balance'
  <2>1. SumOfCounts' = SumOfCounts /\ SumOfCounts \in Int
    BY <1>1, SumFacts DEF UseInv
  <2> QED BY <1>1, <2>1 DEF UseInv, Balance
<1> QED BY <1>2, <1>3, <1>4, <1>5 DEF UseInv

(* The run-down closes one word and takes its count.                        *)
LEMMA WaitCollectStep ==
    ASSUME UseInv, WaitCollect
    PROVE  UseInv'
<1>0. TypeOK /\ current \in Slots /\ ref[current].n \in Int /\ total \in Int /\ block.count \in Int
      /\ current \in 0 .. Number /\ Number \in Nat
  BY DEF WaitCollect, UseInv, TypeOK, Word
<1>1. /\ UNCHANGED <<block, pc, op, out>> /\ wpc = "Collect" /\ ref[current].is = "count"
      /\ ref' = [ref EXCEPT ![current] = Block]
      /\ total' = total + ref[current].n /\ current' = current + 1
      /\ wpc' = IF current + 1 < Number THEN "Collect" ELSE "Add"
  BY DEF WaitCollect
<1>2. /\ ref' \in [Slots -> Word] /\ ref'[current].is = "block" /\ ref'[current].n = 0
      /\ \A i \in Slots \ {current} : ref'[i] = ref[i]
  BY <1>0, <1>1 DEF TypeOK, Word, Block
<1>3. /\ current' \in 0 .. Number
      /\ wpc' = "Collect" => current' \in Slots
      /\ wpc' = "Add" => \A i \in Slots : i < current \/ i = current
      /\ \A i \in Slots : i < current' => i < current \/ i = current
  BY <1>0, <1>1 DEF Slots
<1>4. TypeOK' /\ Words'
  BY <1>0, <1>1, <1>2, <1>3 DEF UseInv, TypeOK, Words
<1>5. Closed'
  BY <1>0, <1>1, <1>2, <1>3 DEF UseInv, Closed
<1>6. Ops' /\ Signals' /\ Ends'
  BY <1>1 DEF UseInv, Ops, Signals, Ends
<1>7. Balance'
  <2>1. SumOfCounts \in Int /\ SumOfCounts' = SumOfCounts - ref[current].n + ref'[current].n
    BY <1>0, <1>2, SumFacts
  <2>2. SumOfCounts + total + block.count = Cardinality(out)
    BY <1>1 DEF UseInv, Balance
  <2>3. SumOfCounts' + total' + block.count = Cardinality(out)
    BY <2>1, <2>2, <1>0, <1>1, <1>2
  <2> QED BY <2>3, <1>1 DEF Balance
<1> QED BY <1>4, <1>5, <1>6, <1>7 DEF UseInv

(* What the waiter has when it has been through the words.                  *)
LEMMA Collected ==
    ASSUME UseInv, wpc = "Add"
    PROVE  /\ total \in Nat /\ total + block.count = Cardinality(out) /\ block.count \in Int
           /\ block.count <= 0 /\ out \in SUBSET Refs /\ Cardinality(out) \in Nat
           /\ Cardinality(out) = 0 <=> out = {}
<1>1. TypeOK /\ total \in Int /\ block.count \in Int /\ block.count <= 0 /\ out \in SUBSET Refs
  BY DEF UseInv, TypeOK, Signals
<1>2. SumOfCounts = 0
  BY <1>1, SumFacts DEF UseInv, Closed, Words
<1>3. 0 + total + block.count = Cardinality(out)
  BY <1>2 DEF UseInv, Balance
<1>4. Cardinality(out) \in Nat /\ (Cardinality(out) = 0 <=> out = {})
  BY <1>1, RefsFinite
<1> QED BY <1>1, <1>3, <1>4

(* The run-down adds what it collected to the block.                        *)
LEMMA WaitAddStep ==
    ASSUME UseInv, WaitAdd
    PROVE  UseInv'
<1>0. /\ wpc = "Add" /\ UNCHANGED <<ref, current, total, pc, op, out>>
      /\ \A t \in Threads : pc[t] # "RelSignal"
  BY DEF WaitAdd, UseInv, Signals
<1>1. /\ total \in Nat /\ total + block.count = Cardinality(out) /\ block.count \in Int
      /\ block.count <= 0 /\ Cardinality(out) \in Nat /\ (Cardinality(out) = 0 <=> out = {})
  BY <1>0, Collected
<1>2. CASE total = 0
  <2>1. wpc' = "Returned" /\ block' = block /\ out = {}
    BY <1>1, <1>2 DEF WaitAdd
  <2>2. TypeOK' /\ Words' /\ Closed' /\ Ops'
    BY <2>1, <1>0 DEF UseInv, TypeOK, Words, Closed, Ops
  <2> QED BY <2>1, <2>2, <1>0, <1>2 DEF UseInv, Balance, Signals, Ends
<1>3. CASE total # 0
  <2>1. /\ block' = [count |-> block.count + total, event |-> "clear"]
        /\ wpc' = IF block.count = -total THEN "Wait" ELSE "Returned"
    BY <1>3 DEF WaitAdd
  <2>2. /\ block'.event = "clear"
        /\ block' \in [count : Int, event : {"uninit", "clear", "set"}]
    BY <2>1, <1>1
  <2>3. wpc' \in {"Wait", "Returned"} /\ (wpc' = "Wait" => out = {})
    BY <2>1, <1>1
  <2>4. TypeOK' /\ Words' /\ Closed' /\ Ops'
    BY <2>2, <2>3, <1>0 DEF UseInv, TypeOK, Words, Closed, Ops
  <2> QED BY <2>2, <2>3, <2>4, <1>0, <1>3 DEF UseInv, Balance, Signals, Ends
<1> QED BY <1>2, <1>3

(* The words are closed for good, or initialized again.                     *)
LEMMA FinishSteps ==
    ASSUME UseInv, FinishStart \/ FinishSlot
    PROVE  UseInv'
<1>1. CASE FinishStart
  <2>1. /\ UNCHANGED <<ref, block, total, pc, op, out>> /\ current' = 0 /\ out = {}
        /\ wpc' \in {"Complete", "ReInit"} /\ wpc \in {"Returned", "Idle"}
        /\ \A i \in Slots : ref[i].is # "count"
    BY <1>1, SlotFacts DEF FinishStart, UseInv, Closed
  <2>2. \A i \in Slots : ref[i].n = 0
    BY <2>1 DEF UseInv, Words
  <2>3. \A t \in Threads : pc[t] = "Idle"
    BY <1>1 DEF FinishStart, UseInv, Ops
  <2>4. TypeOK' /\ Words'
    BY <2>1, SlotFacts DEF UseInv, TypeOK, Words
  <2>5. Closed'
    BY <2>1, <2>2 DEF Closed, Slots
  <2>6. Ops' /\ Balance' /\ Signals' /\ Ends'
    BY <2>1, <2>3 DEF UseInv, Ops, Balance, Signals, Ends
  <2> QED BY <2>4, <2>5, <2>6 DEF UseInv
<1>2. CASE FinishSlot
  <2>0. TypeOK /\ current \in Slots /\ out = {} /\ Number \in Nat /\ \A t \in Threads : pc[t] = "Idle"
    BY <1>2 DEF FinishSlot, UseInv, TypeOK, Balance, Ops
  <2>1. /\ UNCHANGED <<block, total, pc, op, out>> /\ wpc \in {"Complete", "ReInit"}
        /\ ref' = [ref EXCEPT ![current] = IF wpc = "Complete" THEN Active ELSE Count(0)]
        /\ current' = IF current + 1 < Number THEN current + 1 ELSE 0
        /\ wpc' = IF current + 1 < Number THEN wpc ELSE "Idle"
    BY <1>2 DEF FinishSlot
  <2>2. /\ ref' \in [Slots -> Word] /\ ref'[current].n = 0
        /\ ref'[current].is = IF wpc = "Complete" THEN "active" ELSE "count"
        /\ \A i \in Slots \ {current} : ref'[i] = ref[i]
    BY <2>0, <2>1 DEF TypeOK, Word, Active, Count
  <2>3. /\ current' \in 0 .. Number
        /\ wpc' # "Idle" => current' \in Slots /\ \A i \in Slots : i < current' => i < current \/ i = current
        /\ wpc' = "Idle" => \A i \in Slots : i < current \/ i = current
    BY <2>0, <2>1 DEF Slots
  <2>4. \A i \in Slots : ref'[i].n = 0
    BY <2>0, <2>1, <2>2 DEF UseInv, Words, Closed
  <2>5. TypeOK' /\ Words'
    BY <2>1, <2>2, <2>3, <2>4 DEF UseInv, TypeOK, Words
  <2>6. Closed'
    BY <2>0, <2>1, <2>2, <2>3, <2>4 DEF UseInv, Closed
  <2>7. Balance'
    <3>1. SumOfCounts' = 0
      <4>1. \A i \in Slots : ref[i].n = 0
        BY <2>0, <2>1 DEF UseInv, Words, Closed
      <4>2. SumOfCounts = 0 /\ SumOfCounts' = SumOfCounts - ref[current].n + ref'[current].n
        BY <2>0, <2>2, <4>1, SumFacts
      <4> QED BY <2>0, <2>2, <4>1, <4>2
    <3> QED BY <3>1, <2>0, <2>1, FS_EmptySet DEF Balance
  <2>8. Ops' /\ Signals' /\ Ends'
    BY <2>0, <2>1 DEF UseInv, Ops, Signals, Ends
  <2> QED BY <2>5, <2>6, <2>7, <2>8 DEF UseInv
<1> QED BY <1>1, <1>2

(* Every step of the users and of the waiter keeps the invariant.           *)
LEMMA UseStep ==
    ASSUME UseInv, [Next]_vars
    PROVE  UseInv'
<1>1. CASE UNCHANGED vars
  BY <1>1 DEF vars, UseInv, TypeOK, Words, Closed, Ops, Balance, Signals, Ends, SumOfCounts
<1>2. CASE \E t \in Threads : Call(t) \/ Continue(t)
  BY <1>2, CallSteps, FindsBlockStep, ReleaseBlockStep, ReleaseSignalStep DEF Call, Continue
<1>3. CASE WaiterStep
  BY <1>3, WaitStartStep, WaitCollectStep, WaitAddStep DEF WaiterStep
<1>4. CASE FinishStart \/ FinishSlot
  BY <1>4, FinishSteps
<1> QED BY <1>1, <1>2, <1>3, <1>4 DEF Next

(* ... and so does the life of the object around it.                        *)
LEMMA ObjectUseStep ==
    ASSUME UseInv, [ObjectNext]_objectVars
    PROVE  UseInv'
<1>1. CASE AnotherObject
  <2>1. TypeOK'
    BY <1>1, SlotFacts DEF AnotherObject, TypeOK, Count, Word
  <2>2. Words' /\ Closed' /\ Ops' /\ Signals' /\ Ends'
    BY <1>1 DEF AnotherObject, Words, Closed, Ops, Signals, Ends, Count
  <2>3. SumOfCounts' = 0
    <3>1. SumOfCounts' = SumFunctionOnSet([i \in Slots |-> ref'[i].n], Slots)
      BY DEF SumOfCounts
    <3>2. \A i \in Slots : [k \in Slots |-> ref'[k].n][i] = 0
      BY <1>1 DEF AnotherObject, Count
    <3> QED BY <3>1, <3>2, SlotFacts, SumZero
  <2>4. Balance'
    BY <1>1, <2>3, FS_EmptySet DEF AnotherObject, Balance
  <2> QED BY <2>1, <2>2, <2>4 DEF UseInv
<1>2. CASE UseObject
  BY <1>2, UseStep DEF UseObject
<1>3. CASE UNCHANGED vars
  BY <1>3, UseStep
<1> QED BY <1>1, <1>2, <1>3 DEF ObjectNext, AllocateObject, FreeObject, DropBuffer, objectVars

(* The invariant of use holds throughout the life of the object.            *)
LEMMA UseInvariance == ObjectSpec => []UseInv
<1>1. ObjectInit => UseInv
  BY UseInit DEF ObjectInit
<1>2. UseInv /\ [ObjectNext]_objectVars => UseInv'
  BY ObjectUseStep
<1> QED BY <1>1, <1>2, PTL DEF ObjectSpec

(* No reference is lost or counted twice while the words are collected one  *)
(* by one, for any number of processors, threads and references.            *)
THEOREM WordsAddUp == ObjectSpec => []Accounting
<1>1. UseInv => Accounting
  BY DEF UseInv, Balance, Accounting
<1> QED BY <1>1, UseInvariance, PTL

(* The total collected is not negative although a word can be, and nobody   *)
(* sets the event before it is initialized.                                 *)
THEOREM CollectingIsSound == ObjectSpec => []CollectingSound
<1>1. ASSUME UseInv PROVE CollectingSound
  <2>1. wpc = "Add" => total >= 0
    BY <1>1, Collected
  <2>2. /\ wpc \in {"Collect", "Add"} => block.event = "uninit" /\ block.count <= 0
        /\ block.event = "uninit" => \A t \in Threads : pc[t] # "RelSignal"
    BY <1>1 DEF UseInv, Signals
  <2> QED BY <2>1, <2>2 DEF CollectingSound
<1> QED BY <1>1, UseInvariance, PTL

(* Once the last word is exchanged, no processor grants a reference.        *)
THEOREM NoLateAcquireAnywhere == ObjectSpec => NoLateAcquireCacheAware
<1>1. ASSUME UseInv, [ObjectNext]_objectVars, wpc \in {"Add", "Wait", "Returned"}
      PROVE  out' \subseteq out
  <2>1. \A i \in Slots : ref[i].is # "count"
    BY <1>1 DEF UseInv, Closed
  <2>2. ASSUME NEW t \in Threads, NEW p \in CPUs, NEW S \in SUBSET Refs,
               AcquireCacheAware(t, p, S)
        PROVE  FALSE
    BY <2>1, <2>2, SlotFacts DEF AcquireCacheAware
  <2>3. CASE UNCHANGED vars \/ AnotherObject
    BY <2>3 DEF vars, AnotherObject
  <2>4. CASE Next
    <3>1. CASE \E t \in Threads : Call(t) \/ Continue(t)
      BY <3>1, <2>2 DEF Call, Continue, ReleaseCacheAware, ReleaseFindsBlock, ReleaseBlock,
         ReleaseSignal
    <3>2. CASE WaiterStep \/ FinishStart \/ FinishSlot
      BY <3>2 DEF WaiterStep, WaitStart, WaitCollect, WaitAdd, FinishStart, FinishSlot
    <3> QED BY <2>4, <3>1, <3>2 DEF Next
  <2> QED BY <1>1, <2>3, <2>4 DEF ObjectNext, AllocateObject, UseObject, FreeObject, DropBuffer,
             objectVars
<1>2. UseInv /\ [ObjectNext]_objectVars
        => [(wpc \in {"Add", "Wait", "Returned"}) => out' \subseteq out]_vars
  BY <1>1
<1> QED BY <1>2, UseInvariance, PTL DEF ObjectSpec, NoLateAcquireCacheAware

(* How a wait ends, for any number of processors, threads and references: a *)
(* call that collected nothing leaves no reference out, and a call that     *)
(* sleeps (rundown.c 496) does so with no reference out and is never woken. *)
THEOREM WaitsEnd == ObjectSpec => []WaitOutcome
<1>1. ASSUME UseInv PROVE WaitOutcome
  <2>1. wpc = "Returned" /\ total = 0 => out = {}
    BY <1>1 DEF UseInv, Ends
  <2>2. ASSUME wpc = "Wait"
        PROVE  out = {} /\ ~WaitSatisfied /\ \A t \in Threads : pc[t] = "Idle"
    <3>1. out = {} /\ block.event = "clear"
      BY <1>1, <2>2 DEF UseInv, Ends, Signals
    <3>2. \A t \in Threads : pc[t] # "RelBlock" /\ pc[t] # "RelSignal"
      BY <1>1, <2>2, <3>1 DEF UseInv, Ops, Signals
    <3> QED BY <1>1, <3>1, <3>2 DEF WaitSatisfied, UseInv, TypeOK
  <2> QED BY <2>1, <2>2 DEF WaitOutcome
<1> QED BY <1>1, UseInvariance, PTL

-----------------------------------------------------------------------------
(***************************************************************************)
(* The memory of the object.                                               *)
(***************************************************************************)
(* Multiples of the alignment. *)
LEMMA Multiples ==
    ASSUME NEW A \in Nat \ {0}, NEW a \in Nat
    PROVE  /\ ((a + A - 1) \div A) * A \in a .. a + A - 1
           /\ (((a + A - 1) \div A) * A) % A = 0
           /\ \A k \in Nat : a % A = 0 => (a + A * k) % A = 0
<1> DEFINE b == a + A - 1
           d == b \div A
<1>1. b \in Nat
  OBVIOUS
<1>2. b = A * d + (b % A) /\ b % A \in 0 .. A - 1 /\ d \in Nat
  BY <1>1
<1> HIDE DEF b, d
<1>3. d * A = A * d /\ A * d \in Nat /\ (A * d) % A = 0
  BY <1>2
<1>4. d * A \in a .. a + A - 1
  BY <1>2, <1>3 DEF b
<1>5. ASSUME NEW k \in Nat, a % A = 0 PROVE (a + A * k) % A = 0
  <2>1. a = A * (a \div A) /\ a \div A \in Nat
    BY <1>5
  <2>2. a + A * k = A * ((a \div A) + k) /\ (a \div A) + k \in Nat
    BY <2>1
  <2>3. (A * ((a \div A) + k)) % A = 0
    BY <2>2
  <2> QED BY <2>2, <2>3
<1> QED BY <1>3, <1>4, <1>5 DEF b, d

Allocation(addr, size) == [addr |-> addr, size |-> size]

(* What the pool holds at each stage. *)
HeapIs ==
    /\ stage \in {"Start", "Null", "Freed"} => heap = {}
    /\ stage \in {"AllocRefs", "AllocBigger"} => heap = {Allocation(master, MasterSize)}
    /\ stage = "Ready" => \E size \in Nat :
                             heap = {Allocation(master, MasterSize), Allocation(pool, size)}
    /\ stage = "Initialized" => heap = {Allocation(master, SizeOf)}

(* Where the master structure and the words are. *)
LayoutIs ==
    /\ np \in Processors
    /\ stage \in {"Start", "AllocRefs", "AllocBigger", "Ready", "Initialized", "Null", "Freed"}
    /\ stage \in {"AllocRefs", "AllocBigger", "Ready", "Initialized"} =>
          master \in Stride .. Stride + Align - 1
    /\ stage = "AllocBigger" => np > 1
    /\ stage \in {"Ready", "Initialized"} =>
          /\ words.number = np /\ words.runRefs \in Nat /\ words.runRefSize \in Nat
          /\ RefSize <= words.runRefSize
          /\ np > 1 => words.runRefSize = Align /\ words.runRefs % Align = 0
          /\ master + MasterSize <= words.runRefs
          /\ \E b \in heap :
                /\ b.addr \in Nat /\ b.size \in Nat /\ b.addr <= words.runRefs
                /\ words.runRefs + words.runRefSize * np <= b.addr + b.size

LayoutInv == HeapIs /\ LayoutIs

(* The first block the pool returns, and the second.                        *)
LEMMA PoolBlocks ==
    ASSUME NEW h, NEW size \in Nat, NEW b \in FreeBlocks(h, size)
    PROVE  /\ b = Allocation(b.addr, size) /\ b.size = size
           /\ h = {} => b.addr \in Stride .. Stride + Align - 1
           /\ \A a : h = {a} => b.addr \in 2 * Stride .. 2 * Stride + Align - 1
<1>1. PICK off \in 0 .. Align - 1 : b = [addr |-> (Cardinality(h) + 1) * Stride + off, size |-> size]
  BY DEF FreeBlocks
<1>2. Stride \in Nat /\ Align \in Nat \ {0}
  BY LayoutAssumption
<1>3. ASSUME h = {} PROVE b.addr \in Stride .. Stride + Align - 1
  <2>1. Cardinality(h) = 0
    BY <1>3, FS_EmptySet
  <2>2. b.addr = Stride + off
    BY <1>1, <1>2, <2>1
  <2> QED BY <1>2, <2>2
<1>4. ASSUME NEW a, h = {a} PROVE b.addr \in 2 * Stride .. 2 * Stride + Align - 1
  <2>1. Cardinality(h) = 1
    BY <1>4, FS_Singleton
  <2>2. b.addr = 2 * Stride + off
    BY <1>1, <1>2, <2>1
  <2> QED BY <1>2, <2>2
<1> QED BY <1>1, <1>3, <1>4 DEF Allocation

(* What the assumption on the sizes gives for the number of processors.     *)
LEMMA Sizes ==
    ASSUME np \in Processors
    PROVE  /\ np \in Nat \ {0} /\ Align \in Nat \ {0} /\ Stride \in Nat
           /\ RefSize \in Nat \ {0} /\ MasterSize \in Nat \ {0} /\ RefSize <= Align
           /\ RunRefSize \in Nat /\ RefSize <= RunRefSize
           /\ RunRefSize * np \in Nat /\ RunRefSize * (np + 1) \in Nat
           /\ np > 1 => RunRefSize = Align
           /\ np <= 1 => np = 1
           /\ MasterSize + Align <= Stride
           /\ SizeOf \in Nat
<1>1. /\ np \in Nat \ {0} /\ Align \in Nat \ {0} /\ Stride \in Nat
      /\ RefSize \in Nat \ {0} /\ MasterSize \in Nat \ {0} /\ RefSize <= Align
      /\ MasterSize + (np + 2) * Align <= Stride
  BY LayoutAssumption
<1>2. RunRefSize \in Nat /\ RefSize <= RunRefSize /\ (np > 1 => RunRefSize = Align)
  BY <1>1 DEF RunRefSize
<1>3. RunRefSize * np \in Nat /\ RunRefSize * (np + 1) \in Nat
  BY <1>1, <1>2
<1>4. (np + 2) * Align = (np + 1) * Align + Align /\ (np + 1) * Align \in Nat
  BY <1>1
<1>5. SizeOf \in Nat
  BY <1>1, <1>4 DEF SizeOf
<1>6. np <= 1 => np = 1
  BY <1>1
<1> QED BY <1>1, <1>2, <1>3, <1>4, <1>5, <1>6

(* The memory is allocated, or what there is of it given back.              *)
LEMMA AllocateMasterStep ==
    ASSUME LayoutInv, AllocateMaster
    PROVE  LayoutInv'
<1>1. np \in Processors /\ heap = {} /\ stage = "Start" /\ UNCHANGED <<np, pool, words>>
  BY DEF LayoutInv, LayoutIs, HeapIs, AllocateMaster
<1>2. MasterSize \in Nat
  BY <1>1, Sizes
<1>3. CASE stage' = "Null"
  BY <1>1, <1>3 DEF AllocateMaster, LayoutInv, LayoutIs, HeapIs
<1>4. CASE stage' # "Null"
  <2>1. PICK b \in FreeBlocks(heap, MasterSize) :
          heap' = heap \cup {b} /\ master' = b.addr /\ stage' = "AllocRefs"
    BY <1>4 DEF AllocateMaster
  <2>2. b = Allocation(b.addr, MasterSize) /\ b.addr \in Stride .. Stride + Align - 1
    BY <1>1, <1>2, PoolBlocks
  <2>3. heap' = {Allocation(master', MasterSize)}
    BY <1>1, <2>1, <2>2
  <2> QED BY <1>1, <2>1, <2>2, <2>3 DEF LayoutInv, LayoutIs, HeapIs
<1> QED BY <1>3, <1>4

(* A call that fails later has freed the master structure.                  *)
LEMMA GiveUpStep ==
    ASSUME LayoutInv, stage \in {"AllocRefs", "AllocBigger"}, GiveUp(heap), UNCHANGED np
    PROVE  LayoutInv'
<1>1. heap = {Allocation(master, MasterSize)} /\ stage' = "Null" /\ heap' = Without(heap, master)
  BY DEF LayoutInv, HeapIs, GiveUp
<1>2. heap' = {}
  BY <1>1 DEF Without, Allocation
<1> QED BY <1>1, <1>2 DEF LayoutInv, LayoutIs, HeapIs

(* The words begin at refs, in the second block.                            *)
LEMMA FilledStep ==
    ASSUME LayoutInv, stage \in {"AllocRefs", "AllocBigger"}, UNCHANGED <<np, master>>,
           NEW size \in Nat, NEW b \in FreeBlocks(heap, size), heap' = heap \cup {b},
           NEW refs \in Nat, Filled(b.addr, refs),
           b.addr \in Nat => b.addr <= refs /\ refs + RunRefSize * np <= b.addr + size,
           np > 1 => refs % Align = 0
    PROVE  LayoutInv'
<1>1. /\ np \in Processors /\ heap = {Allocation(master, MasterSize)}
      /\ master \in Stride .. Stride + Align - 1
      /\ stage' = "Ready" /\ pool' = b.addr
      /\ words' = [runRefs |-> refs, runRefSize |-> RunRefSize, number |-> np]
  BY DEF LayoutInv, LayoutIs, HeapIs, Filled
<1>2. b = Allocation(b.addr, size) /\ b.size = size /\ b.addr \in 2 * Stride .. 2 * Stride + Align - 1
  BY <1>1, PoolBlocks
<1>3. HeapIs'
  <2>1. heap' = {Allocation(master', MasterSize), Allocation(pool', size)}
    BY <1>1, <1>2
  <2> QED BY <1>1, <2>1 DEF HeapIs
<1>4. /\ b.addr \in Nat /\ b.addr <= refs /\ refs + RunRefSize * np <= b.addr + size
      /\ master + MasterSize <= refs
  <2>1. b.addr \in Nat /\ 2 * Stride <= b.addr /\ master + MasterSize <= 2 * Stride
    BY <1>1, <1>2, Sizes
  <2>2. b.addr <= refs /\ refs + RunRefSize * np <= b.addr + size
    BY <2>1
  <2> QED BY <2>1, <2>2, <1>1, Sizes
<1>5. /\ words'.number = np /\ words'.runRefs = refs /\ words'.runRefSize = RunRefSize
  BY <1>1
<1>6. /\ b \in heap' /\ np' = np /\ master' = master /\ stage' = "Ready"
  BY <1>1
<1>7. /\ RunRefSize \in Nat /\ RefSize <= RunRefSize /\ (np > 1 => RunRefSize = Align)
  BY <1>1, Sizes
<1>8. LayoutIs'
  BY <1>1, <1>2, <1>4, <1>5, <1>6, <1>7 DEF LayoutIs
<1> QED BY <1>3, <1>8 DEF LayoutInv

(* The words, and the larger block for them, are allocated.                 *)
LEMMA SecondBlock ==
    ASSUME heap = {Allocation(master, MasterSize)}, np \in Processors,
           NEW size \in Nat, NEW b \in FreeBlocks(heap, size)
    PROVE  b.addr \in Nat
<1>1. b.addr \in 2 * Stride .. 2 * Stride + Align - 1
  BY PoolBlocks
<1> QED BY <1>1, Sizes

(* The words are in the first block, if it is aligned.                      *)
LEMMA AllocateRefsStep ==
    ASSUME LayoutInv, AllocateRefs
    PROVE  LayoutInv'
<1> DEFINE size == RunRefSize * np
<1>1. /\ stage = "AllocRefs" /\ UNCHANGED <<np, master>> /\ np \in Processors
      /\ heap = {Allocation(master, MasterSize)}
  BY DEF AllocateRefs, LayoutInv, LayoutIs, HeapIs
<1>2. size \in Nat /\ np \in Nat
  BY <1>1, Sizes
<1>3. CASE GiveUp(heap)
  BY <1>1, <1>3, GiveUpStep
<1>4. CASE \E b \in FreeBlocks(heap, size) :
             /\ np > 1 /\ b.addr % Align # 0 /\ stage' = "AllocBigger"
             /\ UNCHANGED <<heap, pool, words>>
  BY <1>1, <1>4 DEF LayoutInv, LayoutIs, HeapIs
<1>5. CASE \E b \in FreeBlocks(heap, size) :
             /\ np <= 1 \/ b.addr % Align = 0
             /\ heap' = heap \cup {b} /\ Filled(b.addr, b.addr)
  <2>1. PICK b \in FreeBlocks(heap, size) :
             /\ np <= 1 \/ b.addr % Align = 0
             /\ heap' = heap \cup {b} /\ Filled(b.addr, b.addr)
    BY <1>5
  <2>2. b.addr \in Nat
    <3> HIDE DEF size
    <3> QED BY <1>1, <1>2, SecondBlock
  <2>3. b.addr <= b.addr /\ b.addr + RunRefSize * np <= b.addr + size
    BY <1>2, <2>2
  <2>4. np > 1 => b.addr % Align = 0
    BY <1>2, <2>1
  <2>5. stage \in {"AllocRefs", "AllocBigger"} /\ Filled(b.addr, b.addr) /\ heap' = heap \cup {b}
    BY <1>1, <2>1
  <2> HIDE DEF size
  <2> QED BY <1>1, <1>2, <2>2, <2>3, <2>4, <2>5, FilledStep
<1> QED BY <1>3, <1>4, <1>5 DEF AllocateRefs

(* They are aligned in the larger one.                                      *)
LEMMA AllocateBiggerStep ==
    ASSUME LayoutInv, AllocateBigger
    PROVE  LayoutInv'
<1> DEFINE size == RunRefSize * (np + 1)
<1>1. /\ stage = "AllocBigger" /\ UNCHANGED <<np, master>> /\ np \in Processors /\ np > 1
      /\ heap = {Allocation(master, MasterSize)}
  BY DEF AllocateBigger, LayoutInv, LayoutIs, HeapIs
<1>2. /\ RunRefSize * np \in Nat /\ size \in Nat /\ RunRefSize = Align
      /\ Align \in Nat \ {0} /\ np \in Nat
  BY <1>1, Sizes
<1>3. CASE GiveUp(heap)
  BY <1>1, <1>3, GiveUpStep
<1>4. CASE \E b \in FreeBlocks(heap, size) :
             heap' = heap \cup {b} /\ Filled(b.addr, AlignUp(b.addr))
  <2>1. PICK b \in FreeBlocks(heap, size) :
             heap' = heap \cup {b} /\ Filled(b.addr, AlignUp(b.addr))
    BY <1>4
  <2>2. b.addr \in Nat
    <3> HIDE DEF size
    <3> QED BY <1>1, <1>2, SecondBlock
  <2>3. AlignUp(b.addr) \in b.addr .. b.addr + Align - 1 /\ AlignUp(b.addr) % Align = 0
    BY <1>2, <2>2, Multiples DEF AlignUp
  <2>4. size = RunRefSize * np + Align
    BY <1>2
  <2> HIDE DEF size
  <2>5. /\ AlignUp(b.addr) \in Nat /\ b.addr <= AlignUp(b.addr)
        /\ AlignUp(b.addr) + RunRefSize * np <= b.addr + size
    BY <1>2, <2>2, <2>3, <2>4
  <2> DEFINE refs == AlignUp(b.addr)
  <2>6. /\ refs \in Nat /\ b.addr <= refs /\ refs + RunRefSize * np <= b.addr + size
        /\ refs % Align = 0 /\ Filled(b.addr, refs) /\ stage \in {"AllocRefs", "AllocBigger"}
    BY <1>1, <2>1, <2>3, <2>5
  <2> HIDE DEF refs
  <2> QED BY <1>1, <1>2, <2>1, <2>6, FilledStep
<1> QED BY <1>3, <1>4 DEF AllocateBigger

(* What ExInitializeRundownProtectionCacheAware makes of a buffer of the    *)
(* size ExSizeOfRundownProtectionCacheAware returns.                        *)
LEMMA LayoutOfBuffer ==
    ASSUME np \in Processors, NEW p \in Nat
    PROVE  LET w == Layout(p, SizeOf) IN
           /\ w.number = np /\ w.runRefs \in Nat /\ w.runRefSize \in Nat
           /\ RefSize <= w.runRefSize
           /\ np > 1 => w.runRefSize = Align /\ w.runRefs % Align = 0
           /\ p + MasterSize <= w.runRefs
           /\ w.runRefs + w.runRefSize * np <= p + SizeOf
<1>1. /\ np \in Nat \ {0} /\ Align \in Nat \ {0} /\ RefSize \in Nat \ {0}
      /\ MasterSize \in Nat \ {0} /\ RefSize <= Align
  BY Sizes
<1>2. CASE np = 1
  <2>1. SizeOf = MasterSize + RefSize
    BY <1>2 DEF SizeOf
  <2>2. Layout(p, SizeOf) = [runRefs |-> p + MasterSize, runRefSize |-> RefSize, number |-> 1]
    BY <2>1 DEF Layout
  <2> QED BY <1>1, <1>2, <2>1, <2>2
<1>3. CASE np > 1
  <2> DEFINE refs == AlignUp(p + MasterSize)
  <2>1. SizeOf = MasterSize + (np + 1) * Align
    BY <1>1, <1>3 DEF SizeOf
  <2>2. (np + 1) * Align = np * Align + Align /\ np * Align >= Align /\ np * Align \in Nat
    BY <1>1
  <2>3. SizeOf # MasterSize + RefSize /\ SizeOf - MasterSize = (np + 1) * Align
    BY <1>1, <2>1, <2>2
  <2>4. ((np + 1) * Align) \div Align - 1 = np
    BY <1>1
  <2>5. Layout(p, SizeOf) = [runRefs |-> refs, runRefSize |-> Align, number |-> np]
    BY <2>3, <2>4 DEF Layout
  <2>6. refs \in p + MasterSize .. p + MasterSize + Align - 1 /\ refs % Align = 0
    <3> DEFINE a == p + MasterSize
    <3>1. a \in Nat
      BY <1>1
    <3> HIDE DEF a
    <3>2. AlignUp(a) \in a .. a + Align - 1 /\ AlignUp(a) % Align = 0
      BY <1>1, <3>1, Multiples DEF AlignUp
    <3> QED BY <3>2 DEF a
  <2>7. refs \in Nat /\ p + MasterSize <= refs /\ refs <= p + MasterSize + Align
    BY <1>1, <2>6
  <2>8. Align * np = np * Align /\ Align * np \in Nat
    BY <1>1
  <2> HIDE DEF refs
  <2>9. refs + Align * np <= p + SizeOf
    BY <1>1, <2>1, <2>2, <2>7, <2>8
  <2> QED BY <1>1, <1>3, <2>5, <2>6, <2>7, <2>9
<1> QED BY <1>1, <1>2, <1>3

(* A caller's buffer is initialized.                                        *)
LEMMA InitializeStep ==
    ASSUME LayoutInv, InitializeCacheAware
    PROVE  LayoutInv'
<1> DEFINE size == SizeOf
<1>1. np \in Processors /\ heap = {} /\ np' = np /\ stage' = "Initialized"
  BY DEF LayoutInv, LayoutIs, HeapIs, InitializeCacheAware
<1>2. size \in Nat /\ Stride \in Nat /\ Align \in Nat \ {0} /\ size' = size
  BY <1>1, Sizes DEF SizeOf
<1>3. PICK b \in FreeBlocks(heap, size) :
         heap' = heap \cup {b} /\ master' = b.addr /\ words' = Layout(b.addr, b.size)
  BY DEF InitializeCacheAware
<1>4. b = Allocation(b.addr, size) /\ b.size = size /\ b.addr \in Stride .. Stride + Align - 1
  <2> HIDE DEF size
  <2> QED BY <1>1, <1>2, PoolBlocks
<1>5. b.addr \in Nat
  BY <1>2, <1>4
<1>6. heap' = {Allocation(master', size)}
  BY <1>1, <1>3, <1>4
<1>7. HeapIs'
  BY <1>1, <1>2, <1>6 DEF HeapIs
<1>8. /\ words'.number = np /\ words'.runRefs \in Nat /\ words'.runRefSize \in Nat
      /\ RefSize <= words'.runRefSize
      /\ np > 1 => words'.runRefSize = Align /\ words'.runRefs % Align = 0
      /\ b.addr + MasterSize <= words'.runRefs
      /\ words'.runRefs + words'.runRefSize * np <= b.addr + size
  BY <1>1, <1>3, <1>4, <1>5, LayoutOfBuffer
<1>9. b.addr <= words'.runRefs
  BY <1>1, <1>5, <1>8, Sizes
<1> HIDE DEF size
<1>10. LayoutIs'
  BY <1>1, <1>2, <1>3, <1>4, <1>5, <1>8, <1>9 DEF LayoutIs
<1> QED BY <1>7, <1>10 DEF LayoutInv

(* The layout is as it was.                                                 *)
LEMMA LayoutUnchanged ==
    ASSUME LayoutInv, UNCHANGED layoutVars
    PROVE  LayoutInv'
BY DEF LayoutInv, LayoutIs, HeapIs, SizeOf, layoutVars

(* The layout has its invariant whatever the words are used for.            *)
THEOREM LayoutInvariance == ObjectSpec => []LayoutInv
<1>1. ObjectInit => LayoutInv
  BY DEF ObjectInit, LayoutInit, LayoutInv, LayoutIs, HeapIs
<1>2. ASSUME LayoutInv, [ObjectNext]_objectVars
      PROVE  LayoutInv'
  <2>1. CASE AllocateObject
    BY <1>2, <2>1, AllocateMasterStep, AllocateRefsStep, AllocateBiggerStep, InitializeStep
       DEF AllocateObject, Allocate
  <2>2. CASE UseObject
    BY <1>2, <2>2, LayoutUnchanged DEF UseObject
  <2>3. CASE FreeObject
    <3>1. PICK size \in Nat : heap = {Allocation(master, MasterSize), Allocation(pool, size)}
      BY <1>2, <2>3 DEF FreeObject, Free, LayoutInv, HeapIs
    <3>2. heap' = {}
      BY <2>3, <3>1 DEF FreeObject, Free, Without, Allocation
    <3> QED BY <1>2, <2>3, <3>2 DEF FreeObject, Free, LayoutInv, LayoutIs, HeapIs
  <2>4. CASE DropBuffer
    BY <1>2, <2>4 DEF DropBuffer, LayoutInv, LayoutIs, HeapIs
  <2>5. CASE AnotherObject
    BY <1>2, <2>5 DEF AnotherObject, LayoutInv, LayoutIs, HeapIs
  <2>6. CASE UNCHANGED objectVars
    BY <1>2, <2>6, LayoutUnchanged DEF objectVars
  <2> QED BY <1>2, <2>1, <2>2, <2>3, <2>4, <2>5, <2>6 DEF ObjectNext
<1> QED BY <1>1, <1>2, PTL DEF ObjectSpec

(* NoLeak, for every number of processors and every alignment the pool can  *)
(* return: ExAllocateCacheAwareRundownProtection leaves nothing behind when *)
(* an allocation fails, ExFreeCacheAwareRundownProtection when it frees.    *)
THEOREM NothingLeaks == ObjectSpec => []NoLeak
<1>1. LayoutInv => NoLeak
  BY DEF LayoutInv, HeapIs, NoLeak
<1> QED BY <1>1, LayoutInvariance, PTL

(* Where the word of a processor is.                                        *)
LEMMA WordOfProcessor ==
    ASSUME LayoutInv, stage \in {"Ready", "Initialized"}, NEW p \in Cpus
    PROVE  /\ RunRef(p) = words.runRefs + words.runRefSize * p
           /\ p \in Nat /\ p < np /\ words.runRefSize * p \in Nat
           /\ words.runRefSize * p + words.runRefSize <= words.runRefSize * np
<1>1. /\ np \in Nat \ {0} /\ words.number = np /\ words.runRefs \in Nat
      /\ words.runRefSize \in Nat
  BY Sizes DEF LayoutInv, LayoutIs
<1>2. p \in Nat /\ p < np
  BY <1>1 DEF Cpus
<1>3. p % np = p
  BY <1>1, <1>2
<1>4. words.runRefSize * p \in Nat
  BY <1>1, <1>2
<1>5. words.runRefSize * p + words.runRefSize = words.runRefSize * (p + 1)
  BY <1>1, <1>2
<1>6. words.runRefSize * (p + 1) <= words.runRefSize * np
  BY <1>1, <1>2
<1> QED BY <1>1, <1>2, <1>3, <1>4, <1>5, <1>6 DEF RunRef

(* OwnLine: every processor's word is its own, is inside the memory of the  *)
(* object, clear of the master structure and, on several processors, alone  *)
(* in its cache line, for every size and alignment the assumption allows.   *)
THEOREM WordsHaveTheirLine == ObjectSpec => []OwnLine
<1>1. ASSUME LayoutInv, stage \in {"Ready", "Initialized"}
      PROVE  /\ \A p \in Cpus : \E b \in heap :
                  /\ RunRef(p) .. RunRef(p) + RefSize - 1 \subseteq Bytes(b)
                  /\ RunRef(p) .. RunRef(p) + RefSize - 1
                        \cap (master .. master + MasterSize - 1) = {}
                  /\ np > 1 => /\ RunRef(p) % Align = 0
                               /\ RunRef(p) .. RunRef(p) + Align - 1 \subseteq Bytes(b)
             /\ \A p, q \in Cpus : p # q => RunRef(p) # RunRef(q)
  <2> DEFINE r == words.runRefs
             z == words.runRefSize
  <2>1. /\ np \in Processors /\ r \in Nat /\ z \in Nat /\ RefSize <= z
        /\ np > 1 => z = Align /\ r % Align = 0
        /\ master \in Stride .. Stride + Align - 1 /\ master + MasterSize <= r
    BY <1>1 DEF LayoutInv, LayoutIs
  <2>2. PICK b \in heap : /\ b.addr \in Nat /\ b.size \in Nat /\ b.addr <= r
                          /\ r + z * np <= b.addr + b.size
    BY <1>1 DEF LayoutInv, LayoutIs
  <2>3. /\ np \in Nat \ {0} /\ Align \in Nat \ {0} /\ Stride \in Nat
        /\ RefSize \in Nat \ {0} /\ MasterSize \in Nat \ {0} /\ RefSize <= Align
    BY <2>1, Sizes
  <2>4. master \in Nat /\ z * np \in Nat
    BY <2>1, <2>3
  <2>5. ASSUME NEW p \in Cpus
        PROVE  /\ RunRef(p) .. RunRef(p) + RefSize - 1 \subseteq Bytes(b)
               /\ RunRef(p) .. RunRef(p) + RefSize - 1
                     \cap (master .. master + MasterSize - 1) = {}
               /\ np > 1 => /\ RunRef(p) % Align = 0
                            /\ RunRef(p) .. RunRef(p) + Align - 1 \subseteq Bytes(b)
    <3> DEFINE w == RunRef(p)
               d == z * p
    <3>1. w = r + d /\ p \in Nat /\ p < np /\ d \in Nat /\ d + z <= z * np
      BY <1>1, WordOfProcessor
    <3>2. ASSUME np > 1 PROVE w % Align = 0
      <4>1. d = Align * p
        BY <2>1, <3>2
      <4>2. r \in Nat /\ r % Align = 0 /\ p \in Nat
        BY <2>1, <3>1, <3>2
      <4> HIDE DEF r, z, w, d
      <4>3. (r + Align * p) % Align = 0
        BY <2>3, <4>2, Multiples
      <4> QED BY <3>1, <4>1, <4>3
    <3> HIDE DEF r, z, w, d
    <3>3. w \in Nat /\ w >= r /\ w + z <= b.addr + b.size
      BY <2>1, <2>2, <2>4, <3>1
    <3>4. w .. w + RefSize - 1 \subseteq Bytes(b)
      BY <2>1, <2>2, <2>3, <3>3 DEF Bytes
    <3>5. w .. w + RefSize - 1 \cap (master .. master + MasterSize - 1) = {}
      BY <2>1, <2>3, <2>4, <3>3
    <3>6. np > 1 => w .. w + Align - 1 \subseteq Bytes(b)
      BY <2>1, <2>2, <2>3, <3>3 DEF Bytes
    <3> QED BY <3>2, <3>4, <3>5, <3>6 DEF w
  <2>6. ASSUME NEW p \in Cpus, NEW q \in Cpus, p # q PROVE RunRef(p) # RunRef(q)
    <3>1. /\ RunRef(p) = r + z * p /\ p \in Nat /\ RunRef(q) = r + z * q /\ q \in Nat
      BY <1>1, WordOfProcessor
    <3>2. z \in Nat \ {0}
      BY <2>1, <2>3
    <3>3. z * p # z * q /\ z * p \in Nat /\ z * q \in Nat
      BY <2>6, <3>1, <3>2
    <3> QED BY <2>1, <3>1, <3>3
  <2> QED BY <2>5, <2>6
<1>2. LayoutInv => OwnLine
  BY <1>1 DEF OwnLine, WordsFit
<1> QED BY <1>2, LayoutInvariance, PTL
=============================================================================
