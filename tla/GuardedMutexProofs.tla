------------------------- MODULE GuardedMutexProofs -------------------------
(***************************************************************************)
(* Proofs about GuardedMutex for any finite set of threads: the mutex is   *)
(* exclusive, its bookkeeping of waiters and wake-ups is exact, and no     *)
(* wake-up is lost.                                                        *)
(***************************************************************************)
EXTENDS GuardedMutex, FiniteSetTheorems, TLAPS

(* The words the three compare-exchanges write. *)
LEMMA Words ==
    ASSUME NEW v \in Count, NEW w \in BOOLEAN
    PROVE  Taken(v, w) \in Count /\ Registered(v, w) \in Count /\ OneWoken(v) \in Count
<1>1. v.free \in BOOLEAN /\ v.woken \in BOOLEAN /\ v.n \in Int
  BY DEF Count
<1> QED
  BY <1>1 DEF Taken, Registered, OneWoken, Count

(* The initial state satisfies the invariant. *)
LEMMA InitIInv == Init => IInv
<1> SUFFICES ASSUME Init PROVE IInv
  OBVIOUS
<1>1. TypeOK
  <2>1. \A b, c \in BOOLEAN : [free |-> b, woken |-> c, n |-> 0] \in Count
    BY DEF Count
  <2> QED
    BY <2>1 DEF Init, TypeOK, PCs
<1>5. LocalsOK /\ MutualExclusion /\ OwnerIsHolder /\ WokenBit
  BY GMAssumption DEF Init, LocalsOK, MutualExclusion, Holding,
         OwnerIsHolder, WokenBit, Wakes
<1>2. Waiters = {}
  BY DEF Init, Waiters
<1>3. Cardinality(Waiters) = 0
  BY <1>2, FS_EmptySet
<1>4. WaiterCount
  BY <1>3 DEF Init, WaiterCount
<1> QED
  BY <1>1, <1>2, <1>4, <1>5 DEF IInv, NoLostWakeup

(* Every action keeps the variables in their types. *)
LEMMA TypeStep == TypeOK /\ [Next]_vars => TypeOK'
<1> SUFFICES ASSUME TypeOK, [Next]_vars PROVE TypeOK'
  OBVIOUS
<1> USE DEF TypeOK, Goto, Save, PCs
<1>1. ASSUME NEW t \in Threads, AcquireFast(t) PROVE TypeOK'
  BY <1>1 DEF AcquireFast, Count
<1>2. ASSUME NEW t \in Threads, AcquireLoad(t) PROVE TypeOK'
  BY <1>2 DEF AcquireLoad
<1>3. ASSUME NEW t \in Threads, AcquireLoop(t) PROVE TypeOK'
  <2>1. /\ Taken(old[t], woken[t]) \in Count
        /\ Registered(old[t], woken[t]) \in Count
    BY Words
  <2> QED
    BY <1>3, <2>1 DEF AcquireLoop
<1>4. ASSUME NEW t \in Threads, WaitForGate(t) PROVE TypeOK'
  BY <1>4 DEF WaitForGate
<1>5. ASSUME NEW t \in Threads, SetOwner(t) PROVE TypeOK'
  BY <1>5 DEF SetOwner
<1>6. ASSUME NEW t \in Threads, ReleaseOwner(t) PROVE TypeOK'
  BY <1>6 DEF ReleaseOwner
<1>7. ASSUME NEW t \in Threads, ReleaseAdd(t) PROVE TypeOK'
  BY <1>7 DEF ReleaseAdd, Count
<1>8. ASSUME NEW t \in Threads, ReleaseCas(t) PROVE TypeOK'
  <2>1. OneWoken(old[t]) \in Count
    BY Words
  <2> QED
    BY <1>8, <2>1 DEF ReleaseCas
<1>9. ASSUME NEW t \in Threads, ReleaseSignal(t) PROVE TypeOK'
  BY <1>9 DEF ReleaseSignal
<1>10. CASE UNCHANGED vars
  BY <1>10 DEF vars
<1> QED
  BY <1>1, <1>2, <1>3, <1>4, <1>5, <1>6, <1>7, <1>8, <1>9, <1>10
     DEF Next, Continue

(* Calls go on remembering what is of use. *)
LEMMA LocalsStep == IInv /\ TypeOK' /\ [Next]_vars => LocalsOK'
<1> SUFFICES ASSUME IInv, TypeOK', [Next]_vars PROVE LocalsOK'
  OBVIOUS
<1> USE DEF IInv, TypeOK, LocalsOK, Goto, Save, PCs
<1>1. ASSUME NEW t \in Threads, AcquireFast(t) PROVE LocalsOK'
  BY <1>1 DEF AcquireFast, Count
<1>2. ASSUME NEW t \in Threads, AcquireLoad(t) PROVE LocalsOK'
  BY <1>2 DEF AcquireLoad
<1>3. ASSUME NEW t \in Threads, AcquireLoop(t) PROVE LocalsOK'
  BY <1>3 DEF AcquireLoop, Count, Taken, Registered
<1>4. ASSUME NEW t \in Threads, WaitForGate(t) PROVE LocalsOK'
  BY <1>4 DEF WaitForGate
<1>5. ASSUME NEW t \in Threads, SetOwner(t) PROVE LocalsOK'
  BY <1>5 DEF SetOwner
<1>6. ASSUME NEW t \in Threads, ReleaseOwner(t) PROVE LocalsOK'
  BY <1>6 DEF ReleaseOwner
<1>7. ASSUME NEW t \in Threads, ReleaseAdd(t) PROVE LocalsOK'
  BY <1>7 DEF ReleaseAdd, Count
<1>8. ASSUME NEW t \in Threads, ReleaseCas(t) PROVE LocalsOK'
  BY <1>8 DEF ReleaseCas, Count, OneWoken
<1>9. ASSUME NEW t \in Threads, ReleaseSignal(t) PROVE LocalsOK'
  BY <1>9 DEF ReleaseSignal
<1>10. CASE UNCHANGED vars
  BY <1>10 DEF vars
<1> QED
  BY <1>1, <1>2, <1>3, <1>4, <1>5, <1>6, <1>7, <1>8, <1>9, <1>10
     DEF Next, Continue

(* The mutex stays exclusive. *)
LEMMA ExclusionStep == IInv /\ TypeOK' /\ [Next]_vars => MutualExclusion'
<1> SUFFICES ASSUME IInv, TypeOK', [Next]_vars PROVE MutualExclusion'
  OBVIOUS
<1> USE DEF IInv, TypeOK, LocalsOK, MutualExclusion, Holding, Goto, Save, PCs
<1>1. ASSUME NEW t \in Threads, AcquireFast(t) PROVE MutualExclusion'
  BY <1>1 DEF AcquireFast, Count
<1>2. ASSUME NEW t \in Threads, AcquireLoad(t) PROVE MutualExclusion'
  BY <1>2 DEF AcquireLoad
<1>3. ASSUME NEW t \in Threads, AcquireLoop(t) PROVE MutualExclusion'
  BY <1>3 DEF AcquireLoop, Count, Taken, Registered
<1>4. ASSUME NEW t \in Threads, WaitForGate(t) PROVE MutualExclusion'
  BY <1>4 DEF WaitForGate
<1>5. ASSUME NEW t \in Threads, SetOwner(t) PROVE MutualExclusion'
  BY <1>5 DEF SetOwner
<1>6. ASSUME NEW t \in Threads, ReleaseOwner(t) PROVE MutualExclusion'
  BY <1>6 DEF ReleaseOwner
<1>7. ASSUME NEW t \in Threads, ReleaseAdd(t) PROVE MutualExclusion'
  BY <1>7 DEF ReleaseAdd, Count
<1>8. ASSUME NEW t \in Threads, ReleaseCas(t) PROVE MutualExclusion'
  BY <1>8 DEF ReleaseCas, Count, OneWoken
<1>9. ASSUME NEW t \in Threads, ReleaseSignal(t) PROVE MutualExclusion'
  BY <1>9 DEF ReleaseSignal
<1>10. CASE UNCHANGED vars
  BY <1>10 DEF vars
<1> QED
  BY <1>1, <1>2, <1>3, <1>4, <1>5, <1>6, <1>7, <1>8, <1>9, <1>10
     DEF Next, Continue

(* The owner stays the holder. *)
LEMMA OwnerStep == IInv /\ TypeOK' /\ [Next]_vars => OwnerIsHolder'
<1> SUFFICES ASSUME IInv, TypeOK', [Next]_vars PROVE OwnerIsHolder'
  OBVIOUS
<1> USE DEF IInv, TypeOK, MutualExclusion, OwnerIsHolder, Holding, Goto, Save, PCs
<1>1. ASSUME NEW t \in Threads, AcquireFast(t) PROVE OwnerIsHolder'
  BY <1>1, GMAssumption DEF AcquireFast, Count
<1>2. ASSUME NEW t \in Threads, AcquireLoad(t) PROVE OwnerIsHolder'
  BY <1>2, GMAssumption DEF AcquireLoad
<1>3. ASSUME NEW t \in Threads, AcquireLoop(t) PROVE OwnerIsHolder'
  BY <1>3, GMAssumption DEF AcquireLoop, Count, Taken, Registered
<1>4. ASSUME NEW t \in Threads, WaitForGate(t) PROVE OwnerIsHolder'
  BY <1>4, GMAssumption DEF WaitForGate
<1>5. ASSUME NEW t \in Threads, SetOwner(t) PROVE OwnerIsHolder'
  BY <1>5, GMAssumption DEF SetOwner
<1>6. ASSUME NEW t \in Threads, ReleaseOwner(t) PROVE OwnerIsHolder'
  BY <1>6, GMAssumption DEF ReleaseOwner
<1>7. ASSUME NEW t \in Threads, ReleaseAdd(t) PROVE OwnerIsHolder'
  BY <1>7, GMAssumption DEF ReleaseAdd, Count
<1>8. ASSUME NEW t \in Threads, ReleaseCas(t) PROVE OwnerIsHolder'
  BY <1>8, GMAssumption DEF ReleaseCas, Count, OneWoken
<1>9. ASSUME NEW t \in Threads, ReleaseSignal(t) PROVE OwnerIsHolder'
  BY <1>9, GMAssumption DEF ReleaseSignal
<1>10. CASE UNCHANGED vars
  BY <1>10 DEF vars
<1> QED
  BY <1>1, <1>2, <1>3, <1>4, <1>5, <1>6, <1>7, <1>8, <1>9, <1>10
     DEF Next, Continue

(* There stays at most one wake-up. *)
LEMMA WokenStep == IInv /\ TypeOK' /\ [Next]_vars => WokenBit'
<1> SUFFICES ASSUME IInv, TypeOK', [Next]_vars PROVE WokenBit'
  OBVIOUS
<1> USE DEF IInv, TypeOK, LocalsOK, WokenBit, Wakes, Goto, Save, PCs
<1>1. ASSUME NEW t \in Threads, AcquireFast(t) PROVE WokenBit'
  BY <1>1 DEF AcquireFast, Count
<1>2. ASSUME NEW t \in Threads, AcquireLoad(t) PROVE WokenBit'
  BY <1>2 DEF AcquireLoad
<1>3. ASSUME NEW t \in Threads, AcquireLoop(t) PROVE WokenBit'
  BY <1>3 DEF AcquireLoop, Count, Taken, Registered
<1>4. ASSUME NEW t \in Threads, WaitForGate(t) PROVE WokenBit'
  BY <1>4 DEF WaitForGate
<1>5. ASSUME NEW t \in Threads, SetOwner(t) PROVE WokenBit'
  BY <1>5 DEF SetOwner
<1>6. ASSUME NEW t \in Threads, ReleaseOwner(t) PROVE WokenBit'
  BY <1>6 DEF ReleaseOwner
<1>7. ASSUME NEW t \in Threads, ReleaseAdd(t) PROVE WokenBit'
  BY <1>7 DEF ReleaseAdd, Count
<1>8. ASSUME NEW t \in Threads, ReleaseCas(t) PROVE WokenBit'
  BY <1>8 DEF ReleaseCas, Count, OneWoken
<1>9. ASSUME NEW t \in Threads, ReleaseSignal(t) PROVE WokenBit'
  BY <1>9 DEF ReleaseSignal
<1>10. CASE UNCHANGED vars
  BY <1>10 DEF vars
<1> QED
  BY <1>1, <1>2, <1>3, <1>4, <1>5, <1>6, <1>7, <1>8, <1>9, <1>10
     DEF Next, Continue

(* Joining and leaving the set of waiters counts by one. *)
LEMMA WaitersCard ==
    /\ Cardinality(Waiters) \in Nat /\ Cardinality(Waiters') \in Nat
    /\ Cardinality(Waiters) = 0 <=> Waiters = {}
    /\ \A t \in Threads :
          /\ t \notin Waiters /\ Waiters' = Waiters \cup {t} =>
                Cardinality(Waiters') = Cardinality(Waiters) + 1
          /\ t \in Waiters /\ Waiters' = Waiters \ {t} =>
                Cardinality(Waiters') = Cardinality(Waiters) - 1
<1>1. IsFiniteSet(Waiters) /\ IsFiniteSet(Waiters')
  <2>1. Waiters \subseteq Threads /\ Waiters' \subseteq Threads
    BY DEF Waiters
  <2> QED
    BY <2>1, GMAssumption, FS_Subset
<1>2. Cardinality(Waiters) \in Nat /\ Cardinality(Waiters') \in Nat
  BY <1>1, FS_CardinalityType
<1>3. Cardinality(Waiters) = 0 <=> Waiters = {}
  BY <1>1, FS_EmptySet
<1>4. ASSUME NEW t \in Threads, t \notin Waiters, Waiters' = Waiters \cup {t}
      PROVE  Cardinality(Waiters') = Cardinality(Waiters) + 1
  BY <1>1, <1>4, FS_AddElement
<1>5. ASSUME NEW t \in Threads, t \in Waiters, Waiters' = Waiters \ {t}
      PROVE  Cardinality(Waiters') = Cardinality(Waiters) - 1
  BY <1>1, <1>5, FS_RemoveElement
<1> QED
  BY <1>2, <1>3, <1>4, <1>5

(* The number of waiters stays exact. *)
LEMMA WaiterStep == IInv /\ TypeOK' /\ [Next]_vars => WaiterCount'
<1> SUFFICES ASSUME IInv, TypeOK', [Next]_vars PROVE WaiterCount'
  OBVIOUS
<1> DEFINE Due == signal \/ \E t \in Threads : pc[t] = "RelSignal"
<1>a. Cardinality(Waiters) = count.n + IF Due THEN 1 ELSE 0
  BY DEF IInv, WaiterCount
<1>b. SUFFICES Cardinality(Waiters') = count'.n + IF Due' THEN 1 ELSE 0
  BY DEF WaiterCount
<1>c. count.n \in Int /\ Cardinality(Waiters) \in Int
  BY WaitersCard DEF IInv, TypeOK, Count
<1>d. ASSUME Waiters' = Waiters, count'.n = count.n, Due' = Due
      PROVE  Cardinality(Waiters') = count'.n + IF Due' THEN 1 ELSE 0
  BY <1>a, <1>d
<1> USE DEF IInv, TypeOK, Goto, Save, PCs, Waiters
<1>1. ASSUME NEW t \in Threads,
             AcquireFast(t) \/ AcquireLoad(t) \/ SetOwner(t) \/ ReleaseOwner(t)
             \/ ReleaseAdd(t)
      PROVE  Waiters' = Waiters /\ count'.n = count.n /\ Due' = Due
  <2>1. count'.n = count.n /\ UNCHANGED signal
    BY <1>1 DEF AcquireFast, AcquireLoad, SetOwner, ReleaseOwner, ReleaseAdd, Count
  <2>2. \E l \in PCs \ {"Gate", "Asleep", "RelSignal"} :
            Goto(t, l) /\ pc[t] \notin {"Gate", "Asleep", "RelSignal"}
    BY <1>1 DEF AcquireFast, AcquireLoad, SetOwner, ReleaseOwner, ReleaseAdd
  <2> QED
    BY <2>1, <2>2
<1>2. ASSUME NEW t \in Threads, AcquireLoop(t)
      PROVE  Cardinality(Waiters') = count'.n + IF Due' THEN 1 ELSE 0
  <2>1. CASE pc' = [pc EXCEPT ![t] = "Gate"]
    <3>1. t \notin Waiters /\ Waiters' = Waiters \cup {t}
      BY <1>2, <2>1 DEF AcquireLoop
    <3>2. Due' = Due
      BY <1>2, <2>1 DEF AcquireLoop
    <3>3. woken[t] => count.woken
      BY DEF WokenBit, Wakes
    <3>4. count' = Registered(count, woken[t])
      BY <1>2, <2>1 DEF AcquireLoop
    <3>5. count'.n = count.n + 1
      BY <3>3, <3>4 DEF Registered
    <3>6. Cardinality(Waiters') = Cardinality(Waiters) + 1
      BY <3>1, WaitersCard
    <3> QED
      BY <1>a, <1>c, <3>2, <3>5, <3>6
  <2>2. CASE pc' # [pc EXCEPT ![t] = "Gate"]
    <3>1. Waiters' = Waiters /\ Due' = Due
      BY <1>2, <2>2 DEF AcquireLoop
    <3>2. count'.n = count.n
      BY <1>2, <2>2 DEF AcquireLoop, Taken
    <3> QED
      BY <1>d, <3>1, <3>2
  <2> QED
    BY <2>1, <2>2
<1>3. ASSUME NEW t \in Threads, WaitForGate(t)
      PROVE  Cardinality(Waiters') = count'.n + IF Due' THEN 1 ELSE 0
  <2>1. CASE signal
    <3>1. t \in Waiters /\ Waiters' = Waiters \ {t}
      BY <1>3, <2>1 DEF WaitForGate
    <3>2. Due /\ ~Due' /\ UNCHANGED count
      BY <1>3, <2>1 DEF WaitForGate, WokenBit, Wakes
    <3>3. Cardinality(Waiters') = Cardinality(Waiters) - 1
      BY <3>1, WaitersCard
    <3> QED
      BY <1>a, <1>c, <3>2, <3>3
  <2>2. CASE ~signal
    <3>1. Waiters' = Waiters /\ count' = count /\ Due' = Due
      BY <1>3, <2>2 DEF WaitForGate
    <3> QED
      BY <1>d, <3>1
  <2> QED
    BY <2>1, <2>2
<1>4. ASSUME NEW t \in Threads, ReleaseCas(t)
      PROVE  Cardinality(Waiters') = count'.n + IF Due' THEN 1 ELSE 0
  <2>1. CASE count = old[t]
    <3>1. ~count.woken
      BY <1>4, <2>1 DEF ReleaseCas, LocalsOK
    <3>2. ~Due
      BY <3>1 DEF WokenBit, Wakes
    <3>3. Due' /\ Waiters' = Waiters
      BY <1>4, <2>1 DEF ReleaseCas
    <3>4. count'.n = count.n - 1
      BY <1>4, <2>1 DEF ReleaseCas, OneWoken
    <3>5. Cardinality(Waiters') = Cardinality(Waiters)
      BY <3>3
    <3> HIDE DEF Waiters, Due
    <3> QED
      BY <1>a, <1>c, <3>2, <3>3, <3>4, <3>5
  <2>2. CASE count # old[t]
    <3>1. Waiters' = Waiters /\ count' = count /\ Due' = Due
      BY <1>4, <2>2 DEF ReleaseCas
    <3> QED
      BY <1>d, <3>1
  <2> QED
    BY <2>1, <2>2
<1>5. ASSUME NEW t \in Threads, ReleaseSignal(t)
      PROVE  Cardinality(Waiters') = count'.n + IF Due' THEN 1 ELSE 0
  <2>1. Due /\ ~signal /\ UNCHANGED count
        /\ \A u \in Threads : pc[u] = "RelSignal" => u = t
    BY <1>5 DEF ReleaseSignal, WokenBit, Wakes
  <2>2. ASSUME NEW u \in Threads, pc[u] = "Asleep", UNCHANGED signal,
               pc' = [pc EXCEPT ![t] = "Idle", ![u] = "AcqLoad"]
        PROVE  Cardinality(Waiters') = count'.n + IF Due' THEN 1 ELSE 0
    <3>1. u \in Waiters /\ Waiters' = Waiters \ {u} /\ ~Due'
      BY <1>5, <2>1, <2>2 DEF ReleaseSignal
    <3>2. Cardinality(Waiters') = Cardinality(Waiters) - 1
      BY <3>1, WaitersCard
    <3> QED
      BY <1>a, <1>c, <2>1, <3>1, <3>2
  <2>3. ASSUME signal', Goto(t, "Idle")
        PROVE  Waiters' = Waiters /\ Due'
    BY <1>5, <2>3 DEF ReleaseSignal
  <2> QED
    BY <1>5, <1>d, <2>1, <2>2, <2>3 DEF ReleaseSignal
<1>6. CASE UNCHANGED vars
  BY <1>6, <1>d DEF vars
<1> QED
  BY <1>d, <1>1, <1>2, <1>3, <1>4, <1>5, <1>6 DEF Next, Continue

(* No step leaves a waiter behind. *)
LEMMA WakeupStep == IInv /\ TypeOK' /\ [Next]_vars => NoLostWakeup'
<1> SUFFICES ASSUME IInv, TypeOK', [Next]_vars PROVE NoLostWakeup'
  OBVIOUS
<1> USE DEF IInv, TypeOK, Goto, Save, PCs, NoLostWakeup, Waiters
<1>1. ASSUME NEW t \in Threads, AcquireFast(t) PROVE NoLostWakeup'
  BY <1>1 DEF AcquireFast, Count
<1>2. ASSUME NEW t \in Threads, AcquireLoad(t) PROVE NoLostWakeup'
  BY <1>2 DEF AcquireLoad
<1>3. ASSUME NEW t \in Threads, AcquireLoop(t) PROVE NoLostWakeup'
  <2>1. CASE count = old[t]
    BY <1>3, <2>1 DEF AcquireLoop, Taken, Registered
  <2>2. CASE count # old[t]
    BY <1>3, <2>2 DEF AcquireLoop
  <2> QED
    BY <2>1, <2>2
<1>4. ASSUME NEW t \in Threads, WaitForGate(t) PROVE NoLostWakeup'
  <2>1. signal => count.woken
    BY DEF WokenBit
  <2> QED
    BY <1>4, <2>1 DEF WaitForGate
<1>5. ASSUME NEW t \in Threads, SetOwner(t) PROVE NoLostWakeup'
  BY <1>5 DEF SetOwner
<1>6. ASSUME NEW t \in Threads, ReleaseOwner(t) PROVE NoLostWakeup'
  BY <1>6 DEF ReleaseOwner
<1>7. ASSUME NEW t \in Threads, ReleaseAdd(t) PROVE NoLostWakeup'
  <2>1. Waiters' = Waiters
    BY <1>7 DEF ReleaseAdd
  <2>2. CASE count.n = 0 /\ ~count.woken
    <3>1. ~(signal \/ \E u \in Threads : pc[u] = "RelSignal")
      BY <2>2 DEF WokenBit, Wakes
    <3>2. Cardinality(Waiters) = 0
      BY <2>2, <3>1 DEF WaiterCount
    <3>3. Waiters = {}
      BY <3>2, WaitersCard
    <3> QED
      BY <2>1, <3>3
  <2>3. CASE count.woken
    BY <1>7, <2>3 DEF ReleaseAdd, Count
  <2>4. CASE count.n # 0 /\ ~count.woken
    BY <1>7, <2>4 DEF ReleaseAdd
  <2> QED
    BY <2>2, <2>3, <2>4
<1>8. ASSUME NEW t \in Threads, ReleaseCas(t) PROVE NoLostWakeup'
  BY <1>8 DEF ReleaseCas, OneWoken
<1>9. ASSUME NEW t \in Threads, ReleaseSignal(t) PROVE NoLostWakeup'
  <2>1. count.woken
    BY <1>9 DEF ReleaseSignal, WokenBit, Wakes
  <2> QED
    BY <1>9, <2>1 DEF ReleaseSignal
<1>10. CASE UNCHANGED vars
  BY <1>10 DEF vars
<1> QED
  BY <1>1, <1>2, <1>3, <1>4, <1>5, <1>6, <1>7, <1>8, <1>9, <1>10
     DEF Next, Continue

-----------------------------------------------------------------------------
(* IInv is an invariant of the code. *)
THEOREM Invariance == Spec => []IInv
<1>1. Init => IInv
  BY InitIInv
<1>2. IInv /\ [Next]_vars => IInv'
  <2> SUFFICES ASSUME IInv, [Next]_vars PROVE IInv'
    OBVIOUS
  <2>1. TypeOK'
    BY TypeStep DEF IInv
  <2>2. LocalsOK' /\ MutualExclusion' /\ OwnerIsHolder' /\ WokenBit'
    BY <2>1, LocalsStep, ExclusionStep, OwnerStep, WokenStep
  <2>3. WaiterCount' /\ NoLostWakeup'
    BY <2>1, WaiterStep, WakeupStep
  <2> QED
    BY <2>1, <2>2, <2>3 DEF IInv
<1> QED
  BY <1>1, <1>2, PTL DEF Spec

(* The mutex is exclusive, its lock bit says whether it is held, and Owner *)
(* names the holder and nobody else.                                        *)
THEOREM Exclusive == Spec => []Exclusion
<1>1. IInv => Exclusion
  BY DEF IInv, Exclusion
<1> QED
  BY <1>1, Invariance, PTL

(* At most one wake-up is in progress, and the woken bit says so. *)
THEOREM OneWakeup == Spec => []WokenBit
<1>1. IInv => WokenBit
  BY DEF IInv
<1> QED
  BY <1>1, Invariance, PTL

(* The number of waiters in Count is the number of threads that wait. *)
THEOREM WaitersCounted == Spec => []WaiterCount
<1>1. IInv => WaiterCount
  BY DEF IInv
<1> QED
  BY <1>1, Invariance, PTL

(* Nobody sleeps on the gate while nobody is to wake it. *)
THEOREM NoneLost == Spec => []NoLostWakeup
<1>1. IInv => NoLostWakeup
  BY DEF IInv
<1> QED
  BY <1>1, Invariance, PTL
=============================================================================
