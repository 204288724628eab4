--------------------------- MODULE RundownProofs ---------------------------
(***************************************************************************)
(* Proofs about Rundown, for any set of threads and any finite set of      *)
(* references.  IInv is shown to be inductive, action by action; the       *)
(* properties follow from it.                                              *)
(***************************************************************************)
EXTENDS Rundown, FiniteSetTheorems, TLAPS

(* What is needed of the cardinality of sets of references: it is a natural *)
(* number, zero for the empty set only, and follows the grants and releases.*)
LEMMA Cards ==
    /\ \A S \in SUBSET Refs : Cardinality(S) \in Nat
    /\ \A S \in SUBSET Refs : Cardinality(S) = 0 <=> S = {}
    /\ \A S, T \in SUBSET Refs :
          S \cap T = {} => Cardinality(S \cup T) = Cardinality(S) + Cardinality(T)
    /\ \A S, T \in SUBSET Refs :
          T \subseteq S => /\ Cardinality(S \ T) = Cardinality(S) - Cardinality(T)
                           /\ Cardinality(T) <= Cardinality(S)
    /\ \A r \in Refs : Cardinality({r}) = 1
<1>1. \A S \in SUBSET Refs : IsFiniteSet(S)
  BY RefsAssumption, FS_Subset
<1>2. \A S \in SUBSET Refs : Cardinality(S) \in Nat
  BY <1>1, FS_CardinalityType
<1>3. \A S \in SUBSET Refs : Cardinality(S) = 0 <=> S = {}
  BY <1>1, FS_EmptySet
<1>4. ASSUME NEW S \in SUBSET Refs, NEW T \in SUBSET Refs, S \cap T = {}
      PROVE  Cardinality(S \cup T) = Cardinality(S) + Cardinality(T)
  <2>1. Cardinality(S \cup T) =
            Cardinality(S) + Cardinality(T) - Cardinality(S \cap T)
    BY <1>1, FS_Union
  <2>2. Cardinality(S \cap T) = 0
    BY <1>4, FS_EmptySet
  <2>3. Cardinality(S) \in Nat /\ Cardinality(T) \in Nat
    BY <1>2
  <2> QED
    BY <2>1, <2>2, <2>3
<1>5. ASSUME NEW S \in SUBSET Refs, NEW T \in SUBSET Refs, T \subseteq S
      PROVE  /\ Cardinality(S \ T) = Cardinality(S) - Cardinality(T)
             /\ Cardinality(T) <= Cardinality(S)
  <2>1. Cardinality(S \ T) = Cardinality(S) - Cardinality(S \cap T)
    BY <1>1, FS_Difference
  <2>2. S \cap T = T
    BY <1>5
  <2>3. Cardinality(T) <= Cardinality(S)
    BY <1>1, <1>5, FS_Subset
  <2> QED
    BY <2>1, <2>2, <2>3
<1>6. \A r \in Refs : Cardinality({r}) = 1
  BY FS_Singleton
<1> QED
  BY <1>2, <1>3, <1>4, <1>5, <1>6

(* The initial state satisfies the invariant. *)
LEMMA InitIInv == Init => IInv
<1> SUFFICES ASSUME Init PROVE IInv
  OBVIOUS
<1>1. TypeOK
  BY DEF Init, TypeOK, Word, Counter, PCs
<1>2. ClaimsOK /\ OneRundown /\ SignalOK /\ ValuesOK
  BY DEF Init, ClaimsOK, OneRundown, SignalOK, ValuesOK,
         AcquirePCs, ReleasePCs, WaitPCs
<1>3. WordOK
  BY FS_EmptySet DEF Init, WordOK, Counter
<1> QED
  BY <1>1, <1>2, <1>3 DEF IInv

(* Every action keeps the variables in their types. *)
LEMMA TypeStep == TypeOK /\ [Next]_vars => TypeOK'
<1> SUFFICES ASSUME TypeOK, [Next]_vars PROVE TypeOK'
  OBVIOUS
<1> USE DEF TypeOK
<1>0. CASE UNCHANGED vars
  BY <1>0 DEF vars
<1> SUFFICES ASSUME NEW t \in Threads,
                    \/ StartAcquire(t) \/ StartRelease(t) \/ WaitFast(t)
                    \/ Continue(t) \/ RundownCompleted(t) \/ ReInitialize(t)
             PROVE  TypeOK'
  BY <1>0 DEF Next
<1> USE DEF Goto, Return, PCs, AcquirePCs, ReleasePCs, WaitPCs
<1>a. Cardinality(op[t]) \in Int
  BY Cards
<1>b. /\ Counter(0) \in Word /\ Active \in Word /\ Ptr(t) \in Word
      /\ Mask(runRef) \in Word
      /\ \A k \in Int : Add(val[t], k) \in Word
  <2>1. Counter(0) \in Word /\ Active \in Word /\ Ptr(t) \in Word
    BY DEF Word, Counter, Active, Ptr
  <2>2. Mask(runRef) \in Word
    BY DEF Word, Mask
  <2>3. ASSUME NEW k \in Int PROVE Add(val[t], k) \in Word
    <3>1. val[t] \in Word
      OBVIOUS
    <3> QED
      BY <3>1 DEF Word, Add
  <2> QED
    BY <2>1, <2>2, <2>3
<1>1. CASE AcquireFastLoad(t)
  BY <1>1, <1>b DEF AcquireFastLoad
<1>2. CASE AcquireExLoad(t)
  BY <1>2, <1>b DEF AcquireExLoad
<1>3. CASE AcquireFastCas(t)
  BY <1>3, <1>b DEF AcquireFastCas
<1>4. CASE AcquireSlowLoad(t)
  BY <1>4 DEF AcquireSlowLoad
<1>5. CASE AcquireLoop(t)
  BY <1>5, <1>a, <1>b DEF AcquireLoop
<1>6. CASE ReleaseFastLoad(t)
  BY <1>6, <1>b DEF ReleaseFastLoad
<1>7. CASE ReleaseExLoad(t)
  BY <1>7, <1>b DEF ReleaseExLoad
<1>8. CASE ReleaseFastCas(t)
  BY <1>8, <1>b DEF ReleaseFastCas
<1>9. CASE ReleaseSlowLoad(t)
  BY <1>9 DEF ReleaseSlowLoad
<1>10. CASE ReleaseLoop(t)
  BY <1>10, <1>a, <1>b DEF ReleaseLoop
<1>11. CASE ReleaseBlock(t)
  <2> DEFINE w == val[t].ptr
             left == block[w].count - Cardinality(op[t])
  <2>1. block' = [block EXCEPT ![w].count = left]
    BY <1>11 DEF ReleaseBlock
  <2>2. w \in Threads => left \in Int
    BY <1>a
  <2>3. block' \in [Threads -> [count : Int, event : BOOLEAN]]
    BY <2>1, <2>2
  <2>4. UNCHANGED <<runRef, val>> /\ out' \in SUBSET Refs
    BY <1>11 DEF ReleaseBlock
  <2>5. pc' \in [Threads -> PCs] /\ op' \in [Threads -> SUBSET Refs]
    BY <1>11 DEF ReleaseBlock
  <2> QED
    BY <2>3, <2>4, <2>5
<1>12. CASE ReleaseSignal(t)
  BY <1>12 DEF ReleaseSignal
<1>13. CASE WaitFast(t)
  BY <1>13, <1>b DEF WaitFast
<1>14. CASE WaitSlow(t)
  BY <1>14, <1>b DEF WaitSlow
<1>15. CASE WaitLoop(t)
  <2>1. val[t].n \in Int
    BY DEF Word
  <2> QED
    BY <1>15, <1>b, <2>1 DEF WaitLoop
<1>16. CASE WaitEvent(t)
  BY <1>16 DEF WaitEvent
<1>17. CASE RundownCompleted(t)
  BY <1>17, <1>b DEF RundownCompleted
<1>18. CASE ReInitialize(t)
  BY <1>18, <1>b DEF ReInitialize
<1> QED
  BY <1>1, <1>2, <1>3, <1>4, <1>5, <1>6, <1>7, <1>8, <1>9, <1>10, <1>11,
     <1>12, <1>13, <1>14, <1>15, <1>16, <1>17, <1>18
     DEF StartAcquire, StartRelease, Continue


(* Adding references to a word that holds a count. *)
LEMMA AddCounter ==
    ASSUME NEW c \in Int, NEW k \in Int
    PROVE  Add(Counter(c), k) = Counter(c + k)
<1>1. ASSUME NEW w \in Word
      PROVE  Add(w, k) = [active |-> w.active, n |-> w.n + k, ptr |-> w.ptr]
  BY DEF Add, Word
<1>2. Counter(c) \in Word /\ Counter(c).active = FALSE /\ Counter(c).n = c
      /\ Counter(c).ptr = NoBlock
  BY DEF Counter, Word
<1> QED
  BY <1>1, <1>2 DEF Counter

(* The compare-exchanges on the count, of an acquire or a release: when one *)
(* succeeds the word keeps counting the references that are out.            *)
LEMMA CountStep ==
    ASSUME IInv, NEW t \in Threads,
           \/ AcquireFastCas(t) \/ AcquireLoop(t)
           \/ ReleaseFastCas(t) \/ ReleaseLoop(t)
    PROVE  /\ runRef' # runRef \/ out' # out =>
                 ~runRef.active /\ runRef' = Counter(Cardinality(out'))
           /\ \E l \in {"Idle"} \cup AcquirePCs \cup ReleasePCs : Goto(t, l)
           /\ UNCHANGED block
<1> USE DEF IInv
<1>1. val[t] \in Word /\ op[t] \in SUBSET Refs /\ out \in SUBSET Refs
      /\ Cardinality(op[t]) \in Nat /\ Cardinality(out) \in Nat
  BY Cards DEF TypeOK
<1>2. ASSUME ~val[t].active, runRef = val[t]
      PROVE  val[t] = Counter(Cardinality(out))
  BY <1>2 DEF WordOK
<1>3. \A k \in Int : Add(Counter(Cardinality(out)), k) = Counter(Cardinality(out) + k)
  BY <1>1, AddCounter
<1>4. CASE AcquireFastCas(t)
  <2>1. ~val[t].active /\ Cardinality(op[t]) = 1 /\ op[t] \cap out = {}
    BY <1>4 DEF AcquireFastCas, ValuesOK, ClaimsOK, AcquirePCs
  <2>2. Cardinality(out \cup op[t]) = Cardinality(out) + 1
    BY <1>1, <2>1, Cards
  <2>3. Add(Counter(Cardinality(out)), 1) = Counter(Cardinality(out) + 1)
    BY <1>3
  <2>4. CASE runRef = val[t]
    BY <1>2, <1>4, <2>1, <2>2, <2>3, <2>4 DEF AcquireFastCas, Return
  <2>5. CASE runRef # val[t]
    BY <1>4, <2>5 DEF AcquireFastCas, AcquirePCs
  <2> QED
    BY <2>4, <2>5
<1>5. CASE AcquireLoop(t)
  <2>1. op[t] \cap out = {}
    BY <1>5 DEF AcquireLoop, ClaimsOK, AcquirePCs
  <2>2. Cardinality(out \cup op[t]) = Cardinality(out) + Cardinality(op[t])
    BY <1>1, <2>1, Cards
  <2>3. Add(Counter(Cardinality(out)), Cardinality(op[t]))
            = Counter(Cardinality(out) + Cardinality(op[t]))
    BY <1>1, <1>3
  <2>4. CASE val[t].active
    BY <1>5, <2>4 DEF AcquireLoop, Return
  <2>5. CASE ~val[t].active /\ runRef = val[t]
    BY <1>2, <1>5, <2>2, <2>3, <2>5 DEF AcquireLoop, Return
  <2>6. CASE ~val[t].active /\ runRef # val[t]
    <3>1. UNCHANGED pc => Goto(t, "AcqLoop")
      BY <1>5 DEF AcquireLoop, Goto, TypeOK
    <3> QED
      BY <1>5, <2>6, <3>1 DEF AcquireLoop, AcquirePCs
  <2> QED
    BY <2>4, <2>5, <2>6
<1>6. CASE ReleaseFastCas(t)
  <2>1. ~val[t].active /\ Cardinality(op[t]) = 1 /\ op[t] \subseteq out
    BY <1>6 DEF ReleaseFastCas, ValuesOK, ClaimsOK, ReleasePCs
  <2>2. Cardinality(out \ op[t]) = Cardinality(out) + (-1)
    BY <1>1, <2>1, Cards
  <2>3. Add(Counter(Cardinality(out)), -1) = Counter(Cardinality(out) + (-1))
    BY <1>3
  <2>4. CASE runRef = val[t]
    BY <1>2, <1>6, <2>1, <2>2, <2>3, <2>4 DEF ReleaseFastCas, Return
  <2>5. CASE runRef # val[t]
    BY <1>6, <2>5 DEF ReleaseFastCas, ReleasePCs
  <2> QED
    BY <2>4, <2>5
<1>7. CASE ReleaseLoop(t)
  <2>1. op[t] \subseteq out
    BY <1>7 DEF ReleaseLoop, ClaimsOK, ReleasePCs
  <2>2. Cardinality(out \ op[t]) = Cardinality(out) + (-Cardinality(op[t]))
    BY <1>1, <2>1, Cards
  <2>3. Add(Counter(Cardinality(out)), -Cardinality(op[t]))
            = Counter(Cardinality(out) + (-Cardinality(op[t])))
    BY <1>1, <1>3
  <2>4. CASE runRef = val[t]
    BY <1>2, <1>7, <2>2, <2>3, <2>4 DEF ReleaseLoop, Return
  <2>5. CASE runRef # val[t]
    <3>1. UNCHANGED pc => Goto(t, "RelLoop")
      BY <1>7 DEF ReleaseLoop, Goto, TypeOK
    <3> QED
      BY <1>7, <2>5, <3>1 DEF ReleaseLoop, ReleasePCs
  <2> QED
    BY <2>4, <2>5
<1> QED
  BY <1>4, <1>5, <1>6, <1>7

(* The word, while it counts, counts at least the references of a release, *)
(* and taking these off leaves the number of the others.                    *)
LEMMA Releasable ==
    ASSUME IInv, NEW S \in SUBSET out
    PROVE  /\ ~runRef.active => runRef.n >= Cardinality(S)
           /\ Cardinality(out \ S) = Cardinality(out) - Cardinality(S)
           /\ Cardinality(out \ S) = 0 <=> out \ S = {}
<1>1. out \in SUBSET Refs /\ S \in SUBSET Refs /\ S \subseteq out
  BY DEF IInv, TypeOK
<1>2. /\ Cardinality(S) <= Cardinality(out)
      /\ Cardinality(out \ S) = Cardinality(out) - Cardinality(S)
      /\ Cardinality(out \ S) = 0 <=> out \ S = {}
  BY <1>1, Cards
<1>3. ~runRef.active => runRef.n = Cardinality(out)
  BY DEF IInv, WordOK, Counter
<1>4. Cardinality(S) \in Int /\ Cardinality(out) \in Int
  BY <1>1, Cards
<1>5. ~runRef.active => runRef.n >= Cardinality(S)
  BY <1>2, <1>3, <1>4
<1> QED
  BY <1>2, <1>5

(***************************************************************************)
(* The inductive step, one lemma for each conjunct of IInv and in it one   *)
(* step for each action.                                                   *)
(***************************************************************************)
(* The calls in flight go on claiming different tokens. *)
LEMMA ClaimsStep == IInv /\ TypeOK' /\ [Next]_vars => ClaimsOK'
<1> SUFFICES ASSUME IInv, TypeOK', [Next]_vars PROVE ClaimsOK'
  OBVIOUS
<1> USE DEF IInv, TypeOK, ClaimsOK, Goto, Return, Unclaimed,
           PCs, AcquirePCs, ReleasePCs, WaitPCs
<1>1. ASSUME NEW t \in Threads, AcquireFastLoad(t) PROVE ClaimsOK'
  BY <1>1, Cards DEF AcquireFastLoad
<1>2. ASSUME NEW t \in Threads, AcquireExLoad(t) PROVE ClaimsOK'
  BY <1>2 DEF AcquireExLoad
<1>3. ASSUME NEW t \in Threads, AcquireFastCas(t) PROVE ClaimsOK'
  BY <1>3 DEF AcquireFastCas
<1>4. ASSUME NEW t \in Threads, AcquireSlowLoad(t) PROVE ClaimsOK'
  BY <1>4 DEF AcquireSlowLoad
<1>5. ASSUME NEW t \in Threads, AcquireLoop(t) PROVE ClaimsOK'
  <2>1. CASE UNCHANGED <<op, out>>
    BY <1>5, <2>1 DEF AcquireLoop
  <2>2. CASE ~UNCHANGED <<op, out>>
    <3>1. /\ pc' = [pc EXCEPT ![t] = "Idle"]
          /\ op' = [op EXCEPT ![t] = {}]
          /\ out' = out \/ out' = out \cup op[t]
      BY <1>5, <2>2 DEF AcquireLoop
    <3> QED
      BY <3>1
  <2> QED
    BY <2>1, <2>2
<1>6. ASSUME NEW t \in Threads, ReleaseFastLoad(t) PROVE ClaimsOK'
  BY <1>6, Cards DEF ReleaseFastLoad
<1>7. ASSUME NEW t \in Threads, ReleaseExLoad(t) PROVE ClaimsOK'
  BY <1>7 DEF ReleaseExLoad
<1>8. ASSUME NEW t \in Threads, ReleaseFastCas(t) PROVE ClaimsOK'
  BY <1>8 DEF ReleaseFastCas
<1>9. ASSUME NEW t \in Threads, ReleaseSlowLoad(t) PROVE ClaimsOK'
  BY <1>9 DEF ReleaseSlowLoad
<1>10. ASSUME NEW t \in Threads, ReleaseLoop(t) PROVE ClaimsOK'
  BY <1>10 DEF ReleaseLoop
<1>11. ASSUME NEW t \in Threads, ReleaseBlock(t) PROVE ClaimsOK'
  BY <1>11 DEF ReleaseBlock
<1>12. ASSUME NEW t \in Threads, ReleaseSignal(t) PROVE ClaimsOK'
  BY <1>12 DEF ReleaseSignal
<1>13. ASSUME NEW t \in Threads, WaitFast(t) PROVE ClaimsOK'
  BY <1>13 DEF WaitFast
<1>14. ASSUME NEW t \in Threads, WaitSlow(t) PROVE ClaimsOK'
  BY <1>14 DEF WaitSlow
<1>15. ASSUME NEW t \in Threads, WaitLoop(t) PROVE ClaimsOK'
  BY <1>15 DEF WaitLoop
<1>16. ASSUME NEW t \in Threads, WaitEvent(t) PROVE ClaimsOK'
  BY <1>16 DEF WaitEvent
<1>17. ASSUME NEW t \in Threads, RundownCompleted(t) PROVE ClaimsOK'
  BY <1>17 DEF RundownCompleted
<1>18. ASSUME NEW t \in Threads, ReInitialize(t) PROVE ClaimsOK'
  BY <1>18 DEF ReInitialize
<1>19. CASE UNCHANGED vars
  BY <1>19 DEF vars
<1> QED
  BY <1>1, <1>2, <1>3, <1>4, <1>5, <1>6, <1>7, <1>8, <1>9, <1>10, <1>11,
     <1>12, <1>13, <1>14, <1>15, <1>16, <1>17, <1>18, <1>19
     DEF Next, StartAcquire, StartRelease, Continue

(* No second thread begins to run the object down. *)
LEMMA RundownStep == IInv /\ TypeOK' /\ [Next]_vars => OneRundown'
<1> SUFFICES ASSUME IInv, TypeOK', [Next]_vars PROVE OneRundown'
  OBVIOUS
<1> USE DEF IInv, TypeOK, OneRundown, Goto, Return, NoRundown,
           PCs, AcquirePCs, ReleasePCs, WaitPCs
<1>1. ASSUME NEW t \in Threads, AcquireFastLoad(t) PROVE OneRundown'
  BY <1>1 DEF AcquireFastLoad
<1>2. ASSUME NEW t \in Threads, AcquireExLoad(t) PROVE OneRundown'
  BY <1>2 DEF AcquireExLoad
<1>3. ASSUME NEW t \in Threads, AcquireFastCas(t) PROVE OneRundown'
  BY <1>3 DEF AcquireFastCas
<1>4. ASSUME NEW t \in Threads, AcquireSlowLoad(t) PROVE OneRundown'
  BY <1>4 DEF AcquireSlowLoad
<1>5. ASSUME NEW t \in Threads, AcquireLoop(t) PROVE OneRundown'
  BY <1>5 DEF AcquireLoop
<1>6. ASSUME NEW t \in Threads, ReleaseFastLoad(t) PROVE OneRundown'
  BY <1>6 DEF ReleaseFastLoad
<1>7. ASSUME NEW t \in Threads, ReleaseExLoad(t) PROVE OneRundown'
  BY <1>7 DEF ReleaseExLoad
<1>8. ASSUME NEW t \in Threads, ReleaseFastCas(t) PROVE OneRundown'
  BY <1>8 DEF ReleaseFastCas
<1>9. ASSUME NEW t \in Threads, ReleaseSlowLoad(t) PROVE OneRundown'
  BY <1>9 DEF ReleaseSlowLoad
<1>10. ASSUME NEW t \in Threads, ReleaseLoop(t) PROVE OneRundown'
  BY <1>10 DEF ReleaseLoop
<1>11. ASSUME NEW t \in Threads, ReleaseBlock(t) PROVE OneRundown'
  BY <1>11 DEF ReleaseBlock
<1>12. ASSUME NEW t \in Threads, ReleaseSignal(t) PROVE OneRundown'
  BY <1>12 DEF ReleaseSignal
<1>13. ASSUME NEW t \in Threads, WaitFast(t) PROVE OneRundown'
  BY <1>13 DEF WaitFast
<1>14. ASSUME NEW t \in Threads, WaitSlow(t) PROVE OneRundown'
  BY <1>14 DEF WaitSlow
<1>15. ASSUME NEW t \in Threads, WaitLoop(t) PROVE OneRundown'
  BY <1>15 DEF WaitLoop
<1>16. ASSUME NEW t \in Threads, WaitEvent(t) PROVE OneRundown'
  BY <1>16 DEF WaitEvent
<1>17. ASSUME NEW t \in Threads, RundownCompleted(t) PROVE OneRundown'
  BY <1>17 DEF RundownCompleted
<1>18. ASSUME NEW t \in Threads, ReInitialize(t) PROVE OneRundown'
  BY <1>18 DEF ReInitialize
<1>19. CASE UNCHANGED vars
  BY <1>19 DEF vars
<1> QED
  BY <1>1, <1>2, <1>3, <1>4, <1>5, <1>6, <1>7, <1>8, <1>9, <1>10, <1>11,
     <1>12, <1>13, <1>14, <1>15, <1>16, <1>17, <1>18, <1>19
     DEF Next, StartAcquire, StartRelease, Continue

(* The word, or the wait block it points to, goes on counting. *)
LEMMA WordStep == IInv /\ TypeOK' /\ [Next]_vars => WordOK'
<1> SUFFICES ASSUME IInv, TypeOK', [Next]_vars PROVE WordOK'
  OBVIOUS
<1> USE DEF IInv, TypeOK, ClaimsOK, OneRundown, WordOK, SignalOK, ValuesOK,
           Goto, Return, NoRundown, Word, Counter, Active, Ptr, Mask, Add,
           PCs, AcquirePCs, ReleasePCs, WaitPCs
<1>1. ASSUME NEW t \in Threads, AcquireFastLoad(t) PROVE WordOK'
  BY <1>1 DEF AcquireFastLoad
<1>2. ASSUME NEW t \in Threads, AcquireExLoad(t) PROVE WordOK'
  BY <1>2 DEF AcquireExLoad
<1>3. ASSUME NEW t \in Threads, AcquireFastCas(t) PROVE WordOK'
  <2>1. /\ runRef' # runRef \/ out' # out =>
              ~runRef.active /\ runRef' = Counter(Cardinality(out'))
        /\ \E l \in {"Idle"} \cup AcquirePCs \cup ReleasePCs : Goto(t, l)
        /\ UNCHANGED block
    BY <1>3, CountStep
  <2> QED
    BY <2>1, <1>3 DEF AcquireFastCas
<1>4. ASSUME NEW t \in Threads, AcquireSlowLoad(t) PROVE WordOK'
  BY <1>4 DEF AcquireSlowLoad
<1>5. ASSUME NEW t \in Threads, AcquireLoop(t) PROVE WordOK'
  <2>1. /\ runRef' # runRef \/ out' # out =>
              ~runRef.active /\ runRef' = Counter(Cardinality(out'))
        /\ \E l \in {"Idle"} \cup AcquirePCs \cup ReleasePCs : Goto(t, l)
        /\ UNCHANGED block
    BY <1>5, CountStep
  <2> QED
    BY <2>1, <1>5 DEF AcquireLoop
<1>6. ASSUME NEW t \in Threads, ReleaseFastLoad(t) PROVE WordOK'
  BY <1>6 DEF ReleaseFastLoad
<1>7. ASSUME NEW t \in Threads, ReleaseExLoad(t) PROVE WordOK'
  BY <1>7 DEF ReleaseExLoad
<1>8. ASSUME NEW t \in Threads, ReleaseFastCas(t) PROVE WordOK'
  <2>1. /\ runRef' # runRef \/ out' # out =>
              ~runRef.active /\ runRef' = Counter(Cardinality(out'))
        /\ \E l \in {"Idle"} \cup AcquirePCs \cup ReleasePCs : Goto(t, l)
        /\ UNCHANGED block
    BY <1>8, CountStep
  <2> QED
    BY <2>1, <1>8 DEF ReleaseFastCas
<1>9. ASSUME NEW t \in Threads, ReleaseSlowLoad(t) PROVE WordOK'
  BY <1>9 DEF ReleaseSlowLoad
<1>10. ASSUME NEW t \in Threads, ReleaseLoop(t) PROVE WordOK'
  <2>1. /\ runRef' # runRef \/ out' # out =>
              ~runRef.active /\ runRef' = Counter(Cardinality(out'))
        /\ \E l \in {"Idle"} \cup AcquirePCs \cup ReleasePCs : Goto(t, l)
        /\ UNCHANGED block
    BY <1>10, CountStep
  <2> QED
    BY <2>1, <1>10 DEF ReleaseLoop
<1>11. ASSUME NEW t \in Threads, ReleaseBlock(t) PROVE WordOK'
  <2> DEFINE w == val[t].ptr
             left == block[w].count - Cardinality(op[t])
  <2>1. runRef = val[t] /\ runRef.active /\ out # {} /\ op[t] \subseteq out
    BY <1>11 DEF ReleaseBlock
  <2>2. w \in Threads /\ runRef = Ptr(w) /\ pc[w] = "WaitEvent"
        /\ block[w].count = Cardinality(out)
    BY <2>1, Cards
  <2>3. left = Cardinality(out \ op[t])
    BY <2>1, <2>2, Releasable
  <2>4. UNCHANGED <<runRef, val>> /\ out' = out \ op[t] /\ pc'[w] = pc[w]
        /\ block'[w].count = left
    BY <1>11, <2>2 DEF ReleaseBlock
  <2>5. runRef'.active /\ runRef'.ptr = w
    BY <2>2, <2>4
  <2> QED
    BY <2>2, <2>3, <2>4, <2>5, NoBlockAssumption
<1>12. ASSUME NEW t \in Threads, ReleaseSignal(t) PROVE WordOK'
  BY <1>12, Cards, NoBlockAssumption DEF ReleaseSignal
<1>13. ASSUME NEW t \in Threads, WaitFast(t) PROVE WordOK'
  <2>1. CASE runRef = Counter(0)
    BY <1>13, <2>1, Cards DEF WaitFast
  <2>2. CASE runRef = Active
    BY <1>13, <2>2 DEF WaitFast
  <2>3. CASE runRef \notin {Counter(0), Active}
    <3>1. UNCHANGED <<runRef, block, out>>
          /\ pc' = [pc EXCEPT ![t] = "WaitSlow"]
      BY <1>13, <2>3 DEF WaitFast
    <3>2. \A u \in Threads : pc[u] = "WaitEvent" => u # t
      BY <1>13 DEF WaitFast
    <3> QED
      BY <1>13, <2>3, <3>1, <3>2 DEF WaitFast
  <2> QED
    BY <2>1, <2>2, <2>3
<1>14. ASSUME NEW t \in Threads, WaitSlow(t) PROVE WordOK'
  <2>1. CASE runRef = Counter(0)
    BY <1>14, <2>1, Cards DEF WaitSlow
  <2>2. CASE runRef = Active
    BY <1>14, <2>2 DEF WaitSlow
  <2>3. CASE runRef \notin {Counter(0), Active}
    <3>1. UNCHANGED <<runRef, block, out>>
          /\ pc' = [pc EXCEPT ![t] = "WaitLoop"]
      BY <1>14, <2>3 DEF WaitSlow
    <3>2. \A u \in Threads : pc[u] = "WaitEvent" => u # t
      BY <1>14 DEF WaitSlow
    <3> QED
      BY <1>14, <2>3, <3>1, <3>2 DEF WaitSlow
  <2> QED
    BY <2>1, <2>2, <2>3
<1>15. ASSUME NEW t \in Threads, WaitLoop(t) PROVE WordOK'
  BY <1>15, Cards, NoBlockAssumption DEF WaitLoop
<1>16. ASSUME NEW t \in Threads, WaitEvent(t) PROVE WordOK'
  BY <1>16, Cards, NoBlockAssumption DEF WaitEvent
<1>17. ASSUME NEW t \in Threads, RundownCompleted(t) PROVE WordOK'
  BY <1>17, Cards, NoBlockAssumption DEF RundownCompleted
<1>18. ASSUME NEW t \in Threads, ReInitialize(t) PROVE WordOK'
  BY <1>18, Cards, NoBlockAssumption DEF ReInitialize
<1>19. CASE UNCHANGED vars
  BY <1>19 DEF vars
<1> QED
  BY <1>1, <1>2, <1>3, <1>4, <1>5, <1>6, <1>7, <1>8, <1>9, <1>10, <1>11,
     <1>12, <1>13, <1>14, <1>15, <1>16, <1>17, <1>18, <1>19
     DEF Next, StartAcquire, StartRelease, Continue

(* The wait block stays published, and unsignalled, while it is counting. *)
LEMMA SignalStep == IInv /\ TypeOK' /\ [Next]_vars => SignalOK'
<1> SUFFICES ASSUME IInv, TypeOK', [Next]_vars PROVE SignalOK'
  OBVIOUS
<1> USE DEF IInv, TypeOK, ClaimsOK, OneRundown, WordOK, SignalOK, ValuesOK,
           Goto, Return, NoRundown, Word, Counter, Active, Ptr, Mask, Add,
           PCs, AcquirePCs, ReleasePCs, WaitPCs
<1>1. ASSUME NEW t \in Threads, AcquireFastLoad(t) PROVE SignalOK'
  BY <1>1 DEF AcquireFastLoad
<1>2. ASSUME NEW t \in Threads, AcquireExLoad(t) PROVE SignalOK'
  BY <1>2 DEF AcquireExLoad
<1>3. ASSUME NEW t \in Threads, AcquireFastCas(t) PROVE SignalOK'
  <2>1. /\ runRef' # runRef \/ out' # out =>
              ~runRef.active /\ runRef' = Counter(Cardinality(out'))
        /\ \E l \in {"Idle"} \cup AcquirePCs \cup ReleasePCs : Goto(t, l)
        /\ UNCHANGED block
    BY <1>3, CountStep
  <2> QED
    BY <2>1, <1>3 DEF AcquireFastCas
<1>4. ASSUME NEW t \in Threads, AcquireSlowLoad(t) PROVE SignalOK'
  BY <1>4 DEF AcquireSlowLoad
<1>5. ASSUME NEW t \in Threads, AcquireLoop(t) PROVE SignalOK'
  <2>1. /\ runRef' # runRef \/ out' # out =>
              ~runRef.active /\ runRef' = Counter(Cardinality(out'))
        /\ \E l \in {"Idle"} \cup AcquirePCs \cup ReleasePCs : Goto(t, l)
        /\ UNCHANGED block
    BY <1>5, CountStep
  <2> QED
    BY <2>1, <1>5 DEF AcquireLoop
<1>6. ASSUME NEW t \in Threads, ReleaseFastLoad(t) PROVE SignalOK'
  BY <1>6 DEF ReleaseFastLoad
<1>7. ASSUME NEW t \in Threads, ReleaseExLoad(t) PROVE SignalOK'
  BY <1>7 DEF ReleaseExLoad
<1>8. ASSUME NEW t \in Threads, ReleaseFastCas(t) PROVE SignalOK'
  <2>1. /\ runRef' # runRef \/ out' # out =>
              ~runRef.active /\ runRef' = Counter(Cardinality(out'))
        /\ \E l \in {"Idle"} \cup AcquirePCs \cup ReleasePCs : Goto(t, l)
        /\ UNCHANGED block
    BY <1>8, CountStep
  <2> QED
    BY <2>1, <1>8 DEF ReleaseFastCas
<1>9. ASSUME NEW t \in Threads, ReleaseSlowLoad(t) PROVE SignalOK'
  BY <1>9 DEF ReleaseSlowLoad
<1>10. ASSUME NEW t \in Threads, ReleaseLoop(t) PROVE SignalOK'
  <2>1. /\ runRef' # runRef \/ out' # out =>
              ~runRef.active /\ runRef' = Counter(Cardinality(out'))
        /\ \E l \in {"Idle"} \cup AcquirePCs \cup ReleasePCs : Goto(t, l)
        /\ UNCHANGED block
    BY <1>10, CountStep
  <2> QED
    BY <2>1, <1>10 DEF ReleaseLoop
<1>11. ASSUME NEW t \in Threads, ReleaseBlock(t) PROVE SignalOK'
  <2> DEFINE w == val[t].ptr
             left == block[w].count - Cardinality(op[t])
  <2>1. runRef = val[t] /\ runRef.active /\ out # {} /\ op[t] \subseteq out
    BY <1>11 DEF ReleaseBlock
  <2>2. w \in Threads /\ runRef = Ptr(w) /\ pc[w] = "WaitEvent"
        /\ block[w].count = Cardinality(out)
    BY <2>1
  <2>3. left = 0 <=> out' = {}
    <3>1. left = Cardinality(out \ op[t])
      BY <2>1, <2>2, Releasable
    <3>2. out' = out \ op[t]
      BY <1>11 DEF ReleaseBlock
    <3> QED
      BY <2>1, <3>1, <3>2, Releasable
  <2>4. \A u \in Threads : pc[u] # "RelSignal" /\ ~block[w].event
    BY <2>1, <2>2
  <2>5. UNCHANGED <<runRef, val>> /\ t # w
        /\ pc' = [pc EXCEPT ![t] = IF left = 0 THEN "RelSignal" ELSE "Idle"]
        /\ \A u \in Threads : block'[u].event = block[u].event
    BY <1>11, <2>2 DEF ReleaseBlock
  <2> QED
    BY <2>2, <2>3, <2>4, <2>5
<1>12. ASSUME NEW t \in Threads, ReleaseSignal(t) PROVE SignalOK'
  BY <1>12, Cards, NoBlockAssumption DEF ReleaseSignal
<1>13. ASSUME NEW t \in Threads, WaitFast(t) PROVE SignalOK'
  BY <1>13 DEF WaitFast
<1>14. ASSUME NEW t \in Threads, WaitSlow(t) PROVE SignalOK'
  BY <1>14 DEF WaitSlow
<1>15. ASSUME NEW t \in Threads, WaitLoop(t) PROVE SignalOK'
  BY <1>15, Cards, NoBlockAssumption DEF WaitLoop
<1>16. ASSUME NEW t \in Threads, WaitEvent(t) PROVE SignalOK'
  BY <1>16, Cards, NoBlockAssumption DEF WaitEvent
<1>17. ASSUME NEW t \in Threads, RundownCompleted(t) PROVE SignalOK'
  BY <1>17, Cards, NoBlockAssumption DEF RundownCompleted
<1>18. ASSUME NEW t \in Threads, ReInitialize(t) PROVE SignalOK'
  BY <1>18 DEF ReInitialize
<1>19. CASE UNCHANGED vars
  BY <1>19 DEF vars
<1> QED
  BY <1>1, <1>2, <1>3, <1>4, <1>5, <1>6, <1>7, <1>8, <1>9, <1>10, <1>11,
     <1>12, <1>13, <1>14, <1>15, <1>16, <1>17, <1>18, <1>19
     DEF Next, StartAcquire, StartRelease, Continue

(* What a call remembers of the word stays of use. *)
LEMMA ValuesStep == IInv /\ TypeOK' /\ [Next]_vars => ValuesOK'
<1> SUFFICES ASSUME IInv, TypeOK', [Next]_vars PROVE ValuesOK'
  OBVIOUS
<1> USE DEF IInv, TypeOK, ClaimsOK, OneRundown, WordOK, SignalOK, ValuesOK,
           Goto, Return, NoRundown, Word, Counter, Active, Ptr, Mask, Add,
           PCs, AcquirePCs, ReleasePCs, WaitPCs
<1>1. ASSUME NEW t \in Threads, AcquireFastLoad(t) PROVE ValuesOK'
  BY <1>1 DEF AcquireFastLoad
<1>2. ASSUME NEW t \in Threads, AcquireExLoad(t) PROVE ValuesOK'
  BY <1>2 DEF AcquireExLoad
<1>3. ASSUME NEW t \in Threads, AcquireFastCas(t) PROVE ValuesOK'
  BY <1>3, Cards, NoBlockAssumption DEF AcquireFastCas
<1>4. ASSUME NEW t \in Threads, AcquireSlowLoad(t) PROVE ValuesOK'
  BY <1>4 DEF AcquireSlowLoad
<1>5. ASSUME NEW t \in Threads, AcquireLoop(t) PROVE ValuesOK'
  BY <1>5, Cards, NoBlockAssumption DEF AcquireLoop
<1>6. ASSUME NEW t \in Threads, ReleaseFastLoad(t) PROVE ValuesOK'
  BY <1>6 DEF ReleaseFastLoad
<1>7. ASSUME NEW t \in Threads, ReleaseExLoad(t) PROVE ValuesOK'
  <2>1. op'[t] \subseteq out /\ op'[t] # {} /\ UNCHANGED <<runRef, out>>
    BY <1>7 DEF ReleaseExLoad
  <2>2. ~runRef.active => runRef.n >= Cardinality(op'[t])
    BY <2>1, Releasable
  <2> QED
    BY <1>7, <2>2 DEF ReleaseExLoad
<1>8. ASSUME NEW t \in Threads, ReleaseFastCas(t) PROVE ValuesOK'
  BY <1>8, Cards, NoBlockAssumption DEF ReleaseFastCas
<1>9. ASSUME NEW t \in Threads, ReleaseSlowLoad(t) PROVE ValuesOK'
  <2>1. op'[t] \subseteq out /\ op'[t] # {} /\ UNCHANGED <<runRef, out>>
    BY <1>9 DEF ReleaseSlowLoad
  <2>2. ~runRef.active => runRef.n >= Cardinality(op'[t])
    BY <2>1, Releasable
  <2> QED
    BY <1>9, <2>2 DEF ReleaseSlowLoad
<1>10. ASSUME NEW t \in Threads, ReleaseLoop(t) PROVE ValuesOK'
  <2>1. ~runRef.active => runRef.n >= Cardinality(op[t])
    BY <1>10, Releasable DEF ReleaseLoop
  <2>2. CASE runRef = val[t]
    BY <1>10, <2>2 DEF ReleaseLoop
  <2>3. CASE runRef # val[t]
    BY <1>10, <2>1, <2>3 DEF ReleaseLoop
  <2> QED
    BY <2>2, <2>3
<1>11. ASSUME NEW t \in Threads, ReleaseBlock(t) PROVE ValuesOK'
  BY <1>11, Cards, NoBlockAssumption DEF ReleaseBlock
<1>12. ASSUME NEW t \in Threads, ReleaseSignal(t) PROVE ValuesOK'
  BY <1>12, Cards, NoBlockAssumption DEF ReleaseSignal
<1>13. ASSUME NEW t \in Threads, WaitFast(t) PROVE ValuesOK'
  BY <1>13, Cards, NoBlockAssumption DEF WaitFast
<1>14. ASSUME NEW t \in Threads, WaitSlow(t) PROVE ValuesOK'
  BY <1>14, Cards, NoBlockAssumption DEF WaitSlow
<1>15. ASSUME NEW t \in Threads, WaitLoop(t) PROVE ValuesOK'
  BY <1>15, Cards, NoBlockAssumption DEF WaitLoop
<1>16. ASSUME NEW t \in Threads, WaitEvent(t) PROVE ValuesOK'
  BY <1>16 DEF WaitEvent
<1>17. ASSUME NEW t \in Threads, RundownCompleted(t) PROVE ValuesOK'
  BY <1>17, Cards, NoBlockAssumption DEF RundownCompleted
<1>18. ASSUME NEW t \in Threads, ReInitialize(t) PROVE ValuesOK'
  BY <1>18, Cards, NoBlockAssumption DEF ReInitialize
<1>19. CASE UNCHANGED vars
  BY <1>19 DEF vars
<1> QED
  BY <1>1, <1>2, <1>3, <1>4, <1>5, <1>6, <1>7, <1>8, <1>9, <1>10, <1>11,
     <1>12, <1>13, <1>14, <1>15, <1>16, <1>17, <1>18, <1>19
     DEF Next, StartAcquire, StartRelease, Continue

-----------------------------------------------------------------------------
(* IInv is an invariant of the code. *)
THEOREM Invariance == Spec => []IInv
<1>1. Init => IInv
  BY InitIInv
<1>2. IInv /\ [Next]_vars => IInv'
  <2> SUFFICES ASSUME IInv, [Next]_vars PROVE IInv'
    OBVIOUS
  <2>1. TypeOK'
    BY TypeStep DEF IInv
  <2>2. ClaimsOK' /\ OneRundown' /\ WordOK' /\ SignalOK' /\ ValuesOK'
    BY <2>1, ClaimsStep, RundownStep, WordStep, SignalStep, ValuesStep
  <2> QED
    BY <2>1, <2>2 DEF IInv
<1> QED
  BY <1>1, <1>2, PTL DEF Spec

(* The variables keep their types. *)
THEOREM TypeCorrect == Spec => []TypeOK
<1>1. IInv => TypeOK
  BY DEF IInv
<1> QED
  BY <1>1, Invariance, PTL

(* ExWaitForRundownProtectionRelease returns only when nothing is out, and  *)
(* the object stays closed until it is initialized again.                   *)
THEOREM Drained == Spec => []DrainedMeansUnused
<1>1. IInv => DrainedMeansUnused
  <2> SUFFICES ASSUME IInv, NEW t \in Threads, pc[t] = "Drained"
               PROVE  out = {} /\ runRef.active
    BY DEF DrainedMeansUnused
  <2>1. runRef.active
    BY DEF IInv, WordOK
  <2>2. CASE runRef.ptr = NoBlock
    BY <2>1, <2>2 DEF IInv, WordOK
  <2>3. CASE runRef.ptr # NoBlock
    <3> DEFINE w == runRef.ptr
    <3>1. w \in Threads /\ pc[w] \in {"WaitEvent", "Drained"}
      BY <2>1, <2>3 DEF IInv, WordOK, TypeOK, Word
    <3>2. w = t
      BY <3>1 DEF IInv, OneRundown, WaitPCs
    <3> QED
      BY <2>1, <2>3, <3>2 DEF IInv, WordOK
  <2> QED
    BY <2>1, <2>2, <2>3
<1> QED
  BY <1>1, Invariance, PTL

(* No releaser touches a wait block whose waiter has gone. *)
THEOREM NoDangling == Spec => []NoDanglingWaitBlock
<1>1. IInv => NoDanglingWaitBlock
  <2> SUFFICES ASSUME IInv, NEW t \in Threads
               PROVE  (pc[t] = "RelLoop" /\ val[t].active) \/ pc[t] = "RelSignal"
                      => val[t].ptr \in Threads /\ pc[val[t].ptr] = "WaitEvent"
    BY DEF NoDanglingWaitBlock
  <2>1. CASE pc[t] = "RelSignal"
    BY <2>1 DEF IInv, SignalOK
  <2>2. CASE pc[t] = "RelLoop" /\ val[t].active
    <3>1. runRef = val[t] /\ runRef.active
      BY <2>2 DEF IInv, ValuesOK
    <3>2. out # {}
      BY <2>2 DEF IInv, ClaimsOK, ReleasePCs
    <3>3. runRef.ptr # NoBlock /\ runRef.ptr \in Threads
      BY <3>1, <3>2 DEF IInv, WordOK, TypeOK, Word
    <3> QED
      BY <3>1, <3>2, <3>3 DEF IInv, WordOK
  <2> QED
    BY <2>1, <2>2
<1> QED
  BY <1>1, Invariance, PTL

(* The sanity checks of the code never fail. *)
THEOREM ChecksHold == Spec => []SanityChecks
<1>1. IInv => SanityChecks
  <2> SUFFICES ASSUME IInv, NEW t \in Threads
               PROVE  /\ pc[t] = "RelFast" /\ runRef = val[t] => val[t].n >= 1
                      /\ pc[t] = "RelLoop" =>
                            IF val[t].active
                            THEN block[val[t].ptr].count >= Cardinality(op[t])
                            ELSE val[t].n >= Cardinality(op[t])
                      /\ pc[t] = "WaitLoop" => ~val[t].active
                      /\ pc[t] = "WaitEvent" /\ block[t].event
                            => block[t].count = 0
    BY DEF SanityChecks
  <2>1. ASSUME pc[t] = "RelFast", runRef = val[t] PROVE val[t].n >= 1
    <3>1. ~runRef.active /\ op[t] \in SUBSET out /\ Cardinality(op[t]) = 1
      BY <2>1 DEF IInv, ValuesOK, ClaimsOK, ReleasePCs
    <3> QED
      BY <2>1, <3>1, Releasable
  <2>2. ASSUME pc[t] = "RelLoop", val[t].active
        PROVE  block[val[t].ptr].count >= Cardinality(op[t])
    <3>1. runRef = val[t] /\ runRef.active
      BY <2>2 DEF IInv, ValuesOK
    <3>2. out # {} /\ op[t] \in SUBSET out
      BY <2>2 DEF IInv, ClaimsOK, ReleasePCs
    <3>3. block[val[t].ptr].count = Cardinality(out)
      BY <3>1, <3>2 DEF IInv, WordOK
    <3>4. Cardinality(op[t]) <= Cardinality(out)
      BY <3>2, Cards DEF IInv, TypeOK
    <3>5. Cardinality(op[t]) \in Nat /\ Cardinality(out) \in Nat
      BY Cards DEF IInv, TypeOK
    <3> QED
      BY <3>3, <3>4, <3>5
  <2>3. ASSUME pc[t] = "RelLoop", ~val[t].active
        PROVE  val[t].n >= Cardinality(op[t])
    BY <2>3 DEF IInv, ValuesOK
  <2>4. ASSUME pc[t] = "WaitLoop" PROVE ~val[t].active
    BY <2>4 DEF IInv, ValuesOK
  <2>5. ASSUME pc[t] = "WaitEvent", block[t].event PROVE block[t].count = 0
    <3>1. runRef = Ptr(t) /\ out = {}
      BY <2>5 DEF IInv, SignalOK
    <3>2. block[t].count = Cardinality(out)
      BY <2>5, <3>1, NoBlockAssumption DEF IInv, WordOK, Ptr
    <3> QED
      BY <3>1, <3>2, FS_EmptySet
  <2> QED
    BY <2>1, <2>2, <2>3, <2>4, <2>5
<1> QED
  BY <1>1, Invariance, PTL

(* Once a rundown is active no acquire succeeds, however stale its value. *)
THEOREM NoLate == Spec => NoLateAcquire
<1>1. IInv /\ [Next]_vars => [runRef.active => out' \subseteq out]_vars
  <2> SUFFICES ASSUME IInv, [Next]_vars, runRef.active
               PROVE  out' \subseteq out
    BY DEF vars
  <2>1. ASSUME NEW t \in Threads, AcquireFastCas(t) \/ AcquireLoop(t)
        PROVE  out' = out
    BY <2>1, CountStep
  <2>2. ASSUME NEW t \in Threads,
               \/ StartAcquire(t) \/ StartRelease(t) \/ WaitFast(t)
               \/ AcquireSlowLoad(t) \/ ReleaseFastCas(t) \/ ReleaseSlowLoad(t)
               \/ ReleaseLoop(t) \/ ReleaseBlock(t) \/ ReleaseSignal(t)
               \/ WaitSlow(t) \/ WaitLoop(t) \/ WaitEvent(t)
               \/ RundownCompleted(t) \/ ReInitialize(t)
        PROVE  out' \subseteq out
    BY <2>2 DEF StartAcquire, AcquireFastLoad, AcquireExLoad, StartRelease,
                ReleaseFastLoad, ReleaseExLoad, WaitFast, AcquireSlowLoad,
                ReleaseFastCas, ReleaseSlowLoad, ReleaseLoop, ReleaseBlock,
                ReleaseSignal, WaitSlow, WaitLoop, WaitEvent,
                RundownCompleted, ReInitialize
  <2>3. CASE UNCHANGED vars
    BY <2>3 DEF vars
  <2> QED
    BY <2>1, <2>2, <2>3 DEF Next, Continue
<1> QED
  BY <1>1, Invariance, PTL DEF Spec, NoLateAcquire

-----------------------------------------------------------------------------
(* What the users see while a wait block is published, and otherwise. *)
GateSplit ==
    /\ Gate = "open" <=> ~runRef.active
    /\ Gate = "draining" <=> \E t \in Threads : pc[t] = "WaitEvent"
    /\ Gate = "closed" => out = {}
    /\ Gate \in {"open", "draining", "closed"}

LEMMA GateIs == IInv => GateSplit
<1> SUFFICES ASSUME IInv PROVE GateSplit
  OBVIOUS
<1>1. ASSUME NEW t \in Threads, pc[t] = "WaitEvent" PROVE runRef.active
  BY <1>1 DEF IInv, WordOK
<1>2. ASSUME runRef.active, \A t \in Threads : pc[t] # "WaitEvent"
      PROVE  out = {}
  BY <1>2 DEF IInv, WordOK, TypeOK, Word
<1> QED
  BY <1>1, <1>2 DEF Gate, GateSplit

(* Every step of the code is a step of the promise, or stutters. *)
LEMMA StepImplements ==
    IInv /\ IInv' /\ [Next]_vars => [Abstract!Next]_(Abstract!vars)
<1> SUFFICES ASSUME IInv, IInv', [Next]_vars
             PROVE  [Abstract!Next]_(Abstract!vars)
  OBVIOUS
<1> DEFINE Waiting == \E t \in Threads : pc[t] = "WaitEvent"
<1>a. GateSplit /\ GateSplit'
  <2>1. GateSplit
    BY GateIs
  <2>2. (IInv => GateSplit)'
    BY GateIs, PTL
  <2> QED
    BY <2>1, <2>2
<1>b. /\ Gate = "open" <=> ~runRef.active
      /\ Gate = "draining" <=> Waiting
      /\ Gate = "closed" => out = {}
      /\ Gate \in {"open", "draining", "closed"}
      /\ Gate' = "open" <=> ~runRef'.active
      /\ Gate' = "draining" <=> Waiting'
      /\ Gate' = "closed" => out' = {}
      /\ Gate' \in {"open", "draining", "closed"}
  BY <1>a DEF GateSplit
<1> HIDE DEF Waiting
<1>c. ASSUME UNCHANGED out, runRef'.active = runRef.active, Waiting' = Waiting
      PROVE  UNCHANGED <<Gate, out>>
  BY <1>b, <1>c
<1>d. out \in SUBSET Refs /\ out' \in SUBSET Refs
  BY DEF IInv, TypeOK
<1>e. ASSUME NEW t \in Threads, NEW l \in PCs, Goto(t, l),
             l # "WaitEvent", pc[t] # "WaitEvent"
      PROVE  Waiting' = Waiting
  BY <1>e DEF Waiting, Goto, IInv, TypeOK
<1>f. UNCHANGED <<Gate, out>> => UNCHANGED Abstract!vars
  BY DEF Abstract!vars
<1> USE DEF PCs, AcquirePCs, ReleasePCs, WaitPCs
(* Loads and the signal change nothing the users see. *)
<1>1. ASSUME NEW t \in Threads,
             \/ AcquireFastLoad(t) \/ AcquireExLoad(t) \/ AcquireSlowLoad(t)
             \/ ReleaseFastLoad(t) \/ ReleaseExLoad(t) \/ ReleaseSlowLoad(t)
             \/ ReleaseSignal(t)
      PROVE  UNCHANGED <<Gate, out>>
  <2>1. UNCHANGED <<runRef, out>> /\ pc[t] # "WaitEvent"
    BY <1>1 DEF AcquireFastLoad, AcquireExLoad, AcquireSlowLoad,
                ReleaseFastLoad, ReleaseExLoad, ReleaseSlowLoad, ReleaseSignal
  <2>2. \E l \in PCs : l # "WaitEvent" /\ Goto(t, l)
    BY <1>1 DEF AcquireFastLoad, AcquireExLoad, AcquireSlowLoad,
                ReleaseFastLoad, ReleaseExLoad, ReleaseSlowLoad, ReleaseSignal
  <2> QED
    BY <1>c, <1>e, <2>1, <2>2
(* A compare-exchange on the count grants, takes back, or fails. *)
<1>2. ASSUME NEW t \in Threads, AcquireFastCas(t) \/ AcquireLoop(t)
      PROVE  Abstract!Acquire(op[t]) \/ UNCHANGED <<Gate, out>>
  <2>1. /\ runRef' # runRef \/ out' # out =>
              ~runRef.active /\ runRef' = Counter(Cardinality(out'))
        /\ \E l \in {"Idle"} \cup AcquirePCs \cup ReleasePCs : Goto(t, l)
    BY <1>2, CountStep
  <2>2. runRef'.active = runRef.active
    BY <2>1 DEF Counter, IInv, TypeOK, Word
  <2>3. /\ op[t] # {} /\ op[t] \cap out = {} /\ pc[t] # "WaitEvent"
        /\ out' = out \/ out' = out \cup op[t]
    BY <1>2 DEF AcquireFastCas, AcquireLoop, IInv, ClaimsOK
  <2>4. Waiting' = Waiting
    BY <1>e, <2>1, <2>3
  <2>5. Gate' = Gate
    BY <1>b, <2>2, <2>4
  <2>6. out' # out => Gate = "open"
    BY <1>b, <2>1
  <2> QED
    BY <2>3, <2>5, <2>6 DEF Abstract!Acquire
<1>3. ASSUME NEW t \in Threads, ReleaseFastCas(t) \/ ReleaseLoop(t)
      PROVE  Abstract!Release(op[t]) \/ UNCHANGED <<Gate, out>>
  <2>1. /\ runRef' # runRef \/ out' # out =>
              ~runRef.active /\ runRef' = Counter(Cardinality(out'))
        /\ \E l \in {"Idle"} \cup AcquirePCs \cup ReleasePCs : Goto(t, l)
    BY <1>3, CountStep
  <2>2. runRef'.active = runRef.active
    BY <2>1 DEF Counter, IInv, TypeOK, Word
  <2>3. /\ op[t] # {} /\ op[t] \subseteq out /\ pc[t] # "WaitEvent"
        /\ out' = out \/ out' = out \ op[t]
    BY <1>3 DEF ReleaseFastCas, ReleaseLoop, IInv, ClaimsOK
  <2>4. Waiting' = Waiting
    BY <1>e, <2>1, <2>3
  <2>5. Gate' = Gate
    BY <1>b, <2>2, <2>4
  <2> QED
    BY <2>3, <2>5 DEF Abstract!Release
<1>4. ASSUME NEW t \in Threads, ReleaseBlock(t)
      PROVE  Abstract!Release(op[t])
  <2>1. /\ op[t] # {} /\ op[t] \subseteq out /\ pc[t] # "WaitEvent"
        /\ out' = out \ op[t] /\ UNCHANGED runRef
        /\ \E l \in {"Idle", "RelSignal"} : Goto(t, l)
    BY <1>4 DEF ReleaseBlock, Return, IInv, ClaimsOK
  <2>2. Waiting' = Waiting
    BY <1>e, <2>1
  <2> QED
    BY <1>b, <2>1, <2>2 DEF Abstract!Release
(* The first tests of a wait: nothing is out, or nothing changes. *)
<1>5. ASSUME NEW t \in Threads, WaitFast(t) \/ WaitSlow(t)
      PROVE  Abstract!Close \/ UNCHANGED <<Gate, out>>
  <2>1. /\ runRef' = (IF runRef = Counter(0) THEN Active ELSE runRef)
        /\ UNCHANGED out /\ pc[t] # "WaitEvent"
        /\ \E l \in {"Drained", "WaitSlow", "WaitLoop"} : Goto(t, l)
    BY <1>5 DEF WaitFast, WaitSlow
  <2>2. Waiting' = Waiting
    BY <1>e, <2>1
  <2>3. CASE runRef = Counter(0)
    <3>1. ~runRef.active /\ runRef'.active
      BY <2>1, <2>3 DEF Counter, Active
    <3>2. Gate = "open" /\ Gate' = "closed"
      BY <1>b, <2>2, <3>1
    <3> QED
      BY <1>b, <2>1, <3>2 DEF Abstract!Close
  <2>4. CASE runRef # Counter(0)
    BY <1>c, <2>1, <2>2, <2>4
  <2> QED
    BY <2>3, <2>4
(* Publishing the wait block shuts the object, or closes it at zero. *)
<1>6. ASSUME NEW t \in Threads, WaitLoop(t)
      PROVE  Abstract!Shut \/ Abstract!Close \/ UNCHANGED <<Gate, out>>
  <2>1. UNCHANGED out /\ pc[t] = "WaitLoop" /\ ~val[t].active /\ t \in DOMAIN pc
    BY <1>6 DEF WaitLoop, IInv, ValuesOK, TypeOK
  <2>2. CASE runRef # val[t]
    BY <1>6, <1>c, <2>2 DEF WaitLoop, Waiting
  <2>3. CASE runRef = val[t]
    <3>1. ~runRef.active /\ runRef'.active /\ runRef.n = Cardinality(out)
      BY <1>6, <2>1, <2>3 DEF WaitLoop, IInv, WordOK, Counter, Ptr
    <3>2. CASE val[t].n = 0
      <4>1. Goto(t, "Drained") /\ out = {}
        BY <1>6, <1>d, <2>3, <3>1, <3>2, Cards DEF WaitLoop
      <4>2. Waiting' = Waiting
        BY <1>e, <2>1, <4>1
      <4> QED
        BY <1>b, <2>1, <3>1, <4>1, <4>2 DEF Abstract!Close
    <3>3. CASE val[t].n # 0
      <4>1. Goto(t, "WaitEvent") /\ out # {}
        BY <1>6, <1>d, <2>3, <3>1, <3>3, Cards DEF WaitLoop
      <4>2. Waiting'
        BY <2>1, <4>1 DEF Waiting, Goto
      <4> QED
        BY <1>b, <2>1, <3>1, <4>1, <4>2 DEF Abstract!Shut
    <3> QED
      BY <3>2, <3>3
  <2> QED
    BY <2>2, <2>3
(* The waiter wakes: no other thread waits, and nothing is out. *)
<1>7. ASSUME NEW t \in Threads, WaitEvent(t)
      PROVE  Abstract!Close
  <2>1. UNCHANGED <<runRef, out>> /\ pc[t] = "WaitEvent" /\ out = {}
        /\ Goto(t, "Drained")
    BY <1>7 DEF WaitEvent, IInv, SignalOK
  <2>2. Waiting /\ ~Waiting'
    BY <2>1 DEF Waiting, Goto, IInv, OneRundown, TypeOK
  <2> QED
    BY <1>b, <2>1, <2>2 DEF Abstract!Close
(* The object is closed for good, or opened again. *)
<1>8. ASSUME NEW t \in Threads, RundownCompleted(t) \/ ReInitialize(t)
      PROVE  Abstract!Reopen \/ UNCHANGED <<Gate, out>>
  <2>1. UNCHANGED out /\ Goto(t, "Idle") /\ runRef.active
        /\ ~Waiting /\ pc[t] # "WaitEvent"
    BY <1>8 DEF RundownCompleted, ReInitialize, Waiting, NoRundown,
                IInv, WordOK, OneRundown
  <2>2. ~Waiting'
    BY <1>e, <2>1
  <2>3. runRef' \in {Active, Counter(0)}
    BY <1>8 DEF RundownCompleted, ReInitialize
  <2>4. CASE runRef' = Active
    BY <1>b, <2>1, <2>2, <2>4 DEF Active
  <2>5. CASE runRef' = Counter(0)
    BY <1>b, <2>1, <2>2, <2>5 DEF Counter, Abstract!Reopen
  <2> QED
    BY <2>3, <2>4, <2>5
<1>9. CASE UNCHANGED vars
  BY <1>9 DEF vars, Gate, Abstract!vars
<1>10. ASSUME NEW t \in Threads PROVE op[t] \in SUBSET Refs
  BY DEF IInv, TypeOK
<1> QED
  BY <1>f, <1>1, <1>2, <1>3, <1>4, <1>5, <1>6, <1>7, <1>8, <1>9, <1>10
     DEF Next, StartAcquire, StartRelease, Continue, Abstract!Next

(* The code keeps the promise of RundownProtection. *)
THEOREM Implementation == Spec => ImplementsRundownProtection
<1>1. Init => Abstract!Init
  BY DEF Init, Counter, Gate, Abstract!Init
<1> QED
  BY <1>1, Invariance, StepImplements, PTL
     DEF Spec, ImplementsRundownProtection, Abstract!Spec
=============================================================================
