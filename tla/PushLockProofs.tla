--------------------------- MODULE PushLockProofs ---------------------------
(***************************************************************************)
(* Proofs about PushLock: the word and the last wait block count the       *)
(* holders, one thread at a time works on the list of waiters, no walk or  *)
(* signal touches the block of a thread that has gone on, no wake-up is    *)
(* lost, and the lock is the one RWLock describes.                         *)
(***************************************************************************)
EXTENDS PushLock, DataTheorems

USE PushLockAssumption

-----------------------------------------------------------------------------
(***************************************************************************)
(* The waiters stand in one row of numbered seats: q[i] is the block at    *)
(* seat i and pos[b] the seat of b.  The list the word points to is        *)
(* lo[NoBlock] .. hi[NoBlock], the last waiter at the low end and the      *)
(* block pushed last at the high end; the blocks that thread u still has   *)
(* to signal are lo[u] .. hi[u], further down.  From the high end, m is    *)
(* the first block of the list that knows the last one.                    *)
(***************************************************************************)
PCs == {"Idle", "AcqLoad", "AcqLoop", "WaitBit", "Gate", "Optimize", "Wake", "Signal",
        "SignalGate", "TryLoad", "TryCas", "RXLoop", "RAFast", "RSLoad", "RALoad",
        "RSLoop", "RALoop", "RSUnlock", "RAUnlock"}

LocalVars == [old : Word, wk : Word, cur : Blocks, nxt : Blocks,
              ret : {"Idle", "WaitBit"}, want : {"X", "S"}]

Types ==
    /\ word \in Word
    /\ blk \in [Threads -> WaitBlock]
    /\ gate \in [Threads -> BOOLEAN]
    /\ pc \in [Threads -> PCs]
    /\ loc \in [Threads -> LocalVars]
    /\ held \in [Threads -> {"no", "X", "S"}]

Ghosts(q, pos, lo, hi, m) ==
    /\ q \in [Int -> Blocks] /\ pos \in [Threads -> Int]
    /\ lo \in [Blocks -> Int] /\ hi \in [Blocks -> Int] /\ m \in Int

Seats(q, pos, lo, hi) ==
    /\ \A x \in Blocks : \A i \in lo[x] .. hi[x] : q[i] \in Threads /\ pos[q[i]] = i
    /\ \A u \in Threads : hi[u] < lo[NoBlock]
    /\ \A u, v \in Threads : u # v => \A i \in lo[u] .. hi[u] : i \notin lo[v] .. hi[v]
    /\ lo[NoBlock] <= hi[NoBlock] + 1

(* What the word can say at the same time. *)
Shape ==
    /\ ~word.waiting => word.ptr = NoBlock /\ ~word.waking /\ ~word.multi
    /\ word.waiting => word.shared = 0
    /\ word.multi => word.locked /\ word.waiting
    /\ ~word.locked => word.shared = 0

(* How the blocks of the list are linked: all to the next one, those below  *)
(* m to the previous one too.                                               *)
LinkOf(q, L, H, m, i) ==
    /\ i > m => blk[q[i]].last = NoBlock
    /\ i > L => blk[q[i]].next = q[i - 1]
    /\ i < m => blk[q[i]].prev = q[i + 1]
    /\ blk[q[i]].prev = NoBlock \/ (i < H /\ blk[q[i]].prev = q[i + 1])
    /\ word.multi => blk[q[i]].last \in {NoBlock, q[L]}

Links(q, L, H, m) ==
    /\ word.waiting <=> L <= H
    /\ word.waiting => /\ word.ptr = q[H] /\ m \in L .. H
                       /\ blk[q[m]].last = q[L]
    /\ word.multi => blk[q[L]].exclusive /\ blk[q[L]].last = q[L]
    /\ \A i \in L .. H : LinkOf(q, L, H, m, i)

Chains(q, lo, hi) ==
    \A u \in Threads : \A i \in lo[u] .. hi[u] :
        blk[q[i]].prev = IF i = hi[u] THEN NoBlock ELSE q[i + 1]

(* A block on the list, or still to be signalled, is one of a waiting       *)
(* thread.                                                                  *)
InWait(b) ==
    /\ Alive(b) /\ ~blk[b].signaled
    /\ IF pc[b] = "Gate" THEN ~blk[b].wait /\ ~gate[b] ELSE blk[b].wait

Seated(q, lo, hi) == \A x \in Blocks : \A i \in lo[x] .. hi[x] : InWait(q[i])

(* The signalling loop of t. *)
Signalling(u, b) == pc[u] = "SignalGate" /\ loc[u].cur = b

SignalOf(q, lo, hi, t) ==
    /\ pc[t] \notin {"Signal", "SignalGate"} => hi[t] < lo[t]
    /\ pc[t] = "Signal" => lo[t] <= hi[t] /\ loc[t].cur = q[lo[t]]
    /\ pc[t] = "SignalGate" =>
          /\ loc[t].nxt = IF lo[t] <= hi[t] THEN q[lo[t]] ELSE NoBlock
          /\ loc[t].cur \in Threads /\ pc[loc[t].cur] = "Gate"
          /\ ~gate[loc[t].cur] /\ blk[loc[t].cur].signaled
          /\ \A u \in Threads : Signalling(u, loc[t].cur) => u = t

(* Every waiter is on the list, in some signalling loop, or signalled. *)
HasSeat(q, lo, hi, t) == \E x \in Blocks : \E i \in lo[x] .. hi[x] : q[i] = t

WaiterOf(q, lo, hi, t) ==
    /\ Alive(t) /\ ~blk[t].signaled => HasSeat(q, lo, hi, t)
    /\ Alive(t) /\ blk[t].signaled => ~blk[t].wait
    /\ Alive(t) /\ blk[t].signaled /\ pc[t] = "Gate" /\ ~gate[t] =>
          \E u \in Threads : Signalling(u, t)
    /\ pc[t] = "Gate" /\ gate[t] => blk[t].signaled

Queue(q, pos, lo, hi, m) ==
    /\ Ghosts(q, pos, lo, hi, m)
    /\ Seats(q, pos, lo, hi)
    /\ Links(q, lo[NoBlock], hi[NoBlock], m)
    /\ Chains(q, lo, hi)
    /\ Seated(q, lo, hi)
    /\ \A t \in Threads : SignalOf(q, lo, hi, t)
    /\ \A t \in Threads : WaiterOf(q, lo, hi, t)

(* The thread that works on the list has seen a part of it. *)
WakerOf(q, H, m, t) ==
    /\ Working(t) => /\ word.waking /\ Wk(t).waiting
                     /\ \A u \in Threads : Working(u) => u = t
                     /\ \E k \in m .. H : q[k] = Wk(t).ptr
                     /\ blk[Wk(t).ptr].prev = NoBlock
    /\ pc[t] = "Optimize" => Wk(t).locked /\ loc[t].ret = "WaitBit"
    /\ pc[t] = "Wake" => Wk(t).waking /\ ~Wk(t).multi /\ ~word.multi

Wakers(q, H, m) == \A t \in Threads : WakerOf(q, H, m, t)

(* Someone who will look at the word again. *)
Active(u) ==
    \/ pc[u] \in {"TryLoad", "AcqLoad", "AcqLoop", "Signal", "SignalGate"}
    \/ pc[u] = "TryCas" /\ Old(u) = word
    \/ pc[u] = "WaitBit" /\ ~blk[u].wait
    \/ pc[u] = "Gate" /\ gate[u]

Promise ==
    /\ word.waking => \E u \in Threads : Working(u)
    /\ ~word.locked /\ word.waiting /\ ~word.waking => \E u \in Threads : Active(u)

(* What a thread holds, and has read, in a call. *)
Entering == {"AcqLoad", "AcqLoop", "WaitBit", "Gate", "Optimize", "Wake", "Signal",
             "SignalGate", "TryLoad", "TryCas"}

CallOf(t) ==
    /\ pc[t] \in Entering => held[t] = "no"
    /\ pc[t] = "RXLoop" => held[t] = "X" /\ Old(t).locked /\ (Old(t).waiting \/ Old(t).shared = 0)
    /\ pc[t] \in {"RSLoad", "RSLoop"} => held[t] = "S"
    /\ pc[t] \in {"RALoad", "RALoop", "RAFast"} => held[t] # "no"
    /\ pc[t] = "RAFast" => ~Old(t).waiting
    /\ pc[t] = "TryCas" => Old(t).waiting /\ ~Old(t).locked /\ ~Old(t).waking
    /\ Unlocking(t) => Old(t).waiting /\ (held[t] = "no" <=> Old(t).multi)

Calling == \A t \in Threads : CallOf(t)

(* A sharer that leaves a list it has to walk. *)
Counting(t) == pc[t] \in {"RSLoop", "RALoop"} /\ Old(t).waiting /\ Old(t).multi

ReleaserOf(q, L, H, t) ==
    Counting(t) => word.multi /\ \E k \in L .. H : q[k] = Old(t).ptr

Releasers(q, L, H) == \A t \in Threads : ReleaserOf(q, L, H, t)

(* The sharer that took the count to zero and is to unlock. *)
Finisher(t) == Unlocking(t) /\ held[t] = "no"

Finish(b) ==
    /\ \A t, u \in Threads : Finisher(t) /\ Finisher(u) => t = u
    /\ (\E t \in Threads : Finisher(t)) <=> (word.multi /\ blk[b].share = 0)

(* The only holder. *)
Sole(t) == held[t] # "no" /\ \A u \in Threads : u # t => held[u] = "no"

(* What the word says of the holders; b is the last waiter. *)
Counts(b) ==
    /\ ~word.locked => \A t \in Threads : held[t] = "no"
    /\ \A t \in Threads : blk[t].share > 0 => word.multi /\ t = b
    /\ word.multi => /\ \A t \in Threads : held[t] # "X"
                     /\ blk[b].share = Cardinality(Sharers)
    /\ word.locked /\ ~word.waiting =>
          /\ word.shared = Cardinality(Sharers)
          /\ word.shared = 0 => \E t \in Threads : Sole(t)
          /\ word.shared > 0 => \A t \in Threads : held[t] # "X"
    /\ word.locked /\ word.waiting /\ ~word.multi => \E t \in Threads : Sole(t)

Holders(b) == Shape /\ Counts(b) /\ Finish(b)

Inv(q, pos, lo, hi, m) ==
    /\ Types
    /\ Queue(q, pos, lo, hi, m)
    /\ Wakers(q, hi[NoBlock], m)
    /\ Promise
    /\ Calling
    /\ Releasers(q, lo[NoBlock], hi[NoBlock])
    /\ Holders(q[lo[NoBlock]])

IInv == \E q \in [Int -> Blocks], pos \in [Threads -> Int], lo \in [Blocks -> Int],
           hi \in [Blocks -> Int], m \in Int : Inv(q, pos, lo, hi, m)

-----------------------------------------------------------------------------
(* The fields of a word, and what the updates of one make of it.            *)
LEMMA WordFields ==
    \A v \in Word : /\ v.locked \in BOOLEAN /\ v.waiting \in BOOLEAN /\ v.waking \in BOOLEAN
                    /\ v.multi \in BOOLEAN /\ v.shared \in Nat /\ v.ptr \in Blocks
  BY DEF Word

(* The free word.                                                           *)
LEMMA FreeFields ==
    /\ Free \in Word /\ ~Free.locked /\ ~Free.waiting /\ ~Free.waking /\ ~Free.multi
    /\ Free.shared = 0 /\ Free.ptr = NoBlock
  BY DEF Free, Word, Blocks

(* The word with n sharers and nobody waiting.                              *)
LEMMA LockedByFields ==
    ASSUME NEW n \in Nat
    PROVE  /\ LockedBy(n) \in Word /\ LockedBy(n).locked /\ ~LockedBy(n).waiting
           /\ ~LockedBy(n).waking /\ ~LockedBy(n).multi
           /\ LockedBy(n).shared = n /\ LockedBy(n).ptr = NoBlock
<1>1. \A v \in Word : LET w == [v EXCEPT !.locked = TRUE, !.shared = n]
                      IN  /\ w \in Word /\ w.locked /\ w.waiting = v.waiting
                          /\ w.waking = v.waking /\ w.multi = v.multi
                          /\ w.shared = n /\ w.ptr = v.ptr
  BY DEF Word
<1> QED BY <1>1, FreeFields DEF LockedBy

(* The local variables, and what the updates of them keep.                  *)
LEMMA LocalsFields ==
    /\ NoLocals \in LocalVars /\ NoLocals.old = Free /\ NoLocals.wk = Free
    /\ NoLocals.ret = "Idle" /\ NoLocals.want = "X"
    /\ NoLocals.cur = NoBlock /\ NoLocals.nxt = NoBlock
    /\ \A r \in LocalVars : /\ r.old \in Word /\ r.wk \in Word /\ r.cur \in Blocks
                            /\ r.nxt \in Blocks /\ r.ret \in {"Idle", "WaitBit"}
                            /\ r.want \in {"X", "S"}
  BY FreeFields DEF NoLocals, LocalVars, Blocks

(* A wait block.                                                            *)
LEMMA BlockFields ==
    /\ NullBlock \in WaitBlock /\ NullBlock.share = 0 /\ ~NullBlock.signaled /\ ~NullBlock.wait
    /\ \A c \in WaitBlock :
          /\ c.next \in Blocks /\ c.prev \in Blocks /\ c.last \in Blocks /\ c.share \in Nat
          /\ c.exclusive \in BOOLEAN /\ c.wait \in BOOLEAN /\ c.signaled \in BOOLEAN
  BY DEF NullBlock, WaitBlock, Blocks

(* Who goes on, and the threads that do not move.                           *)
Others(t) == \A u \in Threads : u # t => pc'[u] = pc[u] /\ loc'[u] = loc[u]

(* Goto moves one thread.                                                   *)
LEMMA GotoStep ==
    ASSUME Types, NEW t \in Threads, NEW l \in PCs, NEW r \in LocalVars, Goto(t, l, r)
    PROVE  /\ pc' \in [Threads -> PCs] /\ loc' \in [Threads -> LocalVars]
           /\ pc'[t] = l /\ loc'[t] = r /\ Others(t)
  BY DEF Types, Goto, Others

(* So does staying where one is.                                            *)
LEMMA StayStep ==
    ASSUME Types, NEW t \in Threads, UNCHANGED <<pc, loc>>
    PROVE  /\ pc' \in [Threads -> PCs] /\ loc' \in [Threads -> LocalVars]
           /\ pc'[t] = pc[t] /\ loc'[t] = loc[t] /\ Others(t)
  BY DEF Types, Others

(* The holders other than t.                                                *)
Kept(t) == \A u \in Threads : u # t => held'[u] = held[u]

(* A thread gets or gives up the lock.                                      *)
LEMMA HoldStep ==
    ASSUME Types, NEW t \in Threads, NEW x \in {"no", "X", "S"}, Hold(t, x)
    PROVE  held' \in [Threads -> {"no", "X", "S"}] /\ held'[t] = x /\ Kept(t)
  BY DEF Types, Hold, Kept

(* Nobody gets or gives up the lock.                                        *)
LEMMA KeepStep ==
    ASSUME Types, NEW t \in Threads, UNCHANGED held
    PROVE  held' \in [Threads -> {"no", "X", "S"}] /\ held'[t] = held[t] /\ Kept(t)
  BY DEF Types, Kept

-----------------------------------------------------------------------------
(* The number of sharers, when one comes or goes.                           *)
LEMMA SharersType == IsFiniteSet(Sharers) /\ Cardinality(Sharers) \in Nat
<1>1. Sharers \subseteq Threads
  BY DEF Sharers
<1> QED BY <1>1, FS_Subset, FS_CardinalityType

(* There is a sharer if and only if the number is not zero.                 *)
LEMMA SharersZero == Cardinality(Sharers) = 0 <=> \A t \in Threads : held[t] # "S"
<1>1. Cardinality(Sharers) = 0 <=> Sharers = {}
  BY SharersType, FS_EmptySet
<1> QED BY <1>1 DEF Sharers

(* The one sharer is the only one.                                          *)
LEMMA SharersOne ==
    ASSUME Cardinality(Sharers) = 1
    PROVE  \E t \in Threads : held[t] = "S" /\ \A u \in Threads : u # t => held[u] # "S"
<1>1. PICK t : Sharers = {t}
  BY SharersType, FS_Singleton
<1> QED BY <1>1 DEF Sharers

(* One more.                                                                *)
LEMMA SharersAdd ==
    ASSUME NEW t \in Threads, held[t] # "S", held'[t] = "S", Kept(t)
    PROVE  Cardinality(Sharers)' = Cardinality(Sharers) + 1
<1>1. Sharers' = Sharers \cup {t} /\ t \notin Sharers
  BY DEF Sharers, Kept
<1> QED BY <1>1, SharersType, FS_AddElement

(* One less.                                                                *)
LEMMA SharersRemove ==
    ASSUME NEW t \in Threads, held[t] = "S", held'[t] # "S", Kept(t)
    PROVE  Cardinality(Sharers)' = Cardinality(Sharers) - 1
<1>1. Sharers' = Sharers \ {t} /\ t \in Sharers
  BY DEF Sharers, Kept
<1> QED BY <1>1, SharersType, FS_RemoveElement

(* As many.                                                                 *)
LEMMA SharersSame ==
    ASSUME \A u \in Threads : held'[u] = "S" <=> held[u] = "S"
    PROVE  Cardinality(Sharers)' = Cardinality(Sharers)
<1>1. Sharers' = Sharers
  BY DEF Sharers
<1> QED BY <1>1

-----------------------------------------------------------------------------
(***************************************************************************)
(* A walk from seat k down to seat j, the first that knows the last block. *)
(***************************************************************************)
Walk(q, pos, j, k) ==
    /\ j \in Int /\ k \in Int /\ j <= k
    /\ \A i \in j .. k : q[i] \in Threads /\ pos[q[i]] = i
    /\ blk[q[j]].last # NoBlock
    /\ \A i \in j + 1 .. k : blk[q[i]].last = NoBlock /\ blk[q[i]].next = q[i - 1]

(* A walk is no longer than there are threads.                              *)
LEMMA WalkFits ==
    ASSUME NEW q, NEW pos, NEW j, NEW k, Walk(q, pos, j, k)
    PROVE  /\ j \in Int /\ k \in Int /\ j <= k
           /\ Cardinality(Threads) \in Nat /\ k - j + 1 <= Cardinality(Threads)
<1> DEFINE f == [i \in j .. k |-> q[i]]
<1>1. j \in Int /\ k \in Int /\ j <= k /\ IsFiniteSet(Threads)
  BY DEF Walk
<1>2. f \in Injection(j .. k, Threads)
  <2>1. f \in [j .. k -> Threads]
    BY DEF Walk
  <2>2. \A x, y \in j .. k : f[x] = f[y] => x = y
    BY DEF Walk
  <2> QED BY <2>1, <2>2 DEF Injection, IsInjective
<1>3. Cardinality(j .. k) <= Cardinality(Threads)
  BY <1>1, <1>2, FS_Injection
<1>4. Cardinality(j .. k) = k - j + 1
  BY <1>1, FS_Interval
<1> QED BY <1>1, <1>3, <1>4, FS_CardinalityType

(* The seat a walk from k has come to after n steps.                        *)
At(j, k, n) == IF k - n >= j THEN k - n ELSE j

(* Path visits the seats of the walk from the top down, and stays at the    *)
(* end of it.                                                               *)
LEMMA WalkPath ==
    ASSUME NEW q, NEW pos, NEW j, NEW k, Walk(q, pos, j, k)
    PROVE  /\ DOMAIN Path(q[k]) = 0 .. Cardinality(Threads)
           /\ \A n \in 0 .. Cardinality(Threads) : Path(q[k])[n] = q[At(j, k, n)]
<1> DEFINE N == Cardinality(Threads)
           b == q[k]
           Eqn(f) == f = [n \in 0 .. N |-> IF n = 0 THEN b
                             ELSE IF f[n-1] = NoBlock THEN NoBlock
                             ELSE IF blk[f[n-1]].last # NoBlock THEN f[n-1]
                             ELSE blk[f[n-1]].next]
           w == [n \in 0 .. N |-> q[At(j, k, n)]]
<1>1. j \in Int /\ k \in Int /\ j <= k /\ N \in Nat /\ k - j + 1 <= N
  BY WalkFits
<1>2. \A i \in j .. k : q[i] \in Threads /\ q[i] # NoBlock
  BY DEF Walk
<1>3. blk[q[j]].last # NoBlock
      /\ \A i \in j + 1 .. k : blk[q[i]].last = NoBlock /\ blk[q[i]].next = q[i - 1]
  BY DEF Walk
<1>4. At(j, k, 0) = k
  BY <1>1 DEF At
<1>5. ASSUME NEW n \in 1 .. N
      PROVE  /\ q[At(j, k, n - 1)] # NoBlock
             /\ q[At(j, k, n)] = IF blk[q[At(j, k, n - 1)]].last # NoBlock
                                 THEN q[At(j, k, n - 1)] ELSE blk[q[At(j, k, n - 1)]].next
  <2>1. CASE k - n >= j
    <3>1. PICK e \in j + 1 .. k : e = k - n + 1
      BY <2>1, <1>1
    <3>2. At(j, k, n) = e - 1 /\ At(j, k, n - 1) = e /\ e \in j .. k
      BY <2>1, <3>1, <1>1 DEF At
    <3>3. blk[q[e]].last = NoBlock /\ blk[q[e]].next = q[e - 1]
      BY <1>3
    <3> QED BY <3>2, <3>3, <1>2
  <2>2. CASE ~(k - n >= j)
    <3>1. At(j, k, n) = j /\ At(j, k, n - 1) = j /\ j \in j .. k
      BY <2>2, <1>1 DEF At
    <3> QED BY <3>1, <1>2, <1>3
  <2> QED BY <2>1, <2>2
<1>6. Eqn(w)
  <2>1. ASSUME NEW n \in 0 .. N
        PROVE  w[n] = IF n = 0 THEN b
                      ELSE IF w[n-1] = NoBlock THEN NoBlock
                      ELSE IF blk[w[n-1]].last # NoBlock THEN w[n-1]
                      ELSE blk[w[n-1]].next
    <3>1. CASE n = 0
      BY <3>1, <1>1, <1>4
    <3>2. CASE n # 0
      <4>1. n \in 1 .. N /\ w[n] = q[At(j, k, n)] /\ w[n-1] = q[At(j, k, n - 1)]
        BY <3>2, <1>1
      <4> HIDE DEF w
      <4> QED BY <4>1, <3>2, <1>5
    <3> QED BY <3>1, <3>2
  <2> QED BY <2>1
<1>7. PICK c : Eqn(c) /\ Path(q[k]) = c
  <2>1. Eqn(CHOOSE f : Eqn(f))
    BY <1>6
  <2>2. Path(q[k]) = (CHOOSE f : Eqn(f))
    BY DEF Path
  <2> QED BY <2>1, <2>2
<1>8. /\ DOMAIN c = 0 .. N
      /\ \A n \in 0 .. N : c[n] = IF n = 0 THEN b
                      ELSE IF c[n-1] = NoBlock THEN NoBlock
                      ELSE IF blk[c[n-1]].last # NoBlock THEN c[n-1]
                      ELSE blk[c[n-1]].next
  BY <1>7
<1> DEFINE T == {n \in 0 .. N : c[n] = q[At(j, k, n)]}
<1> HIDE DEF N, Eqn, w
<1>9. 0 \in T
  BY <1>1, <1>4, <1>8
<1>10. ASSUME NEW n \in 0 .. N - 1, n \in T PROVE n + 1 \in T
  <2>1. n + 1 \in 1 .. N /\ n + 1 \in 0 .. N /\ n + 1 - 1 = n /\ n + 1 # 0
    BY <1>1
  <2>2. c[n] = q[At(j, k, n)]
    BY <1>10
  <2>3. c[n + 1] = IF c[n] = NoBlock THEN NoBlock
                   ELSE IF blk[c[n]].last # NoBlock THEN c[n] ELSE blk[c[n]].next
    BY <1>8, <2>1
  <2>4. /\ q[At(j, k, n)] # NoBlock
        /\ q[At(j, k, n + 1)] = IF blk[q[At(j, k, n)]].last # NoBlock
                                THEN q[At(j, k, n)] ELSE blk[q[At(j, k, n)]].next
    BY <1>5, <2>1
  <2>5. c[n + 1] = q[At(j, k, n + 1)]
    BY <2>2, <2>3, <2>4
  <2> QED BY <2>1, <2>5
<1> HIDE DEF T
<1>11. 0 .. N \subseteq T
  BY <1>1, <1>9, <1>10, Induction
<1> QED BY <1>7, <1>8, <1>11 DEF T, N

Span(q, j, k) == {q[i] : i \in j .. k}

(* So the walk ends at seat j and has seen the seats in between.            *)
LEMMA WalkEnds ==
    ASSUME NEW q, NEW pos, NEW j, NEW k, Walk(q, pos, j, k)
    PROVE  /\ LastOf(q[k]) = blk[q[j]].last
           /\ Visited(q[k]) = Span(q, j, k)
<1> DEFINE N == Cardinality(Threads)
<1>1. j \in Int /\ k \in Int /\ j <= k /\ N \in Nat /\ k - j + 1 <= N
  BY WalkFits
<1>2. /\ DOMAIN Path(q[k]) = 0 .. N
      /\ \A n \in 0 .. N : Path(q[k])[n] = q[At(j, k, n)]
  BY WalkPath
<1>3. At(j, k, N) = j /\ N \in 0 .. N
  BY <1>1 DEF At
<1>4. LastOf(q[k]) = blk[q[j]].last
  BY <1>2, <1>3 DEF LastOf
<1>5. \A n \in 0 .. N : At(j, k, n) \in j .. k
  BY <1>1 DEF At
<1>6. \A i \in j .. k : k - i \in 0 .. N /\ At(j, k, k - i) = i
  BY <1>1 DEF At
<1>7. Visited(q[k]) = {Path(q[k])[n] : n \in 0 .. N}
  BY <1>2 DEF Visited
<1> HIDE DEF N
<1>8. ASSUME NEW x \in Visited(q[k]) PROVE x \in {q[i] : i \in j .. k}
  BY <1>2, <1>5, <1>7
<1>9. ASSUME NEW i \in j .. k PROVE q[i] \in Visited(q[k])
  BY <1>2, <1>6, <1>7
<1> QED BY <1>4, <1>8, <1>9 DEF Span

(* What Linked leaves alone.                                                *)
SameButPrev(c, d) ==
    /\ c.next = d.next /\ c.last = d.last /\ c.share = d.share
    /\ c.exclusive = d.exclusive /\ c.wait = d.wait /\ c.signaled = d.signaled

(* The previous block is saved in all seats of the walk but the top one.    *)
LEMMA WalkLinks ==
    ASSUME NEW q, NEW pos, NEW j, NEW k, Walk(q, pos, j, k), blk \in [Threads -> WaitBlock]
    PROVE  /\ Linked(q[k]) \in [Threads -> WaitBlock]
           /\ \A u \in Threads : SameButPrev(Linked(q[k])[u], blk[u])
           /\ \A i \in j .. k - 1 : Linked(q[k])[q[i]].prev = q[i + 1]
           /\ \A u \in Threads : (\A i \in j .. k - 1 : q[i] # u) =>
                                    Linked(q[k])[u].prev = blk[u].prev
<1> DEFINE N == Cardinality(Threads)
           Above(u) == \E n \in 1 .. N : Path(q[k])[n] = u /\ Path(q[k])[n-1] # u
           p(u) == CHOOSE x \in Visited(q[k]) : blk[x].last = NoBlock /\ blk[x].next = u
<1>1. j \in Int /\ k \in Int /\ j <= k /\ N \in Nat /\ k - j + 1 <= N
  BY WalkFits
<1>2. /\ \A n \in 0 .. N : Path(q[k])[n] = q[At(j, k, n)]
      /\ Visited(q[k]) = {q[i] : i \in j .. k}
  BY WalkPath, WalkEnds DEF Span
<1>3. \A i \in j .. k : q[i] \in Threads /\ pos[q[i]] = i
  BY DEF Walk
<1>4. blk[q[j]].last # NoBlock
      /\ \A i \in j + 1 .. k : blk[q[i]].last = NoBlock /\ blk[q[i]].next = q[i - 1]
  BY DEF Walk
<1>5. ASSUME NEW i \in j .. k - 1 PROVE Above(q[i]) /\ p(q[i]) = q[i + 1]
  <2>1. i + 1 \in j + 1 .. k /\ i \in j .. k /\ i + 1 \in j .. k /\ i + 1 - 1 = i
    BY <1>1
  <2>2. q[i + 1] # q[i]
    BY <2>1, <1>3
  <2>3. k - i \in 1 .. N /\ k - i - 1 \in 0 .. N /\ k - i \in 0 .. N
        /\ At(j, k, k - i) = i /\ At(j, k, k - i - 1) = i + 1
    BY <1>1 DEF At
  <2>4. Above(q[i])
    BY <2>2, <2>3, <1>2
  <2>5. q[i + 1] \in Visited(q[k]) /\ blk[q[i + 1]].last = NoBlock /\ blk[q[i + 1]].next = q[i]
    BY <2>1, <1>2, <1>4
  <2>6. ASSUME NEW x \in Visited(q[k]), blk[x].last = NoBlock, blk[x].next = q[i]
        PROVE  x = q[i + 1]
    <3>1. PICK e \in j .. k : x = q[e]
      BY <1>2
    <3>2. e # j
      BY <3>1, <2>6, <1>4
    <3>3. e \in j + 1 .. k /\ e - 1 \in j .. k
      BY <3>2, <1>1
    <3>4. q[e - 1] = q[i]
      BY <3>1, <3>3, <2>6, <1>4
    <3>5. e - 1 = i
      BY <3>3, <3>4, <2>1, <1>3
    <3> QED BY <3>1, <3>5, <1>1
  <2>7. p(q[i]) = q[i + 1]
    BY <2>5, <2>6
  <2> QED BY <2>4, <2>7
<1>6. ASSUME NEW u \in Threads, \A i \in j .. k - 1 : q[i] # u PROVE ~Above(u)
  <2> SUFFICES ASSUME NEW n \in 1 .. N, Path(q[k])[n] = u, Path(q[k])[n-1] # u PROVE FALSE
    OBVIOUS
  <2>1. n \in 0 .. N /\ n - 1 \in 0 .. N
    BY <1>1
  <2>2. q[At(j, k, n)] = u /\ q[At(j, k, n - 1)] # u
    BY <2>1, <1>2
  <2>3. CASE k - n >= j
    <3>1. At(j, k, n) = k - n /\ k - n \in j .. k - 1
      BY <2>3, <1>1 DEF At
    <3> QED BY <3>1, <2>2, <1>6
  <2>4. CASE ~(k - n >= j)
    <3>1. At(j, k, n) = j /\ At(j, k, n - 1) = j
      BY <2>4, <1>1 DEF At
    <3> QED BY <3>1, <2>2
  <2> QED BY <2>3, <2>4
<1>7. \A u \in Threads : Linked(q[k])[u] =
         [blk[u] EXCEPT !.prev = IF Above(u) THEN p(u) ELSE @]
  BY DEF Linked
<1>8. \A c \in WaitBlock, x \in Blocks : LET d == [c EXCEPT !.prev = x]
         IN  d \in WaitBlock /\ d.prev = x /\ SameButPrev(d, c)
  BY DEF WaitBlock, SameButPrev
<1>9. ASSUME NEW u \in Threads
      PROVE  \E x \in Blocks : /\ Linked(q[k])[u] = [blk[u] EXCEPT !.prev = x]
                               /\ \A i \in j .. k - 1 : u = q[i] => x = q[i + 1]
                               /\ (\A i \in j .. k - 1 : q[i] # u) => x = blk[u].prev
  <2>1. CASE \A i \in j .. k - 1 : q[i] # u
    <3>1. blk[u].prev \in Blocks
      BY BlockFields
    <3>2. ~Above(u)
      BY <2>1, <1>6
    <3>3. Linked(q[k])[u] = [blk[u] EXCEPT !.prev = IF Above(u) THEN p(u) ELSE @]
      BY <1>7
    <3> HIDE DEF Above, p
    <3>4. Linked(q[k])[u] = [blk[u] EXCEPT !.prev = blk[u].prev]
      BY <3>2, <3>3
    <3> QED BY <2>1, <3>1, <3>4
  <2>2. CASE \E i \in j .. k - 1 : q[i] = u
    <3>1. PICK i \in j .. k - 1 : q[i] = u
      BY <2>2
    <3>2. Above(u) /\ p(u) = q[i + 1]
      BY <1>5, <3>1
    <3>3. i + 1 \in j .. k
      BY <1>1
    <3>4. q[i + 1] \in Blocks
      BY <3>3, <1>3 DEF Blocks
    <3>5. Linked(q[k])[u] = [blk[u] EXCEPT !.prev = IF Above(u) THEN p(u) ELSE @]
      BY <1>7
    <3>6. \A e \in j .. k - 1 : u = q[e] => e = i
      <4>1. \A e \in j .. k - 1 : e \in j .. k
        BY <1>1
      <4> QED BY <3>1, <4>1, <1>3
    <3> HIDE DEF Above, p
    <3>7. Linked(q[k])[u] = [blk[u] EXCEPT !.prev = q[i + 1]]
      BY <3>2, <3>5
    <3> QED BY <3>1, <3>4, <3>6, <3>7
  <2> QED BY <2>1, <2>2
<1> HIDE DEF Above, p, N
<1>10. ASSUME NEW u \in Threads
       PROVE  /\ Linked(q[k])[u] \in WaitBlock /\ SameButPrev(Linked(q[k])[u], blk[u])
              /\ \A i \in j .. k - 1 : u = q[i] => Linked(q[k])[u].prev = q[i + 1]
              /\ (\A i \in j .. k - 1 : q[i] # u) => Linked(q[k])[u].prev = blk[u].prev
  <2>1. PICK x \in Blocks : /\ Linked(q[k])[u] = [blk[u] EXCEPT !.prev = x]
                            /\ \A i \in j .. k - 1 : u = q[i] => x = q[i + 1]
                            /\ (\A i \in j .. k - 1 : q[i] # u) => x = blk[u].prev
    BY <1>9
  <2>2. blk[u] \in WaitBlock
    OBVIOUS
  <2>3. LET d == [blk[u] EXCEPT !.prev = x]
        IN  d \in WaitBlock /\ d.prev = x /\ SameButPrev(d, blk[u])
    BY <2>2, <1>8
  <2> QED BY <2>1, <2>3
<1>11. Linked(q[k]) = [u \in Threads |-> Linked(q[k])[u]]
  BY DEF Linked
<1>12. \A i \in j .. k - 1 : q[i] \in Threads
  <2>1. \A i \in j .. k - 1 : i \in j .. k
    BY <1>1
  <2> QED BY <2>1, <1>3
<1>13. Linked(q[k]) \in [Threads -> WaitBlock]
  BY <1>10, <1>11
<1> QED BY <1>10, <1>12, <1>13

-----------------------------------------------------------------------------
(* A walk along the list by the thread that works on it.                    *)
LEMMA MainWalk ==
    ASSUME NEW q, NEW pos, NEW lo, NEW hi, NEW m, Queue(q, pos, lo, hi, m),
           word.waiting, NEW k \in m .. hi[NoBlock]
    PROVE  Walk(q, pos, m, k) /\ blk[q[m]].last = q[lo[NoBlock]]
<1> DEFINE L == lo[NoBlock]
           H == hi[NoBlock]
<1>1. L \in Int /\ H \in Int /\ m \in Int /\ NoBlock \in Blocks
  BY DEF Queue, Ghosts, Blocks
<1>2. Links(q, L, H, m)
  BY DEF Queue
<1>3. m \in L .. H /\ blk[q[m]].last = q[L]
  BY <1>2 DEF Links
<1>4. \A i \in L .. H : q[i] \in Threads /\ pos[q[i]] = i
  BY <1>1 DEF Queue, Seats
<1>5. \A i \in L .. H : LinkOf(q, L, H, m, i)
  BY <1>2 DEF Links
<1> HIDE DEF L, H
<1>6. k \in Int /\ m <= k /\ k <= H
  BY <1>1 DEF H
<1>7. L \in L .. H /\ \A i \in m .. k : i \in L .. H
  BY <1>1, <1>3, <1>6
<1>8. blk[q[m]].last # NoBlock
  BY <1>3, <1>4, <1>7
<1>9. ASSUME NEW i \in m + 1 .. k
      PROVE  blk[q[i]].last = NoBlock /\ blk[q[i]].next = q[i - 1]
  <2>1. i \in L .. H /\ i > m /\ i > L
    BY <1>1, <1>3, <1>6
  <2> QED BY <2>1, <1>5 DEF LinkOf
<1> QED BY <1>1, <1>3, <1>4, <1>6, <1>7, <1>8, <1>9 DEF Walk, L

(* A walk along the list by a sharer that leaves.                           *)
LEMMA MultiWalk ==
    ASSUME NEW q, NEW pos, NEW lo, NEW hi, NEW m, Queue(q, pos, lo, hi, m),
           word.multi, NEW k \in lo[NoBlock] .. hi[NoBlock]
    PROVE  \E j \in lo[NoBlock] .. k : Walk(q, pos, j, k) /\ blk[q[j]].last = q[lo[NoBlock]]
<1> DEFINE L == lo[NoBlock]
           H == hi[NoBlock]
           T == {d \in Nat : d <= k - L /\ blk[q[k - d]].last # NoBlock}
<1>1. L \in Int /\ H \in Int /\ m \in Int /\ NoBlock \in Blocks
  BY DEF Queue, Ghosts, Blocks
<1>2. Links(q, L, H, m)
  BY DEF Queue
<1>3. \A i \in L .. H : q[i] \in Threads /\ pos[q[i]] = i
  BY <1>1 DEF Queue, Seats
<1>4. \A i \in L .. H : LinkOf(q, L, H, m, i)
  BY <1>2 DEF Links
<1>5. blk[q[L]].last = q[L]
  BY <1>2 DEF Links
<1>6. k \in L .. H /\ k \in Int /\ L <= k /\ k <= H
  BY <1>1
<1> HIDE DEF L, H
<1>7. k - L \in T
  <2>1. k - (k - L) = L /\ k - L \in Nat /\ L \in L .. H
    BY <1>1, <1>6
  <2>2. blk[q[k - (k - L)]].last # NoBlock
    BY <2>1, <1>3, <1>5
  <2> QED BY <2>1, <2>2
<1>8. T # {} /\ T \in SUBSET Nat
  BY <1>7
<1>9. PICK d \in T : \A y \in T : d <= y
  BY <1>8, LeastNumber
<1>10. PICK j \in L .. k : j = k - d
  BY <1>1, <1>6, <1>9
<1>11. d \in Nat /\ d <= k - L /\ blk[q[j]].last # NoBlock
  BY <1>9, <1>10
<1>12. \A i \in L .. k : i \in L .. H
  BY <1>1, <1>6
<1>13. blk[q[j]].last = q[L]
  BY <1>10, <1>11, <1>12, <1>4 DEF LinkOf
<1>14. ASSUME NEW i \in j + 1 .. k
       PROVE  blk[q[i]].last = NoBlock /\ blk[q[i]].next = q[i - 1]
  <2>1. i \in L .. H /\ i > L /\ k - i \in Nat /\ k - (k - i) = i /\ k - i < d /\ k - i <= k - L
    BY <1>1, <1>6, <1>10, <1>11
  <2>2. blk[q[i]].last = NoBlock
    <3>1. k - i \notin T
      BY <2>1, <1>9, <1>11
    <3> QED BY <2>1, <3>1
  <2>3. blk[q[i]].next = q[i - 1]
    BY <2>1, <1>4 DEF LinkOf
  <2> QED BY <2>2, <2>3
<1> HIDE DEF T
<1>15. j \in Int /\ k \in Int /\ j <= k
  BY <1>1, <1>6, <1>10
<1>16. \A i \in j .. k : i \in L .. H
  BY <1>1, <1>6, <1>10
<1>17. \A i \in j .. k : q[i] \in Threads /\ pos[q[i]] = i
  BY <1>3, <1>16
<1>18. Walk(q, pos, j, k)
  BY <1>11, <1>14, <1>15, <1>17 DEF Walk
<1> QED BY <1>10, <1>13, <1>18 DEF L

(* What the thread that works on the list finds there.                      *)
LEMMA WorkerSees ==
    ASSUME NEW q, NEW pos, NEW lo, NEW hi, NEW m, Inv(q, pos, lo, hi, m),
           NEW t \in Threads, Working(t)
    PROVE  /\ word.waiting /\ word.waking
           /\ \E k \in m .. hi[NoBlock] :
                 /\ Wk(t).ptr = q[k] /\ Walk(q, pos, m, k)
                 /\ LastOf(Wk(t).ptr) = q[lo[NoBlock]]
                 /\ Visited(Wk(t).ptr) = Span(q, m, k)
                 /\ blk[q[k]].prev = NoBlock
<1>1. /\ word.waking /\ blk[Wk(t).ptr].prev = NoBlock
      /\ \E k \in m .. hi[NoBlock] : q[k] = Wk(t).ptr
  BY DEF Inv, Wakers, WakerOf
<1>2. word.waiting /\ Queue(q, pos, lo, hi, m)
  BY <1>1, WordFields DEF Inv, Holders, Shape, Types
<1>3. PICK k \in m .. hi[NoBlock] : q[k] = Wk(t).ptr
  BY <1>1
<1>4. Walk(q, pos, m, k) /\ blk[q[m]].last = q[lo[NoBlock]]
  BY <1>2, MainWalk
<1>5. LastOf(q[k]) = blk[q[m]].last /\ Visited(q[k]) = Span(q, m, k)
  BY <1>4, WalkEnds
<1> QED BY <1>1, <1>2, <1>3, <1>4, <1>5

(* What a sharer that leaves finds there.                                   *)
LEMMA CounterSees ==
    ASSUME NEW q, NEW pos, NEW lo, NEW hi, NEW m, Inv(q, pos, lo, hi, m),
           NEW t \in Threads, Counting(t)
    PROVE  /\ word.multi /\ word.waiting
           /\ LastOf(Old(t).ptr) = q[lo[NoBlock]]
           /\ \A c \in Visited(Old(t).ptr) : \E i \in lo[NoBlock] .. hi[NoBlock] : c = q[i]
<1>1. word.multi /\ \E k \in lo[NoBlock] .. hi[NoBlock] : q[k] = Old(t).ptr
  BY DEF Inv, Releasers, ReleaserOf
<1>2. word.waiting /\ Queue(q, pos, lo, hi, m) /\ lo[NoBlock] \in Int /\ hi[NoBlock] \in Int
  BY <1>1 DEF Inv, Holders, Shape, Types, Queue, Ghosts, Blocks
<1>3. PICK k \in lo[NoBlock] .. hi[NoBlock] : q[k] = Old(t).ptr
  BY <1>1
<1>4. PICK j \in lo[NoBlock] .. k : Walk(q, pos, j, k) /\ blk[q[j]].last = q[lo[NoBlock]]
  BY <1>1, <1>2, MultiWalk
<1>5. LastOf(q[k]) = blk[q[j]].last /\ Visited(q[k]) = Span(q, j, k)
  BY <1>4, WalkEnds
<1>6. \A i \in j .. k : i \in lo[NoBlock] .. hi[NoBlock]
  BY <1>2
<1> QED BY <1>1, <1>2, <1>3, <1>4, <1>5, <1>6 DEF Span

-----------------------------------------------------------------------------
(***************************************************************************)
(* Steps that leave the waiters alone.                                     *)
(***************************************************************************)
SameButShare(c, d) ==
    /\ c.next = d.next /\ c.prev = d.prev /\ c.last = d.last
    /\ c.exclusive = d.exclusive /\ c.wait = d.wait /\ c.signaled = d.signaled

SameWait(u) ==
    /\ Alive(u)' <=> Alive(u)
    /\ pc'[u] = "Gate" <=> pc[u] = "Gate"
    /\ pc'[u] = "Signal" <=> pc[u] = "Signal"
    /\ pc'[u] = "SignalGate" <=> pc[u] = "SignalGate"
    /\ pc[u] \in {"Signal", "SignalGate"} => loc'[u].cur = loc[u].cur /\ loc'[u].nxt = loc[u].nxt

(* A thread that neither waits nor wakes.                                   *)
Apart(t) ==
    /\ pc[t] \notin {"WaitBit", "Gate", "Optimize", "Signal", "SignalGate"}
    /\ pc[t] = "Wake" => loc[t].ret = "Idle"

(* The others do not move, and t is apart from the waiters.                 *)
LEMMA SameWaits ==
    ASSUME NEW t \in Threads, Others(t), Apart(t), Apart(t)'
    PROVE  \A u \in Threads : SameWait(u)
<1>1. \A u \in Threads : u # t => SameWait(u)
  BY DEF Others, SameWait, Alive
<1>2. SameWait(t)
  BY DEF Apart, SameWait, Alive
<1> QED BY <1>1, <1>2

(* Then the row stays as it is.                                             *)
LEMMA QueueFrame ==
    ASSUME NEW q, NEW pos, NEW lo, NEW hi, NEW m, Queue(q, pos, lo, hi, m),
           word.multi => word.waiting,
           \A u \in Threads : SameWait(u),
           \A u \in Threads : SameButShare(blk'[u], blk[u]),
           \A u \in Threads : gate'[u] = gate[u],
           word'.ptr = word.ptr, word'.waiting = word.waiting, word'.multi => word.multi
    PROVE  Queue(q, pos, lo, hi, m)'
<1> DEFINE L == lo[NoBlock]
           H == hi[NoBlock]
<1>1. \A u \in Threads : /\ blk'[u].next = blk[u].next /\ blk'[u].prev = blk[u].prev
                         /\ blk'[u].last = blk[u].last /\ blk'[u].exclusive = blk[u].exclusive
                         /\ blk'[u].wait = blk[u].wait /\ blk'[u].signaled = blk[u].signaled
  BY DEF SameButShare
<1>2. \A x \in Blocks : \A i \in lo[x] .. hi[x] : q[i] \in Threads
  BY DEF Queue, Seats
<1>3. NoBlock \in Blocks /\ Threads \subseteq Blocks
  BY DEF Blocks
<1>4. Links(q, L, H, m)'
  <2>1. Links(q, L, H, m) /\ \A i \in L .. H : q[i] \in Threads
    BY <1>2, <1>3 DEF Queue
  <2> HIDE DEF L, H
  <2>2. \A i \in L .. H : LinkOf(q, L, H, m, i)'
    BY <2>1, <1>1 DEF Links, LinkOf
  <2>3. word.waiting => q[m] \in Threads
    BY <2>1 DEF Links
  <2>4. word.waiting => L \in L .. H
    <3>1. L \in Int /\ H \in Int
      BY <1>3 DEF Queue, Ghosts, L, H
    <3> QED BY <2>1, <3>1 DEF Links
  <2> QED BY <2>1, <2>2, <2>3, <2>4, <1>1 DEF Links
<1>5. Chains(q, lo, hi)'
  BY <1>1, <1>2, <1>3 DEF Queue, Chains
<1>6. Seated(q, lo, hi)'
  BY <1>1, <1>2 DEF Queue, Seated, InWait, SameWait
<1>7. ASSUME NEW t \in Threads PROVE SignalOf(q, lo, hi, t)'
  <2>1. SignalOf(q, lo, hi, t) /\ SameWait(t)
    BY DEF Queue
  <2>2. CASE pc[t] = "SignalGate"
    <3>1. \A u \in Threads : Signalling(u, loc[t].cur)' => Signalling(u, loc[t].cur)
      BY <2>2 DEF SameWait, Signalling
    <3> QED BY <2>1, <2>2, <3>1, <1>1 DEF SignalOf, SameWait, Signalling
  <2>3. CASE pc[t] # "SignalGate"
    BY <2>1, <2>3 DEF SignalOf, SameWait
  <2> QED BY <2>2, <2>3
<1>8. ASSUME NEW t \in Threads PROVE WaiterOf(q, lo, hi, t)'
  <2>1. WaiterOf(q, lo, hi, t) /\ SameWait(t)
    BY DEF Queue
  <2>2. \A u \in Threads : Signalling(u, t) => Signalling(u, t)'
    BY DEF SameWait, Signalling
  <2>3. HasSeat(q, lo, hi, t)' <=> HasSeat(q, lo, hi, t)
    BY DEF HasSeat
  <2> QED BY <2>1, <2>2, <2>3, <1>1 DEF WaiterOf, SameWait
<1> QED BY <1>4, <1>5, <1>6, <1>7, <1>8 DEF Queue, Ghosts, Seats

(* The block a worker has seen is a thread's.                               *)
LEMMA WorkerPtr ==
    ASSUME NEW q, NEW pos, NEW lo, NEW hi, NEW m, Inv(q, pos, lo, hi, m),
           NEW t \in Threads, Working(t)
    PROVE  Wk(t).ptr \in Threads
<1>1. PICK k \in m .. hi[NoBlock] : Wk(t).ptr = q[k] /\ Walk(q, pos, m, k)
  BY WorkerSees
<1>2. k \in m .. k
  BY <1>1 DEF Walk
<1> QED BY <1>1, <1>2 DEF Walk

(* Nobody begins to work on the list.                                       *)
LEMMA WakersFrame ==
    ASSUME NEW q, NEW pos, NEW lo, NEW hi, NEW m, Inv(q, pos, lo, hi, m),
           word.waking => word'.waking, word'.multi => word.multi,
           \A u \in Threads : blk'[u].prev = blk[u].prev,
           \A u \in Threads : Working(u)' => pc'[u] = pc[u] /\ loc'[u] = loc[u]
    PROVE  Wakers(q, hi[NoBlock], m)'
<1>1. \A u \in Threads : Working(u)' => Working(u) /\ Wk(u)' = Wk(u)
  BY DEF Working, Wk
<1>2. \A u \in Threads : Working(u) => Wk(u).ptr \in Threads
  BY WorkerPtr
<1>3. SUFFICES ASSUME NEW u \in Threads PROVE WakerOf(q, hi[NoBlock], m, u)'
  BY DEF Wakers
<1>4. WakerOf(q, hi[NoBlock], m, u)
  BY DEF Inv, Wakers
<1>5. CASE Working(u)'
  <2>1. Working(u) /\ Wk(u)' = Wk(u) /\ pc'[u] = pc[u] /\ loc'[u] = loc[u] /\ Wk(u).ptr \in Threads
    BY <1>1, <1>2, <1>5
  <2>2. \A v \in Threads : Working(v)' => v = u
    BY <1>1, <1>4, <2>1 DEF WakerOf
  <2> QED BY <1>4, <2>1, <2>2 DEF WakerOf
<1>6. CASE ~Working(u)'
  BY <1>6 DEF WakerOf, Working
<1> QED BY <1>5, <1>6

(* A releaser begins to.                                                    *)
LEMMA WakersStart ==
    ASSUME NEW q, NEW pos, NEW lo, NEW hi, NEW m, Inv(q, pos, lo, hi, m),
           NEW t \in Threads, Others(t), pc'[t] = "Wake", loc'[t].wk = word',
           word.waiting, ~word.waking, word'.waiting, word'.waking, ~word'.multi,
           word'.ptr = word.ptr, blk' = blk
    PROVE  Wakers(q, hi[NoBlock], m)'
<1> DEFINE L == lo[NoBlock]
           H == hi[NoBlock]
<1>1. \A u \in Threads : ~Working(u)
  BY DEF Inv, Wakers, WakerOf
<1>2. Links(q, L, H, m) /\ L \in Int /\ H \in Int /\ m \in Int
  BY DEF Inv, Queue, Ghosts, Blocks
<1> HIDE DEF L, H
<1>3. word.ptr = q[H] /\ m \in L .. H /\ LinkOf(q, L, H, m, H)
  BY <1>2 DEF Links
<1>4. blk[q[H]].prev = NoBlock /\ H \in m .. H
  BY <1>2, <1>3 DEF LinkOf
<1>5. \A u \in Threads : u # t => ~Working(u)'
  BY <1>1 DEF Working, Others
<1>6. WakerOf(q, H, m, t)'
  BY <1>3, <1>4, <1>5 DEF WakerOf, Wk, Working
<1>7. \A u \in Threads : u # t => WakerOf(q, H, m, u)'
  BY <1>5 DEF WakerOf, Working
<1> QED BY <1>6, <1>7 DEF Wakers, H

(* The word stays as it is.                                                 *)
LEMMA PromiseFrame ==
    ASSUME Promise, NEW t \in Threads, Others(t), UNCHANGED <<word, blk, gate>>,
           Working(t) => Working(t)', Active(t) => Active(t)'
    PROVE  Promise'
<1>1. \A u \in Threads : (Working(u) => Working(u)') /\ (Active(u) => Active(u)')
  BY DEF Working, Active, Others, Old
<1> QED BY <1>1 DEF Promise

(* The word changes, and is still, or now, somebody's business.             *)
LEMMA PromiseMet ==
    ASSUME Promise, NEW t \in Threads, Others(t), ~Working(t),
           word'.waking => word.waking \/ Working(t)',
           word'.locked \/ ~word'.waiting \/ word'.waking \/ Active(t)'
    PROVE  Promise'
<1>1. \A u \in Threads : Working(u) => Working(u)'
  BY DEF Working, Others
<1> QED BY <1>1 DEF Promise

(* What the others hold and have read.                                      *)
LEMMA CallingFrame ==
    ASSUME Calling, NEW t \in Threads, Others(t), Kept(t), CallOf(t)'
    PROVE  Calling'
<1>1. \A u \in Threads : u # t => CallOf(u)'
  BY DEF Calling, CallOf, Others, Kept, Old, Unlocking
<1> QED BY <1>1 DEF Calling

(* The sharers that leave.                                                  *)
LEMMA ReleasersFrame ==
    ASSUME NEW q, NEW L, NEW H, Releasers(q, L, H), NEW t \in Threads, Others(t),
           \A u \in Threads : u # t /\ Counting(u) /\ word.multi => word'.multi,
           Counting(t)' => ReleaserOf(q, L, H, t)'
    PROVE  Releasers(q, L, H)'
<1>1. ASSUME NEW u \in Threads, u # t PROVE ReleaserOf(q, L, H, u)'
  <2>1. pc'[u] = pc[u] /\ loc'[u] = loc[u]
    BY <1>1 DEF Others
  <2>2. Old(u)' = Old(u) /\ Counting(u)' = Counting(u)
    BY <2>1 DEF Old, Counting
  <2> QED BY <1>1, <2>1, <2>2 DEF Releasers, ReleaserOf
<1>2. ReleaserOf(q, L, H, t)'
  BY DEF ReleaserOf
<1> QED BY <1>1, <1>2 DEF Releasers

-----------------------------------------------------------------------------
(***************************************************************************)
(* Who holds the lock.                                                     *)
(***************************************************************************)
(* A holder is the only one when the word or the list says so.              *)
LEMMA HolderFacts ==
    ASSUME Types, NEW b, Holders(b), NEW t \in Threads, held[t] # "no"
    PROVE  /\ word.locked
           /\ held[t] = "X" => Sole(t) /\ ~word.multi /\ word.shared = 0
           /\ word.waiting /\ ~word.multi => Sole(t)
           /\ ~word.waiting /\ word.shared <= 1 => Sole(t)
           /\ ~word.waiting /\ held[t] = "S" => word.shared > 0
           /\ word.multi => blk[b].share > 0
           /\ Sole(t) => \A u \in Threads : held[u] = held[t] => u = t
<1>1. word \in Word /\ held \in [Threads -> {"no", "X", "S"}] /\ word.shared \in Nat
  BY WordFields DEF Types
<1>2. word.locked
  BY DEF Holders, Counts
<1>3. \A s \in Threads : Sole(s) => s = t
  BY DEF Sole
<1>4. word.waiting /\ ~word.multi => Sole(t)
  BY <1>2, <1>3 DEF Holders, Counts
<1>5. ASSUME ~word.waiting PROVE word.shared = 0 => Sole(t)
  BY <1>2, <1>3, <1>5 DEF Holders, Counts
<1>6. ASSUME ~word.waiting, word.shared = 1 PROVE Sole(t)
  <2>1. Cardinality(Sharers) = 1 /\ \A u \in Threads : held[u] # "X"
    BY <1>2, <1>6, <1>1 DEF Holders, Counts
  <2>2. PICK s \in Threads : held[s] = "S" /\ \A u \in Threads : u # s => held[u] # "S"
    BY <2>1, SharersOne
  <2> QED BY <2>1, <2>2, <1>1 DEF Sole
<1>7. ASSUME held[t] = "X" PROVE Sole(t) /\ ~word.multi /\ word.shared = 0
  <2>1. ~word.multi
    BY <1>7 DEF Holders, Counts
  <2>2. word.shared = 0
    BY <1>1, <1>2, <1>7 DEF Holders, Counts, Shape
  <2> QED BY <2>1, <2>2, <1>4, <1>5
<1>8. Cardinality(Sharers) \in Nat /\ (held[t] = "S" => Cardinality(Sharers) # 0)
  BY SharersType, SharersZero
<1>9. ~word.waiting /\ held[t] = "S" => word.shared > 0
  BY <1>1, <1>2, <1>8 DEF Holders, Counts
<1>10. word.multi => blk[b].share > 0
  <2>1. word.multi => held[t] = "S" /\ blk[b].share = Cardinality(Sharers)
    BY <1>1 DEF Holders, Counts
  <2> QED BY <2>1, <1>8
<1>11. ~word.waiting /\ word.shared <= 1 => Sole(t)
  BY <1>1, <1>5, <1>6
<1>12. Sole(t) => \A u \in Threads : held[u] = held[t] => u = t
  BY DEF Sole
<1> QED BY <1>2, <1>4, <1>7, <1>9, <1>10, <1>11, <1>12

(* Nothing changes.                                                         *)
LEMMA HoldersFrame ==
    ASSUME NEW b, Holders(b), NEW t \in Threads, Others(t), UNCHANGED <<word, blk, held>>,
           Finisher(t)' <=> Finisher(t)
    PROVE  Holders(b)'
<1>1. \A u \in Threads : Finisher(u)' <=> Finisher(u)
  BY DEF Finisher, Unlocking, Others
<1>2. Finish(b)'
  BY <1>1 DEF Holders, Finish
<1>3. Counts(b)' /\ Shape'
  BY DEF Holders, Counts, Shape, Sharers, Sole
<1> QED BY <1>2, <1>3 DEF Holders

(* The lock is taken.                                                       *)
LEMMA HoldersTaken ==
    ASSUME Types, Types', NEW b, Holders(b), NEW t \in Threads, Others(t), Kept(t), blk' = blk,
           ~Unlocking(t)', ~word.locked, word'.locked, word'.waiting = word.waiting,
           word'.waking = word.waking, word'.multi = word.multi, word'.ptr = word.ptr,
           held'[t] # "no",
           word'.shared = IF held'[t] = "S" /\ ~word.waiting THEN 1 ELSE 0
    PROVE  Holders(b)'
<1>1. /\ held' \in [Threads -> {"no", "X", "S"}] /\ ~word.multi /\ ~word'.multi
      /\ \A u \in Threads : held[u] = "no"
      /\ word \in Word /\ word' \in Word
  BY DEF Holders, Shape, Counts, Types
<1>2. Shape'
  BY <1>1 DEF Holders, Shape
<1>3. Sole(t)'
  BY <1>1 DEF Sole, Kept
<1>4. Cardinality(Sharers)' = IF held'[t] = "S" THEN 1 ELSE 0
  <2>1. Cardinality(Sharers) = 0
    BY <1>1, SharersZero
  <2>2. CASE held'[t] = "S"
    BY <2>1, <2>2, <1>1, SharersAdd
  <2>3. CASE held'[t] # "S"
    <3>1. \A u \in Threads : held'[u] = "S" <=> held[u] = "S"
      BY <2>3, <1>1 DEF Kept
    <3> QED BY <2>1, <2>3, <3>1, SharersSame
  <2> QED BY <2>2, <2>3
<1>5. Counts(b)'
  <2>1. \A u \in Threads : ~(blk'[u].share > 0)
    BY <1>1 DEF Holders, Counts
  <2>2. word'.shared > 0 => \A u \in Threads : held'[u] # "X"
    BY <1>1, <1>3 DEF Sole
  <2>3. ~word'.waiting => word'.shared = Cardinality(Sharers)'
    BY <1>4
  <2> QED BY <1>1, <1>3, <2>1, <2>2, <2>3 DEF Counts
<1>6. Finish(b)'
  <2>1. \A u \in Threads : ~Finisher(u)
    BY <1>1 DEF Holders, Finish
  <2>2. \A u \in Threads : ~Finisher(u)'
    BY <2>1 DEF Finisher, Unlocking, Others, Kept
  <2> QED BY <2>2, <1>1 DEF Finish
<1> QED BY <1>2, <1>5, <1>6 DEF Holders

(* The number of sharers in the word changes by one.                        *)
LEMMA HoldersCounted ==
    ASSUME Types, Types', NEW b, Holders(b), NEW t \in Threads, Others(t), Kept(t), blk' = blk,
           ~Unlocking(t)', word.locked, ~word.waiting, word.shared > 0,
           word'.locked, word'.waiting = word.waiting, word'.shared > 0,
           word'.waking = word.waking, word'.multi = word.multi, word'.ptr = word.ptr,
           \/ held[t] = "no" /\ held'[t] = "S" /\ word'.shared = word.shared + 1
           \/ held[t] # "no" /\ held'[t] = "no" /\ word'.shared = word.shared - 1
    PROVE  Holders(b)'
<1>1. /\ word.shared \in Nat /\ word'.shared \in Nat /\ ~word.multi
      /\ held \in [Threads -> {"no", "X", "S"}]
      /\ word.shared = Cardinality(Sharers) /\ \A u \in Threads : held[u] # "X"
  BY WordFields DEF Holders, Shape, Counts, Types
<1>2. Shape'
  BY <1>1 DEF Holders, Shape
<1>3. word'.shared = Cardinality(Sharers)'
  <2>1. CASE held[t] = "no" /\ held'[t] = "S" /\ word'.shared = word.shared + 1
    <3>1. Cardinality(Sharers)' = Cardinality(Sharers) + 1
      BY <2>1, SharersAdd
    <3> QED BY <2>1, <3>1, <1>1
  <2>2. CASE held[t] # "no" /\ held'[t] = "no" /\ word'.shared = word.shared - 1
    <3>1. held[t] = "S"
      BY <2>2, <1>1
    <3>2. Cardinality(Sharers)' = Cardinality(Sharers) - 1
      BY <2>2, <3>1, SharersRemove
    <3> QED BY <2>2, <3>2, <1>1
  <2> QED BY <2>1, <2>2
<1>4. \A u \in Threads : held'[u] # "X"
  BY <1>1 DEF Kept
<1>5. Counts(b)'
  <2>1. \A u \in Threads : ~(blk'[u].share > 0)
    BY <1>1 DEF Holders, Counts
  <2>2. word'.shared # 0
    BY <1>1
  <2> QED BY <1>1, <1>3, <1>4, <2>1, <2>2 DEF Counts
<1>6. Finish(b)'
  <2>1. \A u \in Threads : ~Finisher(u)
    BY <1>1 DEF Holders, Finish
  <2>2. \A u \in Threads : ~Finisher(u)'
    BY <2>1 DEF Finisher, Unlocking, Others, Kept
  <2> QED BY <2>2, <1>1 DEF Finish
<1> QED BY <1>2, <1>5, <1>6 DEF Holders

(* The last holder unlocks.                                                 *)
LEMMA HoldersFreed ==
    ASSUME Types, NEW b, Holders(b), NEW t \in Threads, Others(t), Kept(t), blk' = blk,
           ~Unlocking(t)', ~word'.locked, ~word'.multi, word'.shared = 0,
           ~word'.waiting => word'.ptr = NoBlock /\ ~word'.waking,
           held'[t] = "no", (Sole(t) /\ ~word.multi) \/ Finisher(t)
    PROVE  Holders(b)'
<1>1. \A u \in Threads : blk[u].share \in Nat
  BY BlockFields DEF Types
<1>2. /\ \A u \in Threads : u # t => held[u] = "no" /\ ~Finisher(u)
      /\ \A u \in Threads : ~(blk[u].share > 0)
  <2>1. CASE Sole(t) /\ ~word.multi
    BY <2>1 DEF Holders, Counts, Finish, Sole
  <2>2. CASE Finisher(t)
    <3>1. word.multi /\ blk[b].share = 0
      BY <2>2 DEF Holders, Finish
    <3>2. \A u \in Threads : held[u] # "X" /\ held[u] # "S"
      BY <3>1, SharersZero DEF Holders, Counts
    <3>3. \A u \in Threads : held[u] = "no"
      BY <3>2 DEF Types
    <3>4. \A u \in Threads : u # t => ~Finisher(u)
      BY <2>2 DEF Holders, Finish
    <3>5. ASSUME NEW u \in Threads, blk[u].share > 0 PROVE FALSE
      <4>1. u = b
        BY <3>5 DEF Holders, Counts
      <4> QED BY <4>1, <3>1, <3>5
    <3> QED BY <3>3, <3>4, <3>5
  <2> QED BY <2>1, <2>2
<1>3. Shape'
  BY DEF Shape
<1>4. \A u \in Threads : held'[u] = "no"
  BY <1>2 DEF Kept
<1>5. Counts(b)'
  BY <1>2, <1>4 DEF Counts
<1>6. \A u \in Threads : ~Finisher(u)'
  BY <1>2 DEF Finisher, Unlocking, Others, Kept
<1>7. Finish(b)'
  BY <1>6 DEF Finish
<1> QED BY <1>3, <1>5, <1>7 DEF Holders

(* The only sharer becomes the owner.                                       *)
LEMMA HoldersUpgraded ==
    ASSUME Types, Types', NEW b, Holders(b), NEW t \in Threads, Others(t), Kept(t), blk' = blk,
           pc'[t] = pc[t], held[t] = "S", held'[t] = "X",
           word = LockedBy(1), word' = LockedBy(0)
    PROVE  Holders(b)' /\ Sole(t)
<1>1. /\ word.locked /\ ~word.waiting /\ ~word.waking /\ ~word.multi /\ word.shared = 1
      /\ word.ptr = NoBlock
      /\ word'.locked /\ ~word'.waiting /\ ~word'.waking /\ ~word'.multi /\ word'.shared = 0
      /\ word'.ptr = NoBlock
  BY LockedByFields
<1>2. Sole(t)
  BY <1>1, HolderFacts
<1>3. Sole(t)'
  BY <1>2 DEF Sole, Kept
<1>4. Cardinality(Sharers)' = 0
  <2>1. Cardinality(Sharers) = 1
    BY <1>1 DEF Holders, Counts
  <2> QED BY <2>1, SharersRemove
<1>5. \A u \in Threads : ~(blk'[u].share > 0)
  BY <1>1 DEF Holders, Counts
<1>6. Counts(b)'
  BY <1>1, <1>3, <1>4, <1>5 DEF Counts
<1>7. Shape'
  BY <1>1 DEF Shape
<1>8. \A u \in Threads : ~Finisher(u)
  BY <1>1 DEF Holders, Finish
<1>9. \A u \in Threads : ~Finisher(u)'
  BY <1>8 DEF Finisher, Unlocking, Others, Kept
<1>10. Finish(b)'
  BY <1>1, <1>9 DEF Finish
<1> QED BY <1>2, <1>6, <1>7, <1>10 DEF Holders

-----------------------------------------------------------------------------
(***************************************************************************)
(* The steps of threads that neither wait nor wake.                        *)
(***************************************************************************)
(* Such a step, when the parts about the word and the thread are shown.     *)
LEMMA AsideStep ==
    ASSUME NEW q, NEW pos, NEW lo, NEW hi, NEW m, Inv(q, pos, lo, hi, m),
           NEW t \in Threads, Types', Others(t), Kept(t), Apart(t), Apart(t)',
           UNCHANGED <<blk, gate>>, word'.ptr = word.ptr, word'.waiting = word.waiting,
           word'.multi => word.multi, Wakers(q, hi[NoBlock], m)', Promise', CallOf(t)',
           \A u \in Threads : u # t /\ Counting(u) /\ word.multi => word'.multi,
           Counting(t)' => ReleaserOf(q, lo[NoBlock], hi[NoBlock], t)',
           Holders(q[lo[NoBlock]])'
    PROVE  Inv(q, pos, lo, hi, m)'
<1>1. Calling'
  BY CallingFrame DEF Inv
<1>2. Releasers(q, lo[NoBlock], hi[NoBlock])'
  <2>1. Releasers(q, lo[NoBlock], hi[NoBlock])
    BY DEF Inv
  <2> QED BY <2>1, ReleasersFrame
<1>3. Queue(q, pos, lo, hi, m)'
  <2>1. \A u \in Threads : SameWait(u)
    BY SameWaits
  <2>2. \A u \in Threads : SameButShare(blk'[u], blk[u]) /\ gate'[u] = gate[u]
    BY DEF SameButShare
  <2>3. Queue(q, pos, lo, hi, m) /\ (word.multi => word.waiting)
    BY DEF Inv, Holders, Shape
  <2> QED BY <2>1, <2>2, <2>3, QueueFrame
<1> QED BY <1>1, <1>2, <1>3 DEF Inv

(* Such a step that changes nothing but the thread.                         *)
LEMMA QuietStep ==
    ASSUME NEW q, NEW pos, NEW lo, NEW hi, NEW m, Inv(q, pos, lo, hi, m),
           NEW t \in Threads, Types', Others(t), Apart(t), Apart(t)',
           UNCHANGED <<word, blk, gate, held>>,
           ~Working(t), ~Working(t)', Active(t) => Active(t)',
           Finisher(t)' <=> Finisher(t), CallOf(t)',
           Counting(t)' => ReleaserOf(q, lo[NoBlock], hi[NoBlock], t)'
    PROVE  Inv(q, pos, lo, hi, m)'
<1>1. Kept(t)
  BY DEF Kept
<1>2. Wakers(q, hi[NoBlock], m)'
  <2>1. \A u \in Threads : Working(u)' => pc'[u] = pc[u] /\ loc'[u] = loc[u]
    BY DEF Others
  <2>2. (word.waking => word'.waking) /\ (word'.multi => word.multi)
        /\ \A u \in Threads : blk'[u].prev = blk[u].prev
    OBVIOUS
  <2> QED BY <2>1, <2>2, WakersFrame
<1>3. Promise'
  BY PromiseFrame DEF Inv
<1>4. Holders(q[lo[NoBlock]])'
  <2>1. Holders(q[lo[NoBlock]])
    BY DEF Inv
  <2> QED BY <2>1, HoldersFrame
<1> QED BY <1>1, <1>2, <1>3, <1>4, AsideStep

(* A releaser that has just read the word knows the list.                   *)
LEMMA ReleaserLoaded ==
    ASSUME NEW q, NEW pos, NEW lo, NEW hi, NEW m, Inv(q, pos, lo, hi, m),
           NEW t \in Threads, Old(t)' = word, word' = word
    PROVE  ReleaserOf(q, lo[NoBlock], hi[NoBlock], t)'
<1>1. Links(q, lo[NoBlock], hi[NoBlock], m) /\ lo[NoBlock] \in Int /\ hi[NoBlock] \in Int
  BY DEF Inv, Queue, Ghosts, Blocks
<1>2. word.waiting => hi[NoBlock] \in lo[NoBlock] .. hi[NoBlock] /\ q[hi[NoBlock]] = word.ptr
  BY <1>1 DEF Links
<1> QED BY <1>2 DEF ReleaserOf, Counting

(* The loads: OldValue is the word, and the thread goes on.                 *)
LEMMA LoadStep ==
    ASSUME Types, NEW t \in Threads, NEW l \in PCs, Load(t, l)
    PROVE  /\ pc' \in [Threads -> PCs] /\ loc' \in [Threads -> LocalVars]
           /\ pc'[t] = l /\ Old(t)' = word /\ loc'[t].ret = loc[t].ret /\ Others(t)
<1>1. loc[t] \in LocalVars /\ word \in Word
  BY DEF Types
<1> DEFINE r == [loc[t] EXCEPT !.old = word]
<1>2. r \in LocalVars /\ r.old = word /\ r.ret = loc[t].ret
  BY <1>1 DEF LocalVars
<1>3. Goto(t, l, r)
  BY DEF Load
<1> HIDE DEF r
<1> QED BY <1>2, <1>3, GotoStep DEF Old

(* A call returns.                                                          *)
LEMMA ReturnStep ==
    ASSUME Types, NEW t \in Threads, Return(t)
    PROVE  /\ pc' \in [Threads -> PCs] /\ loc' \in [Threads -> LocalVars]
           /\ pc'[t] = "Idle" /\ loc'[t] = NoLocals /\ Others(t)
<1>1. "Idle" \in PCs /\ NoLocals \in LocalVars
  BY LocalsFields DEF PCs
<1> QED BY <1>1, GotoStep DEF Return

(* The loops of the acquire paths.                                          *)
LEMMA AcquireLoadStep ==
    ASSUME NEW q, NEW pos, NEW lo, NEW hi, NEW m, Inv(q, pos, lo, hi, m),
           NEW t \in Threads, AcquireLoad(t)
    PROVE  Inv(q, pos, lo, hi, m)'
<1>1. Types /\ pc[t] = "AcqLoad" /\ UNCHANGED <<word, blk, gate, held>>
      /\ Load(t, "AcqLoop") /\ "AcqLoop" \in PCs /\ CallOf(t)
  BY DEF Inv, AcquireLoad, PCs, Calling
<1>2. /\ pc' \in [Threads -> PCs] /\ loc' \in [Threads -> LocalVars]
      /\ pc'[t] = "AcqLoop" /\ Old(t)' = word /\ Others(t)
  BY <1>1, LoadStep
<1>3. Types'
  BY <1>1, <1>2 DEF Types
<1>4. CallOf(t)'
  BY <1>1, <1>2 DEF CallOf, Entering, Unlocking
<1>5. /\ Apart(t) /\ Apart(t)' /\ ~Working(t) /\ ~Working(t)' /\ Active(t)'
      /\ ~Finisher(t) /\ ~Finisher(t)' /\ ~Counting(t)'
  BY <1>1, <1>2 DEF Apart, Working, Active, Finisher, Unlocking, Counting
<1> QED BY <1>1, <1>2, <1>3, <1>4, <1>5, QuietStep

(* A thread that begins an acquire, or lost the race in it.                 *)
LEMMA AcquireGoesOn ==
    ASSUME NEW q, NEW pos, NEW lo, NEW hi, NEW m, Inv(q, pos, lo, hi, m),
           NEW t \in Threads, pc[t] \in {"Idle", "AcqLoop"}, held[t] = "no",
           NEW r \in LocalVars, Goto(t, "AcqLoad", r), UNCHANGED <<word, blk, gate, held>>
    PROVE  Inv(q, pos, lo, hi, m)'
<1>1. Types /\ "AcqLoad" \in PCs
  BY DEF Inv, PCs
<1>2. /\ pc' \in [Threads -> PCs] /\ loc' \in [Threads -> LocalVars]
      /\ pc'[t] = "AcqLoad" /\ Others(t)
  BY <1>1, GotoStep
<1>3. Types'
  BY <1>1, <1>2 DEF Types
<1>4. CallOf(t)'
  BY <1>1, <1>2 DEF CallOf, Entering, Unlocking
<1>5. /\ Apart(t) /\ Apart(t)' /\ ~Working(t) /\ ~Working(t)' /\ Active(t)'
      /\ ~Finisher(t) /\ ~Finisher(t)' /\ ~Counting(t)'
  BY <1>1, <1>2 DEF Apart, Working, Active, Finisher, Unlocking, Counting
<1> QED BY <1>1, <1>2, <1>3, <1>4, <1>5, QuietStep

(* A thread gets the lock.                                                  *)
LEMMA LockTaken ==
    ASSUME NEW q, NEW pos, NEW lo, NEW hi, NEW m, Inv(q, pos, lo, hi, m),
           NEW t \in Threads, pc[t] \in {"Idle", "AcqLoop"}, held[t] = "no",
           pc' \in [Threads -> PCs], loc' \in [Threads -> LocalVars],
           pc'[t] = "Idle", Others(t), UNCHANGED <<blk, gate>>,
           NEW w \in {"X", "S"}, Hold(t, w), word' \in Word,
           word'.locked, word'.waiting = word.waiting,
           word'.waking = word.waking, word'.multi = word.multi, word'.ptr = word.ptr,
           CanLock(word, w),
           word'.shared = IF w = "S" /\ ~word.waiting THEN word.shared + 1 ELSE word.shared
    PROVE  Inv(q, pos, lo, hi, m)'
<1>1. Types
  BY DEF Inv
<1>2. held' \in [Threads -> {"no", "X", "S"}] /\ held'[t] = w /\ Kept(t)
  BY <1>1, HoldStep
<1>3. Types'
  BY <1>1, <1>2 DEF Types
<1>4. CallOf(t)'
  BY DEF CallOf, Entering, Unlocking
<1>5. /\ Apart(t) /\ Apart(t)' /\ ~Working(t) /\ ~Working(t)'
      /\ ~Unlocking(t) /\ ~Unlocking(t)' /\ ~Counting(t)'
  BY DEF Apart, Working, Unlocking, Counting
<1>6. Wakers(q, hi[NoBlock], m)'
  <2>1. \A u \in Threads : Working(u)' => pc'[u] = pc[u] /\ loc'[u] = loc[u]
    BY <1>5 DEF Others
  <2>2. (word.waking => word'.waking) /\ (word'.multi => word.multi)
        /\ \A u \in Threads : blk'[u].prev = blk[u].prev
    OBVIOUS
  <2> QED BY <2>1, <2>2, WakersFrame
<1>7. Promise'
  <2>1. Promise
    BY DEF Inv
  <2> QED BY <2>1, <1>5, PromiseMet
<1>8. Holders(q[lo[NoBlock]])'
  <2>1. Holders(q[lo[NoBlock]])
    BY DEF Inv
  <2>2. CASE ~word.locked
    <3>1. word.shared = 0
      BY <2>1, <2>2 DEF Holders, Shape
    <3>2. held'[t] # "no" /\ word'.shared = IF held'[t] = "S" /\ ~word.waiting THEN 1 ELSE 0
      BY <1>2, <3>1
    <3> QED BY <1>1, <1>2, <1>3, <1>5, <2>1, <2>2, <3>2, HoldersTaken
  <2>3. CASE word.locked
    <3>1. ~word.waiting /\ word.shared > 0 /\ w = "S" /\ word.shared \in Nat
      BY <2>3, <1>1, WordFields DEF CanLock, Types
    <3>2. word'.shared = word.shared + 1 /\ word'.shared > 0
      BY <3>1
    <3> QED BY <1>1, <1>2, <1>3, <1>5, <2>1, <2>3, <3>1, <3>2, HoldersCounted
  <2> QED BY <2>2, <2>3
<1>9. /\ word'.multi => word.multi
      /\ \A u \in Threads : u # t /\ Counting(u) /\ word.multi => word'.multi
  OBVIOUS
<1> QED BY <1>2, <1>3, <1>4, <1>5, <1>6, <1>7, <1>8, <1>9, AsideStep

(* ExAcquirePushLockExclusive.                                              *)
LEMMA AcquireExclusiveStep ==
    ASSUME NEW q, NEW pos, NEW lo, NEW hi, NEW m, Inv(q, pos, lo, hi, m),
           NEW t \in Threads, AcquireExclusive(t)
    PROVE  Inv(q, pos, lo, hi, m)'
<1>1. Types /\ pc[t] = "Idle" /\ held[t] = "no" /\ UNCHANGED <<blk, gate>> /\ word \in Word
  BY DEF Inv, AcquireExclusive, Types
<1>2. CASE ~word.locked
  <2>1. word' = [word EXCEPT !.locked = TRUE] /\ Hold(t, "X") /\ UNCHANGED <<pc, loc>>
    BY <1>2 DEF AcquireExclusive, Stay
  <2>2. /\ word' \in Word /\ word'.locked /\ word'.waiting = word.waiting
        /\ word'.waking = word.waking /\ word'.multi = word.multi /\ word'.ptr = word.ptr
        /\ word'.shared = word.shared
    BY <1>1, <2>1 DEF Word
  <2>3. /\ pc' \in [Threads -> PCs] /\ loc' \in [Threads -> LocalVars]
        /\ pc'[t] = "Idle" /\ Others(t)
    BY <1>1, <2>1, StayStep
  <2>4. CanLock(word, "X") /\ "X" \in {"X", "S"}
        /\ word'.shared = IF "X" = "S" /\ ~word.waiting THEN word.shared + 1 ELSE word.shared
    BY <1>2, <2>2 DEF CanLock
  <2> QED BY <1>1, <2>1, <2>2, <2>3, <2>4, LockTaken
<1>3. CASE word.locked
  <2> DEFINE r == [NoLocals EXCEPT !.want = "X"]
  <2>1. r \in LocalVars
    BY LocalsFields DEF LocalVars
  <2>2. Goto(t, "AcqLoad", r) /\ UNCHANGED <<word, held>>
    BY <1>3 DEF AcquireExclusive
  <2> HIDE DEF r
  <2> QED BY <1>1, <2>1, <2>2, AcquireGoesOn
<1> QED BY <1>2, <1>3

(* ExAcquirePushLockShared.                                                 *)
LEMMA AcquireSharedStep ==
    ASSUME NEW q, NEW pos, NEW lo, NEW hi, NEW m, Inv(q, pos, lo, hi, m),
           NEW t \in Threads, AcquireShared(t)
    PROVE  Inv(q, pos, lo, hi, m)'
<1>1. Types /\ pc[t] = "Idle" /\ held[t] = "no" /\ UNCHANGED <<blk, gate>> /\ word \in Word
  BY DEF Inv, AcquireShared, Types
<1>2. CASE word = Free
  <2>1. word' = LockedBy(1) /\ Hold(t, "S") /\ UNCHANGED <<pc, loc>>
    BY <1>2 DEF AcquireShared, Stay
  <2>2. /\ word' \in Word /\ word'.locked /\ word'.waiting = word.waiting
        /\ word'.waking = word.waking /\ word'.multi = word.multi /\ word'.ptr = word.ptr
        /\ word'.shared = word.shared + 1 /\ ~word.waiting /\ ~word.locked
    <3>1. /\ word' \in Word /\ word'.locked /\ ~word'.waiting /\ ~word'.waking
          /\ ~word'.multi /\ word'.ptr = NoBlock /\ word'.shared = 1
      BY <2>1, LockedByFields
    <3>2. /\ word \in Word /\ ~word.locked /\ ~word.waiting /\ ~word.waking
          /\ ~word.multi /\ word.ptr = NoBlock /\ word.shared = 0
      BY <1>2, FreeFields
    <3> QED BY <3>1, <3>2, WordFields
  <2>3. /\ pc' \in [Threads -> PCs] /\ loc' \in [Threads -> LocalVars]
        /\ pc'[t] = "Idle" /\ Others(t)
    BY <1>1, <2>1, StayStep
  <2>4. CanLock(word, "S") /\ "S" \in {"X", "S"}
        /\ word'.shared = IF "S" = "S" /\ ~word.waiting THEN word.shared + 1 ELSE word.shared
    BY <2>2 DEF CanLock
  <2> QED BY <1>1, <2>1, <2>2, <2>3, <2>4, LockTaken
<1>3. CASE word # Free
  <2> DEFINE r == [NoLocals EXCEPT !.want = "S"]
  <2>1. r \in LocalVars
    BY LocalsFields DEF LocalVars
  <2>2. Goto(t, "AcqLoad", r) /\ UNCHANGED <<word, held>>
    BY <1>3 DEF AcquireShared
  <2> HIDE DEF r
  <2> QED BY <1>1, <2>1, <2>2, AcquireGoesOn
<1> QED BY <1>2, <1>3

(* The lock bit is set in the loop.                                         *)
LEMMA AcquireLoopLockStep ==
    ASSUME NEW q, NEW pos, NEW lo, NEW hi, NEW m, Inv(q, pos, lo, hi, m),
           NEW t \in Threads, AcquireLoopLock(t)
    PROVE  Inv(q, pos, lo, hi, m)'
<1>1. Types /\ pc[t] = "AcqLoop" /\ UNCHANGED <<blk, gate>> /\ word \in Word
      /\ held[t] = "no" /\ loc[t] \in LocalVars
  BY DEF Inv, AcquireLoopLock, Types, Calling, CallOf, Entering
<1>2. CASE word = Old(t)
  <2>1. PICK w \in {"X", "S"} : w = loc[t].want
    BY <1>1, LocalsFields
  <2>2. word' = Locked(word, w) /\ Hold(t, w) /\ Return(t) /\ CanLock(word, w)
    BY <1>2, <2>1 DEF AcquireLoopLock
  <2>3. PICK s \in Nat : s = IF w = "S" /\ ~word.waiting THEN word.shared + 1 ELSE word.shared
    BY <1>1, WordFields
  <2>4. word' = [word EXCEPT !.locked = TRUE, !.shared = s]
    BY <2>2, <2>3 DEF Locked
  <2>5. /\ word' \in Word /\ word'.locked /\ word'.waiting = word.waiting
        /\ word'.waking = word.waking /\ word'.multi = word.multi /\ word'.ptr = word.ptr
        /\ word'.shared = s
    BY <1>1, <2>4 DEF Word
  <2>6. /\ pc' \in [Threads -> PCs] /\ loc' \in [Threads -> LocalVars]
        /\ pc'[t] = "Idle" /\ Others(t)
    BY <1>1, <2>2, ReturnStep
  <2> QED BY <1>1, <2>2, <2>3, <2>5, <2>6, LockTaken
<1>3. CASE word # Old(t)
  <2>1. Goto(t, "AcqLoad", loc[t]) /\ UNCHANGED <<word, held>>
    BY <1>3 DEF AcquireLoopLock
  <2> QED BY <1>1, <2>1, AcquireGoesOn
<1> QED BY <1>2, <1>3

(* The loop lost its race before it could push the block.                   *)
LEMMA AcquireLoopPushLost ==
    ASSUME NEW q, NEW pos, NEW lo, NEW hi, NEW m, Inv(q, pos, lo, hi, m),
           NEW t \in Threads, AcquireLoopPush(t), word # Old(t)
    PROVE  Inv(q, pos, lo, hi, m)'
<1>1. pc[t] = "AcqLoop" /\ held[t] = "no" /\ loc[t] \in LocalVars
  BY DEF Inv, AcquireLoopPush, Types, Calling, CallOf, Entering
<1>2. Goto(t, "AcqLoad", loc[t]) /\ UNCHANGED <<word, blk, gate, held>>
  BY DEF AcquireLoopPush
<1> QED BY <1>1, <1>2, AcquireGoesOn

(* ExConvertPushLockSharedToExclusive.                                      *)
LEMMA ConvertStep ==
    ASSUME NEW q, NEW pos, NEW lo, NEW hi, NEW m, Inv(q, pos, lo, hi, m),
           NEW t \in Threads, ConvertToExclusive(t)
    PROVE  Inv(q, pos, lo, hi, m)' /\ Sole(t)
<1>1. /\ Types /\ pc[t] = "Idle" /\ held[t] = "S" /\ word = LockedBy(1) /\ word' = LockedBy(0)
      /\ UNCHANGED <<blk, gate, pc, loc>> /\ Hold(t, "X") /\ Holders(q[lo[NoBlock]])
  BY DEF Inv, ConvertToExclusive
<1>2. held' \in [Threads -> {"no", "X", "S"}] /\ held'[t] = "X" /\ Kept(t)
  BY <1>1, HoldStep
<1>3. pc'[t] = "Idle" /\ Others(t)
  BY <1>1 DEF Others
<1>4. /\ word' \in Word /\ word'.locked /\ word'.waiting = word.waiting
      /\ word'.waking = word.waking /\ word'.multi = word.multi /\ word'.ptr = word.ptr
      /\ ~word.waking
  <2>1. /\ word' \in Word /\ word'.locked /\ ~word'.waiting /\ ~word'.waking
        /\ ~word'.multi /\ word'.ptr = NoBlock
    BY <1>1, LockedByFields
  <2>2. /\ word \in Word /\ ~word.waiting /\ ~word.waking /\ ~word.multi /\ word.ptr = NoBlock
    BY <1>1, LockedByFields
  <2> QED BY <2>1, <2>2, WordFields
<1>5. Types'
  BY <1>1, <1>2, <1>4 DEF Types
<1>6. Holders(q[lo[NoBlock]])' /\ Sole(t)
  BY <1>1, <1>2, <1>3, <1>5, HoldersUpgraded
<1>7. CallOf(t)'
  BY <1>3 DEF CallOf, Entering, Unlocking
<1>8. /\ Apart(t) /\ Apart(t)' /\ ~Working(t) /\ ~Working(t)' /\ ~Counting(t)'
  BY <1>1, <1>3 DEF Apart, Working, Counting
<1>9. Wakers(q, hi[NoBlock], m)'
  <2>1. \A u \in Threads : Working(u)' => pc'[u] = pc[u] /\ loc'[u] = loc[u]
    BY <1>1
  <2>2. (word.waking => word'.waking) /\ (word'.multi => word.multi)
        /\ \A u \in Threads : blk'[u].prev = blk[u].prev
    BY <1>1, <1>4
  <2> QED BY <2>1, <2>2, WakersFrame
<1>10. Promise'
  <2>1. Promise
    BY DEF Inv
  <2> QED BY <2>1, <1>3, <1>4, <1>8, PromiseMet
<1>11. /\ word'.multi => word.multi
       /\ \A u \in Threads : u # t /\ Counting(u) /\ word.multi => word'.multi
  BY <1>4
<1> QED BY <1>1, <1>2, <1>3, <1>4, <1>5, <1>6, <1>7, <1>8, <1>9, <1>10, <1>11, AsideStep

(* The last holder unlocks, and wakes or leaves that to another.            *)
LEMMA LockFreed ==
    ASSUME NEW q, NEW pos, NEW lo, NEW hi, NEW m, Inv(q, pos, lo, hi, m),
           NEW t \in Threads, Types', Others(t), Kept(t), UNCHANGED <<blk, gate>>,
           Apart(t), ~Working(t), held'[t] = "no",
           (Sole(t) /\ ~word.multi) \/ Finisher(t),
           word'.ptr = word.ptr, word'.waiting = word.waiting, ~word'.locked, ~word'.multi,
           word'.shared = 0, word'.waking => word.waiting,
           pc'[t] \in {"Idle", "TryLoad", "Wake"},
           pc'[t] = "Wake" => /\ loc'[t].wk = word' /\ loc'[t].ret = "Idle"
                              /\ ~word.waking /\ word.waiting /\ word'.waking,
           pc'[t] # "Wake" => word'.waking = word.waking,
           pc'[t] = "Idle" => ~word'.waiting \/ word'.waking
    PROVE  Inv(q, pos, lo, hi, m)'
<1>1. Types /\ Holders(q[lo[NoBlock]]) /\ Promise /\ Calling
  BY DEF Inv
<1>2. CallOf(t)'
  BY DEF CallOf, Entering, Unlocking
<1>3. /\ Apart(t)' /\ ~Unlocking(t)' /\ ~Counting(t)'
  BY DEF Apart, Unlocking, Counting
<1>4. Wakers(q, hi[NoBlock], m)'
  <2>1. CASE pc'[t] = "Wake"
    BY <2>1, WakersStart
  <2>2. CASE pc'[t] # "Wake"
    <3>1. \A u \in Threads : Working(u)' => pc'[u] = pc[u] /\ loc'[u] = loc[u]
      BY <2>2 DEF Others, Working
    <3>2. (word.waking => word'.waking) /\ (word'.multi => word.multi)
          /\ \A u \in Threads : blk'[u].prev = blk[u].prev
      BY <2>2
    <3> QED BY <3>1, <3>2, WakersFrame
  <2> QED BY <2>1, <2>2
<1>5. Promise'
  <2>1. word'.waking => word.waking \/ Working(t)'
    BY DEF Working
  <2>2. word'.locked \/ ~word'.waiting \/ word'.waking \/ Active(t)'
    BY DEF Active
  <2> QED BY <1>1, <2>1, <2>2, PromiseMet
<1>6. Holders(q[lo[NoBlock]])'
  <2>1. ~word'.waiting => word'.ptr = NoBlock /\ ~word'.waking
    BY <1>1, WordFields DEF Holders, Shape, Types
  <2> QED BY <1>1, <1>3, <2>1, HoldersFreed
<1>7. ASSUME NEW u \in Threads, Counting(u), word.multi PROVE FALSE
  <2>1. Finisher(t)
    BY <1>7
  <2>2. blk[q[lo[NoBlock]]].share = 0
    BY <1>1, <2>1 DEF Holders, Finish
  <2>3. held[u] # "no"
    BY <1>1, <1>7 DEF Calling, CallOf, Counting
  <2>4. blk[q[lo[NoBlock]]].share > 0
    BY <1>1, <1>7, <2>3, HolderFacts
  <2> QED BY <2>2, <2>4
<1>8. /\ word'.multi => word.multi
      /\ \A u \in Threads : u # t /\ Counting(u) /\ word.multi => word'.multi
  BY <1>7
<1> QED BY <1>2, <1>3, <1>4, <1>5, <1>6, <1>8, AsideStep

(* One sharer less.                                                         *)
LEMMA LockLeft ==
    ASSUME NEW q, NEW pos, NEW lo, NEW hi, NEW m, Inv(q, pos, lo, hi, m),
           NEW t \in Threads, Types', Others(t), Kept(t), UNCHANGED <<blk, gate>>,
           Apart(t), ~Working(t), held[t] # "no", held'[t] = "no",
           ~word.waiting, word.shared > 1,
           word'.ptr = word.ptr, word'.waiting = word.waiting, word'.locked = word.locked,
           word'.multi = word.multi, word'.waking = word.waking,
           word'.shared = word.shared - 1, pc'[t] = "Idle"
    PROVE  Inv(q, pos, lo, hi, m)'
<1>1. Types /\ Holders(q[lo[NoBlock]]) /\ Promise /\ word.shared \in Nat
  BY WordFields DEF Inv, Types
<1>2. CallOf(t)'
  BY DEF CallOf, Entering, Unlocking
<1>3. /\ Apart(t)' /\ ~Unlocking(t)' /\ ~Counting(t)' /\ ~Working(t)'
  BY DEF Apart, Unlocking, Counting, Working
<1>4. Wakers(q, hi[NoBlock], m)'
  <2>1. \A u \in Threads : Working(u)' => pc'[u] = pc[u] /\ loc'[u] = loc[u]
    BY <1>3 DEF Others
  <2>2. (word.waking => word'.waking) /\ (word'.multi => word.multi)
        /\ \A u \in Threads : blk'[u].prev = blk[u].prev
    OBVIOUS
  <2> QED BY <2>1, <2>2, WakersFrame
<1>5. Promise'
  BY <1>1, PromiseMet
<1>6. Holders(q[lo[NoBlock]])'
  <2>1. word.locked
    BY <1>1, HolderFacts
  <2>2. word'.locked /\ word.shared > 0 /\ word'.shared > 0
    BY <1>1, <2>1
  <2> QED BY <1>1, <1>3, <2>1, <2>2, HoldersCounted
<1>7. /\ word'.multi => word.multi
      /\ \A u \in Threads : u # t /\ Counting(u) /\ word.multi => word'.multi
  OBVIOUS
<1> QED BY <1>2, <1>3, <1>4, <1>5, <1>6, <1>7, AsideStep

(* A release with nobody waiting: one sharer less, or free.                 *)
LEMMA OneLessStep ==
    ASSUME NEW q, NEW pos, NEW lo, NEW hi, NEW m, Inv(q, pos, lo, hi, m),
           NEW t \in Threads, pc[t] \in {"Idle", "RAFast", "RSLoop", "RALoop"}, held[t] # "no",
           pc' \in [Threads -> PCs], loc' \in [Threads -> LocalVars], pc'[t] = "Idle", Others(t),
           Hold(t, "no"), UNCHANGED <<blk, gate>>, ~word.waiting, word' = OneLess(word)
    PROVE  Inv(q, pos, lo, hi, m)' /\ held[t] # "no"
<1>1. /\ Types /\ word \in Word /\ word.shared \in Nat
      /\ Holders(q[lo[NoBlock]]) /\ Apart(t) /\ ~Working(t)
  BY WordFields DEF Inv, Types, Apart, Working
<1>2. held' \in [Threads -> {"no", "X", "S"}] /\ held'[t] = "no" /\ Kept(t)
  BY <1>1, HoldStep
<1>3. CASE word.shared > 1
  <2>1. word' = [word EXCEPT !.shared = @ - 1]
    BY <1>3 DEF OneLess
  <2>2. /\ word' \in Word
        /\ word'.ptr = word.ptr /\ word'.waiting = word.waiting /\ word'.locked = word.locked
        /\ word'.multi = word.multi /\ word'.waking = word.waking
        /\ word'.shared = word.shared - 1
    BY <1>1, <1>3, <2>1 DEF Word
  <2>3. Types'
    BY <1>1, <1>2, <2>2 DEF Types
  <2> QED BY <1>1, <1>2, <1>3, <2>2, <2>3, LockLeft
<1>4. CASE ~(word.shared > 1)
  <2>1. word' = Free
    BY <1>4 DEF OneLess
  <2>2. word.shared <= 1 /\ Sole(t) /\ word.ptr = NoBlock /\ ~word.waking /\ ~word.multi
    <3>1. word.shared <= 1
      BY <1>1, <1>4
    <3> QED BY <1>1, <3>1, HolderFacts DEF Holders, Shape
  <2>3. /\ word' \in Word /\ ~word'.locked /\ ~word'.waiting /\ ~word'.waking
        /\ ~word'.multi /\ word'.ptr = NoBlock /\ word'.shared = 0
    BY <2>1, FreeFields
  <2>4. Types'
    BY <1>1, <1>2, <2>3 DEF Types
  <2>5. word'.waiting = word.waiting /\ word'.waking = word.waking /\ word'.ptr = word.ptr
    BY <1>1, <2>2, <2>3, WordFields
  <2> QED BY <1>1, <1>2, <2>2, <2>3, <2>4, <2>5, LockFreed
<1> QED BY <1>3, <1>4

(* ExReleasePushLockExclusive.                                              *)
LEMMA ReleaseExclusiveStep ==
    ASSUME NEW q, NEW pos, NEW lo, NEW hi, NEW m, Inv(q, pos, lo, hi, m),
           NEW t \in Threads, ReleaseExclusive(t)
    PROVE  Inv(q, pos, lo, hi, m)'
<1>1. /\ Types /\ word \in Word /\ pc[t] = "Idle" /\ held[t] = "X"
      /\ UNCHANGED <<blk, gate>> /\ Hold(t, "no") /\ word' = [word EXCEPT !.locked = FALSE]
      /\ Holders(q[lo[NoBlock]]) /\ Apart(t) /\ ~Working(t)
  BY DEF Inv, Types, Apart, Working, ReleaseExclusive
<1>2. held' \in [Threads -> {"no", "X", "S"}] /\ held'[t] = "no" /\ Kept(t)
  BY <1>1, HoldStep
<1>3. Sole(t) /\ ~word.multi /\ word.shared = 0
  BY <1>1, HolderFacts
<1>4. /\ word' \in Word /\ ~word'.locked /\ word'.waiting = word.waiting
      /\ word'.waking = word.waking /\ word'.multi = word.multi /\ word'.ptr = word.ptr
      /\ word'.shared = word.shared
  BY <1>1 DEF Word
<1>5. /\ pc' \in [Threads -> PCs] /\ loc' \in [Threads -> LocalVars] /\ Others(t)
      /\ pc'[t] = IF word.waiting /\ ~word.waking THEN "TryLoad" ELSE "Idle"
  <2>1. CASE word.waiting /\ ~word.waking
    <3>1. Goto(t, "TryLoad", NoLocals) /\ "TryLoad" \in PCs
      BY <2>1 DEF ReleaseExclusive, PCs
    <3> QED BY <1>1, <2>1, <3>1, LocalsFields, GotoStep
  <2>2. CASE ~(word.waiting /\ ~word.waking)
    <3>1. UNCHANGED <<pc, loc>>
      BY <2>2 DEF ReleaseExclusive, Stay
    <3> QED BY <1>1, <2>2, <3>1, StayStep
  <2> QED BY <2>1, <2>2
<1>6. Types'
  BY <1>1, <1>2, <1>4, <1>5 DEF Types
<1>7. word'.waking => word.waiting
  BY <1>1, <1>4 DEF Holders, Shape
<1>8. /\ pc'[t] \in {"Idle", "TryLoad", "Wake"} /\ pc'[t] # "Wake"
      /\ pc'[t] = "Idle" => ~word'.waiting \/ word'.waking
  BY <1>4, <1>5
<1> QED BY <1>1, <1>2, <1>3, <1>4, <1>5, <1>6, <1>7, <1>8, LockFreed

(* ExfTryToWakePushLock.                                                    *)
LEMMA TryToWakeLoadStep ==
    ASSUME NEW q, NEW pos, NEW lo, NEW hi, NEW m, Inv(q, pos, lo, hi, m),
           NEW t \in Threads, TryToWakeLoad(t)
    PROVE  Inv(q, pos, lo, hi, m)'
<1>1. Types /\ pc[t] = "TryLoad" /\ UNCHANGED <<word, blk, gate, held>> /\ CallOf(t)
      /\ held[t] = "no"
  BY DEF Inv, TryToWakeLoad, Calling, CallOf, Entering
<1>2. CASE word.waking \/ word.locked \/ ~word.waiting
  <2>1. Return(t)
    BY <1>2 DEF TryToWakeLoad
  <2>2. /\ pc' \in [Threads -> PCs] /\ loc' \in [Threads -> LocalVars]
        /\ pc'[t] = "Idle" /\ Others(t)
    BY <1>1, <2>1, ReturnStep
  <2>3. Types'
    BY <1>1, <2>2 DEF Types
  <2>4. /\ Apart(t) /\ Apart(t)' /\ ~Working(t) /\ ~Working(t)'
        /\ ~Counting(t)' /\ ~Unlocking(t) /\ ~Unlocking(t)' /\ CallOf(t)'
    BY <1>1, <2>2 DEF Apart, Working, Unlocking, Counting, CallOf, Entering
  <2>5. Kept(t) /\ Promise
    BY <1>1 DEF Kept, Inv
  <2>6. Promise'
    BY <1>1, <1>2, <2>2, <2>4, <2>5, PromiseMet
  <2>7. Wakers(q, hi[NoBlock], m)'
    <3>1. \A u \in Threads : Working(u)' => pc'[u] = pc[u] /\ loc'[u] = loc[u]
      BY <2>2, <2>4 DEF Others
    <3>2. (word.waking => word'.waking) /\ (word'.multi => word.multi)
          /\ \A u \in Threads : blk'[u].prev = blk[u].prev
      BY <1>1
    <3> QED BY <3>1, <3>2, WakersFrame
  <2>8. Holders(q[lo[NoBlock]])'
    <3>1. Holders(q[lo[NoBlock]]) /\ UNCHANGED <<word, blk, held>>
          /\ (Finisher(t)' <=> Finisher(t))
      BY <1>1, <2>4 DEF Inv, Finisher
    <3> QED BY <3>1, <2>2, HoldersFrame
  <2>9. /\ word'.ptr = word.ptr /\ word'.waiting = word.waiting /\ (word'.multi => word.multi)
        /\ UNCHANGED <<blk, gate>>
        /\ \A u \in Threads : u # t /\ Counting(u) /\ word.multi => word'.multi
    BY <1>1
  <2> QED BY <2>2, <2>3, <2>4, <2>5, <2>6, <2>7, <2>8, <2>9, AsideStep
<1>3. CASE ~(word.waking \/ word.locked \/ ~word.waiting)
  <2>1. Load(t, "TryCas") /\ "TryCas" \in PCs
    BY <1>3 DEF TryToWakeLoad, PCs
  <2>2. /\ pc' \in [Threads -> PCs] /\ loc' \in [Threads -> LocalVars]
        /\ pc'[t] = "TryCas" /\ Old(t)' = word /\ Others(t)
    BY <1>1, <2>1, LoadStep
  <2>3. Types'
    BY <1>1, <2>2 DEF Types
  <2>4. CallOf(t)'
    BY <1>1, <1>3, <2>2 DEF CallOf, Entering, Unlocking
  <2>5. /\ Apart(t) /\ Apart(t)' /\ ~Working(t) /\ ~Working(t)' /\ Active(t)'
        /\ ~Finisher(t) /\ ~Finisher(t)' /\ ~Counting(t)'
    BY <1>1, <2>2 DEF Apart, Working, Active, Finisher, Unlocking, Counting
  <2> QED BY <1>1, <2>2, <2>3, <2>4, <2>5, QuietStep
<1> QED BY <1>2, <1>3

(* The holders do not change, nor what the word and the blocks say of them. *)
LEMMA HoldersKept ==
    ASSUME NEW b, Holders(b), NEW t \in Threads, Others(t), UNCHANGED held,
           word.multi => b \in Threads,
           \A u \in Threads : blk'[u].share = blk[u].share,
           word'.locked = word.locked, word'.waiting = word.waiting, word'.multi = word.multi,
           word'.shared = word.shared, ~word.waiting => word'.ptr = word.ptr,
           word'.waking => word.waiting, Finisher(t)' <=> Finisher(t)
    PROVE  Holders(b)'
<1>1. \A u \in Threads : Finisher(u)' <=> Finisher(u)
  BY DEF Finisher, Unlocking, Others
<1>2. Finish(b)'
  BY <1>1 DEF Holders, Finish
<1>3. Counts(b)'
  BY DEF Holders, Counts, Sharers, Sole
<1>4. Shape'
  BY DEF Holders, Shape
<1> QED BY <1>2, <1>3, <1>4 DEF Holders

(* While several share the lock there is a last waiter.                     *)
LEMMA BottomIn ==
    ASSUME NEW q, NEW pos, NEW lo, NEW hi, NEW m, Inv(q, pos, lo, hi, m)
    PROVE  /\ word.waiting => q[lo[NoBlock]] \in Threads
           /\ word.multi => word.waiting
<1>1. word.multi => word.waiting
  BY DEF Inv, Holders, Shape
<1>2. word.waiting => lo[NoBlock] \in lo[NoBlock] .. hi[NoBlock]
  BY DEF Inv, Queue, Ghosts, Links, Blocks
<1>3. NoBlock \in Blocks
  BY DEF Blocks
<1> QED BY <1>1, <1>2, <1>3 DEF Inv, Queue, Seats

(* A thread goes to ExfWakePushLock.                                        *)
LEMMA StartWakeStep ==
    ASSUME Types, NEW t \in Threads, NEW v \in Word, StartWake(t, v)
    PROVE  /\ pc' \in [Threads -> PCs] /\ loc' \in [Threads -> LocalVars]
           /\ pc'[t] = "Wake" /\ loc'[t].wk = v /\ loc'[t].ret = "Idle" /\ Others(t)
<1> DEFINE r == [NoLocals EXCEPT !.wk = v]
<1>1. r \in LocalVars /\ r.wk = v /\ r.ret = "Idle"
  BY LocalsFields DEF LocalVars
<1>2. Goto(t, "Wake", r) /\ "Wake" \in PCs
  BY DEF StartWake, PCs
<1> HIDE DEF r
<1> QED BY <1>1, <1>2, GotoStep

(* ExfTryToWakePushLock takes the Waking bit.                               *)
LEMMA TryToWakeStep ==
    ASSUME NEW q, NEW pos, NEW lo, NEW hi, NEW m, Inv(q, pos, lo, hi, m),
           NEW t \in Threads, TryToWake(t)
    PROVE  Inv(q, pos, lo, hi, m)'
<1>1. /\ Types /\ word \in Word /\ pc[t] = "TryCas" /\ UNCHANGED <<blk, gate, held>>
      /\ held[t] = "no" /\ Apart(t) /\ ~Working(t) /\ Kept(t)
      /\ Old(t).waiting /\ ~Old(t).locked /\ ~Old(t).waking
  BY DEF Inv, Types, TryToWake, Calling, CallOf, Entering, Apart, Working, Kept
<1>2. CASE word = Old(t)
  <2>1. word' = [word EXCEPT !.waking = TRUE] /\ StartWake(t, word')
    BY <1>2 DEF TryToWake
  <2>2. /\ word' \in Word /\ word'.locked = word.locked /\ word'.waiting = word.waiting
        /\ word'.waking /\ word'.multi = word.multi /\ word'.ptr = word.ptr
        /\ word'.shared = word.shared
    BY <1>1, <2>1 DEF Word
  <2>3. PICK v \in Word : v = word'
    BY <2>2
  <2>4. /\ pc' \in [Threads -> PCs] /\ loc' \in [Threads -> LocalVars]
        /\ pc'[t] = "Wake" /\ loc'[t].wk = word' /\ loc'[t].ret = "Idle" /\ Others(t)
    BY <1>1, <2>1, <2>3, StartWakeStep
  <2>5. Types'
    BY <1>1, <2>2, <2>4 DEF Types
  <2>6. ~word'.multi /\ word.waiting /\ ~word.waking
    BY <1>1, <1>2, <2>2 DEF Inv, Holders, Shape
  <2>7. Wakers(q, hi[NoBlock], m)'
    <3>1. word'.waiting /\ blk' = blk
      BY <1>1, <2>2, <2>6
    <3> QED BY <2>2, <2>4, <2>6, <3>1, WakersStart
  <2>8. /\ CallOf(t)' /\ Apart(t)' /\ ~Counting(t)' /\ ~Finisher(t) /\ ~Finisher(t)' /\ Working(t)'
    BY <1>1, <2>4 DEF CallOf, Entering, Unlocking, Apart, Counting, Finisher, Working
  <2>9. Promise'
    <3>1. Promise
      BY DEF Inv
    <3> QED BY <1>1, <2>2, <2>4, <2>8, <3>1, PromiseMet
  <2>10. Holders(q[lo[NoBlock]])'
    <3>1. Holders(q[lo[NoBlock]]) /\ UNCHANGED held
          /\ \A u \in Threads : blk'[u].share = blk[u].share
      BY <1>1 DEF Inv
    <3>2. word.multi => q[lo[NoBlock]] \in Threads
      BY BottomIn
    <3> QED BY <2>2, <2>4, <2>6, <2>8, <3>1, <3>2, HoldersKept
  <2>11. /\ word'.multi => word.multi
         /\ \A u \in Threads : u # t /\ Counting(u) /\ word.multi => word'.multi
    BY <2>2
  <2> QED BY <1>1, <2>2, <2>4, <2>5, <2>7, <2>8, <2>9, <2>10, <2>11, AsideStep
<1>3. CASE word # Old(t)
  <2>1. Return(t) /\ UNCHANGED <<word, blk, gate, held>>
    BY <1>1, <1>3 DEF TryToWake
  <2>2. /\ pc' \in [Threads -> PCs] /\ loc' \in [Threads -> LocalVars]
        /\ pc'[t] = "Idle" /\ Others(t)
    BY <1>1, <2>1, ReturnStep
  <2>3. Types'
    BY <1>1, <2>1, <2>2 DEF Types
  <2>4. CallOf(t)'
    BY <2>2 DEF CallOf, Entering, Unlocking
  <2>5. /\ Apart(t)' /\ ~Working(t)' /\ ~Active(t)
        /\ ~Finisher(t) /\ ~Finisher(t)' /\ ~Counting(t)'
    BY <1>1, <1>3, <2>2 DEF Apart, Working, Active, Finisher, Unlocking, Counting
  <2> QED BY <1>1, <2>1, <2>2, <2>3, <2>4, <2>5, QuietStep
<1> QED BY <1>2, <1>3

(* A holder goes on to the next step of its release.                        *)
LEMMA ReleaseGoesOn ==
    ASSUME NEW q, NEW pos, NEW lo, NEW hi, NEW m, Inv(q, pos, lo, hi, m),
           NEW t \in Threads, UNCHANGED <<word, blk, gate, held>>, held[t] # "no",
           pc[t] \in {"Idle", "RXLoop", "RAFast", "RSLoad", "RALoad", "RSLoop", "RALoop"},
           NEW l \in {"RXLoop", "RAFast", "RSLoad", "RALoad", "RSLoop", "RALoop"},
           pc' \in [Threads -> PCs], loc' \in [Threads -> LocalVars],
           pc'[t] = l, Others(t),
           l \in {"RXLoop", "RAFast", "RSLoop", "RALoop"} => Old(t)' = word,
           l = "RXLoop" => held[t] = "X",
           l \in {"RSLoad", "RSLoop"} => held[t] = "S",
           l = "RAFast" => ~word.waiting
    PROVE  Inv(q, pos, lo, hi, m)'
<1>1. Types /\ Holders(q[lo[NoBlock]])
  BY DEF Inv
<1>2. Types'
  BY <1>1 DEF Types
<1>3. word.locked /\ (held[t] = "X" => word.shared = 0)
  BY <1>1, HolderFacts
<1>4. CallOf(t)'
  <2>1. held'[t] = held[t]
    OBVIOUS
  <2> QED BY <1>3, <2>1 DEF CallOf, Entering, Unlocking
<1>5. /\ Apart(t) /\ Apart(t)' /\ ~Working(t) /\ ~Working(t)' /\ ~Active(t)
      /\ ~Finisher(t) /\ ~Finisher(t)'
  BY DEF Apart, Working, Active, Finisher, Unlocking
<1>6. Counting(t)' => ReleaserOf(q, lo[NoBlock], hi[NoBlock], t)'
  <2>1. CASE l \in {"RSLoop", "RALoop"}
    <3>1. Old(t)' = word /\ word' = word
      BY <2>1
    <3> QED BY <3>1, ReleaserLoaded
  <2>2. CASE l \notin {"RSLoop", "RALoop"}
    BY <2>2 DEF Counting
  <2> QED BY <2>1, <2>2
<1> QED BY <1>2, <1>4, <1>5, <1>6, QuietStep

(* The first steps of the releases, when they do not succeed at once.       *)
LEMMA ReleaseLoads ==
    ASSUME NEW q, NEW pos, NEW lo, NEW hi, NEW m, Inv(q, pos, lo, hi, m), NEW t \in Threads,
           \/ ReleaseExclusiveLoad(t)
           \/ ReleaseShared(t) /\ word # LockedBy(1)
           \/ ReleaseAnyLoad(t)
           \/ \E a \in {"RS", "RA"} : ReleaseLoad(t, a)
    PROVE  Inv(q, pos, lo, hi, m)'
<1>1. Types /\ CallOf(t)
  BY DEF Inv, Calling
<1>2. {"RXLoop", "RAFast", "RSLoad", "RALoad", "RSLoop", "RALoop"} \subseteq PCs
  BY DEF PCs
<1>3. CASE ReleaseExclusiveLoad(t)
  <2>1. pc[t] = "Idle" /\ held[t] = "X" /\ Load(t, "RXLoop") /\ UNCHANGED <<word, blk, gate, held>>
    BY <1>3 DEF ReleaseExclusiveLoad
  <2>2. /\ pc' \in [Threads -> PCs] /\ loc' \in [Threads -> LocalVars]
        /\ pc'[t] = "RXLoop" /\ Old(t)' = word /\ Others(t)
    BY <1>1, <1>2, <2>1, LoadStep
  <2> QED BY <2>1, <2>2, ReleaseGoesOn
<1>4. CASE ReleaseShared(t) /\ word # LockedBy(1)
  <2>1. /\ pc[t] = "Idle" /\ held[t] = "S" /\ Goto(t, "RSLoad", NoLocals)
        /\ UNCHANGED <<word, blk, gate, held>>
    BY <1>4 DEF ReleaseShared
  <2>2. /\ pc' \in [Threads -> PCs] /\ loc' \in [Threads -> LocalVars]
        /\ pc'[t] = "RSLoad" /\ Others(t)
    BY <1>1, <1>2, <2>1, LocalsFields, GotoStep
  <2> QED BY <2>1, <2>2, ReleaseGoesOn
<1>5. CASE ReleaseAnyLoad(t)
  <2>1. pc[t] = "Idle" /\ held[t] # "no" /\ UNCHANGED <<word, blk, gate, held>>
    BY <1>5 DEF ReleaseAnyLoad
  <2>2. CASE word.waiting
    <3>1. Goto(t, "RALoad", NoLocals)
      BY <1>5, <2>2 DEF ReleaseAnyLoad
    <3>2. /\ pc' \in [Threads -> PCs] /\ loc' \in [Threads -> LocalVars]
          /\ pc'[t] = "RALoad" /\ Others(t)
      BY <1>1, <1>2, <3>1, LocalsFields, GotoStep
    <3> QED BY <2>1, <3>2, ReleaseGoesOn
  <2>3. CASE ~word.waiting
    <3>1. Load(t, "RAFast")
      BY <1>5, <2>3 DEF ReleaseAnyLoad
    <3>2. /\ pc' \in [Threads -> PCs] /\ loc' \in [Threads -> LocalVars]
          /\ pc'[t] = "RAFast" /\ Old(t)' = word /\ Others(t)
      BY <1>1, <1>2, <3>1, LoadStep
    <3> QED BY <2>1, <2>3, <3>2, ReleaseGoesOn
  <2> QED BY <2>2, <2>3
<1>6. CASE \E a \in {"RS", "RA"} : ReleaseLoad(t, a)
  <2>1. PICK a \in {"RS", "RA"} : ReleaseLoad(t, a)
    BY <1>6
  <2>2. PICK l \in {"RSLoop", "RALoop"} : l = LoopAt(a)
    BY DEF LoopAt
  <2>3. /\ pc[t] \in {"RSLoad", "RALoad"} /\ (l = "RSLoop" => pc[t] = "RSLoad")
        /\ Load(t, l) /\ UNCHANGED <<word, blk, gate, held>>
    BY <2>1, <2>2 DEF ReleaseLoad, LoadAt, LoopAt
  <2>4. /\ pc' \in [Threads -> PCs] /\ loc' \in [Threads -> LocalVars]
        /\ pc'[t] = l /\ Old(t)' = word /\ Others(t)
    BY <1>1, <1>2, <2>3, LoadStep
  <2>5. held[t] # "no" /\ (l \in {"RSLoad", "RSLoop"} => held[t] = "S")
        /\ l \in {"RXLoop", "RAFast", "RSLoad", "RALoad", "RSLoop", "RALoop"}
        /\ l # "RXLoop" /\ l # "RAFast"
    BY <1>1, <2>3 DEF CallOf
  <2>6. pc[t] \in {"Idle", "RXLoop", "RAFast", "RSLoad", "RALoad", "RSLoop", "RALoop"}
    BY <2>3
  <2> QED BY <2>3, <2>4, <2>5, <2>6, ReleaseGoesOn
<1> QED BY <1>3, <1>4, <1>5, <1>6

(* Nothing happens.                                                         *)
LEMMA StutterStep ==
    ASSUME NEW q, NEW pos, NEW lo, NEW hi, NEW m, Inv(q, pos, lo, hi, m), UNCHANGED vars
    PROVE  Inv(q, pos, lo, hi, m)'
<1>1. UNCHANGED <<word, blk, gate, pc, loc, held>>
  BY DEF vars
<1>2. \A u \in Threads : Alive(u)' = Alive(u)
  BY <1>1 DEF Alive
<1>3. Types' /\ Promise' /\ Calling'
  BY <1>1 DEF Inv, Types, Promise, Calling, Working, Active, CallOf, Old, Unlocking
<1>4. Queue(q, pos, lo, hi, m)'
  <2>1. \A u \in Threads : SameWait(u) /\ SameButShare(blk'[u], blk[u]) /\ gate'[u] = gate[u]
    BY <1>1, <1>2 DEF SameWait, SameButShare
  <2>2. Queue(q, pos, lo, hi, m) /\ (word.multi => word.waiting)
    BY DEF Inv, Holders, Shape
  <2> QED BY <1>1, <2>1, <2>2, QueueFrame
<1>5. Wakers(q, hi[NoBlock], m)'
  BY <1>1, WakersFrame
<1>6. Releasers(q, lo[NoBlock], hi[NoBlock])'
  BY <1>1 DEF Inv, Releasers, ReleaserOf, Counting, Old
<1>7. Holders(q[lo[NoBlock]])'
  BY <1>1 DEF Inv, Holders, Shape, Counts, Finish, Finisher, Unlocking, Sharers, Sole
<1> QED BY <1>3, <1>4, <1>5, <1>6, <1>7 DEF Inv

(* ExfReleasePushLockExclusive.                                             *)
LEMMA ReleaseExclusiveLoopStep ==
    ASSUME NEW q, NEW pos, NEW lo, NEW hi, NEW m, Inv(q, pos, lo, hi, m),
           NEW t \in Threads, ReleaseExclusiveLoop(t)
    PROVE  Inv(q, pos, lo, hi, m)' /\ held[t] # "no"
<1>1. /\ Types /\ word \in Word /\ pc[t] = "RXLoop" /\ held[t] = "X"
      /\ UNCHANGED <<blk, gate>> /\ Holders(q[lo[NoBlock]]) /\ Apart(t) /\ ~Working(t)
      /\ "RXLoop" \in PCs
  BY DEF Inv, Types, Apart, Working, ReleaseExclusiveLoop, Calling, CallOf, PCs
<1>2. Sole(t) /\ ~word.multi /\ word.shared = 0
  BY <1>1, HolderFacts
<1>3. CASE word = Old(t)
  <2>0. PICK wake \in BOOLEAN : wake = (word.waiting /\ ~word.waking)
    BY <1>1, WordFields
  <2>1. /\ word' = [word EXCEPT !.locked = FALSE, !.waking = @ \/ wake] /\ Hold(t, "no")
        /\ IF wake THEN StartWake(t, word') ELSE Return(t)
    BY <1>3, <2>0 DEF ReleaseExclusiveLoop
  <2>2. /\ word' \in Word /\ ~word'.locked /\ word'.waiting = word.waiting
        /\ word'.waking = (word.waking \/ wake) /\ word'.multi = word.multi
        /\ word'.ptr = word.ptr /\ word'.shared = word.shared
    BY <1>1, <2>1 DEF Word
  <2>3. held' \in [Threads -> {"no", "X", "S"}] /\ held'[t] = "no" /\ Kept(t)
    BY <1>1, <2>1, HoldStep
  <2>4. word.waiting \in BOOLEAN /\ word.waking \in BOOLEAN /\ (word.waking => word.waiting)
    BY <1>1, WordFields DEF Holders, Shape
  <2>5. word'.waking => word.waiting
    BY <2>0, <2>2, <2>4
  <2>6. CASE wake
    <3>1. PICK v \in Word : v = word'
      BY <2>2
    <3>2. /\ pc' \in [Threads -> PCs] /\ loc' \in [Threads -> LocalVars]
          /\ pc'[t] = "Wake" /\ loc'[t].wk = word' /\ loc'[t].ret = "Idle" /\ Others(t)
      BY <1>1, <2>1, <2>6, <3>1, StartWakeStep
    <3>3. Types'
      BY <1>1, <2>2, <2>3, <3>2 DEF Types
    <3>4. word'.waking /\ ~word.waking /\ word.waiting
      BY <2>0, <2>2, <2>6
    <3> QED BY <1>1, <1>2, <2>2, <2>3, <2>5, <3>2, <3>3, <3>4, LockFreed
  <2>7. CASE ~wake
    <3>1. /\ pc' \in [Threads -> PCs] /\ loc' \in [Threads -> LocalVars]
          /\ pc'[t] = "Idle" /\ Others(t)
      BY <1>1, <2>1, <2>7, ReturnStep
    <3>2. Types'
      BY <1>1, <2>2, <2>3, <3>1 DEF Types
    <3>3. word'.waking = word.waking /\ (~word'.waiting \/ word'.waking)
      BY <2>0, <2>2, <2>4, <2>7
    <3> QED BY <1>1, <1>2, <2>2, <2>3, <2>5, <3>1, <3>2, <3>3, LockFreed
  <2> QED BY <1>1, <2>6, <2>7
<1>4. CASE word # Old(t)
  <2>1. Load(t, "RXLoop") /\ UNCHANGED <<word, blk, gate, held>>
    BY <1>1, <1>4 DEF ReleaseExclusiveLoop
  <2>2. /\ pc' \in [Threads -> PCs] /\ loc' \in [Threads -> LocalVars]
        /\ pc'[t] = "RXLoop" /\ Old(t)' = word /\ Others(t)
    BY <1>1, <2>1, LoadStep
  <2> QED BY <1>1, <2>1, <2>2, ReleaseGoesOn
<1> QED BY <1>3, <1>4

(* ExReleasePushLockShared, when the caller is the only one.                *)
LEMMA ReleaseSharedStep ==
    ASSUME NEW q, NEW pos, NEW lo, NEW hi, NEW m, Inv(q, pos, lo, hi, m),
           NEW t \in Threads, ReleaseShared(t), word = LockedBy(1)
    PROVE  Inv(q, pos, lo, hi, m)'
<1>1. /\ Types /\ pc[t] = "Idle" /\ held[t] = "S" /\ UNCHANGED <<blk, gate, pc, loc>>
      /\ word' = Free /\ Hold(t, "no")
  BY DEF Inv, ReleaseShared, Stay
<1>2. ~word.waiting /\ word.shared = 1
  BY LockedByFields
<1>3. word' = OneLess(word)
  BY <1>1, <1>2 DEF OneLess
<1>4. /\ pc' \in [Threads -> PCs] /\ loc' \in [Threads -> LocalVars]
      /\ pc'[t] = "Idle" /\ Others(t)
  BY <1>1, StayStep
<1> QED BY <1>1, <1>2, <1>3, <1>4, OneLessStep

(* ExReleasePushLock with nobody waiting.                                   *)
LEMMA ReleaseAnyFastStep ==
    ASSUME NEW q, NEW pos, NEW lo, NEW hi, NEW m, Inv(q, pos, lo, hi, m),
           NEW t \in Threads, ReleaseAnyFast(t)
    PROVE  Inv(q, pos, lo, hi, m)' /\ held[t] # "no"
<1>1. /\ Types /\ pc[t] = "RAFast" /\ held[t] # "no" /\ ~Old(t).waiting
      /\ UNCHANGED <<blk, gate>> /\ "RALoad" \in PCs
  BY DEF Inv, ReleaseAnyFast, Calling, CallOf, PCs
<1>2. CASE word = Old(t)
  <2>1. word' = OneLess(word) /\ Hold(t, "no") /\ Return(t) /\ ~word.waiting
    BY <1>1, <1>2 DEF ReleaseAnyFast
  <2>2. /\ pc' \in [Threads -> PCs] /\ loc' \in [Threads -> LocalVars]
        /\ pc'[t] = "Idle" /\ Others(t)
    BY <1>1, <2>1, ReturnStep
  <2> QED BY <1>1, <2>1, <2>2, OneLessStep
<1>3. CASE word # Old(t)
  <2>1. Goto(t, "RALoad", NoLocals) /\ UNCHANGED <<word, blk, gate, held>>
    BY <1>1, <1>3 DEF ReleaseAnyFast
  <2>2. /\ pc' \in [Threads -> PCs] /\ loc' \in [Threads -> LocalVars]
        /\ pc'[t] = "RALoad" /\ Others(t)
    BY <1>1, <2>1, LocalsFields, GotoStep
  <2> QED BY <1>1, <2>1, <2>2, ReleaseGoesOn
<1> QED BY <1>2, <1>3

(* The loops of the other releases, with nobody waiting.                    *)
LEMMA ReleaseLoopStep ==
    ASSUME NEW q, NEW pos, NEW lo, NEW hi, NEW m, Inv(q, pos, lo, hi, m),
           NEW t \in Threads, NEW a \in {"RS", "RA"}, ReleaseLoop(t, a)
    PROVE  Inv(q, pos, lo, hi, m)' /\ held[t] # "no"
<1>1. PICK l \in {"RSLoop", "RALoop"} : l = LoopAt(a)
  BY DEF LoopAt
<1>2. /\ Types /\ pc[t] = l /\ held[t] # "no" /\ (l = "RSLoop" => held[t] = "S")
      /\ ~Old(t).waiting /\ UNCHANGED <<blk, gate>> /\ l \in PCs
  BY <1>1 DEF Inv, ReleaseLoop, Calling, CallOf, PCs
<1>3. CASE word = Old(t)
  <2>1. word' = OneLess(word) /\ Hold(t, "no") /\ Return(t) /\ ~word.waiting
    BY <1>2, <1>3 DEF ReleaseLoop
  <2>2. /\ pc' \in [Threads -> PCs] /\ loc' \in [Threads -> LocalVars]
        /\ pc'[t] = "Idle" /\ Others(t)
    BY <1>2, <2>1, ReturnStep
  <2>3. pc[t] \in {"Idle", "RAFast", "RSLoop", "RALoop"}
    BY <1>2
  <2> QED BY <1>2, <2>1, <2>2, <2>3, OneLessStep
<1>4. CASE word # Old(t)
  <2>1. Load(t, l) /\ UNCHANGED <<word, blk, gate, held>>
    BY <1>1, <1>2, <1>4 DEF ReleaseLoop
  <2>2. /\ pc' \in [Threads -> PCs] /\ loc' \in [Threads -> LocalVars]
        /\ pc'[t] = l /\ Old(t)' = word /\ Others(t)
    BY <1>2, <2>1, LoadStep
  <2>3. l \in {"RXLoop", "RAFast", "RSLoad", "RALoad", "RSLoop", "RALoop"}
        /\ l # "RXLoop" /\ l # "RAFast" /\ (l \in {"RSLoad", "RSLoop"} => held[t] = "S")
        /\ pc[t] \in {"Idle", "RXLoop", "RAFast", "RSLoad", "RALoad", "RSLoop", "RALoop"}
    BY <1>2
  <2> QED BY <1>2, <2>1, <2>2, <2>3, ReleaseGoesOn
<1> QED BY <1>3, <1>4

(* The unlock loop of the other releases.                                   *)
LEMMA ReleaseUnlockStep ==
    ASSUME NEW q, NEW pos, NEW lo, NEW hi, NEW m, Inv(q, pos, lo, hi, m),
           NEW t \in Threads, NEW a \in {"RS", "RA"}, ReleaseUnlock(t, a)
    PROVE  Inv(q, pos, lo, hi, m)'
<1>1. /\ Types /\ word \in Word /\ pc[t] \in {"RSUnlock", "RAUnlock"} /\ Unlocking(t)
      /\ UNCHANGED <<blk, gate>> /\ Holders(q[lo[NoBlock]]) /\ Apart(t) /\ ~Working(t)
      /\ Old(t).waiting /\ (held[t] = "no" <=> Old(t).multi)
  BY DEF Inv, Types, Apart, Working, ReleaseUnlock, UnlockAt, Calling, CallOf, Unlocking
<1>2. CASE word = Old(t)
  <2>1. /\ word' = [word EXCEPT !.locked = FALSE, !.multi = FALSE, !.waking = TRUE]
        /\ Hold(t, "no")
        /\ IF word.waking THEN Return(t) ELSE StartWake(t, word')
    BY <1>2 DEF ReleaseUnlock
  <2>2. /\ word' \in Word /\ ~word'.locked /\ word'.waiting = word.waiting
        /\ word'.waking = TRUE /\ ~word'.multi
        /\ word'.ptr = word.ptr /\ word'.shared = word.shared
    BY <1>1, <2>1 DEF Word
  <2>3. held' \in [Threads -> {"no", "X", "S"}] /\ held'[t] = "no" /\ Kept(t)
    BY <1>1, <2>1, HoldStep
  <2>4. word.waiting /\ word.waking \in BOOLEAN /\ word'.shared = 0
    BY <1>1, <1>2, <2>2, WordFields DEF Holders, Shape
  <2>5. (Sole(t) /\ ~word.multi) \/ Finisher(t)
    <3>1. CASE held[t] = "no"
      BY <1>1, <3>1 DEF Finisher
    <3>2. CASE held[t] # "no"
      <4>1. ~word.multi
        BY <1>1, <1>2, <3>2
      <4> QED BY <1>1, <2>4, <3>2, <4>1, HolderFacts
    <3> QED BY <3>1, <3>2
  <2>6. CASE ~word.waking
    <3>1. PICK v \in Word : v = word'
      BY <2>2
    <3>2. /\ pc' \in [Threads -> PCs] /\ loc' \in [Threads -> LocalVars]
          /\ pc'[t] = "Wake" /\ loc'[t].wk = word' /\ loc'[t].ret = "Idle" /\ Others(t)
      BY <1>1, <2>1, <2>6, <3>1, StartWakeStep
    <3>3. Types'
      BY <1>1, <2>2, <2>3, <3>2 DEF Types
    <3> QED BY <1>1, <2>2, <2>3, <2>4, <2>5, <2>6, <3>2, <3>3, LockFreed
  <2>7. CASE word.waking
    <3>1. /\ pc' \in [Threads -> PCs] /\ loc' \in [Threads -> LocalVars]
          /\ pc'[t] = "Idle" /\ Others(t)
      BY <1>1, <2>1, <2>7, ReturnStep
    <3>2. Types'
      BY <1>1, <2>2, <2>3, <3>1 DEF Types
    <3>3. word'.waking = word.waking
      BY <2>2, <2>4, <2>7
    <3> QED BY <1>1, <2>2, <2>3, <2>4, <2>5, <3>1, <3>2, <3>3, LockFreed
  <2> QED BY <2>6, <2>7
<1>3. CASE word # Old(t)
  <2>1. UNCHANGED vars
    BY <1>1, <1>3 DEF ReleaseUnlock, vars
  <2> QED BY <2>1, StutterStep
<1> QED BY <1>2, <1>3

(* One sharer less, counted in the last wait block.                         *)
LEMMA HoldersCountedLast ==
    ASSUME Types, NEW b \in Threads, Holders(b), NEW t \in Threads, Others(t), Kept(t),
           word' = word, word.multi, ~Unlocking(t), held[t] # "no", held'[t] = "no",
           \A u \in Threads : u # b => blk'[u].share = blk[u].share,
           blk'[b].share = blk[b].share - 1,
           IF blk[b].share > 1 THEN ~Unlocking(t)' ELSE Unlocking(t)'
    PROVE  Holders(b)'
<1>1. /\ \A u \in Threads : held[u] # "X"
      /\ blk[b].share = Cardinality(Sharers) /\ word.locked /\ word.waiting
      /\ \A u \in Threads : blk[u].share > 0 => u = b
  BY DEF Holders, Counts, Shape
<1>2. held[t] = "S"
  BY <1>1 DEF Types
<1>3. Cardinality(Sharers)' = Cardinality(Sharers) - 1
  BY <1>2, SharersRemove
<1>4. blk[b].share > 0 /\ blk[b].share \in Nat
  BY HolderFacts, BlockFields DEF Types
<1>5. Shape'
  BY DEF Holders, Shape
<1>6. \A u \in Threads : held'[u] # "X"
  BY <1>1 DEF Kept
<1>7. Counts(b)'
  <2>1. \A u \in Threads : blk'[u].share > 0 => u = b
    BY <1>1
  <2>2. blk'[b].share = Cardinality(Sharers)'
    BY <1>1, <1>3
  <2> QED BY <1>1, <1>6, <2>1, <2>2 DEF Counts
<1>8. \A u \in Threads : ~Finisher(u)
  BY <1>4 DEF Holders, Finish
<1>9. \A u \in Threads : u # t => ~Finisher(u)'
  BY <1>8 DEF Finisher, Unlocking, Others, Kept
<1>10. Finish(b)'
  <2>1. CASE blk[b].share > 1
    <3>1. ~Finisher(t)' /\ blk'[b].share # 0
      BY <2>1, <1>4 DEF Finisher
    <3> QED BY <3>1, <1>9 DEF Finish
  <2>2. CASE ~(blk[b].share > 1)
    <3>1. Finisher(t)' /\ blk'[b].share = 0
      BY <2>2, <1>4 DEF Finisher
    <3> QED BY <3>1, <1>9 DEF Finish
  <2> QED BY <2>1, <2>2
<1> QED BY <1>5, <1>7, <1>10 DEF Holders

(* A release with somebody waiting.                                         *)
LEMMA ReleaseCountStep ==
    ASSUME NEW q, NEW pos, NEW lo, NEW hi, NEW m, Inv(q, pos, lo, hi, m),
           NEW t \in Threads, NEW a \in {"RS", "RA"}, ReleaseCount(t, a)
    PROVE  Inv(q, pos, lo, hi, m)' /\ held[t] # "no"
<1>1. PICK l \in {"RSUnlock", "RAUnlock"} : l = UnlockAt(a)
  BY DEF UnlockAt
<1>2. /\ Types /\ pc[t] \in {"RSLoop", "RALoop"} /\ held[t] # "no" /\ Old(t).waiting
      /\ UNCHANGED <<word, gate>> /\ l \in PCs /\ loc[t] \in LocalVars
      /\ Holders(q[lo[NoBlock]]) /\ Apart(t) /\ ~Working(t) /\ ~Unlocking(t) /\ ~Active(t)
  BY DEF Inv, ReleaseCount, LoopAt, Calling, CallOf, PCs, Apart, Working, Unlocking, Active, Types
<1> DEFINE b == q[lo[NoBlock]]
<1>3. Old(t).multi => /\ word.multi /\ LastOf(Old(t).ptr) = b /\ b \in Threads
                      /\ blk[b].share > 0
  <2> SUFFICES ASSUME Old(t).multi
               PROVE  /\ word.multi /\ LastOf(Old(t).ptr) = b /\ b \in Threads
                      /\ blk[b].share > 0
    OBVIOUS
  <2>1. Counting(t)
    BY <1>2 DEF Counting
  <2>2. word.multi /\ LastOf(Old(t).ptr) = b
    BY <2>1, CounterSees
  <2>3. b \in Threads
    BY <2>2, BottomIn
  <2>4. blk[b].share > 0
    BY <1>2, <2>2, HolderFacts
  <2> QED BY <2>2, <2>3, <2>4
<1>4. Counted(t, a) <=> Old(t).multi
  BY <1>3 DEF Counted
<1> HIDE DEF b
<1>5. CASE Old(t).multi
  <2>1. /\ word.multi /\ LastOf(Old(t).ptr) = b /\ b \in Threads /\ blk[b].share > 0
        /\ blk \in [Threads -> WaitBlock] /\ blk[b] \in WaitBlock /\ blk[b].share \in Nat
    BY <1>2, <1>3, <1>5, BlockFields DEF Types
  <2>2. /\ blk' = [blk EXCEPT ![b].share = @ - 1] /\ Hold(t, "no")
        /\ IF blk[b].share > 1 THEN Return(t) ELSE Goto(t, l, loc[t])
    BY <1>1, <1>4, <1>5, <2>1 DEF ReleaseCount
  <2>3. /\ pc' \in [Threads -> PCs] /\ loc' \in [Threads -> LocalVars] /\ Others(t)
        /\ IF blk[b].share > 1 THEN pc'[t] = "Idle" ELSE pc'[t] = l /\ loc'[t] = loc[t]
    <3>1. CASE blk[b].share > 1
      BY <1>2, <2>2, <3>1, ReturnStep
    <3>2. CASE ~(blk[b].share > 1)
      BY <1>2, <2>2, <3>2, GotoStep
    <3> QED BY <3>1, <3>2
  <2>4. held' \in [Threads -> {"no", "X", "S"}] /\ held'[t] = "no" /\ Kept(t)
    BY <1>2, <2>2, HoldStep
  <2>5. /\ \A u \in Threads : u # b => blk'[u] = blk[u]
        /\ blk'[b] = [blk[b] EXCEPT !.share = @ - 1]
        /\ blk' = [u \in Threads |-> blk'[u]]
    BY <2>1, <2>2
  <2>6. blk'[b] \in WaitBlock /\ blk'[b].share = blk[b].share - 1 /\ SameButShare(blk'[b], blk[b])
    <3>1. PICK s \in Nat : s = blk[b].share - 1
      BY <2>1
    <3>2. blk'[b] = [blk[b] EXCEPT !.share = s]
      BY <2>5, <3>1
    <3> QED BY <2>1, <3>1, <3>2 DEF WaitBlock, SameButShare
  <2>7. blk' \in [Threads -> WaitBlock]
    BY <2>1, <2>5, <2>6
  <2>8. Types'
    BY <1>2, <2>3, <2>4, <2>7 DEF Types
  <2>9. /\ Apart(t)' /\ ~Working(t)' /\ ~Counting(t)' /\ CallOf(t)'
        /\ IF blk[b].share > 1 THEN ~Unlocking(t)' ELSE Unlocking(t)'
    <3>1. CASE blk[b].share > 1
      BY <2>3, <3>1 DEF Apart, Working, Counting, CallOf, Entering, Unlocking
    <3>2. CASE ~(blk[b].share > 1)
      BY <1>2, <1>5, <2>3, <2>4, <3>2 DEF Apart, Working, Counting, CallOf, Entering, Unlocking, Old
    <3> QED BY <3>1, <3>2
  <2>10. Queue(q, pos, lo, hi, m)'
    <3>1. \A u \in Threads : SameWait(u)
      BY <1>2, <2>3, <2>9, SameWaits
    <3>2. \A u \in Threads : SameButShare(blk'[u], blk[u]) /\ gate'[u] = gate[u]
      BY <1>2, <2>5, <2>6 DEF SameButShare
    <3>3. Queue(q, pos, lo, hi, m) /\ (word.multi => word.waiting)
      BY DEF Inv, Holders, Shape
    <3>4. word'.ptr = word.ptr /\ word'.waiting = word.waiting /\ (word'.multi => word.multi)
      BY <1>2
    <3> QED BY <3>1, <3>2, <3>3, <3>4, QueueFrame
  <2>11. Wakers(q, hi[NoBlock], m)'
    <3>1. \A u \in Threads : Working(u)' => pc'[u] = pc[u] /\ loc'[u] = loc[u]
      BY <2>3, <2>9 DEF Others
    <3>2. (word.waking => word'.waking) /\ (word'.multi => word.multi)
      BY <1>2
    <3>3. \A u \in Threads : blk'[u].prev = blk[u].prev
      BY <2>5, <2>6 DEF SameButShare
    <3> QED BY <3>1, <3>2, <3>3, WakersFrame
  <2>12. Promise'
    <3>1. Promise /\ word.locked
      BY <1>2, HolderFacts DEF Inv
    <3>2. word'.locked /\ (word'.waking => word.waking)
      BY <1>2, <3>1
    <3> QED BY <1>2, <2>3, <3>1, <3>2, PromiseMet
  <2>13. Holders(b)'
    <3>1. Holders(b)
      BY <1>2 DEF b
    <3>2. \A u \in Threads : u # b => blk'[u].share = blk[u].share
      BY <2>5
    <3>3. word' = word
      BY <1>2
    <3> QED BY <1>2, <2>1, <2>3, <2>4, <2>6, <2>9, <3>1, <3>2, <3>3, HoldersCountedLast
  <2>14. Calling'
    BY <2>3, <2>4, <2>9, CallingFrame DEF Inv
  <2>15. Releasers(q, lo[NoBlock], hi[NoBlock])'
    <3>1. Releasers(q, lo[NoBlock], hi[NoBlock])
      BY DEF Inv
    <3>2. \A u \in Threads : u # t /\ Counting(u) /\ word.multi => word'.multi
      BY <1>2
    <3> QED BY <2>3, <2>9, <3>1, <3>2, ReleasersFrame
  <2> QED BY <1>2, <2>8, <2>10, <2>11, <2>12, <2>13, <2>14, <2>15 DEF Inv, b
<1>6. CASE ~Old(t).multi
  <2>1. Goto(t, l, loc[t]) /\ UNCHANGED <<word, blk, gate, held>>
    BY <1>1, <1>2, <1>4, <1>6 DEF ReleaseCount
  <2>2. /\ pc' \in [Threads -> PCs] /\ loc' \in [Threads -> LocalVars] /\ Others(t)
        /\ pc'[t] = l /\ loc'[t] = loc[t]
    BY <1>2, <2>1, GotoStep
  <2>3. Types'
    BY <1>2, <2>1, <2>2 DEF Types
  <2>4. CallOf(t)'
    BY <1>2, <1>6, <2>1, <2>2 DEF CallOf, Entering, Unlocking, Old
  <2>5. /\ Apart(t)' /\ ~Working(t)' /\ ~Counting(t)' /\ ~Finisher(t) /\ ~Finisher(t)'
    BY <1>2, <2>1, <2>2 DEF Apart, Working, Counting, Finisher
  <2> QED BY <1>2, <2>1, <2>2, <2>3, <2>4, <2>5, QuietStep
<1> QED BY <1>5, <1>6

-----------------------------------------------------------------------------
(***************************************************************************)
(* A thread pushes its block: one more seat at the high end.               *)
(***************************************************************************)
(* The block, and the word that points to it.                               *)
LEMMA PushFields ==
    ASSUME NEW t \in Threads, NEW v \in Word, NEW w \in {"X", "S"}
    PROVE  /\ NewBlock(t, v, w) \in WaitBlock /\ Pushed(t, v, w) \in Word
           /\ NewBlock(t, v, w).next = IF v.waiting THEN v.ptr ELSE NoBlock
           /\ NewBlock(t, v, w).prev = NoBlock
           /\ NewBlock(t, v, w).last = IF v.waiting THEN NoBlock ELSE t
           /\ NewBlock(t, v, w).share = IF w = "X" /\ ~v.waiting /\ v.shared > 1
                                        THEN v.shared ELSE 0
           /\ NewBlock(t, v, w).exclusive = (w = "X")
           /\ NewBlock(t, v, w).wait /\ ~NewBlock(t, v, w).signaled
           /\ Pushed(t, v, w).waiting /\ Pushed(t, v, w).ptr = t
           /\ Pushed(t, v, w).locked = v.locked
           /\ v.waiting => /\ Pushed(t, v, w).waking /\ Pushed(t, v, w).multi = v.multi
                           /\ Pushed(t, v, w).shared = v.shared
           /\ ~v.waiting => /\ Pushed(t, v, w).waking = v.waking
                            /\ Pushed(t, v, w).multi = (w = "X" /\ v.shared > 1)
                            /\ Pushed(t, v, w).shared = 0
<1>1. v.shared \in Nat /\ v.waiting \in BOOLEAN /\ v.ptr \in Blocks /\ t \in Blocks /\ NoBlock \in Blocks
  BY WordFields DEF Blocks
<1>2. /\ NewBlock(t, v, w).next = IF v.waiting THEN v.ptr ELSE NoBlock
      /\ NewBlock(t, v, w).prev = NoBlock
      /\ NewBlock(t, v, w).last = IF v.waiting THEN NoBlock ELSE t
      /\ NewBlock(t, v, w).share = IF w = "X" /\ ~v.waiting /\ v.shared > 1
                                   THEN v.shared ELSE 0
      /\ NewBlock(t, v, w).exclusive = (w = "X")
      /\ NewBlock(t, v, w).wait /\ ~NewBlock(t, v, w).signaled
  BY DEF NewBlock
<1>3. NewBlock(t, v, w) \in WaitBlock
  BY <1>1 DEF NewBlock, WaitBlock
<1>4. CASE v.waiting
  <2>1. Pushed(t, v, w) = [v EXCEPT !.waking = TRUE, !.ptr = t]
    BY <1>4 DEF Pushed
  <2>2. /\ Pushed(t, v, w) \in Word /\ Pushed(t, v, w).waiting = v.waiting
        /\ Pushed(t, v, w).ptr = t /\ Pushed(t, v, w).waking
        /\ Pushed(t, v, w).locked = v.locked /\ Pushed(t, v, w).multi = v.multi
        /\ Pushed(t, v, w).shared = v.shared
    BY <1>1, <2>1 DEF Word
  <2> QED BY <1>2, <1>3, <1>4, <2>2
<1>5. CASE ~v.waiting
  <2>0. PICK k \in BOOLEAN : k = (w = "X" /\ v.shared > 1)
    OBVIOUS
  <2>1. Pushed(t, v, w) = [v EXCEPT !.waiting = TRUE, !.ptr = t, !.shared = 0, !.multi = k]
    BY <1>5, <2>0 DEF Pushed
  <2>2. /\ Pushed(t, v, w) \in Word /\ Pushed(t, v, w).waiting
        /\ Pushed(t, v, w).ptr = t /\ Pushed(t, v, w).waking = v.waking
        /\ Pushed(t, v, w).locked = v.locked /\ Pushed(t, v, w).multi = k
        /\ Pushed(t, v, w).shared = 0
    <3> DEFINE c == [v EXCEPT !.waiting = TRUE, !.ptr = t, !.shared = 0, !.multi = k]
    <3>1. c.waiting = TRUE /\ c.ptr = t /\ c.shared = 0 /\ c.multi = k
      BY DEF Word
    <3>2. c.waking = v.waking /\ c.locked = v.locked
      BY DEF Word
    <3>3. c \in Word
      BY <1>1 DEF Word
    <3> HIDE DEF c
    <3>4. Pushed(t, v, w) = c
      BY <2>1 DEF c
    <3> QED BY <3>1, <3>2, <3>3, <3>4
  <2> QED BY <1>2, <1>3, <1>5, <2>0, <2>2
<1> QED BY <1>4, <1>5

(* What the step does.                                                      *)
Pushes(t, w) ==
    /\ Types /\ Types' /\ Others(t) /\ w \in {"X", "S"}
    /\ UNCHANGED <<gate, held>>
    /\ \A u \in Threads : u # t => blk'[u] = blk[u]
    /\ pc[t] = "AcqLoop" /\ held[t] = "no"
    /\ word.locked /\ (w = "S" /\ ~word.waiting => word.shared = 0)
    /\ blk'[t] = NewBlock(t, word, w) /\ word' = Pushed(t, word, w)
    /\ IF word.waiting /\ ~word.waking
       THEN /\ pc'[t] = "Optimize" /\ loc'[t].ret = "WaitBit"
            /\ loc'[t].wk = IF w = "X" THEN word' ELSE word
       ELSE pc'[t] = "WaitBit"

(* AcquireLoopPush does it.                                                 *)
LEMMA PushStep ==
    ASSUME NEW q, NEW pos, NEW lo, NEW hi, NEW m, Inv(q, pos, lo, hi, m),
           NEW t \in Threads, AcquireLoopPush(t), word = Old(t)
    PROVE  \E w \in {"X", "S"} : Pushes(t, w)
<1>1. /\ Types /\ pc[t] = "AcqLoop" /\ held[t] = "no" /\ loc[t] \in LocalVars /\ word \in Word
      /\ UNCHANGED <<gate, held>> /\ blk \in [Threads -> WaitBlock]
  BY DEF Inv, AcquireLoopPush, Types, Calling, CallOf, Entering
<1>2. PICK w \in {"X", "S"} : w = loc[t].want
  BY <1>1, LocalsFields
<1>3. PICK v \in Word : v = Pushed(t, word, w)
  BY <1>1, PushFields
<1>4. PICK c \in WaitBlock : c = NewBlock(t, word, w)
  BY <1>1, PushFields
<1>5. /\ ~CanLock(word, w) /\ word' = v /\ blk' = [blk EXCEPT ![t] = c]
      /\ IF word.waiting /\ ~word.waking
         THEN Goto(t, "Optimize", [loc[t] EXCEPT !.ret = "WaitBit",
                                     !.wk = IF w = "X" THEN v ELSE word])
         ELSE Goto(t, "WaitBit", loc[t])
  BY <1>2, <1>3, <1>4 DEF AcquireLoopPush
<1>6. blk' \in [Threads -> WaitBlock] /\ blk'[t] = c /\ \A u \in Threads : u # t => blk'[u] = blk[u]
  BY <1>1, <1>5
<1>7. word.locked /\ (w = "S" /\ ~word.waiting => word.shared = 0)
  BY <1>1, <1>5, WordFields DEF CanLock
<1>8. /\ pc' \in [Threads -> PCs] /\ loc' \in [Threads -> LocalVars] /\ Others(t)
      /\ IF word.waiting /\ ~word.waking
         THEN /\ pc'[t] = "Optimize" /\ loc'[t].ret = "WaitBit"
              /\ loc'[t].wk = IF w = "X" THEN word' ELSE word
         ELSE pc'[t] = "WaitBit"
  <2>1. CASE word.waiting /\ ~word.waking
    <3>1. PICK x \in Word : x = IF w = "X" THEN v ELSE word
      BY <1>1
    <3> DEFINE r == [loc[t] EXCEPT !.ret = "WaitBit", !.wk = x]
    <3>2. r \in LocalVars /\ r.ret = "WaitBit" /\ r.wk = x
      BY <1>1 DEF LocalVars
    <3>3. Goto(t, "Optimize", r) /\ "Optimize" \in PCs
      BY <1>5, <2>1, <3>1 DEF PCs
    <3> HIDE DEF r
    <3>4. /\ pc' \in [Threads -> PCs] /\ loc' \in [Threads -> LocalVars] /\ Others(t)
          /\ pc'[t] = "Optimize" /\ loc'[t] = r
      BY <1>1, <3>2, <3>3, GotoStep
    <3> QED BY <1>5, <2>1, <3>1, <3>2, <3>4
  <2>2. CASE ~(word.waiting /\ ~word.waking)
    <3>1. Goto(t, "WaitBit", loc[t]) /\ "WaitBit" \in PCs
      BY <1>5, <2>2 DEF PCs
    <3>2. /\ pc' \in [Threads -> PCs] /\ loc' \in [Threads -> LocalVars] /\ Others(t)
          /\ pc'[t] = "WaitBit"
      BY <1>1, <3>1, GotoStep
    <3> QED BY <2>2, <3>2
  <2> QED BY <2>1, <2>2
<1>9. Types'
  BY <1>1, <1>5, <1>6, <1>8 DEF Types
<1>10. Pushes(t, w)
  BY <1>1, <1>3, <1>4, <1>5, <1>6, <1>7, <1>8, <1>9 DEF Pushes
<1> QED BY <1>10

(* The row with t at the high end.                                          *)
Grown(q, pos, hi, m, q2, pos2, hi2, m2, t) ==
    /\ q2 \in [Int -> Blocks] /\ pos2 \in [Threads -> Int] /\ hi2 \in [Blocks -> Int] /\ m2 \in Int
    /\ q2[hi[NoBlock] + 1] = t /\ \A i \in Int : i <= hi[NoBlock] => q2[i] = q[i]
    /\ pos2[t] = hi[NoBlock] + 1 /\ \A u \in Threads : u # t => pos2[u] = pos[u]
    /\ hi2[NoBlock] = hi[NoBlock] + 1 /\ \A u \in Threads : hi2[u] = hi[u]
    /\ m2 = IF word.waiting THEN m ELSE hi[NoBlock] + 1

(* There is one.                                                            *)
LEMMA GrownExists ==
    ASSUME NEW q, NEW pos, NEW lo, NEW hi, NEW m, Ghosts(q, pos, lo, hi, m), NEW t \in Threads
    PROVE  \E q2 \in [Int -> Blocks], pos2 \in [Threads -> Int], hi2 \in [Blocks -> Int],
              m2 \in Int : Grown(q, pos, hi, m, q2, pos2, hi2, m2, t)
<1>1. /\ q \in [Int -> Blocks] /\ pos \in [Threads -> Int] /\ hi \in [Blocks -> Int] /\ m \in Int
      /\ hi[NoBlock] \in Int /\ NoBlock \in Blocks /\ t \in Blocks /\ hi[NoBlock] + 1 \in Int
      /\ \A u \in Threads : u \in Blocks /\ u # NoBlock
  BY DEF Ghosts, Blocks
<1>2. PICK q2 : q2 = [q EXCEPT ![hi[NoBlock] + 1] = t]
  OBVIOUS
<1>3. PICK pos2 : pos2 = [pos EXCEPT ![t] = hi[NoBlock] + 1]
  OBVIOUS
<1>4. PICK hi2 : hi2 = [hi EXCEPT ![NoBlock] = hi[NoBlock] + 1]
  OBVIOUS
<1>5. PICK m2 \in Int : m2 = IF word.waiting THEN m ELSE hi[NoBlock] + 1
  BY <1>1
<1>6. /\ q2 \in [Int -> Blocks] /\ q2[hi[NoBlock] + 1] = t
      /\ \A i \in Int : i <= hi[NoBlock] => q2[i] = q[i]
  BY <1>1, <1>2
<1>7. /\ pos2 \in [Threads -> Int] /\ pos2[t] = hi[NoBlock] + 1
      /\ \A u \in Threads : u # t => pos2[u] = pos[u]
  BY <1>1, <1>3
<1>8. /\ hi2 \in [Blocks -> Int] /\ hi2[NoBlock] = hi[NoBlock] + 1
      /\ \A u \in Threads : hi2[u] = hi[u]
  BY <1>1, <1>4
<1> QED BY <1>5, <1>6, <1>7, <1>8 DEF Grown

(* What is known of the seats.                                              *)
LEMMA RowFacts ==
    ASSUME NEW q, NEW pos, NEW lo, NEW hi, NEW m, Queue(q, pos, lo, hi, m)
    PROVE  /\ lo[NoBlock] \in Int /\ hi[NoBlock] \in Int /\ m \in Int
           /\ lo[NoBlock] <= hi[NoBlock] + 1
           /\ word.waiting <=> lo[NoBlock] <= hi[NoBlock]
           /\ NoBlock \in Blocks
           /\ \A u \in Threads : /\ u \in Blocks /\ u # NoBlock /\ lo[u] \in Int /\ hi[u] \in Int
                                 /\ hi[u] < lo[NoBlock] /\ hi[u] <= hi[NoBlock]
           /\ \A x \in Blocks : \A i \in lo[x] .. hi[x] :
                 /\ i \in Int /\ i <= hi[NoBlock] /\ q[i] \in Threads /\ pos[q[i]] = i
                 /\ InWait(q[i]) /\ Alive(q[i])
<1>1. /\ lo[NoBlock] \in Int /\ hi[NoBlock] \in Int /\ m \in Int /\ NoBlock \in Blocks
      /\ \A x \in Blocks : lo[x] \in Int /\ hi[x] \in Int
  BY DEF Queue, Ghosts, Blocks
<1>2. lo[NoBlock] <= hi[NoBlock] + 1 /\ (word.waiting <=> lo[NoBlock] <= hi[NoBlock])
  BY DEF Queue, Seats, Links
<1>3. \A u \in Threads : u \in Blocks /\ u # NoBlock /\ hi[u] < lo[NoBlock]
  BY DEF Queue, Seats, Blocks
<1>4. \A u \in Threads : hi[u] <= hi[NoBlock]
  BY <1>1, <1>2, <1>3
<1>5. \A x \in Blocks : hi[x] <= hi[NoBlock]
  BY <1>1, <1>4 DEF Blocks
<1>6. ASSUME NEW x \in Blocks, NEW i \in lo[x] .. hi[x]
      PROVE  i \in Int /\ i <= hi[NoBlock]
  BY <1>1, <1>5
<1>7. ASSUME NEW x \in Blocks, NEW i \in lo[x] .. hi[x]
      PROVE  q[i] \in Threads /\ pos[q[i]] = i /\ InWait(q[i]) /\ Alive(q[i])
  BY DEF Queue, Seats, Seated, InWait
<1> QED BY <1>1, <1>2, <1>3, <1>4, <1>6, <1>7

(* The row after the push.                                                  *)
LEMMA PushQueue ==
    ASSUME NEW q, NEW pos, NEW lo, NEW hi, NEW m, Inv(q, pos, lo, hi, m),
           NEW t \in Threads, NEW w, Pushes(t, w),
           NEW q2, NEW pos2, NEW hi2, NEW m2, Grown(q, pos, hi, m, q2, pos2, hi2, m2, t)
    PROVE  Queue(q2, pos2, lo, hi2, m2)'
<1> DEFINE L == lo[NoBlock]
           H == hi[NoBlock]
<1>0. Queue(q, pos, lo, hi, m)
  BY DEF Inv
<1>1. /\ L \in Int /\ H \in Int /\ m \in Int /\ L <= H + 1 /\ (word.waiting <=> L <= H)
      /\ NoBlock \in Blocks
      /\ \A u \in Threads : /\ u \in Blocks /\ u # NoBlock /\ lo[u] \in Int /\ hi[u] \in Int
                            /\ hi[u] < L /\ hi[u] <= H
  BY <1>0, RowFacts
<1>2. \A x \in Blocks : \A i \in lo[x] .. hi[x] :
         /\ i \in Int /\ i <= H /\ q[i] \in Threads /\ pos[q[i]] = i /\ InWait(q[i]) /\ Alive(q[i])
  BY <1>0, RowFacts
<1>3. ~Alive(t) /\ pc[t] = "AcqLoop" /\ w \in {"X", "S"} /\ word \in Word
  BY DEF Pushes, Alive, Types
<1>4. \A x \in Blocks : \A i \in lo[x] .. hi[x] : q2[i] = q[i] /\ q[i] # t
  BY <1>2, <1>3 DEF Grown
<1>5. /\ q2[H + 1] = t /\ hi2[NoBlock] = H + 1
      /\ \A u \in Threads : hi2[u] = hi[u]
      /\ pos2[t] = H + 1 /\ \A u \in Threads : u # t => pos2[u] = pos[u]
      /\ \A i \in Int : i <= H => q2[i] = q[i]
  BY DEF Grown
<1>6. /\ blk'[t].next = IF word.waiting THEN word.ptr ELSE NoBlock
      /\ blk'[t].prev = NoBlock
      /\ blk'[t].last = IF word.waiting THEN NoBlock ELSE t
      /\ blk'[t].exclusive = (w = "X") /\ blk'[t].wait /\ ~blk'[t].signaled
      /\ word'.waiting /\ word'.ptr = t
      /\ word.waiting => word'.multi = word.multi
      /\ ~word.waiting => word'.multi = (w = "X" /\ word.shared > 1)
  BY <1>3, PushFields DEF Pushes
<1>7. \A u \in Threads : u # t => /\ blk'[u] = blk[u] /\ pc'[u] = pc[u] /\ loc'[u] = loc[u]
                                  /\ gate'[u] = gate[u]
  BY DEF Pushes, Others
<1>8. /\ Alive(t)' /\ pc'[t] \in {"WaitBit", "Optimize"}
  BY DEF Pushes, Alive
<1> HIDE DEF L, H
<1>9. ASSUME NEW x \in Blocks, NEW i \in lo[x] .. hi2[x]
      PROVE  i \in lo[x] .. hi[x] \/ (x = NoBlock /\ i = H + 1)
  <2>1. CASE x = NoBlock
    <3>1. i \in L .. H + 1
      BY <2>1, <1>5 DEF L
    <3> QED BY <2>1, <3>1, <1>1 DEF L, H
  <2>2. CASE x # NoBlock
    BY <2>2, <1>5 DEF Blocks
  <2> QED BY <2>1, <2>2
<1>10. Ghosts(q2, pos2, lo, hi2, m2)
  BY <1>0 DEF Queue, Ghosts, Grown
<1>11. Seats(q2, pos2, lo, hi2)
  <2>1. ASSUME NEW x \in Blocks, NEW i \in lo[x] .. hi2[x]
        PROVE  q2[i] \in Threads /\ pos2[q2[i]] = i
    <3>1. CASE i \in lo[x] .. hi[x]
      BY <3>1, <1>2, <1>4, <1>5
    <3>2. CASE i = H + 1
      BY <3>2, <1>5
    <3> QED BY <3>1, <3>2, <1>9
  <2>2. \A u \in Threads : hi2[u] < lo[NoBlock]
    BY <1>1, <1>5 DEF L
  <2>3. \A u, v \in Threads : u # v => \A i \in lo[u] .. hi2[u] : i \notin lo[v] .. hi2[v]
    BY <1>0, <1>5 DEF Queue, Seats
  <2>4. lo[NoBlock] <= hi2[NoBlock] + 1
    BY <1>1, <1>5 DEF L
  <2> QED BY <2>1, <2>2, <2>3, <2>4 DEF Seats
<1>12. Links(q2, L, H + 1, m2)'
  <2>1. Links(q, L, H, m) /\ \A i \in L .. H : q[i] \in Threads /\ q[i] # t /\ q2[i] = q[i]
    BY <1>0, <1>1, <1>2, <1>4 DEF Queue, L, H
  <2>2. CASE word.waiting
    <3>1. /\ m2 = m /\ m \in L .. H /\ word.ptr = q[H] /\ blk[q[m]].last = q[L]
          /\ L \in L .. H /\ H \in L .. H /\ q2[L] = q[L] /\ q2[m] = q[m] /\ q2[H] = q[H]
          /\ word'.multi = word.multi /\ m <= H /\ L <= m
      BY <2>1, <2>2, <1>1, <1>6 DEF Links, Grown
    <3>2. blk'[q2[m]].last = q2[L] /\ (word'.multi => blk'[q2[L]].exclusive /\ blk'[q2[L]].last = q2[L])
      BY <2>1, <2>2, <3>1, <1>7 DEF Links
    <3>3. ASSUME NEW i \in L .. H PROVE LinkOf(q2, L, H + 1, m, i)'
      <4>1. LinkOf(q, L, H, m, i) /\ q[i] \in Threads /\ q[i] # t /\ q2[i] = q[i] /\ blk'[q[i]] = blk[q[i]]
        BY <2>1, <1>7 DEF Links
      <4>2. /\ i > L => q2[i - 1] = q[i - 1]
            /\ i < m => q2[i + 1] = q[i + 1]
            /\ i < H => q2[i + 1] = q[i + 1] /\ i < H + 1
        BY <3>1, <1>1, <1>5
      <4> QED BY <4>1, <4>2, <3>1 DEF LinkOf
    <3>4. LinkOf(q2, L, H + 1, m, H + 1)'
      <4>0. PICK e \in Int : e = H + 1
        BY <1>1
      <4>1. e - 1 = H /\ ~(e < m)
        BY <1>1, <3>1, <4>0
      <4>2. q2[e] = t /\ blk'[t].last = NoBlock /\ blk'[t].next = q2[H] /\ blk'[t].prev = NoBlock
        BY <1>5, <1>6, <2>2, <3>1, <4>0
      <4>3. LinkOf(q2, L, e, m, e)'
        BY <4>1, <4>2 DEF LinkOf
      <4> QED BY <4>0, <4>3
    <3>5. \A i \in L .. H + 1 : i \in L .. H \/ i = H + 1
      BY <1>1
    <3>6. \A i \in L .. H + 1 : LinkOf(q2, L, H + 1, m2, i)'
      BY <3>1, <3>3, <3>4, <3>5
    <3>7. m2 \in L .. H + 1 /\ L <= H + 1
      BY <3>1, <1>1
    <3> QED BY <3>1, <3>2, <3>6, <3>7, <1>5, <1>6 DEF Links
  <2>3. CASE ~word.waiting
    <3>1. L = H + 1 /\ m2 = H + 1
      BY <2>3, <1>1 DEF Grown, H
    <3>2. q2[L] = t /\ blk'[t].last = t /\ blk'[t].prev = NoBlock
          /\ (word'.multi => blk'[t].exclusive)
      BY <3>1, <2>3, <1>5, <1>6
    <3>3. \A i \in L .. H + 1 : i = H + 1
      BY <3>1, <1>1
    <3>4. LinkOf(q2, L, H + 1, m2, H + 1)'
      <4>1. ~(H + 1 > m2) /\ ~(H + 1 > L) /\ ~(H + 1 < m2)
        BY <3>1, <1>1
      <4> QED BY <3>1, <3>2, <4>1 DEF LinkOf
    <3>5. m2 \in L .. H + 1 /\ L <= H + 1
      BY <3>1, <1>1
    <3> QED BY <3>1, <3>2, <3>3, <3>4, <3>5, <1>6 DEF Links
  <2> QED BY <2>2, <2>3
<1>13. Chains(q2, lo, hi2)'
  <2> SUFFICES ASSUME NEW u \in Threads, NEW i \in lo[u] .. hi[u]
               PROVE  blk'[q2[i]].prev = IF i = hi[u] THEN NoBlock ELSE q2[i + 1]
    BY <1>5 DEF Chains
  <2>1. q2[i] = q[i] /\ q[i] # t /\ q[i] \in Threads
    BY <1>1, <1>2, <1>4
  <2>2. i # hi[u] => q2[i + 1] = q[i + 1]
    BY <1>1, <1>5
  <2>3. blk[q[i]].prev = IF i = hi[u] THEN NoBlock ELSE q[i + 1]
    BY <1>0 DEF Queue, Chains
  <2> QED BY <2>1, <2>2, <2>3, <1>7
<1>14. Seated(q2, lo, hi2)'
  <2> SUFFICES ASSUME NEW x \in Blocks, NEW i \in lo[x] .. hi2[x] PROVE InWait(q2[i])'
    BY DEF Seated
  <2>1. CASE i \in lo[x] .. hi[x]
    <3>1. q2[i] = q[i] /\ q[i] # t /\ q[i] \in Threads /\ InWait(q[i])
      BY <2>1, <1>2, <1>4
    <3>2. InWait(q[i])'
      BY <3>1, <1>7 DEF InWait, Alive
    <3> QED BY <3>1, <3>2
  <2>2. CASE i = H + 1
    <3>1. InWait(t)'
      BY <1>6, <1>8 DEF InWait
    <3> QED BY <2>2, <3>1, <1>5
  <2> QED BY <2>1, <2>2, <1>9
<1>15. ASSUME NEW u \in Threads PROVE SignalOf(q2, lo, hi2, u)'
  <2>1. SignalOf(q, lo, hi, u) /\ hi2[u] = hi[u] /\ lo[u] \in Int /\ hi[u] \in Int
    BY <1>0, <1>1, <1>5 DEF Queue
  <2>2. CASE u = t
    BY <2>1, <2>2, <1>3, <1>8 DEF SignalOf
  <2>3. CASE u # t
    <3>1. pc'[u] = pc[u] /\ loc'[u] = loc[u]
      BY <2>3, <1>7
    <3>2. lo[u] <= hi[u] => q2[lo[u]] = q[lo[u]]
      BY <2>1, <1>1, <1>5
    <3>3. CASE pc[u] = "SignalGate"
      <4>1. loc[u].cur \in Threads /\ loc[u].cur # t
        BY <2>1, <3>3, <1>3 DEF SignalOf
      <4>2. \A v \in Threads : Signalling(v, loc[u].cur)' => v # t /\ Signalling(v, loc[u].cur)
        BY <3>1, <1>7, <1>8 DEF Signalling
      <4> QED BY <2>1, <3>1, <3>2, <3>3, <4>1, <4>2, <1>7 DEF SignalOf
    <3>4. CASE pc[u] # "SignalGate"
      BY <2>1, <3>1, <3>2, <3>4 DEF SignalOf
    <3> QED BY <3>3, <3>4
  <2> QED BY <2>2, <2>3
<1>16. ASSUME NEW u \in Threads PROVE WaiterOf(q2, lo, hi2, u)'
  <2>1. WaiterOf(q, lo, hi, u)
    BY <1>0 DEF Queue
  <2>2. CASE u = t
    <3>1. H + 1 \in lo[NoBlock] .. hi2[NoBlock]
      BY <1>1, <1>5 DEF L
    <3>2. HasSeat(q2, lo, hi2, t)
      BY <3>1, <1>1, <1>5 DEF HasSeat
    <3> QED BY <2>2, <3>2, <1>6, <1>8 DEF WaiterOf, HasSeat
  <2>3. CASE u # t
    <3>1. pc'[u] = pc[u] /\ loc'[u] = loc[u] /\ blk'[u] = blk[u] /\ gate'[u] = gate[u]
      BY <2>3, <1>7
    <3>2. Alive(u)' <=> Alive(u)
      BY <3>1 DEF Alive
    <3>3. ASSUME HasSeat(q, lo, hi, u) PROVE HasSeat(q2, lo, hi2, u)
      <4>1. PICK x \in Blocks : \E i \in lo[x] .. hi[x] : q[i] = u
        BY <3>3 DEF HasSeat
      <4>2. PICK i \in lo[x] .. hi[x] : q[i] = u
        BY <4>1
      <4>3. q2[i] = u
        BY <4>2, <1>4
      <4>4. i \in lo[x] .. hi2[x]
        <5>1. CASE x = NoBlock
          BY <5>1, <4>2, <1>1, <1>5 DEF L, H
        <5>2. CASE x # NoBlock
          BY <5>2, <4>2, <1>5 DEF Blocks
        <5> QED BY <5>1, <5>2
      <4> QED BY <4>3, <4>4 DEF HasSeat
    <3>4. \A v \in Threads : Signalling(v, u) => Signalling(v, u)'
      BY <1>3, <1>7 DEF Signalling
    <3> QED BY <2>1, <3>1, <3>2, <3>3, <3>4 DEF WaiterOf, HasSeat
  <2> QED BY <2>2, <2>3
<1>17. Links(q2, lo[NoBlock], hi2[NoBlock], m2)'
  BY <1>5, <1>12 DEF L
<1> QED BY <1>10, <1>11, <1>13, <1>14, <1>15, <1>16, <1>17 DEF Queue, Ghosts, Seats

(* What it makes of the word and the block.                                 *)
LEMMA PushesFields ==
    ASSUME NEW t \in Threads, NEW w, Pushes(t, w)
    PROVE  /\ word \in Word /\ w \in {"X", "S"}
           /\ word'.waiting /\ word'.ptr = t /\ word'.locked = word.locked
           /\ blk'[t].prev = NoBlock
           /\ blk'[t].share = IF w = "X" /\ ~word.waiting /\ word.shared > 1
                              THEN word.shared ELSE 0
           /\ word.waiting => /\ word'.waking /\ word'.multi = word.multi
                              /\ word'.shared = word.shared
           /\ ~word.waiting => /\ word'.waking = word.waking /\ word'.shared = 0
                               /\ word'.multi = (w = "X" /\ word.shared > 1)
<1>1. word \in Word /\ w \in {"X", "S"} /\ blk'[t] = NewBlock(t, word, w) /\ word' = Pushed(t, word, w)
  BY DEF Pushes, Types
<1>2. PICK c : c = NewBlock(t, word, w)
  OBVIOUS
<1>3. PICK v : v = Pushed(t, word, w)
  OBVIOUS
<1>4. /\ c.prev = NoBlock
      /\ c.share = IF w = "X" /\ ~word.waiting /\ word.shared > 1 THEN word.shared ELSE 0
  BY <1>1, <1>2, PushFields
<1>5. v.waiting /\ v.ptr = t /\ v.locked = word.locked
  BY <1>1, <1>3, PushFields
<1>6. word.waiting => v.waking /\ v.multi = word.multi /\ v.shared = word.shared
  BY <1>1, <1>3, PushFields
<1>7. ~word.waiting => /\ v.waking = word.waking /\ v.shared = 0
                       /\ v.multi = (w = "X" /\ word.shared > 1)
  BY <1>1, <1>3, PushFields
<1> QED BY <1>1, <1>2, <1>3, <1>4, <1>5, <1>6, <1>7

(* Who works on the list after the push.                                    *)
LEMMA PushWakers ==
    ASSUME NEW q, NEW pos, NEW lo, NEW hi, NEW m, Inv(q, pos, lo, hi, m),
           NEW t \in Threads, NEW w, Pushes(t, w),
           NEW q2, NEW pos2, NEW hi2, NEW m2, Grown(q, pos, hi, m, q2, pos2, hi2, m2, t)
    PROVE  Wakers(q2, hi2[NoBlock], m2)' /\ Promise'
<1> DEFINE L == lo[NoBlock]
           H == hi[NoBlock]
<1>0. Queue(q, pos, lo, hi, m) /\ word \in Word /\ word.waiting \in BOOLEAN /\ word.waking \in BOOLEAN
      /\ w \in {"X", "S"}
  BY WordFields DEF Inv, Pushes, Types
<1>1. /\ L \in Int /\ H \in Int /\ m \in Int /\ L <= H + 1 /\ (word.waiting <=> L <= H)
      /\ NoBlock \in Blocks
  BY <1>0, RowFacts
<1>2. /\ q2[H + 1] = t /\ hi2[NoBlock] = H + 1 /\ (word.waiting => m2 = m)
      /\ \A i \in Int : i <= H => q2[i] = q[i]
  BY DEF Grown
<1>3. /\ word'.waiting /\ word'.ptr = t /\ word'.locked = word.locked /\ blk'[t].prev = NoBlock
      /\ word.waiting => word'.waking /\ word'.multi = word.multi
      /\ ~word.waiting => word'.waking = word.waking
  BY PushesFields
<1>4. \A u \in Threads : u # t => blk'[u] = blk[u] /\ pc'[u] = pc[u] /\ loc'[u] = loc[u]
  BY DEF Pushes, Others
<1>5. ~word.waiting => ~word.waking
  BY DEF Inv, Holders, Shape
<1>6. \A u \in Threads : u # t => (Working(u)' <=> Working(u)) /\ Wk(u)' = Wk(u)
  BY <1>4 DEF Working, Wk
<1>7. ~Working(t) /\ ~Alive(t) /\ word.locked /\ word'.locked
  BY <1>3 DEF Pushes, Working, Alive
<1>8. \A u \in Threads : Working(u) => word.waking
  BY DEF Inv, Wakers, WakerOf
<1>9. Promise'
  <2>1. word'.waking => \E u \in Threads : Working(u)'
    <3>1. CASE word.waking
      <4>1. PICK u \in Threads : Working(u)
        BY <3>1 DEF Inv, Promise
      <4>2. u # t
        BY <4>1, <1>7
      <4> QED BY <4>1, <4>2, <1>6
    <3>2. CASE ~word.waking
      <4>1. word.waiting => Working(t)'
        BY <3>2 DEF Pushes, Working
      <4> QED BY <4>1, <3>2, <1>3, <1>0
    <3> QED BY <3>1, <3>2
  <2> QED BY <2>1, <1>7 DEF Promise
<1> HIDE DEF L, H
<1>10. word.waiting => /\ m \in L .. H /\ word.ptr = q[H] /\ blk[q[H]].prev = NoBlock
                       /\ q[H] \in Threads /\ Alive(q[H]) /\ q2[H] = q[H] /\ H \in m .. H + 1
  <2>1. Links(q, L, H, m)
    BY <1>0 DEF Queue, L, H
  <2> SUFFICES ASSUME word.waiting
               PROVE  /\ m \in L .. H /\ word.ptr = q[H] /\ blk[q[H]].prev = NoBlock
                      /\ q[H] \in Threads /\ Alive(q[H]) /\ q2[H] = q[H] /\ H \in m .. H + 1
    OBVIOUS
  <2>2. m \in L .. H /\ word.ptr = q[H] /\ H \in L .. H
    BY <2>1, <1>1 DEF Links
  <2>3. LinkOf(q, L, H, m, H)
    BY <2>1, <2>2 DEF Links
  <2>4. blk[q[H]].prev = NoBlock
    BY <2>3, <1>1 DEF LinkOf
  <2>5. q[H] \in Threads /\ Alive(q[H])
    BY <2>2, <1>0, <1>1, RowFacts DEF L, H
  <2>6. q2[H] = q[H] /\ H \in m .. H + 1
    BY <2>2, <1>1, <1>2
  <2> QED BY <2>2, <2>4, <2>5, <2>6
<1>11. ASSUME NEW u \in Threads PROVE WakerOf(q2, H + 1, m2, u)'
  <2>1. CASE u = t /\ word.waiting /\ ~word.waking
    <3>1. /\ pc'[t] = "Optimize" /\ loc'[t].ret = "WaitBit"
          /\ Wk(t)' = IF w = "X" THEN word' ELSE word
      BY <2>1 DEF Pushes, Wk
    <3>2. \A v \in Threads : Working(v)' => v = t
      BY <2>1, <1>6, <1>8
    <3>3. Wk(t)'.waiting /\ Wk(t)'.locked
      BY <2>1, <3>1, <1>3, <1>7
    <3>4. (\E k \in m .. H + 1 : q2[k] = Wk(t)'.ptr) /\ blk'[Wk(t)'.ptr].prev = NoBlock
      <4>1. CASE w = "X"
        <5>1. H + 1 \in m .. H + 1 /\ Wk(t)'.ptr = t
          BY <2>1, <3>1, <4>1, <1>1, <1>3, <1>10
        <5> QED BY <5>1, <1>2, <1>3
      <4>2. CASE w # "X"
        <5>1. Wk(t)'.ptr = q[H] /\ q2[H] = q[H] /\ H \in m .. H + 1
          BY <2>1, <3>1, <4>2, <1>10
        <5>2. blk'[q[H]].prev = NoBlock
          BY <2>1, <1>4, <1>7, <1>10
        <5> QED BY <5>1, <5>2
      <4> QED BY <4>1, <4>2
    <3>5. m2 = m /\ word'.waking
      BY <2>1, <1>2, <1>3
    <3> QED BY <2>1, <3>1, <3>2, <3>3, <3>4, <3>5 DEF WakerOf, Working
  <2>2. CASE u = t /\ ~(word.waiting /\ ~word.waking)
    BY <2>2 DEF WakerOf, Working, Pushes
  <2>3. CASE u # t /\ Working(u)
    <3>1. /\ WakerOf(q, H, m, u) /\ word.waking /\ word.waiting /\ Wk(u)' = Wk(u)
          /\ pc'[u] = pc[u] /\ loc'[u] = loc[u] /\ Working(u)'
      BY <2>3, <1>4, <1>5, <1>6, <1>8 DEF Inv, Wakers, H
    <3>2. PICK k \in m .. H : q[k] = Wk(u).ptr
      BY <2>3, <3>1 DEF WakerOf
    <3>3. k \in m .. H + 1 /\ q2[k] = q[k] /\ k \in L .. H
      BY <3>1, <1>1, <1>2, <1>10
    <3>4. q[k] \in Threads /\ Alive(q[k])
      BY <3>3, <1>0, <1>1, RowFacts DEF L, H
    <3>5. blk'[Wk(u).ptr].prev = NoBlock
      BY <2>3, <3>1, <3>2, <3>4, <1>4, <1>7 DEF WakerOf
    <3>6. \A v \in Threads : Working(v)' => v = u
      <4>1. ~Working(t)'
        BY <3>1 DEF Working, Pushes
      <4> QED BY <2>3, <3>1, <4>1, <1>6 DEF WakerOf
    <3>7. m2 = m /\ word'.waking /\ word'.multi = word.multi
      BY <3>1, <1>2, <1>3
    <3> QED BY <2>3, <3>1, <3>2, <3>3, <3>5, <3>6, <3>7 DEF WakerOf
  <2>4. CASE u # t /\ ~Working(u)
    BY <2>4, <1>6 DEF WakerOf, Working
  <2> QED BY <2>1, <2>2, <2>3, <2>4
<1> QED BY <1>2, <1>9, <1>11 DEF Wakers

(* The holders after the push.                                              *)
LEMMA PushHolders ==
    ASSUME NEW q, NEW pos, NEW lo, NEW hi, NEW m, Inv(q, pos, lo, hi, m),
           NEW t \in Threads, NEW w, Pushes(t, w),
           NEW q2, NEW pos2, NEW hi2, NEW m2, Grown(q, pos, hi, m, q2, pos2, hi2, m2, t)
    PROVE  Holders(q2[lo[NoBlock]])'
<1>0. /\ Queue(q, pos, lo, hi, m) /\ Types /\ word \in Word /\ w \in {"X", "S"}
      /\ Holders(q[lo[NoBlock]]) /\ Others(t) /\ UNCHANGED held
      /\ word.shared \in Nat /\ held \in [Threads -> {"no", "X", "S"}]
  BY WordFields DEF Inv, Pushes, Types
<1>1. /\ lo[NoBlock] \in Int /\ hi[NoBlock] \in Int /\ lo[NoBlock] <= hi[NoBlock] + 1
      /\ word.waiting <=> lo[NoBlock] <= hi[NoBlock]
      /\ NoBlock \in Blocks
  BY <1>0, RowFacts
<1>2. /\ q2[hi[NoBlock] + 1] = t
      /\ \A i \in Int : i <= hi[NoBlock] => q2[i] = q[i]
  BY DEF Grown
<1>3. /\ word'.waiting /\ word'.locked = word.locked
      /\ blk'[t].share = IF w = "X" /\ ~word.waiting /\ word.shared > 1 THEN word.shared ELSE 0
      /\ word.waiting => word'.waking /\ word'.multi = word.multi /\ word'.shared = word.shared
      /\ ~word.waiting => /\ word'.waking = word.waking /\ word'.shared = 0
                          /\ word'.multi = (w = "X" /\ word.shared > 1)
  BY PushesFields
<1>4. \A u \in Threads : u # t => blk'[u] = blk[u]
  BY DEF Pushes
<1>5. ~Finisher(t) /\ ~Finisher(t)' /\ word.locked /\ ~Alive(t)
  BY DEF Pushes, Finisher, Unlocking, Alive
<1>6. \A u \in Threads : blk[u].share \in Nat
  BY <1>0, BlockFields DEF Types
<1>7. CASE word.waiting
  <2>1. q2[lo[NoBlock]] = q[lo[NoBlock]]
    BY <1>1, <1>2, <1>7
  <2>2. q[lo[NoBlock]] \in Threads /\ q[lo[NoBlock]] # t
    <3>1. lo[NoBlock] \in lo[NoBlock] .. hi[NoBlock]
      BY <1>1, <1>7
    <3>2. q[lo[NoBlock]] \in Threads /\ Alive(q[lo[NoBlock]])
      BY <3>1, <1>0, <1>1, RowFacts
    <3> QED BY <3>2, <1>5
  <2>3. blk[t].share = 0
    BY <2>2, <1>0, <1>6 DEF Holders, Counts
  <2>4. \A u \in Threads : blk'[u].share = blk[u].share
    BY <2>3, <1>3, <1>4, <1>7
  <2>5. /\ word'.locked = word.locked /\ word'.waiting = word.waiting /\ word'.multi = word.multi
        /\ word'.shared = word.shared /\ word'.waking
    <3>1. word.waiting \in BOOLEAN /\ word'.waiting \in BOOLEAN
      BY WordFields DEF Pushes, Types
    <3> QED BY <3>1, <1>3, <1>7
  <2>6. Holders(q[lo[NoBlock]])'
    BY <1>0, <1>5, <1>7, <2>2, <2>4, <2>5, HoldersKept
  <2> QED BY <2>1, <2>6
<1>8. CASE ~word.waiting
  <2>1. q2[lo[NoBlock]] = t
    <3>1. lo[NoBlock] = hi[NoBlock] + 1
      BY <1>1, <1>8
    <3> QED BY <3>1, <1>2
  <2>2. /\ ~word.multi /\ ~word.waking /\ word.shared = Cardinality(Sharers)
        /\ word.shared = 0 => \E u \in Threads : Sole(u)
        /\ word.shared > 0 => \A u \in Threads : held[u] # "X"
        /\ \A u \in Threads : ~Finisher(u)
        /\ \A u \in Threads : ~(blk[u].share > 0)
    BY <1>0, <1>5, <1>8 DEF Holders, Counts, Shape, Finish
  <2>3. Cardinality(Sharers)' = Cardinality(Sharers)
    BY <1>0 DEF Sharers
  <2>4. Shape'
    BY <1>3, <1>5, <1>8, <2>2 DEF Shape
  <2>5. ~word'.multi => \E u \in Threads : Sole(u)'
    <3> SUFFICES ASSUME ~word'.multi PROVE \E u \in Threads : Sole(u)'
      OBVIOUS
    <3>0. w = "S" => word.shared = 0
      BY <1>8 DEF Pushes
    <3>1. word.shared <= 1
      <4>1. CASE w = "X"
        <5>1. ~(word.shared > 1)
          BY <4>1, <1>3, <1>8
        <5> QED BY <5>1, <1>0
      <4>2. CASE w = "S"
        BY <3>0, <4>2, <1>0
      <4> QED BY <4>1, <4>2, <1>0
    <3>2. CASE word.shared = 0
      BY <3>2, <2>2, <1>0 DEF Sole
    <3>3. CASE word.shared = 1
      <4>1. PICK u \in Threads : held[u] = "S"
        BY <3>3, <2>2, SharersOne
      <4>2. Sole(u)
        BY <1>0, <1>8, <3>1, <4>1, HolderFacts
      <4> QED BY <4>2, <1>0 DEF Sole
    <3> QED BY <3>1, <3>2, <3>3, <1>0
  <2>6. word'.multi => word.shared > 1 /\ blk'[t].share = word.shared
    BY <1>3, <1>8
  <2>7. \A u \in Threads : blk'[u].share > 0 => word'.multi /\ u = t
    <3>1. CASE w = "X" /\ word.shared > 1
      <4>1. word'.multi
        BY <3>1, <1>3, <1>8
      <4> QED BY <4>1, <2>2, <1>4
    <3>2. CASE ~(w = "X" /\ word.shared > 1)
      <4>1. ~(blk'[t].share > 0)
        BY <3>2, <1>3, <1>8
      <4> QED BY <4>1, <2>2, <1>4
    <3> QED BY <3>1, <3>2
  <2>8. Counts(t)'
    <3>1. word'.multi => \A u \in Threads : held'[u] # "X"
      BY <1>0, <2>2, <2>6
    <3>2. word'.multi => blk'[t].share = Cardinality(Sharers)'
      BY <2>2, <2>3, <2>6
    <3> QED BY <1>3, <1>5, <2>5, <2>7, <3>1, <3>2 DEF Counts
  <2>9. \A u \in Threads : ~Finisher(u)'
    BY <1>0, <1>5, <2>2 DEF Finisher, Unlocking, Others
  <2>10. Finish(t)'
    <3>1. ~(word'.multi /\ blk'[t].share = 0)
      BY <1>0, <2>6
    <3> QED BY <2>9, <3>1 DEF Finish
  <2> QED BY <2>1, <2>4, <2>8, <2>10 DEF Holders
<1> QED BY <1>7, <1>8

(* The push.                                                                *)
LEMMA AcquireLoopPushStep ==
    ASSUME NEW q, NEW pos, NEW lo, NEW hi, NEW m, Inv(q, pos, lo, hi, m),
           NEW t \in Threads, AcquireLoopPush(t)
    PROVE  IInv'
<1>1. Queue(q, pos, lo, hi, m) /\ Ghosts(q, pos, lo, hi, m)
  BY DEF Inv, Queue
<1>2. CASE word # Old(t)
  BY <1>1, <1>2, AcquireLoopPushLost DEF IInv, Ghosts
<1>3. CASE word = Old(t)
  <2>1. PICK w \in {"X", "S"} : Pushes(t, w)
    BY <1>3, PushStep
  <2>2. PICK q2 \in [Int -> Blocks], pos2 \in [Threads -> Int], hi2 \in [Blocks -> Int],
             m2 \in Int : Grown(q, pos, hi, m, q2, pos2, hi2, m2, t)
    BY <1>1, GrownExists
  <2>3. Queue(q2, pos2, lo, hi2, m2)'
    BY <2>1, <2>2, PushQueue
  <2>4. Wakers(q2, hi2[NoBlock], m2)' /\ Promise'
    BY <2>1, <2>2, PushWakers
  <2>5. Holders(q2[lo[NoBlock]])'
    BY <2>1, <2>2, PushHolders
  <2>6. Types' /\ Others(t) /\ Kept(t) /\ held'[t] = "no" /\ pc'[t] \in {"WaitBit", "Optimize"}
    BY <2>1 DEF Pushes, Kept
  <2>7. Calling'
    <3>1. CallOf(t)'
      BY <2>6 DEF CallOf, Entering, Unlocking
    <3> QED BY <2>6, <3>1, CallingFrame DEF Inv
  <2>8. Releasers(q2, lo[NoBlock], hi2[NoBlock])'
    <3> SUFFICES ASSUME NEW u \in Threads, Counting(u)'
                 PROVE  word'.multi /\ \E k \in lo[NoBlock] .. hi2[NoBlock] : q2[k] = Old(u)'.ptr
      BY DEF Releasers, ReleaserOf
    <3>1. u # t
      BY <2>6 DEF Counting
    <3>2. pc'[u] = pc[u] /\ loc'[u] = loc[u]
      BY <2>6, <3>1 DEF Others
    <3>3. Counting(u) /\ Old(u)' = Old(u)
      BY <3>2 DEF Counting, Old
    <3>4. word.multi /\ \E k \in lo[NoBlock] .. hi[NoBlock] : q[k] = Old(u).ptr
      BY <3>3 DEF Inv, Releasers, ReleaserOf
    <3>5. PICK k \in lo[NoBlock] .. hi[NoBlock] : q[k] = Old(u).ptr
      BY <3>4
    <3>6. lo[NoBlock] \in Int /\ hi[NoBlock] \in Int
      BY <1>1, RowFacts
    <3>7. k \in lo[NoBlock] .. hi2[NoBlock] /\ q2[k] = q[k]
      BY <2>2, <3>6 DEF Grown
    <3>8. word'.multi
      <4>1. word.waiting /\ word \in Word
        BY <3>4 DEF Inv, Holders, Shape, Types
      <4>2. word'.multi = word.multi
        BY <2>1, <4>1, PushFields DEF Pushes
      <4> QED BY <3>4, <4>2
    <3> QED BY <3>3, <3>5, <3>7, <3>8
  <2>9. Inv(q2, pos2, lo, hi2, m2)'
    BY <2>3, <2>4, <2>5, <2>6, <2>7, <2>8 DEF Inv
  <2>10. lo \in [Blocks -> Int]
    BY <1>1 DEF Ghosts
  <2> QED BY <2>2, <2>9, <2>10 DEF IInv
<1> QED BY <1>2, <1>3

-----------------------------------------------------------------------------
(***************************************************************************)
(* A waiter: it goes to sleep on its gate, and goes on when it is woken.   *)
(***************************************************************************)
SameLinks(c, d) ==
    /\ c.next = d.next /\ c.prev = d.prev /\ c.last = d.last /\ c.exclusive = d.exclusive

(* The links stay when those of the blocks with a seat do.                  *)
LEMMA RowFrame ==
    ASSUME NEW q, NEW pos, NEW lo, NEW hi, NEW m, Queue(q, pos, lo, hi, m), word' = word,
           word.multi => word.waiting,
           \A x \in Blocks : \A i \in lo[x] .. hi[x] : SameLinks(blk'[q[i]], blk[q[i]])
    PROVE  Links(q, lo[NoBlock], hi[NoBlock], m)' /\ Chains(q, lo, hi)'
<1> DEFINE L == lo[NoBlock]
           H == hi[NoBlock]
<1>1. L \in Int /\ H \in Int /\ m \in Int /\ NoBlock \in Blocks /\ Threads \subseteq Blocks
  BY RowFacts DEF Blocks
<1>2. \A x \in Blocks : \A i \in lo[x] .. hi[x] :
         /\ blk'[q[i]].next = blk[q[i]].next /\ blk'[q[i]].prev = blk[q[i]].prev
         /\ blk'[q[i]].last = blk[q[i]].last /\ blk'[q[i]].exclusive = blk[q[i]].exclusive
  BY DEF SameLinks
<1>3. Chains(q, lo, hi)'
  BY <1>1, <1>2 DEF Queue, Chains
<1>4. /\ Links(q, L, H, m)
      /\ \A i \in L .. H :
         /\ blk'[q[i]].next = blk[q[i]].next /\ blk'[q[i]].prev = blk[q[i]].prev
         /\ blk'[q[i]].last = blk[q[i]].last /\ blk'[q[i]].exclusive = blk[q[i]].exclusive
  BY <1>1, <1>2 DEF Queue
<1> HIDE DEF L, H
<1>5. \A i \in L .. H : LinkOf(q, L, H, m, i)'
  BY <1>4 DEF Links, LinkOf
<1>6. word.waiting => L \in L .. H /\ m \in L .. H
  BY <1>1, <1>4 DEF Links
<1>7. Links(q, L, H, m)'
  BY <1>4, <1>5, <1>6 DEF Links
<1> QED BY <1>3, <1>7 DEF L, H

(* The thread that has no seat, or keeps it, does not disturb the others.   *)
LEMMA WaiterFrame ==
    ASSUME NEW q, NEW pos, NEW lo, NEW hi, NEW m, Queue(q, pos, lo, hi, m), word' = word,
           word.multi => word.waiting, NEW t \in Threads, Others(t),
           \A u \in Threads : u # t => blk'[u] = blk[u] /\ gate'[u] = gate[u],
           HasSeat(q, lo, hi, t) => SameLinks(blk'[t], blk[t]) /\ InWait(t)',
           pc[t] \in {"WaitBit", "Gate"}, pc'[t] \in {"Gate", "AcqLoop"},
           pc[t] = "Gate" => gate[t], WaiterOf(q, lo, hi, t)'
    PROVE  Queue(q, pos, lo, hi, m)'
<1>1. \A x \in Blocks : \A i \in lo[x] .. hi[x] : q[i] \in Threads /\ InWait(q[i])
  BY RowFacts
<1>2. ASSUME NEW x \in Blocks, NEW i \in lo[x] .. hi[x]
      PROVE  SameLinks(blk'[q[i]], blk[q[i]]) /\ InWait(q[i])'
  <2>1. CASE q[i] = t
    BY <2>1 DEF HasSeat
  <2>2. CASE q[i] # t
    <3>1. q[i] \in Threads /\ InWait(q[i]) /\ blk'[q[i]] = blk[q[i]] /\ gate'[q[i]] = gate[q[i]]
          /\ pc'[q[i]] = pc[q[i]] /\ loc'[q[i]] = loc[q[i]]
      BY <2>2, <1>1 DEF Others
    <3> QED BY <3>1 DEF SameLinks, InWait, Alive
  <2> QED BY <2>1, <2>2
<1>3. Links(q, lo[NoBlock], hi[NoBlock], m)' /\ Chains(q, lo, hi)'
  BY <1>2, RowFrame
<1>4. Seated(q, lo, hi)'
  BY <1>2 DEF Seated
<1>5. ASSUME NEW u \in Threads PROVE SignalOf(q, lo, hi, u)'
  <2>1. SignalOf(q, lo, hi, u)
    BY DEF Queue
  <2>2. CASE u = t
    BY <2>1, <2>2 DEF SignalOf
  <2>3. CASE u # t
    <3>1. pc'[u] = pc[u] /\ loc'[u] = loc[u]
      BY <2>3 DEF Others
    <3>2. CASE pc[u] = "SignalGate"
      <4>1. loc[u].cur \in Threads /\ loc[u].cur # t
        BY <2>1, <3>2 DEF SignalOf
      <4>2. \A v \in Threads : Signalling(v, loc[u].cur)' => Signalling(v, loc[u].cur)
        BY <3>1 DEF Signalling, Others
      <4>3. pc'[loc[u].cur] = pc[loc[u].cur]
        BY <4>1 DEF Others
      <4> QED BY <2>1, <3>1, <3>2, <4>1, <4>2, <4>3 DEF SignalOf
    <3>3. CASE pc[u] # "SignalGate"
      BY <2>1, <3>1, <3>3 DEF SignalOf
    <3> QED BY <3>2, <3>3
  <2> QED BY <2>2, <2>3
<1>6. ASSUME NEW u \in Threads, u # t PROVE WaiterOf(q, lo, hi, u)'
  <2>1. WaiterOf(q, lo, hi, u) /\ pc'[u] = pc[u] /\ loc'[u] = loc[u]
        /\ blk'[u] = blk[u] /\ gate'[u] = gate[u]
    BY <1>6 DEF Queue, Others
  <2>2. \A v \in Threads : Signalling(v, u) => Signalling(v, u)'
    BY DEF Signalling, Others
  <2>3. Alive(u)' <=> Alive(u)
    BY <2>1 DEF Alive
  <2> QED BY <2>1, <2>2, <2>3 DEF WaiterOf, HasSeat
<1> QED BY <1>3, <1>4, <1>5, <1>6 DEF Queue, Ghosts, Seats

(* Nobody who would act on the word stops, and the word stays.              *)
LEMMA PromiseKept ==
    ASSUME Promise, NEW t \in Threads, Others(t), word' = word,
           \A u \in Threads : u # t => /\ blk'[u].wait = blk[u].wait
                                       /\ gate'[u] = gate[u],
           Working(t) => Working(t)', Active(t) => Active(t)'
    PROVE  Promise'
<1>1. \A u \in Threads : (Working(u) => Working(u)') /\ (Active(u) => Active(u)')
  BY DEF Working, Active, Others, Old
<1> QED BY <1>1 DEF Promise

(* The worker's block keeps its link, if no block of the list changes.      *)
LEMMA WakersStay ==
    ASSUME NEW q, NEW pos, NEW lo, NEW hi, NEW m, Inv(q, pos, lo, hi, m), word' = word,
           NEW t \in Threads, Others(t), ~Working(t), ~Working(t)',
           \A i \in lo[NoBlock] .. hi[NoBlock] : blk'[q[i]].prev = blk[q[i]].prev
    PROVE  Wakers(q, hi[NoBlock], m)'
<1>1. \A u \in Threads : Working(u)' => Working(u) /\ pc'[u] = pc[u] /\ loc'[u] = loc[u] /\ Wk(u)' = Wk(u)
  BY DEF Working, Wk, Others
<1>2. SUFFICES ASSUME NEW u \in Threads PROVE WakerOf(q, hi[NoBlock], m, u)'
  BY DEF Wakers
<1>3. WakerOf(q, hi[NoBlock], m, u)
  BY DEF Inv, Wakers
<1>4. CASE Working(u)'
  <2>1. Working(u) /\ Wk(u)' = Wk(u) /\ pc'[u] = pc[u] /\ loc'[u] = loc[u]
    BY <1>1, <1>4
  <2>2. PICK k \in m .. hi[NoBlock] : q[k] = Wk(u).ptr
    BY <1>3, <2>1 DEF WakerOf
  <2>3. Queue(q, pos, lo, hi, m) /\ word.waiting
    BY <2>1, WorkerSees DEF Inv
  <2>4. m \in lo[NoBlock] .. hi[NoBlock]
    BY <2>3 DEF Queue, Links
  <2>5. lo[NoBlock] \in Int /\ hi[NoBlock] \in Int /\ m \in Int
    BY <2>3, RowFacts
  <2>6. k \in lo[NoBlock] .. hi[NoBlock]
    BY <2>4, <2>5
  <2>7. blk'[Wk(u).ptr].prev = blk[Wk(u).ptr].prev
    BY <2>2, <2>6
  <2>8. \A v \in Threads : Working(v)' => v = u
    BY <1>1, <1>3, <2>1 DEF WakerOf
  <2> QED BY <1>3, <2>1, <2>7, <2>8 DEF WakerOf
<1>5. CASE ~Working(u)'
  BY <1>5 DEF WakerOf, Working
<1> QED BY <1>4, <1>5

(* A step of a waiter.                                                      *)
LEMMA WaiterStep ==
    ASSUME NEW q, NEW pos, NEW lo, NEW hi, NEW m, Inv(q, pos, lo, hi, m),
           NEW t \in Threads, Types', Others(t), UNCHANGED <<word, held>>,
           \A u \in Threads : u # t => blk'[u] = blk[u] /\ gate'[u] = gate[u],
           HasSeat(q, lo, hi, t) => SameLinks(blk'[t], blk[t]) /\ InWait(t)',
           pc[t] \in {"WaitBit", "Gate"}, pc'[t] \in {"Gate", "AcqLoop"},
           pc[t] = "Gate" => gate[t], WaiterOf(q, lo, hi, t)',
           blk'[t].share = blk[t].share, Active(t) => Active(t)'
    PROVE  Inv(q, pos, lo, hi, m)'
<1>1. /\ Queue(q, pos, lo, hi, m) /\ Promise /\ Calling /\ Holders(q[lo[NoBlock]])
      /\ Releasers(q, lo[NoBlock], hi[NoBlock]) /\ word' = word /\ Kept(t)
      /\ (word.multi => word.waiting) /\ (word.multi => q[lo[NoBlock]] \in Threads)
      /\ held[t] = "no"
  BY BottomIn DEF Inv, Kept, Calling, CallOf, Entering
<1>2. Queue(q, pos, lo, hi, m)'
  BY <1>1, WaiterFrame
<1>3. ~Working(t) /\ ~Working(t)' /\ ~Finisher(t) /\ ~Finisher(t)' /\ ~Counting(t)'
  BY DEF Working, Finisher, Unlocking, Counting
<1>4. Promise'
  <2>1. \A u \in Threads : u # t => blk'[u].wait = blk[u].wait /\ gate'[u] = gate[u]
    OBVIOUS
  <2> QED BY <1>1, <1>3, <2>1, PromiseKept
<1>5. CallOf(t)'
  BY <1>1 DEF CallOf, Entering, Unlocking
<1>6. Calling'
  BY <1>1, <1>5, CallingFrame
<1>7. Releasers(q, lo[NoBlock], hi[NoBlock])'
  <2>1. \A u \in Threads : u # t /\ Counting(u) /\ word.multi => word'.multi
    BY <1>1
  <2> QED BY <1>1, <1>3, <2>1, ReleasersFrame
<1>8. Wakers(q, hi[NoBlock], m)'
  <2>1. ASSUME NEW i \in lo[NoBlock] .. hi[NoBlock]
        PROVE  blk'[q[i]].prev = blk[q[i]].prev
    <3>1. q[i] \in Threads /\ NoBlock \in Blocks
      BY <1>1, RowFacts
    <3>2. CASE q[i] = t
      <4>1. HasSeat(q, lo, hi, t)
        BY <3>1, <3>2 DEF HasSeat
      <4> QED BY <3>2, <4>1 DEF SameLinks
    <3>3. CASE q[i] # t
      BY <3>1, <3>3
    <3> QED BY <3>2, <3>3
  <2> QED BY <1>1, <1>3, <2>1, WakersStay
<1>9. Holders(q[lo[NoBlock]])'
  <2>1. /\ \A u \in Threads : blk'[u].share = blk[u].share
        /\ UNCHANGED held
        /\ word'.locked = word.locked /\ word'.waiting = word.waiting /\ word'.multi = word.multi
        /\ word'.shared = word.shared /\ (~word.waiting => word'.ptr = word.ptr)
    BY <1>1
  <2>2. word'.waking => word.waiting
    BY <1>1 DEF Holders, Shape
  <2> QED BY <1>1, <1>3, <2>1, <2>2, HoldersKept
<1> QED BY <1>2, <1>4, <1>6, <1>7, <1>8, <1>9 DEF Inv

(* A waiter that was woken has no seat, and no shares are counted in its    *)
(* block.                                                                   *)
LEMMA WokenFacts ==
    ASSUME NEW q, NEW pos, NEW lo, NEW hi, NEW m, Inv(q, pos, lo, hi, m), NEW t \in Threads,
           (pc[t] = "WaitBit" /\ ~blk[t].wait) \/ (pc[t] = "Gate" /\ gate[t])
    PROVE  ~HasSeat(q, lo, hi, t) /\ blk[t].share = 0
<1>1. Queue(q, pos, lo, hi, m) /\ blk[t].share \in Nat
  BY BlockFields DEF Inv, Types
<1>2. ASSUME HasSeat(q, lo, hi, t) PROVE FALSE
  <2>1. InWait(t)
    BY <1>1, <1>2, RowFacts DEF HasSeat
  <2> QED BY <2>1 DEF InWait
<1>3. ASSUME blk[t].share > 0 PROVE FALSE
  <2>1. word.multi /\ t = q[lo[NoBlock]]
    BY <1>3 DEF Inv, Holders, Counts
  <2>2. word.waiting
    BY <2>1, BottomIn
  <2>3. lo[NoBlock] \in lo[NoBlock] .. hi[NoBlock] /\ NoBlock \in Blocks
    BY <1>1, <2>2, RowFacts
  <2> QED BY <1>2, <2>1, <2>3 DEF HasSeat
<1> QED BY <1>1, <1>2, <1>3

(* It goes on with the acquire loop.                                        *)
LEMMA WokenStep ==
    ASSUME NEW q, NEW pos, NEW lo, NEW hi, NEW m, Inv(q, pos, lo, hi, m), NEW t \in Threads,
           (pc[t] = "WaitBit" /\ ~blk[t].wait) \/ (pc[t] = "Gate" /\ gate[t]),
           gate' = [gate EXCEPT ![t] = FALSE], blk' = [blk EXCEPT ![t] = NullBlock],
           Goto(t, "AcqLoop", loc[t]), UNCHANGED <<word, held>>
    PROVE  Inv(q, pos, lo, hi, m)'
<1>1. Types /\ loc[t] \in LocalVars /\ "AcqLoop" \in PCs
  BY DEF Inv, Types, PCs
<1>2. /\ pc' \in [Threads -> PCs] /\ loc' \in [Threads -> LocalVars]
      /\ pc'[t] = "AcqLoop" /\ Others(t)
  BY <1>1, GotoStep
<1>3. /\ blk' \in [Threads -> WaitBlock] /\ blk'[t] = NullBlock /\ gate' \in [Threads -> BOOLEAN]
      /\ \A u \in Threads : u # t => blk'[u] = blk[u] /\ gate'[u] = gate[u]
  BY <1>1, BlockFields DEF Types
<1>4. Types'
  BY <1>1, <1>2, <1>3 DEF Types
<1>5. ~HasSeat(q, lo, hi, t) /\ blk'[t].share = blk[t].share
  BY <1>3, WokenFacts, BlockFields
<1>6. WaiterOf(q, lo, hi, t)' /\ Active(t)'
  BY <1>2 DEF WaiterOf, Alive, Active
<1>7. pc[t] \in {"WaitBit", "Gate"} /\ pc'[t] \in {"Gate", "AcqLoop"} /\ (pc[t] = "Gate" => gate[t])
  BY <1>2
<1> QED BY <1>2, <1>3, <1>4, <1>5, <1>6, <1>7, WaiterStep

(* KeWaitForGate returns.                                                   *)
LEMMA WaitGateStep ==
    ASSUME NEW q, NEW pos, NEW lo, NEW hi, NEW m, Inv(q, pos, lo, hi, m), NEW t \in Threads,
           WaitGate(t)
    PROVE  Inv(q, pos, lo, hi, m)'
  BY WokenStep DEF WaitGate

(* The wait bit is tested.                                                  *)
LEMMA WaitBitStep ==
    ASSUME NEW q, NEW pos, NEW lo, NEW hi, NEW m, Inv(q, pos, lo, hi, m), NEW t \in Threads,
           WaitBit(t)
    PROVE  Inv(q, pos, lo, hi, m)'
<1>1. Types /\ loc[t] \in LocalVars /\ "Gate" \in PCs /\ pc[t] = "WaitBit" /\ UNCHANGED <<word, held>>
      /\ blk[t] \in WaitBlock /\ blk \in [Threads -> WaitBlock] /\ gate \in [Threads -> BOOLEAN]
      /\ gate' = [gate EXCEPT ![t] = FALSE]
  BY DEF Inv, Types, PCs, WaitBit
<1>2. CASE ~blk[t].wait
  <2>1. blk' = [blk EXCEPT ![t] = NullBlock] /\ Goto(t, "AcqLoop", loc[t])
    BY <1>2 DEF WaitBit
  <2> QED BY <1>1, <1>2, <2>1, WokenStep
<1>3. CASE blk[t].wait
  <2>1. blk' = [blk EXCEPT ![t].wait = FALSE] /\ Goto(t, "Gate", loc[t])
    BY <1>3 DEF WaitBit
  <2>2. /\ pc' \in [Threads -> PCs] /\ loc' \in [Threads -> LocalVars]
        /\ pc'[t] = "Gate" /\ loc'[t] = loc[t] /\ Others(t)
    BY <1>1, <2>1, GotoStep
  <2> DEFINE c == [blk[t] EXCEPT !.wait = FALSE]
  <2>3. c \in WaitBlock /\ SameLinks(c, blk[t]) /\ ~c.wait /\ c.signaled = blk[t].signaled
        /\ c.share = blk[t].share
    BY <1>1 DEF WaitBlock, SameLinks
  <2>4. blk' = [blk EXCEPT ![t] = c]
    BY <2>1
  <2> HIDE DEF c
  <2>5. /\ blk' \in [Threads -> WaitBlock] /\ blk'[t] = c /\ gate' \in [Threads -> BOOLEAN]
        /\ \A u \in Threads : u # t => blk'[u] = blk[u] /\ gate'[u] = gate[u]
        /\ ~gate'[t]
    BY <1>1, <2>3, <2>4
  <2>6. Types'
    BY <1>1, <2>2, <2>5 DEF Types
  <2>7. WaiterOf(q, lo, hi, t)
    BY DEF Inv, Queue
  <2>8. Alive(t) /\ Alive(t)' /\ ~blk[t].signaled
    BY <1>1, <1>3, <2>2, <2>7 DEF Alive, WaiterOf
  <2>9. ~blk'[t].signaled /\ ~blk'[t].wait /\ blk'[t].share = blk[t].share
        /\ SameLinks(blk'[t], blk[t])
    BY <2>3, <2>5, <2>8
  <2>10. InWait(t)' /\ WaiterOf(q, lo, hi, t)'
    BY <2>2, <2>5, <2>7, <2>8, <2>9 DEF InWait, WaiterOf, HasSeat
  <2>11. ~Active(t)
    BY <1>1, <1>3 DEF Active
  <2>12. pc[t] \in {"WaitBit", "Gate"} /\ pc'[t] \in {"Gate", "AcqLoop"} /\ (pc[t] = "Gate" => gate[t])
    BY <1>1, <2>2
  <2> QED BY <1>1, <2>2, <2>5, <2>6, <2>9, <2>10, <2>11, <2>12, WaiterStep
<1> QED BY <1>2, <1>3

-----------------------------------------------------------------------------
(***************************************************************************)
(* The thread that works on the list.                                      *)
(***************************************************************************)
(* ExpOptimizePushLockList and ExfWakePushLock return.                      *)
LEMMA ResumeStep ==
    ASSUME Types, NEW t \in Threads, Resume(t)
    PROVE  /\ pc' \in [Threads -> PCs] /\ loc' \in [Threads -> LocalVars]
           /\ pc'[t] = (IF loc[t].ret = "Idle" THEN "Idle" ELSE "WaitBit") /\ Others(t)
<1>1. CASE loc[t].ret = "Idle"
  BY <1>1, ReturnStep DEF Resume
<1>2. CASE loc[t].ret # "Idle"
  <2>1. loc[t].old \in Word /\ loc[t].want \in {"X", "S"} /\ "WaitBit" \in PCs
    BY LocalsFields DEF Types, PCs
  <2> DEFINE r == [NoLocals EXCEPT !.old = loc[t].old, !.want = loc[t].want]
  <2>2. r \in LocalVars
    BY <2>1, LocalsFields DEF LocalVars
  <2>3. Goto(t, "WaitBit", r)
    BY <1>2 DEF Resume, Old
  <2> HIDE DEF r
  <2> QED BY <1>2, <2>1, <2>2, <2>3, GotoStep
<1> QED BY <1>1, <1>2

(* It is the only one.                                                      *)
LEMMA WorkerAlone ==
    ASSUME NEW q, NEW pos, NEW lo, NEW hi, NEW m, Inv(q, pos, lo, hi, m),
           NEW t \in Threads, Working(t)
    PROVE  \A u \in Threads : u # t => ~Working(u)
  BY DEF Inv, Wakers, WakerOf

(* What the worker does to the blocks.                                      *)
SameButLinks(c, d) ==
    /\ c.share = d.share /\ c.exclusive = d.exclusive
    /\ c.wait = d.wait /\ c.signaled = d.signaled

(* The row, when only links of the list were changed.                       *)
LEMMA QueueRelink ==
    ASSUME NEW q, NEW pos, NEW lo, NEW hi, NEW m, Queue(q, pos, lo, hi, m),
           NEW m2 \in Int, Links(q, lo[NoBlock], hi[NoBlock], m2)',
           \A u \in Threads : SameWait(u),
           \A u \in Threads : SameButLinks(blk'[u], blk[u]),
           \A u \in Threads : gate'[u] = gate[u],
           \A u \in Threads : \A i \in lo[u] .. hi[u] : blk'[q[i]].prev = blk[q[i]].prev
    PROVE  Queue(q, pos, lo, hi, m2)'
<1>1. \A u \in Threads : blk'[u].wait = blk[u].wait /\ blk'[u].signaled = blk[u].signaled
  BY DEF SameButLinks
<1>2. \A x \in Blocks : \A i \in lo[x] .. hi[x] : q[i] \in Threads
  BY DEF Queue, Seats
<1>3. Ghosts(q, pos, lo, hi, m2)
  BY DEF Queue, Ghosts
<1>4. Chains(q, lo, hi)'
  BY DEF Queue, Chains
<1>5. Seated(q, lo, hi)'
  BY <1>1, <1>2 DEF Queue, Seated, InWait, SameWait
<1>6. ASSUME NEW t \in Threads PROVE SignalOf(q, lo, hi, t)'
  <2>1. SignalOf(q, lo, hi, t) /\ SameWait(t)
    BY DEF Queue
  <2>2. CASE pc[t] = "SignalGate"
    <3>1. \A u \in Threads : Signalling(u, loc[t].cur)' => Signalling(u, loc[t].cur)
      BY <2>2 DEF SameWait, Signalling
    <3> QED BY <2>1, <2>2, <3>1, <1>1 DEF SignalOf, SameWait, Signalling
  <2>3. CASE pc[t] # "SignalGate"
    BY <2>1, <2>3 DEF SignalOf, SameWait
  <2> QED BY <2>2, <2>3
<1>7. ASSUME NEW t \in Threads PROVE WaiterOf(q, lo, hi, t)'
  <2>1. WaiterOf(q, lo, hi, t) /\ SameWait(t)
    BY DEF Queue
  <2>2. \A u \in Threads : Signalling(u, t) => Signalling(u, t)'
    BY DEF SameWait, Signalling
  <2>3. HasSeat(q, lo, hi, t)' <=> HasSeat(q, lo, hi, t)
    BY DEF HasSeat
  <2> QED BY <2>1, <2>2, <2>3, <1>1 DEF WaiterOf, SameWait
<1> QED BY <1>3, <1>4, <1>5, <1>6, <1>7 DEF Queue, Ghosts, Seats

(* Its work is done, or it goes on with the word it has read again.         *)
GivesBack(t) ==
    /\ word.locked /\ ~word'.waking
    /\ pc'[t] = (IF loc[t].ret = "Idle" THEN "Idle" ELSE "WaitBit")

GoesOn(t) ==
    /\ word'.waking = word.waking /\ Working(t)' /\ loc'[t].wk = word'
    /\ loc'[t].ret = loc[t].ret
    /\ pc'[t] = "Optimize" => word.locked /\ loc[t].ret = "WaitBit"
    /\ pc'[t] = "Wake" => ~word.multi

(* A step of it that leaves the waiters where they are.                     *)
LEMMA WorkerStep ==
    ASSUME NEW q, NEW pos, NEW lo, NEW hi, NEW m, Inv(q, pos, lo, hi, m),
           NEW t \in Threads, Working(t), Types', Others(t), UNCHANGED <<gate, held>>,
           word'.locked = word.locked, word'.waiting = word.waiting, word'.multi = word.multi,
           word'.shared = word.shared, word'.ptr = word.ptr,
           NEW m2 \in Int, Links(q, lo[NoBlock], hi[NoBlock], m2)',
           \A u \in Threads : SameButLinks(blk'[u], blk[u]),
           \A u \in Threads : \A i \in lo[u] .. hi[u] : blk'[q[i]].prev = blk[q[i]].prev,
           GivesBack(t) \/ GoesOn(t)
    PROVE  Inv(q, pos, lo, hi, m2)'
<1>1. /\ Queue(q, pos, lo, hi, m) /\ Promise /\ Calling /\ Holders(q[lo[NoBlock]])
      /\ Releasers(q, lo[NoBlock], hi[NoBlock]) /\ Kept(t) /\ Types
      /\ (word.multi => word.waiting) /\ (word.multi => q[lo[NoBlock]] \in Threads)
      /\ held[t] = "no" /\ word.waiting /\ word.waking
  BY BottomIn, WorkerSees DEF Inv, Kept, Calling, CallOf, Entering, Working
<1>2. \A u \in Threads : u # t => ~Working(u) /\ ~Working(u)' /\ pc'[u] = pc[u] /\ loc'[u] = loc[u]
  BY WorkerAlone DEF Working, Others
<1>3. pc[t] \in {"Optimize", "Wake"} /\ pc'[t] \in {"Optimize", "Wake", "Idle", "WaitBit"}
      /\ loc[t].ret \in {"Idle", "WaitBit"}
  BY <1>1, LocalsFields DEF Working, GivesBack, GoesOn, Types
<1>4. \A u \in Threads : SameWait(u)
  <2>1. \A u \in Threads : u # t => SameWait(u)
    BY <1>2 DEF SameWait, Alive
  <2>2. Alive(t)' <=> Alive(t)
    <3>1. CASE GivesBack(t)
      BY <1>3, <3>1 DEF Alive, GivesBack
    <3>2. CASE GoesOn(t)
      BY <1>3, <3>2 DEF Alive, GoesOn, Working
    <3> QED BY <3>1, <3>2
  <2>3. SameWait(t)
    BY <1>3, <2>2 DEF SameWait
  <2> QED BY <2>1, <2>3
<1>5. Queue(q, pos, lo, hi, m2)'
  <2>1. \A u \in Threads : gate'[u] = gate[u]
    OBVIOUS
  <2> QED BY <1>1, <1>4, <2>1, QueueRelink
<1>6. Wakers(q, hi[NoBlock], m2)'
  <2>1. CASE GivesBack(t)
    <3>1. \A u \in Threads : ~Working(u)'
      BY <1>2, <1>3, <2>1 DEF GivesBack, Working
    <3> QED BY <3>1 DEF Wakers, WakerOf, Working
  <2>2. CASE GoesOn(t)
    <3>1. lo[NoBlock] \in Int /\ hi[NoBlock] \in Int
      BY <1>1, RowFacts
    <3> DEFINE L == lo[NoBlock]
               H == hi[NoBlock]
    <3>2. Links(q, L, H, m2)' /\ L \in Int /\ H \in Int
      BY <3>1
    <3> HIDE DEF L, H
    <3>3. word'.waiting /\ word'.ptr = q[H] /\ m2 \in L .. H /\ LinkOf(q, L, H, m2, H)'
      BY <3>2, <1>1 DEF Links
    <3>4. blk'[q[H]].prev = NoBlock /\ H \in m2 .. H
      BY <3>2, <3>3 DEF LinkOf
    <3>5. Wk(t)' = word' /\ word'.waking
      BY <1>1, <2>2 DEF GoesOn, Wk
    <3>6. WakerOf(q, H, m2, t)'
      <4>1. \A u \in Threads : Working(u)' => u = t
        BY <1>2
      <4>2. pc'[t] = "Optimize" => Wk(t)'.locked /\ loc'[t].ret = "WaitBit"
        BY <2>2, <3>5 DEF GoesOn
      <4>3. pc'[t] = "Wake" => Wk(t)'.waking /\ ~Wk(t)'.multi /\ ~word'.multi
        BY <2>2, <3>5 DEF GoesOn
      <4> QED BY <3>3, <3>4, <3>5, <4>1, <4>2, <4>3 DEF WakerOf
    <3>7. \A u \in Threads : u # t => WakerOf(q, H, m2, u)'
      BY <1>2 DEF WakerOf, Working
    <3> QED BY <3>6, <3>7 DEF Wakers, H
  <2> QED BY <2>1, <2>2
<1>7. Promise'
  <2>1. CASE GivesBack(t)
    BY <2>1 DEF GivesBack, Promise
  <2>2. CASE GoesOn(t)
    BY <2>2, <1>1 DEF GoesOn, Promise
  <2> QED BY <2>1, <2>2
<1>8. CallOf(t)' /\ ~Finisher(t) /\ ~Finisher(t)' /\ ~Counting(t)'
  BY <1>1, <1>3 DEF CallOf, Entering, Unlocking, Finisher, Counting
<1>9. Calling'
  BY <1>1, <1>8, CallingFrame
<1>10. Releasers(q, lo[NoBlock], hi[NoBlock])'
  <2>1. \A u \in Threads : u # t /\ Counting(u) /\ word.multi => word'.multi
    OBVIOUS
  <2> QED BY <1>1, <1>8, <2>1, ReleasersFrame
<1>11. Holders(q[lo[NoBlock]])'
  <2>1. /\ \A u \in Threads : blk'[u].share = blk[u].share
        /\ UNCHANGED held
    BY DEF SameButLinks
  <2> QED BY <1>1, <1>8, <2>1, HoldersKept
<1> QED BY <1>5, <1>6, <1>7, <1>9, <1>10, <1>11 DEF Inv

(* What the worker has seen from seat k down, and what linking it changes.  *)
Saw(q, lo, hi, m, k, t) ==
    /\ k \in Int /\ m <= k /\ k <= hi[NoBlock] /\ m \in lo[NoBlock] .. hi[NoBlock]
    /\ word.waiting /\ word.waking
    /\ Wk(t).ptr = q[k] /\ LastOf(Wk(t).ptr) = q[lo[NoBlock]] /\ blk[q[k]].prev = NoBlock
    /\ Linked(Wk(t).ptr) \in [Threads -> WaitBlock]
    /\ \A u \in Threads : SameButPrev(Linked(Wk(t).ptr)[u], blk[u])
    /\ \A i \in lo[NoBlock] .. hi[NoBlock] :
          Linked(Wk(t).ptr)[q[i]].prev = IF i \in m .. k - 1 THEN q[i + 1] ELSE blk[q[i]].prev
    /\ \A u \in Threads : \A i \in lo[u] .. hi[u] :
          Linked(Wk(t).ptr)[q[i]].prev = blk[q[i]].prev

(* There is such a seat.                                                    *)
LEMMA WorkerSaw ==
    ASSUME NEW q, NEW pos, NEW lo, NEW hi, NEW m, Inv(q, pos, lo, hi, m),
           NEW t \in Threads, Working(t)
    PROVE  \E k \in Int : Saw(q, lo, hi, m, k, t)
<1>1. Queue(q, pos, lo, hi, m) /\ blk \in [Threads -> WaitBlock]
  BY DEF Inv, Types
<1>2. /\ lo[NoBlock] \in Int /\ hi[NoBlock] \in Int /\ m \in Int /\ NoBlock \in Blocks
      /\ \A u \in Threads : /\ u \in Blocks /\ lo[u] \in Int /\ hi[u] \in Int
                            /\ hi[u] < lo[NoBlock]
  BY <1>1, RowFacts
<1>3. \A x \in Blocks : \A i \in lo[x] .. hi[x] : q[i] \in Threads /\ pos[q[i]] = i
  BY <1>1, RowFacts
<1>4. word.waiting /\ word.waking
  BY WorkerSees
<1>5. PICK k \in m .. hi[NoBlock] :
                 /\ Wk(t).ptr = q[k] /\ Walk(q, pos, m, k)
                 /\ LastOf(Wk(t).ptr) = q[lo[NoBlock]]
                 /\ blk[q[k]].prev = NoBlock
  BY WorkerSees
<1>6. m \in lo[NoBlock] .. hi[NoBlock] /\ k \in Int /\ m <= k /\ k <= hi[NoBlock]
  BY <1>1, <1>2, <1>4, <1>5 DEF Queue, Links
<1>7. PICK B : B = Linked(q[k])
  OBVIOUS
<1>8. /\ B \in [Threads -> WaitBlock]
      /\ \A u \in Threads : SameButPrev(B[u], blk[u])
      /\ \A i \in m .. k - 1 : B[q[i]].prev = q[i + 1]
      /\ \A u \in Threads : (\A i \in m .. k - 1 : q[i] # u) => B[u].prev = blk[u].prev
  BY <1>1, <1>5, <1>7, WalkLinks
<1>9. ASSUME NEW x \in Blocks, NEW i \in lo[x] .. hi[x], i \notin m .. k - 1
      PROVE  B[q[i]].prev = blk[q[i]].prev
  <2>1. q[i] \in Threads /\ pos[q[i]] = i
    BY <1>3
  <2>2. \A j \in m .. k - 1 : j \in lo[NoBlock] .. hi[NoBlock]
    BY <1>2, <1>6
  <2>3. \A j \in m .. k - 1 : q[j] # q[i]
    BY <1>2, <1>3, <1>9, <2>1, <2>2
  <2> QED BY <2>1, <2>3, <1>8
<1>10. ASSUME NEW u \in Threads, NEW i \in lo[u] .. hi[u] PROVE B[q[i]].prev = blk[q[i]].prev
  <2>1. i \notin m .. k - 1 /\ u \in Blocks
    BY <1>2, <1>6
  <2> QED BY <2>1, <1>9
<1>11. ASSUME NEW i \in lo[NoBlock] .. hi[NoBlock]
       PROVE  B[q[i]].prev = IF i \in m .. k - 1 THEN q[i + 1] ELSE blk[q[i]].prev
  <2>1. CASE i \in m .. k - 1
    BY <2>1, <1>8
  <2>2. CASE i \notin m .. k - 1
    BY <2>2, <1>2, <1>9
  <2> QED BY <2>1, <2>2
<1>12. Linked(Wk(t).ptr) = B
  BY <1>5, <1>7
<1> QED BY <1>4, <1>5, <1>6, <1>8, <1>10, <1>11, <1>12 DEF Saw

(* The list with more links, and with a last block known from seat m2 on.   *)
LEMMA LinksMore ==
    ASSUME NEW q, NEW pos, NEW lo, NEW hi, NEW m, Queue(q, pos, lo, hi, m),
           NEW t, NEW k, Saw(q, lo, hi, m, k, t),
           word'.waiting = word.waiting, word'.ptr = word.ptr, word'.multi = word.multi,
           NEW m2 \in {m, k},
           \A i \in lo[NoBlock] .. hi[NoBlock] :
              /\ blk'[q[i]].next = blk[q[i]].next /\ blk'[q[i]].exclusive = blk[q[i]].exclusive
              /\ blk'[q[i]].prev = IF i \in m .. k - 1 THEN q[i + 1] ELSE blk[q[i]].prev
              /\ blk'[q[i]].last = IF i = m2 THEN q[lo[NoBlock]] ELSE blk[q[i]].last
    PROVE  Links(q, lo[NoBlock], hi[NoBlock], m2)'
<1> DEFINE L == lo[NoBlock]
           H == hi[NoBlock]
<1>1. L \in Int /\ H \in Int /\ m \in Int
  BY RowFacts
<1>2. k \in Int /\ m <= k /\ k <= H /\ m \in L .. H /\ word.waiting
  BY DEF Saw
<1>3. Links(q, L, H, m)
  BY DEF Queue
<1>4. \A i \in L .. H :
              /\ blk'[q[i]].next = blk[q[i]].next /\ blk'[q[i]].exclusive = blk[q[i]].exclusive
              /\ blk'[q[i]].prev = IF i \in m .. k - 1 THEN q[i + 1] ELSE blk[q[i]].prev
              /\ blk'[q[i]].last = IF i = m2 THEN q[L] ELSE blk[q[i]].last
  OBVIOUS
<1> HIDE DEF L, H
<1>5. m2 \in L .. H /\ m2 \in Int /\ m <= m2 /\ m2 <= k /\ L \in L .. H
  BY <1>1, <1>2
<1>6. ASSUME NEW i \in L .. H PROVE LinkOf(q, L, H, m2, i)'
  <2>1. LinkOf(q, L, H, m, i) /\ i \in Int
    BY <1>1, <1>3 DEF Links
  <2>2. i > m2 => blk'[q[i]].last = NoBlock
    <3>1. i > m2 => i > m /\ i # m2
      BY <1>1, <1>5, <2>1
    <3> QED BY <2>1, <3>1, <1>4 DEF LinkOf
  <2>3. i > L => blk'[q[i]].next = q[i - 1]
    BY <2>1, <1>4 DEF LinkOf
  <2>4. CASE i \in m .. k - 1
    <3>1. i < H /\ blk'[q[i]].prev = q[i + 1]
      BY <2>4, <1>1, <1>2, <1>4
    <3>2. word'.multi => blk'[q[i]].last \in {NoBlock, q[L]}
      BY <2>1, <1>4 DEF LinkOf
    <3> QED BY <2>2, <2>3, <3>1, <3>2 DEF LinkOf
  <2>5. CASE i \notin m .. k - 1
    <3>1. i < m2 => i < m
      BY <2>5, <2>1, <1>1, <1>2, <1>5
    <3>2. blk'[q[i]].prev = blk[q[i]].prev
      BY <2>5, <1>4
    <3>3. word'.multi => blk'[q[i]].last \in {NoBlock, q[L]}
      BY <2>1, <1>4 DEF LinkOf
    <3> QED BY <2>1, <2>2, <2>3, <3>1, <3>2, <3>3 DEF LinkOf
  <2> QED BY <2>4, <2>5
<1>7. blk'[q[m2]].last = q[L]
  BY <1>4, <1>5
<1>8. word'.multi => blk'[q[L]].exclusive /\ blk'[q[L]].last = q[L]
  BY <1>3, <1>4, <1>5 DEF Links
<1>9. Links(q, L, H, m2)'
  BY <1>2, <1>3, <1>5, <1>6, <1>7, <1>8 DEF Links
<1> QED BY <1>9 DEF L, H

(* The word is read again.                                                  *)
LEMMA WorkerReads ==
    ASSUME Types, NEW t \in Threads, NEW l \in PCs, Goto(t, l, [loc[t] EXCEPT !.wk = word])
    PROVE  /\ pc' \in [Threads -> PCs] /\ loc' \in [Threads -> LocalVars]
           /\ pc'[t] = l /\ loc'[t].wk = word /\ loc'[t].ret = loc[t].ret /\ Others(t)
<1>1. loc[t] \in LocalVars /\ word \in Word
  BY DEF Types
<1> DEFINE r == [loc[t] EXCEPT !.wk = word]
<1>2. r \in LocalVars /\ r.wk = word /\ r.ret = loc[t].ret
  BY <1>1 DEF LocalVars
<1>3. Goto(t, l, r)
  OBVIOUS
<1> HIDE DEF r
<1> QED BY <1>2, <1>3, GotoStep

(* The Waking bit is given back.                                            *)
LEMMA WakingCleared ==
    ASSUME NEW v \in Word, NEW w, w = [v EXCEPT !.waking = FALSE]
    PROVE  /\ w \in Word /\ ~w.waking /\ w.locked = v.locked /\ w.waiting = v.waiting
           /\ w.multi = v.multi /\ w.shared = v.shared /\ w.ptr = v.ptr
  BY DEF Word

(* ExpOptimizePushLockList: the blocks.                                     *)
LEMMA OptimizeBlocks ==
    ASSUME NEW q, NEW pos, NEW lo, NEW hi, NEW m, Queue(q, pos, lo, hi, m),
           NEW t, NEW k, Saw(q, lo, hi, m, k, t),
           blk' = [Linked(Wk(t).ptr) EXCEPT ![Wk(t).ptr].last = LastOf(Wk(t).ptr)]
    PROVE  /\ blk' \in [Threads -> WaitBlock]
           /\ \A u \in Threads : SameButLinks(blk'[u], blk[u])
           /\ \A u \in Threads : \A i \in lo[u] .. hi[u] : blk'[q[i]].prev = blk[q[i]].prev
           /\ \A i \in lo[NoBlock] .. hi[NoBlock] :
                /\ blk'[q[i]].next = blk[q[i]].next /\ blk'[q[i]].exclusive = blk[q[i]].exclusive
                /\ blk'[q[i]].prev = IF i \in m .. k - 1 THEN q[i + 1] ELSE blk[q[i]].prev
                /\ blk'[q[i]].last = IF i = k THEN q[lo[NoBlock]] ELSE blk[q[i]].last
<1>1. PICK B : B = Linked(Wk(t).ptr)
  OBVIOUS
<1>2. /\ lo[NoBlock] \in Int /\ hi[NoBlock] \in Int /\ m \in Int /\ NoBlock \in Blocks
      /\ Threads \subseteq Blocks
  BY RowFacts DEF Blocks
<1>3. \A x \in Blocks : \A i \in lo[x] .. hi[x] : q[i] \in Threads /\ pos[q[i]] = i
  BY RowFacts
<1>4. /\ k \in Int /\ m <= k /\ k <= hi[NoBlock] /\ m \in lo[NoBlock] .. hi[NoBlock]
      /\ Wk(t).ptr = q[k] /\ LastOf(Wk(t).ptr) = q[lo[NoBlock]]
  BY DEF Saw
<1>5. /\ B \in [Threads -> WaitBlock]
      /\ \A u \in Threads : SameButPrev(B[u], blk[u])
  BY <1>1 DEF Saw
<1>6. /\ \A i \in lo[NoBlock] .. hi[NoBlock] :
            B[q[i]].prev = IF i \in m .. k - 1 THEN q[i + 1] ELSE blk[q[i]].prev
      /\ \A u \in Threads : \A i \in lo[u] .. hi[u] : B[q[i]].prev = blk[q[i]].prev
  BY <1>1 DEF Saw
<1>7. k \in lo[NoBlock] .. hi[NoBlock] /\ lo[NoBlock] \in lo[NoBlock] .. hi[NoBlock]
  BY <1>2, <1>4
<1>8. q[k] \in Threads /\ pos[q[k]] = k /\ q[lo[NoBlock]] \in Threads
  BY <1>2, <1>3, <1>7
<1>9. PICK z \in Blocks : z = q[lo[NoBlock]]
  BY <1>2, <1>8
<1>10. blk' = [B EXCEPT ![q[k]].last = z]
  BY <1>1, <1>4, <1>9
<1>11. B[q[k]] \in WaitBlock
  BY <1>5, <1>8
<1> DEFINE c == [B[q[k]] EXCEPT !.last = z]
<1>12. /\ c \in WaitBlock /\ c.last = z /\ c.prev = B[q[k]].prev /\ c.next = B[q[k]].next
       /\ SameButLinks(c, B[q[k]])
  BY <1>11 DEF WaitBlock, SameButLinks
<1>13. blk' = [B EXCEPT ![q[k]] = c]
  BY <1>10
<1> HIDE DEF c
<1>14. /\ blk' \in [Threads -> WaitBlock] /\ blk'[q[k]] = c
       /\ \A u \in Threads : u # q[k] => blk'[u] = B[u]
  BY <1>5, <1>8, <1>12, <1>13
<1>15. ASSUME NEW u \in Threads
       PROVE  /\ SameButLinks(blk'[u], blk[u]) /\ blk'[u].next = blk[u].next
              /\ blk'[u].exclusive = blk[u].exclusive /\ blk'[u].prev = B[u].prev
              /\ blk'[u].last = IF u = q[k] THEN z ELSE blk[u].last
  <2>1. SameButPrev(B[u], blk[u])
    BY <1>5
  <2>2. CASE u = q[k]
    <3>1. blk'[u] = c
      BY <2>2, <1>14
    <3>2. c.last = z /\ c.prev = B[u].prev /\ c.next = B[u].next /\ SameButLinks(c, B[u])
      BY <2>2, <1>12
    <3>3. SameButLinks(c, blk[u]) /\ c.next = blk[u].next /\ c.exclusive = blk[u].exclusive
      BY <2>1, <3>2 DEF SameButPrev, SameButLinks
    <3>4. SameButLinks(blk'[u], blk[u])
      BY <3>1, <3>3
    <3>5. blk'[u].next = blk[u].next /\ blk'[u].exclusive = blk[u].exclusive
      BY <3>1, <3>3
    <3>6. blk'[u].prev = B[u].prev /\ blk'[u].last = z
      BY <3>1, <3>2
    <3> QED BY <2>2, <3>4, <3>5, <3>6
  <2>3. CASE u # q[k]
    BY <2>1, <2>3, <1>14 DEF SameButPrev, SameButLinks
  <2> QED BY <2>2, <2>3
<1>16. \A u \in Threads : \A i \in lo[u] .. hi[u] : blk'[q[i]].prev = blk[q[i]].prev
  BY <1>2, <1>3, <1>6, <1>15
<1>17. ASSUME NEW i \in lo[NoBlock] .. hi[NoBlock]
       PROVE  /\ blk'[q[i]].next = blk[q[i]].next /\ blk'[q[i]].exclusive = blk[q[i]].exclusive
              /\ blk'[q[i]].prev = IF i \in m .. k - 1 THEN q[i + 1] ELSE blk[q[i]].prev
              /\ blk'[q[i]].last = IF i = k THEN q[lo[NoBlock]] ELSE blk[q[i]].last
  <2>1. q[i] \in Threads /\ pos[q[i]] = i
    BY <1>2, <1>3
  <2>2. q[i] = q[k] <=> i = k
    BY <2>1, <1>8
  <2> QED BY <2>1, <2>2, <1>6, <1>9, <1>15
<1> QED BY <1>14, <1>15, <1>16, <1>17

(* ExpOptimizePushLockList.                                                 *)
LEMMA OptimizeStep ==
    ASSUME NEW q, NEW pos, NEW lo, NEW hi, NEW m, Inv(q, pos, lo, hi, m),
           NEW t \in Threads, Optimize(t)
    PROVE  \E m2 \in Int : Inv(q, pos, lo, hi, m2)'
<1>1. /\ Types /\ word \in Word /\ pc[t] = "Optimize" /\ Working(t) /\ UNCHANGED <<gate, held>>
      /\ Queue(q, pos, lo, hi, m) /\ Holders(q[lo[NoBlock]])
      /\ blk' = [Linked(Wk(t).ptr) EXCEPT ![Wk(t).ptr].last = LastOf(Wk(t).ptr)]
      /\ Wk(t).locked /\ loc[t].ret = "WaitBit"
  BY DEF Optimize, Inv, Types, Working, Wakers, WakerOf
<1>2. PICK k \in Int : Saw(q, lo, hi, m, k, t)
  BY <1>1, WorkerSaw
<1>3. /\ blk' \in [Threads -> WaitBlock]
      /\ \A u \in Threads : SameButLinks(blk'[u], blk[u])
      /\ \A u \in Threads : \A i \in lo[u] .. hi[u] : blk'[q[i]].prev = blk[q[i]].prev
      /\ \A i \in lo[NoBlock] .. hi[NoBlock] :
           /\ blk'[q[i]].next = blk[q[i]].next /\ blk'[q[i]].exclusive = blk[q[i]].exclusive
           /\ blk'[q[i]].prev = IF i \in m .. k - 1 THEN q[i + 1] ELSE blk[q[i]].prev
           /\ blk'[q[i]].last = IF i = k THEN q[lo[NoBlock]] ELSE blk[q[i]].last
  BY <1>1, <1>2, OptimizeBlocks
<1>4. /\ word'.locked = word.locked /\ word'.waiting = word.waiting /\ word'.multi = word.multi
      /\ word'.shared = word.shared /\ word'.ptr = word.ptr /\ word' \in Word
      /\ pc' \in [Threads -> PCs] /\ loc' \in [Threads -> LocalVars] /\ Others(t)
      /\ GivesBack(t) \/ GoesOn(t)
  <2>1. CASE word = Wk(t)
    <3>1. word' = [word EXCEPT !.waking = FALSE] /\ Resume(t)
      BY <2>1 DEF Optimize
    <3>2. /\ word' \in Word /\ ~word'.waking /\ word'.locked = word.locked
          /\ word'.waiting = word.waiting /\ word'.multi = word.multi
          /\ word'.shared = word.shared /\ word'.ptr = word.ptr
      BY <1>1, <3>1, WakingCleared
    <3>3. /\ pc' \in [Threads -> PCs] /\ loc' \in [Threads -> LocalVars]
          /\ pc'[t] = (IF loc[t].ret = "Idle" THEN "Idle" ELSE "WaitBit") /\ Others(t)
      BY <1>1, <3>1, ResumeStep
    <3>4. GivesBack(t)
      BY <1>1, <2>1, <3>2, <3>3 DEF GivesBack
    <3> QED BY <3>2, <3>3, <3>4
  <2>2. CASE word # Wk(t)
    <3>1. PICK l \in PCs : l = IF word.locked THEN "Optimize" ELSE "Wake"
      BY DEF PCs
    <3>2. Goto(t, l, [loc[t] EXCEPT !.wk = word]) /\ word' = word
      BY <2>2, <3>1 DEF Optimize
    <3>3. /\ pc' \in [Threads -> PCs] /\ loc' \in [Threads -> LocalVars]
          /\ pc'[t] = l /\ loc'[t].wk = word /\ loc'[t].ret = loc[t].ret /\ Others(t)
      BY <1>1, <3>2, WorkerReads
    <3>4. ~word.locked => ~word.multi
      BY <1>1 DEF Holders, Shape
    <3>5. GoesOn(t)
      BY <1>1, <3>1, <3>2, <3>3, <3>4 DEF GoesOn, Working
    <3> QED BY <1>1, <3>2, <3>3, <3>5
  <2> QED BY <2>1, <2>2
<1>5. Types'
  BY <1>1, <1>3, <1>4 DEF Types
<1>6. Links(q, lo[NoBlock], hi[NoBlock], k)'
  BY <1>1, <1>2, <1>3, <1>4, LinksMore
<1>7. Inv(q, pos, lo, hi, k)'
  BY <1>1, <1>3, <1>4, <1>5, <1>6, WorkerStep
<1> QED BY <1>7

(* The word is read again by ExfWakePushLock.                               *)
LEMMA WakeAgainStep ==
    ASSUME NEW q, NEW pos, NEW lo, NEW hi, NEW m, Inv(q, pos, lo, hi, m),
           NEW t \in Threads, pc[t] = "Wake", WakeAgain(t)
    PROVE  /\ word' = word /\ pc' \in [Threads -> PCs] /\ loc' \in [Threads -> LocalVars]
           /\ Others(t) /\ GoesOn(t)
<1>1. /\ Types /\ "Wake" \in PCs /\ Goto(t, "Wake", [loc[t] EXCEPT !.wk = word]) /\ word' = word
      /\ ~word.multi
  BY DEF Inv, PCs, WakeAgain, Wakers, WakerOf
<1>2. /\ pc' \in [Threads -> PCs] /\ loc' \in [Threads -> LocalVars]
      /\ pc'[t] = "Wake" /\ loc'[t].wk = word /\ loc'[t].ret = loc[t].ret /\ Others(t)
  BY <1>1, WorkerReads
<1>3. GoesOn(t)
  BY <1>1, <1>2 DEF GoesOn, Working
<1> QED BY <1>1, <1>2, <1>3

(* ExfWakePushLock finds the lock held.                                     *)
LEMMA WakeLockedStep ==
    ASSUME NEW q, NEW pos, NEW lo, NEW hi, NEW m, Inv(q, pos, lo, hi, m),
           NEW t \in Threads, WakeLocked(t)
    PROVE  Inv(q, pos, lo, hi, m)'
<1>1. /\ Types /\ word \in Word /\ pc[t] = "Wake" /\ Working(t) /\ UNCHANGED <<blk, gate, held>>
      /\ Queue(q, pos, lo, hi, m) /\ Wk(t).locked /\ m \in Int
      /\ blk \in [Threads -> WaitBlock]
  BY RowFacts DEF WakeLocked, Inv, Types, Working
<1>2. /\ word'.locked = word.locked /\ word'.waiting = word.waiting /\ word'.multi = word.multi
      /\ word'.shared = word.shared /\ word'.ptr = word.ptr /\ word' \in Word
      /\ pc' \in [Threads -> PCs] /\ loc' \in [Threads -> LocalVars] /\ Others(t)
      /\ GivesBack(t) \/ GoesOn(t)
  <2>1. CASE word = Wk(t)
    <3>1. word' = [word EXCEPT !.waking = FALSE] /\ Resume(t)
      BY <2>1 DEF WakeLocked
    <3>2. /\ word' \in Word /\ ~word'.waking /\ word'.locked = word.locked
          /\ word'.waiting = word.waiting /\ word'.multi = word.multi
          /\ word'.shared = word.shared /\ word'.ptr = word.ptr
      BY <1>1, <3>1, WakingCleared
    <3>3. /\ pc' \in [Threads -> PCs] /\ loc' \in [Threads -> LocalVars]
          /\ pc'[t] = (IF loc[t].ret = "Idle" THEN "Idle" ELSE "WaitBit") /\ Others(t)
      BY <1>1, <3>1, ResumeStep
    <3>4. GivesBack(t)
      BY <1>1, <2>1, <3>2, <3>3 DEF GivesBack
    <3> QED BY <3>2, <3>3, <3>4
  <2>2. CASE word # Wk(t)
    <3>1. WakeAgain(t)
      BY <2>2 DEF WakeLocked
    <3>2. /\ word' = word /\ pc' \in [Threads -> PCs] /\ loc' \in [Threads -> LocalVars]
          /\ Others(t) /\ GoesOn(t)
      BY <1>1, <3>1, WakeAgainStep
    <3> QED BY <1>1, <3>2
  <2> QED BY <2>1, <2>2
<1>3. Types'
  BY <1>1, <1>2 DEF Types
<1>4. Links(q, lo[NoBlock], hi[NoBlock], m)'
  <2>1. Links(q, lo[NoBlock], hi[NoBlock], m)
    BY <1>1 DEF Queue
  <2> QED BY <2>1, <1>1, <1>2 DEF Links, LinkOf
<1>5. /\ \A u \in Threads : SameButLinks(blk'[u], blk[u])
      /\ \A u \in Threads : \A i \in lo[u] .. hi[u] : blk'[q[i]].prev = blk[q[i]].prev
  BY <1>1 DEF SameButLinks
<1> QED BY <1>1, <1>2, <1>3, <1>4, <1>5, WorkerStep

-----------------------------------------------------------------------------
(***************************************************************************)
(* The last waiters, up to seat e, are taken off the list to be signalled. *)
(***************************************************************************)
Detached(lo, hi, lo2, hi2, t, e) ==
    /\ lo2 \in [Blocks -> Int] /\ hi2 \in [Blocks -> Int]
    /\ lo2[t] = lo[NoBlock] /\ hi2[t] = e /\ lo2[NoBlock] = e + 1 /\ hi2[NoBlock] = hi[NoBlock]
    /\ \A u \in Threads : u # t => lo2[u] = lo[u] /\ hi2[u] = hi[u]

(* The row can be cut there.                                                *)
LEMMA DetachedExists ==
    ASSUME NEW lo \in [Blocks -> Int], NEW hi \in [Blocks -> Int], NEW t \in Threads, NEW e \in Int
    PROVE  \E lo2 \in [Blocks -> Int], hi2 \in [Blocks -> Int] : Detached(lo, hi, lo2, hi2, t, e)
<1>1. NoBlock \in Blocks /\ t \in Blocks /\ t # NoBlock /\ e + 1 \in Int
      /\ \A u \in Threads : u \in Blocks /\ u # NoBlock
  BY DEF Blocks
<1>2. PICK lo2 : lo2 = [lo EXCEPT ![t] = lo[NoBlock], ![NoBlock] = e + 1]
  OBVIOUS
<1>3. PICK hi2 : hi2 = [hi EXCEPT ![t] = e]
  OBVIOUS
<1>4. /\ lo2 \in [Blocks -> Int] /\ lo2[t] = lo[NoBlock] /\ lo2[NoBlock] = e + 1
      /\ \A u \in Threads : u # t => lo2[u] = lo[u]
  BY <1>1, <1>2
<1>5. /\ hi2 \in [Blocks -> Int] /\ hi2[t] = e /\ hi2[NoBlock] = hi[NoBlock]
      /\ \A u \in Threads : u # t => hi2[u] = hi[u]
  BY <1>1, <1>3
<1> QED BY <1>4, <1>5 DEF Detached

(* The seats are the same ones.                                             *)
LEMMA DetachSeats ==
    ASSUME NEW q, NEW pos, NEW lo, NEW hi, NEW m, Queue(q, pos, lo, hi, m),
           NEW t \in Threads, pc[t] = "Wake", NEW e \in lo[NoBlock] .. hi[NoBlock],
           NEW lo2, NEW hi2, Detached(lo, hi, lo2, hi2, t, e)
    PROVE  /\ Seats(q, pos, lo2, hi2)
           /\ \A x \in Blocks : \A i \in lo2[x] .. hi2[x] :
                 \E y \in Blocks : i \in lo[y] .. hi[y]
           /\ \A x \in Blocks : \A i \in lo[x] .. hi[x] :
                 \E y \in Blocks : i \in lo2[y] .. hi2[y]
<1> DEFINE L == lo[NoBlock]
           H == hi[NoBlock]
<1>1. /\ L \in Int /\ H \in Int /\ NoBlock \in Blocks /\ L <= H + 1
      /\ \A u \in Threads : /\ u \in Blocks /\ u # NoBlock /\ lo[u] \in Int /\ hi[u] \in Int
                            /\ hi[u] < L
  BY RowFacts
<1>2. e \in Int /\ L <= e /\ e <= H
  BY <1>1
<1>3. hi[t] < lo[t]
  BY DEF Queue, SignalOf
<1>4. /\ lo2[t] = L /\ hi2[t] = e /\ lo2[NoBlock] = e + 1 /\ hi2[NoBlock] = H
      /\ \A u \in Threads : u # t => lo2[u] = lo[u] /\ hi2[u] = hi[u]
  BY DEF Detached
<1>5. /\ \A x \in Blocks : \A i \in lo[x] .. hi[x] : q[i] \in Threads /\ pos[q[i]] = i
      /\ \A u, v \in Threads : u # v => \A i \in lo[u] .. hi[u] : i \notin lo[v] .. hi[v]
  BY DEF Queue, Seats
<1>6. L = lo[NoBlock] /\ H = hi[NoBlock]
  OBVIOUS
<1> HIDE DEF L, H
<1>7. ASSUME NEW x \in Blocks, NEW i \in lo2[x] .. hi2[x]
      PROVE  \E y \in Blocks : i \in lo[y] .. hi[y]
  <2>1. CASE x = NoBlock
    <3>1. i \in L .. H
      BY <2>1, <1>1, <1>2, <1>4
    <3> QED BY <3>1, <1>1, <1>6
  <2>2. CASE x = t
    <3>1. i \in L .. H
      BY <2>2, <1>1, <1>2, <1>4
    <3> QED BY <3>1, <1>1, <1>6
  <2>3. CASE x \in Threads /\ x # t
    BY <2>3, <1>4
  <2> QED BY <2>1, <2>2, <2>3 DEF Blocks
<1>8. ASSUME NEW x \in Blocks, NEW i \in lo[x] .. hi[x]
      PROVE  \E y \in Blocks : i \in lo2[y] .. hi2[y]
  <2>1. CASE x = NoBlock
    <3>1. i \in L .. H
      BY <2>1, <1>6
    <3>2. i \in lo2[t] .. hi2[t] \/ i \in lo2[NoBlock] .. hi2[NoBlock]
      BY <3>1, <1>1, <1>2, <1>4
    <3> QED BY <3>2, <1>1
  <2>2. CASE x = t
    <3>1. lo[t] \in Int /\ hi[t] \in Int /\ i \in lo[t] .. hi[t]
      BY <2>2, <1>1
    <3> QED BY <3>1, <1>3
  <2>3. CASE x \in Threads /\ x # t
    BY <2>3, <1>4
  <2> QED BY <2>1, <2>2, <2>3 DEF Blocks
<1>9. \A x \in Blocks : \A i \in lo2[x] .. hi2[x] : q[i] \in Threads /\ pos[q[i]] = i
  BY <1>5, <1>7
<1>10. ASSUME NEW u \in Threads PROVE hi2[u] < lo2[NoBlock]
  <2>1. CASE u = t
    BY <2>1, <1>2, <1>4
  <2>2. CASE u # t
    <3>1. hi2[u] = hi[u] /\ hi[u] \in Int /\ hi[u] < L
      BY <2>2, <1>1, <1>4
    <3> QED BY <3>1, <1>1, <1>2, <1>4
  <2> QED BY <2>1, <2>2
<1>11. ASSUME NEW v \in Threads, v # t PROVE \A i \in L .. e : i \notin lo2[v] .. hi2[v]
  <2>1. lo2[v] = lo[v] /\ hi2[v] = hi[v] /\ hi[v] \in Int /\ lo[v] \in Int /\ hi[v] < L
    BY <1>1, <1>4, <1>11
  <2> QED BY <2>1, <1>1, <1>2
<1>12. ASSUME NEW u \in Threads, NEW v \in Threads, u # v, NEW i \in lo2[u] .. hi2[u]
       PROVE  i \notin lo2[v] .. hi2[v]
  <2>1. CASE u = t
    BY <2>1, <1>4, <1>11, <1>12
  <2>2. CASE v = t
    BY <2>2, <1>4, <1>11, <1>12
  <2>3. CASE u # t /\ v # t
    BY <2>3, <1>4, <1>5, <1>12
  <2> QED BY <2>1, <2>2, <2>3
<1>13. lo2[NoBlock] <= hi2[NoBlock] + 1
  BY <1>1, <1>2, <1>4
<1>14. Seats(q, pos, lo2, hi2)
  BY <1>9, <1>10, <1>12, <1>13 DEF Seats
<1> QED BY <1>7, <1>8, <1>14

(* The row after that.                                                      *)
LEMMA DetachQueue ==
    ASSUME NEW q, NEW pos, NEW lo, NEW hi, NEW m, Queue(q, pos, lo, hi, m),
           NEW t \in Threads, pc[t] = "Wake", NEW e \in lo[NoBlock] .. hi[NoBlock],
           NEW lo2, NEW hi2, Detached(lo, hi, lo2, hi2, t, e),
           Others(t), pc'[t] = "Signal", loc'[t].ret = loc[t].ret,
           loc'[t].cur = q[lo[NoBlock]], gate' = gate,
           NEW m2 \in Int, Links(q, lo2[NoBlock], hi2[NoBlock], m2)',
           \A u \in Threads : SameButLinks(blk'[u], blk[u]),
           \A u \in Threads : \A i \in lo[u] .. hi[u] : blk'[q[i]].prev = blk[q[i]].prev,
           \A i \in lo[NoBlock] .. e : blk'[q[i]].prev = IF i = e THEN NoBlock ELSE q[i + 1]
    PROVE  Queue(q, pos, lo2, hi2, m2)'
<1>1. /\ Seats(q, pos, lo2, hi2)
      /\ \A x \in Blocks : \A i \in lo2[x] .. hi2[x] : \E y \in Blocks : i \in lo[y] .. hi[y]
      /\ \A x \in Blocks : \A i \in lo[x] .. hi[x] : \E y \in Blocks : i \in lo2[y] .. hi2[y]
  BY DetachSeats
<1>2. Ghosts(q, pos, lo2, hi2, m2)
  BY DEF Queue, Ghosts, Detached
<1>3. /\ lo2[t] = lo[NoBlock] /\ hi2[t] = e
      /\ \A u \in Threads : u # t => lo2[u] = lo[u] /\ hi2[u] = hi[u]
  BY DEF Detached
<1>4. Chains(q, lo2, hi2)'
  <2> SUFFICES ASSUME NEW u \in Threads, NEW i \in lo2[u] .. hi2[u]
               PROVE  blk'[q[i]].prev = IF i = hi2[u] THEN NoBlock ELSE q[i + 1]
    BY DEF Chains
  <2>1. CASE u = t
    BY <2>1, <1>3
  <2>2. CASE u # t
    <3>1. i \in lo[u] .. hi[u] /\ hi2[u] = hi[u]
      BY <2>2, <1>3
    <3>2. blk[q[i]].prev = IF i = hi[u] THEN NoBlock ELSE q[i + 1]
      BY <3>1 DEF Queue, Chains
    <3> QED BY <3>1, <3>2
  <2> QED BY <2>1, <2>2
<1>5. \A u \in Threads : /\ Alive(u)' <=> Alive(u)
                         /\ pc'[u] = "Gate" <=> pc[u] = "Gate"
                         /\ blk'[u].wait = blk[u].wait /\ blk'[u].signaled = blk[u].signaled
                         /\ gate'[u] = gate[u]
                         /\ pc'[u] = "SignalGate" <=> pc[u] = "SignalGate"
                         /\ u # t => pc'[u] = pc[u] /\ loc'[u] = loc[u]
  BY DEF Others, Alive, SameButLinks
<1>6. \A u \in Threads : InWait(u) => InWait(u)'
  BY <1>5 DEF InWait
<1>7. Seated(q, lo2, hi2)'
  <2> SUFFICES ASSUME NEW x \in Blocks, NEW i \in lo2[x] .. hi2[x] PROVE InWait(q[i])'
    BY DEF Seated
  <2>1. PICK y \in Blocks : i \in lo[y] .. hi[y]
    BY <1>1
  <2>2. q[i] \in Threads /\ InWait(q[i])
    BY <2>1, RowFacts
  <2> QED BY <2>2, <1>6
<1>8. \A u \in Threads : \A b : Signalling(u, b)' <=> Signalling(u, b)
  BY <1>5 DEF Signalling
<1>9. ASSUME NEW u \in Threads PROVE SignalOf(q, lo2, hi2, u)'
  <2>1. CASE u = t
    <3>1. lo[NoBlock] <= e
      BY RowFacts
    <3> QED BY <2>1, <3>1, <1>3 DEF SignalOf
  <2>2. CASE u # t
    <3>1. /\ SignalOf(q, lo, hi, u) /\ pc'[u] = pc[u] /\ loc'[u] = loc[u]
          /\ lo2[u] = lo[u] /\ hi2[u] = hi[u]
      BY <2>2, <1>3, <1>5 DEF Queue
    <3>2. CASE pc[u] = "SignalGate"
      <4>1. /\ loc[u].cur \in Threads /\ pc[loc[u].cur] = "Gate" /\ ~gate[loc[u].cur]
            /\ blk[loc[u].cur].signaled
            /\ \A v \in Threads : Signalling(v, loc[u].cur) => v = u
            /\ loc[u].nxt = IF lo[u] <= hi[u] THEN q[lo[u]] ELSE NoBlock
        BY <3>1, <3>2 DEF SignalOf
      <4>2. pc'[loc[u].cur] = "Gate" /\ ~gate'[loc[u].cur] /\ blk'[loc[u].cur].signaled
        BY <4>1, <1>5
      <4>3. \A v \in Threads : Signalling(v, loc[u].cur)' => v = u
        BY <4>1, <3>1, <3>2, <1>5 DEF Signalling
      <4> QED BY <3>1, <3>2, <4>1, <4>2, <4>3 DEF SignalOf
    <3>3. CASE pc[u] # "SignalGate"
      BY <3>1, <3>3 DEF SignalOf
    <3> QED BY <3>2, <3>3
  <2> QED BY <2>1, <2>2
<1>10. ASSUME NEW u \in Threads PROVE WaiterOf(q, lo2, hi2, u)'
  <2>1. WaiterOf(q, lo, hi, u)
    BY DEF Queue
  <2>2. HasSeat(q, lo, hi, u) => HasSeat(q, lo2, hi2, u)'
    BY <1>1 DEF HasSeat
  <2>3. \A v \in Threads : Signalling(v, u) => Signalling(v, u)'
    BY <1>5 DEF Signalling
  <2> QED BY <2>1, <2>2, <2>3, <1>5 DEF WaiterOf
<1> QED BY <1>1, <1>2, <1>4, <1>7, <1>9, <1>10 DEF Queue, Ghosts, Seats

(* The holders, when nobody counts shares in a block.                       *)
LEMMA HoldersOther ==
    ASSUME NEW b, NEW d, Holders(b)', ~word'.multi
    PROVE  Holders(d)'
<1>1. Counts(d)'
  BY DEF Holders, Counts
<1>2. Finish(d)'
  BY DEF Holders, Finish
<1> QED BY <1>1, <1>2 DEF Holders

(* The step, when the parts about the word are shown.                       *)
LEMMA DetachStep ==
    ASSUME NEW q, NEW pos, NEW lo, NEW hi, NEW m, Inv(q, pos, lo, hi, m),
           NEW t \in Threads, pc[t] = "Wake", NEW e \in lo[NoBlock] .. hi[NoBlock],
           NEW lo2, NEW hi2, Detached(lo, hi, lo2, hi2, t, e),
           Types', Others(t), pc'[t] = "Signal", loc'[t].ret = loc[t].ret,
           loc'[t].cur = q[lo[NoBlock]], UNCHANGED <<gate, held>>,
           NEW m2 \in Int, Links(q, lo2[NoBlock], hi2[NoBlock], m2)',
           \A u \in Threads : SameButLinks(blk'[u], blk[u]),
           \A u \in Threads : \A i \in lo[u] .. hi[u] : blk'[q[i]].prev = blk[q[i]].prev,
           \A i \in lo[NoBlock] .. e : blk'[q[i]].prev = IF i = e THEN NoBlock ELSE q[i + 1],
           ~word'.waking, Holders(q[lo2[NoBlock]])'
    PROVE  Inv(q, pos, lo2, hi2, m2)'
<1>1. /\ Queue(q, pos, lo, hi, m) /\ Calling /\ Kept(t) /\ Working(t) /\ held[t] = "no"
      /\ ~word.multi /\ gate' = gate
      /\ Releasers(q, lo[NoBlock], hi[NoBlock])
  BY DEF Inv, Kept, Calling, CallOf, Entering, Working, Wakers, WakerOf
<1>2. Queue(q, pos, lo2, hi2, m2)'
  BY <1>1, DetachQueue
<1>3. Wakers(q, hi2[NoBlock], m2)'
  <2>1. \A u \in Threads : ~Working(u)'
    BY <1>1, WorkerAlone DEF Working, Others
  <2> QED BY <2>1 DEF Wakers, WakerOf, Working
<1>4. Promise'
  BY DEF Promise, Active
<1>5. CallOf(t)'
  BY <1>1 DEF CallOf, Entering, Unlocking
<1>6. Calling'
  BY <1>1, <1>5, CallingFrame
<1>7. Releasers(q, lo2[NoBlock], hi2[NoBlock])'
  <2>1. \A u \in Threads : ~Counting(u)
    BY <1>1 DEF Releasers, ReleaserOf
  <2>2. \A u \in Threads : ~Counting(u)'
    BY <2>1 DEF Counting, Others, Old
  <2> QED BY <2>2 DEF Releasers, ReleaserOf
<1> QED BY <1>2, <1>3, <1>4, <1>6, <1>7 DEF Inv

(* The signalling loop begins.                                              *)
LEMMA SignalFromStep ==
    ASSUME Types, NEW t \in Threads, NEW b \in Blocks, SignalFrom(t, b)
    PROVE  /\ pc' \in [Threads -> PCs] /\ loc' \in [Threads -> LocalVars]
           /\ pc'[t] = "Signal" /\ loc'[t].cur = b /\ loc'[t].ret = loc[t].ret /\ Others(t)
<1>1. loc[t] \in LocalVars /\ "Signal" \in PCs
  BY DEF Types, PCs
<1> DEFINE r == [loc[t] EXCEPT !.wk = Free, !.cur = b]
<1>2. r \in LocalVars /\ r.cur = b /\ r.ret = loc[t].ret
  BY <1>1, FreeFields DEF LocalVars
<1>3. Goto(t, "Signal", r)
  BY DEF SignalFrom
<1> HIDE DEF r
<1> QED BY <1>1, <1>2, <1>3, GotoStep

(* ExfWakePushLock wakes everyone, or lost the race for the word.           *)
LEMMA WakeAllStep ==
    ASSUME NEW q, NEW pos, NEW lo, NEW hi, NEW m, Inv(q, pos, lo, hi, m),
           NEW t \in Threads, WakeAll(t)
    PROVE  IInv'
<1> DEFINE L == lo[NoBlock]
           H == hi[NoBlock]
<1>1. /\ Types /\ word \in Word /\ pc[t] = "Wake" /\ Working(t) /\ UNCHANGED <<gate, held>>
      /\ Queue(q, pos, lo, hi, m) /\ Holders(q[L]) /\ blk' = Linked(Wk(t).ptr)
      /\ ~Wk(t).locked /\ ~word.multi
      /\ q \in [Int -> Blocks] /\ pos \in [Threads -> Int] /\ lo \in [Blocks -> Int]
      /\ hi \in [Blocks -> Int] /\ m \in Int
  BY DEF WakeAll, Inv, Types, Working, Wakers, WakerOf, Queue, Ghosts
<1>2. PICK k \in Int : Saw(q, lo, hi, m, k, t)
  BY <1>1, WorkerSaw
<1>3. /\ blk' \in [Threads -> WaitBlock]
      /\ \A u \in Threads : SameButPrev(blk'[u], blk[u])
      /\ \A i \in L .. H : blk'[q[i]].prev = IF i \in m .. k - 1 THEN q[i + 1] ELSE blk[q[i]].prev
      /\ \A u \in Threads : \A i \in lo[u] .. hi[u] : blk'[q[i]].prev = blk[q[i]].prev
  BY <1>1, <1>2 DEF Saw
<1>4. \A u \in Threads : SameButLinks(blk'[u], blk[u])
  BY <1>3 DEF SameButPrev, SameButLinks
<1>5. /\ L \in Int /\ H \in Int /\ NoBlock \in Blocks /\ Links(q, L, H, m)
      /\ \A i \in L .. H : q[i] \in Threads /\ pos[q[i]] = i
  BY <1>1, RowFacts DEF Queue
<1>6. /\ m <= k /\ k <= H /\ m \in L .. H /\ word.waiting /\ Wk(t).ptr = q[k]
      /\ LastOf(Wk(t).ptr) = q[L] /\ blk[q[k]].prev = NoBlock
  BY <1>2 DEF Saw
<1>7. L \in L .. H /\ H \in L .. H /\ k \in L .. H
  BY <1>5, <1>6
<1>8. CASE word # Wk(t)
  <2>1. WakeAgain(t)
    BY <1>8 DEF WakeAll
  <2>2. /\ word' = word /\ pc' \in [Threads -> PCs] /\ loc' \in [Threads -> LocalVars]
        /\ Others(t) /\ GoesOn(t)
    BY <1>1, <2>1, WakeAgainStep
  <2>3. Types'
    BY <1>1, <1>3, <2>2 DEF Types
  <2>4. blk[q[m]].last = q[L]
    BY <1>5, <1>6 DEF Links
  <2>5. \A i \in L .. H :
           /\ blk'[q[i]].next = blk[q[i]].next /\ blk'[q[i]].exclusive = blk[q[i]].exclusive
           /\ blk'[q[i]].prev = IF i \in m .. k - 1 THEN q[i + 1] ELSE blk[q[i]].prev
           /\ blk'[q[i]].last = IF i = m THEN q[L] ELSE blk[q[i]].last
    BY <1>3, <1>5, <2>4 DEF SameButPrev
  <2>6. word'.waiting = word.waiting /\ word'.ptr = word.ptr /\ word'.multi = word.multi
        /\ word'.locked = word.locked /\ word'.shared = word.shared
    BY <2>2
  <2>7. m \in {m, k}
    OBVIOUS
  <2>8. Links(q, L, H, m)'
    BY <1>1, <1>2, <2>5, <2>6, <2>7, LinksMore
  <2>9. Inv(q, pos, lo, hi, m)'
    BY <1>1, <1>3, <1>4, <2>2, <2>3, <2>6, <2>8, WorkerStep
  <2> QED BY <1>1, <2>9 DEF IInv
<1>9. CASE word = Wk(t)
  <2>1. word' = Free /\ SignalFrom(t, q[L]) /\ q[L] \in Blocks
    BY <1>5, <1>6, <1>7, <1>9 DEF WakeAll, Blocks
  <2>2. /\ word' \in Word /\ ~word'.locked /\ ~word'.waiting /\ ~word'.waking /\ ~word'.multi
        /\ word'.shared = 0 /\ word'.ptr = NoBlock
    BY <2>1, FreeFields
  <2>3. /\ pc' \in [Threads -> PCs] /\ loc' \in [Threads -> LocalVars]
        /\ pc'[t] = "Signal" /\ loc'[t].cur = q[L] /\ loc'[t].ret = loc[t].ret /\ Others(t)
    BY <1>1, <2>1, SignalFromStep
  <2>4. Types'
    BY <1>1, <1>3, <2>2, <2>3 DEF Types
  <2>5. PICK lo2 \in [Blocks -> Int], hi2 \in [Blocks -> Int] : Detached(lo, hi, lo2, hi2, t, H)
    BY <1>1, <1>5, DetachedExists
  <2>6. lo2[NoBlock] = H + 1 /\ hi2[NoBlock] = H
    BY <2>5 DEF Detached
  <2>7. k = H
    <3>1. word.ptr = q[H]
      BY <1>5, <1>6 DEF Links
    <3>2. q[k] = q[H]
      BY <3>1, <1>6, <1>9
    <3> QED BY <3>2, <1>5, <1>7
  <2>8. ASSUME NEW i \in L .. H PROVE blk'[q[i]].prev = IF i = H THEN NoBlock ELSE q[i + 1]
    <3>1. LinkOf(q, L, H, m, i) /\ i \in Int
      BY <1>5 DEF Links
    <3>2. blk'[q[i]].prev = IF i \in m .. k - 1 THEN q[i + 1] ELSE blk[q[i]].prev
      BY <1>3
    <3>3. CASE i = H
      <4>1. i \notin m .. k - 1
        BY <3>3, <2>7, <1>5, <1>1
      <4> QED BY <3>2, <3>3, <4>1, <2>7, <1>6
    <3>4. CASE i \in m .. k - 1
      <4>1. i # H
        BY <3>4, <2>7, <1>5, <1>1
      <4> QED BY <3>2, <3>4, <4>1
    <3>5. CASE i # H /\ i \notin m .. k - 1
      <4>1. i < m
        BY <3>5, <3>1, <2>7, <1>5, <1>1
      <4>2. blk[q[i]].prev = q[i + 1]
        BY <3>1, <4>1 DEF LinkOf
      <4> QED BY <3>2, <3>5, <4>2
    <3> QED BY <3>3, <3>4, <3>5
  <2>9. Links(q, lo2[NoBlock], hi2[NoBlock], m)'
    <3>1. ~(lo2[NoBlock] <= hi2[NoBlock]) /\ lo2[NoBlock] .. hi2[NoBlock] = {}
      BY <2>6, <1>5
    <3> QED BY <3>1, <2>2 DEF Links
  <2>10. Holders(q[lo2[NoBlock]])'
    <3>1. ~word.locked
      BY <1>1, <1>9
    <3>2. /\ \A u \in Threads : held[u] = "no" /\ ~(blk[u].share > 0) /\ ~Finisher(u)
      BY <1>1, <3>1 DEF Holders, Counts, Finish
    <3>3. /\ \A u \in Threads : held'[u] = "no" /\ ~(blk'[u].share > 0)
      BY <1>1, <1>3, <3>2 DEF SameButPrev
    <3>4. \A u \in Threads : ~Finisher(u)'
      BY <1>1, <2>3, <3>2 DEF Finisher, Unlocking, Others
    <3>5. PICK d : d = q[lo2[NoBlock]]
      OBVIOUS
    <3>6. Counts(d)' /\ Finish(d)' /\ Shape'
      BY <2>2, <3>3, <3>4 DEF Counts, Finish, Shape
    <3> QED BY <3>5, <3>6 DEF Holders
  <2>11. Inv(q, pos, lo2, hi2, m)'
    <3>1. PICK e \in L .. H : e = H
      BY <1>7
    <3>2. Detached(lo, hi, lo2, hi2, t, e)
      BY <2>5, <3>1
    <3>3. \A i \in L .. e : blk'[q[i]].prev = IF i = e THEN NoBlock ELSE q[i + 1]
      BY <2>8, <3>1
    <3>4. ~word'.waking /\ pc[t] = "Wake" /\ UNCHANGED <<gate, held>> /\ m \in Int
      BY <1>1, <2>2
    <3>5. \A u \in Threads : \A i \in lo[u] .. hi[u] : blk'[q[i]].prev = blk[q[i]].prev
      BY <1>3
    <3> QED BY <1>4, <2>3, <2>4, <2>9, <2>10, <3>2, <3>3, <3>4, <3>5, DetachStep
  <2> QED BY <1>1, <2>5, <2>11 DEF IInv
<1> QED BY <1>8, <1>9

(* The last waiter is woken alone: the list goes on behind it.              *)
LEMMA AloneFacts ==
    ASSUME NEW q, NEW pos, NEW lo, NEW hi, NEW m, Queue(q, pos, lo, hi, m),
           NEW t, NEW k, Saw(q, lo, hi, m, k, t),
           Linked(Wk(t).ptr)[q[lo[NoBlock]]].prev # NoBlock
    PROVE  /\ k > lo[NoBlock] /\ lo[NoBlock] + 1 <= hi[NoBlock]
           /\ Linked(Wk(t).ptr)[q[lo[NoBlock]]].prev = q[lo[NoBlock] + 1]
<1> DEFINE L == lo[NoBlock]
           H == hi[NoBlock]
           B == Linked(Wk(t).ptr)
<1>1. L \in Int /\ H \in Int /\ m \in Int
  BY RowFacts
<1>2. k \in Int /\ m <= k /\ k <= H /\ m \in L .. H /\ blk[q[k]].prev = NoBlock
  BY DEF Saw
<1>3. B[q[L]].prev # NoBlock
  OBVIOUS
<1>4. \A i \in L .. H : B[q[i]].prev = IF i \in m .. k - 1 THEN q[i + 1] ELSE blk[q[i]].prev
  BY DEF Saw
<1>5. Links(q, L, H, m)
  BY DEF Queue
<1> HIDE DEF L, H, B
<1>6. L \in L .. H
  BY <1>1, <1>2
<1>7. B[q[L]].prev = IF L \in m .. k - 1 THEN q[L + 1] ELSE blk[q[L]].prev
  BY <1>4, <1>6
<1>8. CASE L \in m .. k - 1
  <2>1. k > L /\ L + 1 <= H
    BY <1>8, <1>1, <1>2
  <2> QED BY <2>1, <1>7, <1>8 DEF L, H, B
<1>9. CASE L \notin m .. k - 1
  <2>1. blk[q[L]].prev # NoBlock /\ LinkOf(q, L, H, m, L)
    BY <1>3, <1>5, <1>6, <1>7, <1>9 DEF Links
  <2>2. L < H /\ blk[q[L]].prev = q[L + 1]
    BY <2>1 DEF LinkOf
  <2>3. k # L
    BY <2>1, <1>2
  <2>4. k > L /\ L + 1 <= H
    BY <2>2, <2>3, <1>1, <1>2
  <2> QED BY <2>2, <2>4, <1>7, <1>9 DEF L, H, B
<1> QED BY <1>8, <1>9

(* What the step does to the blocks.                                        *)
OneOff(t, f, l, z) == [Linked(Wk(t).ptr) EXCEPT ![f].last = z, ![l].prev = NoBlock]

(* The block l is off the list, and the block f knows the new last one, z.  *)
LEMMA WakeOneBlocks ==
    ASSUME NEW q, NEW pos, NEW lo, NEW hi, NEW m, Queue(q, pos, lo, hi, m),
           NEW t, NEW k, Saw(q, lo, hi, m, k, t), k > lo[NoBlock],
           NEW z \in Blocks,
           blk' = OneOff(t, q[k], q[lo[NoBlock]], z)
    PROVE  /\ blk' \in [Threads -> WaitBlock]
           /\ \A u \in Threads : SameButLinks(blk'[u], blk[u])
           /\ \A u \in Threads : \A i \in lo[u] .. hi[u] : blk'[q[i]].prev = blk[q[i]].prev
           /\ \A i \in lo[NoBlock] .. hi[NoBlock] :
                /\ blk'[q[i]].next = blk[q[i]].next
                /\ blk'[q[i]].prev = IF i = lo[NoBlock] THEN NoBlock
                                     ELSE IF i \in m .. k - 1 THEN q[i + 1] ELSE blk[q[i]].prev
                /\ blk'[q[i]].last = IF i = k THEN z ELSE blk[q[i]].last
<1>1. PICK B : B = Linked(Wk(t).ptr)
  OBVIOUS
<1> DEFINE L == lo[NoBlock]
<1>2. /\ L \in Int /\ hi[NoBlock] \in Int /\ m \in Int /\ NoBlock \in Blocks
      /\ Threads \subseteq Blocks
      /\ \A u \in Threads : lo[u] \in Int /\ hi[u] \in Int /\ hi[u] < L
  BY RowFacts DEF Blocks
<1>3. \A x \in Blocks : \A i \in lo[x] .. hi[x] : q[i] \in Threads /\ pos[q[i]] = i
  BY RowFacts
<1>4. k \in Int /\ m <= k /\ k <= hi[NoBlock] /\ m \in L .. hi[NoBlock]
  BY DEF Saw
<1>5. B \in [Threads -> WaitBlock] /\ \A u \in Threads : SameButPrev(B[u], blk[u])
  BY <1>1 DEF Saw
<1>6. /\ \A i \in L .. hi[NoBlock] :
            B[q[i]].prev = IF i \in m .. k - 1 THEN q[i + 1] ELSE blk[q[i]].prev
      /\ \A u \in Threads : \A i \in lo[u] .. hi[u] : B[q[i]].prev = blk[q[i]].prev
  BY <1>1 DEF Saw
<1>7. k \in L .. hi[NoBlock] /\ L \in L .. hi[NoBlock]
  BY <1>2, <1>4
<1>8. q[k] \in Threads /\ pos[q[k]] = k /\ q[L] \in Threads /\ pos[q[L]] = L
  BY <1>2, <1>3, <1>7
<1>9. q[k] # q[L] /\ k # L
  BY <1>2, <1>4, <1>8
<1>10. PICK f \in Threads : f = q[k]
  BY <1>8
<1>11. PICK l \in Threads : l = q[L]
  BY <1>8
<1>12. blk' = [B EXCEPT ![f].last = z, ![l].prev = NoBlock] /\ f # l
  BY <1>1, <1>9, <1>10, <1>11 DEF OneOff
<1> HIDE DEF L
<1>13. B[f] \in WaitBlock /\ B[l] \in WaitBlock
  BY <1>5
<1>14. PICK c : c = [B[f] EXCEPT !.last = z]
  OBVIOUS
<1>15. PICK d : d = [B[l] EXCEPT !.prev = NoBlock]
  OBVIOUS
<1>16. c \in WaitBlock /\ c.last = z /\ c.prev = B[f].prev /\ c.next = B[f].next
       /\ SameButLinks(c, B[f])
  BY <1>13, <1>14 DEF WaitBlock, SameButLinks
<1>17. d \in WaitBlock /\ d.prev = NoBlock /\ d.last = B[l].last /\ d.next = B[l].next
       /\ SameButLinks(d, B[l])
  BY <1>2, <1>13, <1>15 DEF WaitBlock, SameButLinks
<1>18. /\ blk' \in [Threads -> WaitBlock] /\ blk'[f] = c /\ blk'[l] = d
       /\ \A u \in Threads : u # f /\ u # l => blk'[u] = B[u]
  <2>1. blk' = [B EXCEPT ![f] = c, ![l] = d]
    BY <1>5, <1>12, <1>14, <1>15
  <2>2. PICK g : g = [B EXCEPT ![f] = c]
    OBVIOUS
  <2>3. /\ g \in [Threads -> WaitBlock] /\ g[f] = c /\ g[l] = B[l]
        /\ \A u \in Threads : u # f => g[u] = B[u]
    BY <2>2, <1>5, <1>12, <1>16
  <2>4. blk' = [g EXCEPT ![l] = d]
    BY <2>1, <2>2
  <2>5. blk' \in [Threads -> WaitBlock]
    BY <2>3, <2>4, <1>17
  <2>6. blk'[l] = d /\ \A u \in Threads : u # l => blk'[u] = g[u]
    BY <2>3, <2>4
  <2> QED BY <2>3, <2>5, <2>6, <1>12
<1>19. ASSUME NEW u \in Threads
       PROVE  /\ SameButLinks(blk'[u], blk[u]) /\ blk'[u].next = blk[u].next
              /\ blk'[u].prev = IF u = l THEN NoBlock ELSE B[u].prev
              /\ blk'[u].last = IF u = f THEN z ELSE blk[u].last
  <2>1. /\ B[u].next = blk[u].next /\ B[u].last = blk[u].last
        /\ \A x : SameButLinks(x, B[u]) => SameButLinks(x, blk[u])
        /\ SameButLinks(B[u], blk[u])
    BY <1>5 DEF SameButPrev, SameButLinks
  <2>2. PICK x : x = blk'[u]
    OBVIOUS
  <2>3. /\ SameButLinks(x, B[u]) /\ x.next = B[u].next
        /\ x.prev = IF u = l THEN NoBlock ELSE B[u].prev
        /\ x.last = IF u = f THEN z ELSE B[u].last
    <3>1. CASE u = f
      BY <2>2, <3>1, <1>12, <1>16, <1>18
    <3>2. CASE u = l
      BY <2>2, <3>2, <1>12, <1>17, <1>18
    <3>3. CASE u # f /\ u # l
      <4>1. x = B[u]
        BY <2>2, <3>3, <1>18
      <4> QED BY <3>3, <4>1 DEF SameButLinks
    <3> QED BY <3>1, <3>2, <3>3
  <2>4. SameButLinks(x, blk[u])
    BY <2>1, <2>3
  <2> QED BY <2>1, <2>2, <2>3, <2>4
<1>20. ASSUME NEW u \in Threads, NEW i \in lo[u] .. hi[u] PROVE blk'[q[i]].prev = blk[q[i]].prev
  <2>1. q[i] \in Threads /\ pos[q[i]] = i /\ i # L
    BY <1>2, <1>3
  <2>2. q[i] # l
    BY <2>1, <1>8, <1>11
  <2>3. blk'[q[i]].prev = B[q[i]].prev
    BY <2>1, <2>2, <1>19
  <2> QED BY <2>3, <1>6
<1>21. ASSUME NEW i \in L .. hi[NoBlock]
       PROVE  /\ blk'[q[i]].next = blk[q[i]].next
              /\ blk'[q[i]].prev = IF i = L THEN NoBlock
                                   ELSE IF i \in m .. k - 1 THEN q[i + 1] ELSE blk[q[i]].prev
              /\ blk'[q[i]].last = IF i = k THEN z ELSE blk[q[i]].last
  <2>1. q[i] \in Threads /\ pos[q[i]] = i
    BY <1>2, <1>3 DEF L
  <2>2. (q[i] = l <=> i = L) /\ (q[i] = f <=> i = k)
    BY <2>1, <1>8, <1>10, <1>11
  <2>3. B[q[i]].prev = IF i \in m .. k - 1 THEN q[i + 1] ELSE blk[q[i]].prev
    BY <1>6
  <2>4. /\ blk'[q[i]].next = blk[q[i]].next
        /\ blk'[q[i]].prev = IF q[i] = l THEN NoBlock ELSE B[q[i]].prev
        /\ blk'[q[i]].last = IF q[i] = f THEN z ELSE blk[q[i]].last
    BY <2>1, <1>19
  <2> QED BY <2>2, <2>3, <2>4
<1>22. \A u \in Threads : SameButLinks(blk'[u], blk[u])
  BY <1>19
<1> QED BY <1>18, <1>20, <1>21, <1>22 DEF L

(* The list behind the last waiter.                                         *)
LEMMA WakeOneLinks ==
    ASSUME NEW q, NEW pos, NEW lo, NEW hi, NEW m, Queue(q, pos, lo, hi, m),
           NEW t, NEW k, Saw(q, lo, hi, m, k, t), k > lo[NoBlock],
           ~word'.multi, word'.waiting = word.waiting, word'.ptr = word.ptr,
           \A i \in lo[NoBlock] .. hi[NoBlock] :
                /\ blk'[q[i]].next = blk[q[i]].next
                /\ blk'[q[i]].prev = IF i = lo[NoBlock] THEN NoBlock
                                     ELSE IF i \in m .. k - 1 THEN q[i + 1] ELSE blk[q[i]].prev
                /\ blk'[q[i]].last = IF i = k THEN q[lo[NoBlock] + 1] ELSE blk[q[i]].last
    PROVE  Links(q, lo[NoBlock] + 1, hi[NoBlock], k)'
<1> DEFINE L == lo[NoBlock]
           H == hi[NoBlock]
<1>1. L \in Int /\ H \in Int /\ m \in Int
  BY RowFacts
<1>2. k \in Int /\ m <= k /\ k <= H /\ m \in L .. H /\ word.waiting /\ k > L
      /\ blk[q[k]].prev = NoBlock
  BY DEF Saw
<1>3. Links(q, L, H, m)
  BY DEF Queue
<1>4. PICK e \in Int : e = L + 1
  BY <1>1
<1>5. \A i \in L .. H :
        /\ blk'[q[i]].next = blk[q[i]].next
        /\ blk'[q[i]].prev = IF i = L THEN NoBlock
                             ELSE IF i \in m .. k - 1 THEN q[i + 1] ELSE blk[q[i]].prev
        /\ blk'[q[i]].last = IF i = k THEN q[e] ELSE blk[q[i]].last
  BY <1>4
<1> HIDE DEF L, H
<1>6. ASSUME NEW i \in e .. H PROVE LinkOf(q, e, H, k, i)'
  <2>1. i \in L .. H /\ i \in Int /\ i # L /\ i > L
    BY <1>1, <1>4
  <2>2. LinkOf(q, L, H, m, i)
    BY <2>1, <1>3 DEF Links
  <2>3. i > k => blk'[q[i]].last = NoBlock
    <3>1. i > k => i > m /\ i # k
      BY <2>1, <1>1, <1>2
    <3> QED BY <2>1, <2>2, <3>1, <1>5 DEF LinkOf
  <2>4. blk'[q[i]].next = q[i - 1]
    BY <2>1, <2>2, <1>5 DEF LinkOf
  <2>5. CASE i \in m .. k - 1
    <3>1. i < H /\ blk'[q[i]].prev = q[i + 1]
      BY <2>1, <2>5, <1>1, <1>2, <1>5
    <3> QED BY <2>3, <2>4, <3>1 DEF LinkOf
  <2>6. CASE i \notin m .. k - 1
    <3>1. i < k => i < m
      BY <2>1, <2>6, <1>1, <1>2
    <3>2. blk'[q[i]].prev = blk[q[i]].prev
      BY <2>1, <2>6, <1>5
    <3> QED BY <2>2, <2>3, <2>4, <3>1, <3>2 DEF LinkOf
  <2> QED BY <2>5, <2>6
<1>7. k \in e .. H /\ k \in L .. H /\ e <= H
  BY <1>1, <1>2, <1>4
<1>8. blk'[q[k]].last = q[e] /\ word'.waiting /\ word'.ptr = q[H]
  BY <1>2, <1>3, <1>5, <1>7 DEF Links
<1>9. Links(q, e, H, k)'
  BY <1>6, <1>7, <1>8 DEF Links
<1> QED BY <1>4, <1>9 DEF L, H

(* ExfWakePushLock wakes the last waiter.                                   *)
LEMMA WakeOneStep ==
    ASSUME NEW q, NEW pos, NEW lo, NEW hi, NEW m, Inv(q, pos, lo, hi, m),
           NEW t \in Threads, WakeOne(t)
    PROVE  IInv'
<1> DEFINE L == lo[NoBlock]
           H == hi[NoBlock]
<1>1. /\ Types /\ word \in Word /\ pc[t] = "Wake" /\ Working(t) /\ UNCHANGED <<gate, held>>
      /\ Queue(q, pos, lo, hi, m) /\ Holders(q[L]) /\ ~word.multi
      /\ q \in [Int -> Blocks] /\ pos \in [Threads -> Int] /\ lo \in [Blocks -> Int]
      /\ hi \in [Blocks -> Int] /\ m \in Int
  BY DEF WakeOne, Inv, Types, Working, Wakers, WakerOf, Queue, Ghosts
<1>2. PICK k \in Int : Saw(q, lo, hi, m, k, t)
  BY <1>1, WorkerSaw
<1>3. /\ L \in Int /\ H \in Int /\ NoBlock \in Blocks
      /\ \A i \in L .. H : q[i] \in Threads /\ pos[q[i]] = i
  BY <1>1, RowFacts
<1>4. /\ m <= k /\ k <= H /\ m \in L .. H /\ word.waiting /\ Wk(t).ptr = q[k]
      /\ LastOf(Wk(t).ptr) = q[L]
  BY <1>2 DEF Saw
<1>5. Linked(Wk(t).ptr)[q[L]].prev # NoBlock
  BY <1>4 DEF WakeOne, WakesAlone
<1>6. k > L /\ L + 1 <= H /\ Linked(Wk(t).ptr)[q[L]].prev = q[L + 1]
  BY <1>1, <1>2, <1>5, AloneFacts
<1>7. /\ L \in L .. H /\ L + 1 \in L .. H
  BY <1>3, <1>6
<1>8. q[L] \in Blocks /\ q[L + 1] \in Blocks
  BY <1>3, <1>7 DEF Blocks
<1>9. /\ blk' = [Linked(Wk(t).ptr) EXCEPT ![q[k]].last = q[L + 1], ![q[L]].prev = NoBlock]
      /\ SignalFrom(t, q[L]) /\ word' = [word EXCEPT !.waking = FALSE]
  BY <1>4, <1>6 DEF WakeOne
<1>10. /\ blk' \in [Threads -> WaitBlock]
       /\ \A u \in Threads : SameButLinks(blk'[u], blk[u])
       /\ \A u \in Threads : \A i \in lo[u] .. hi[u] : blk'[q[i]].prev = blk[q[i]].prev
       /\ \A i \in L .. H :
                /\ blk'[q[i]].next = blk[q[i]].next
                /\ blk'[q[i]].prev = IF i = L THEN NoBlock
                                     ELSE IF i \in m .. k - 1 THEN q[i + 1] ELSE blk[q[i]].prev
                /\ blk'[q[i]].last = IF i = k THEN q[L + 1] ELSE blk[q[i]].last
  <2>1. PICK z \in Blocks : z = q[L + 1]
    BY <1>8
  <2>2. blk' = OneOff(t, q[k], q[lo[NoBlock]], z)
    BY <1>9, <2>1 DEF OneOff
  <2>3. Queue(q, pos, lo, hi, m) /\ Saw(q, lo, hi, m, k, t) /\ k > lo[NoBlock]
    BY <1>1, <1>2, <1>6
  <2>4. /\ blk' \in [Threads -> WaitBlock]
        /\ \A u \in Threads : SameButLinks(blk'[u], blk[u])
        /\ \A u \in Threads : \A i \in lo[u] .. hi[u] : blk'[q[i]].prev = blk[q[i]].prev
        /\ \A i \in lo[NoBlock] .. hi[NoBlock] :
             /\ blk'[q[i]].next = blk[q[i]].next
             /\ blk'[q[i]].prev = IF i = lo[NoBlock] THEN NoBlock
                                  ELSE IF i \in m .. k - 1 THEN q[i + 1] ELSE blk[q[i]].prev
             /\ blk'[q[i]].last = IF i = k THEN z ELSE blk[q[i]].last
    BY <2>2, <2>3, WakeOneBlocks
  <2> QED BY <2>1, <2>4
<1>11. /\ word' \in Word /\ ~word'.waking /\ word'.locked = word.locked
       /\ word'.waiting = word.waiting /\ word'.multi = word.multi
       /\ word'.shared = word.shared /\ word'.ptr = word.ptr
  BY <1>1, <1>9, WakingCleared
<1>12. /\ pc' \in [Threads -> PCs] /\ loc' \in [Threads -> LocalVars]
       /\ pc'[t] = "Signal" /\ loc'[t].cur = q[L] /\ loc'[t].ret = loc[t].ret /\ Others(t)
  BY <1>1, <1>8, <1>9, SignalFromStep
<1>13. Types'
  BY <1>1, <1>10, <1>11, <1>12 DEF Types
<1>14. PICK e \in L .. H : e = L
  BY <1>7
<1>15. PICK lo2 \in [Blocks -> Int], hi2 \in [Blocks -> Int] : Detached(lo, hi, lo2, hi2, t, e)
  BY <1>1, <1>3, <1>14, DetachedExists
<1>16. lo2[NoBlock] = L + 1 /\ hi2[NoBlock] = H
  BY <1>14, <1>15 DEF Detached
<1>17. ~word'.multi
  BY <1>1, <1>11
<1>18. Links(q, L + 1, H, k)'
  BY <1>1, <1>2, <1>6, <1>10, <1>11, <1>17, WakeOneLinks
<1>19. Links(q, lo2[NoBlock], hi2[NoBlock], k)'
  BY <1>16, <1>18
<1>20. \A i \in L .. e : blk'[q[i]].prev = IF i = e THEN NoBlock ELSE q[i + 1]
  <2>1. \A i \in L .. e : i = L
    BY <1>3, <1>14
  <2>2. blk'[q[L]].prev = NoBlock
    BY <1>7, <1>10
  <2> QED BY <2>1, <2>2, <1>14
<1>21. Holders(q[lo2[NoBlock]])'
  <2>1. ~Finisher(t) /\ ~Finisher(t)'
    BY <1>1, <1>12 DEF Finisher, Unlocking
  <2>2. \A u \in Threads : blk'[u].share = blk[u].share
    BY <1>10 DEF SameButLinks
  <2>3. Holders(q[L]) /\ UNCHANGED held /\ (word.multi => q[L] \in Threads)
        /\ (word'.waking => word.waiting)
    BY <1>1, <1>11
  <2>4. Holders(q[L])'
    BY <1>11, <1>12, <2>1, <2>2, <2>3, HoldersKept
  <2>5. PICK b : b = q[L]
    OBVIOUS
  <2>6. PICK d : d = q[lo2[NoBlock]]
    OBVIOUS
  <2>7. Holders(d)'
    BY <2>4, <2>5, <1>17, HoldersOther
  <2> QED BY <2>6, <2>7
<1>22. Inv(q, pos, lo2, hi2, k)'
  <2>1. /\ \A u \in Threads : SameButLinks(blk'[u], blk[u])
        /\ \A u \in Threads : \A i \in lo[u] .. hi[u] : blk'[q[i]].prev = blk[q[i]].prev
    BY <1>10
  <2>2. ~word'.waking /\ pc[t] = "Wake" /\ UNCHANGED <<gate, held>>
    BY <1>1, <1>11
  <2> QED BY <1>12, <1>13, <1>15, <1>19, <1>20, <1>21, <2>1, <2>2, DetachStep
<1> QED BY <1>1, <1>15, <1>22 DEF IInv

-----------------------------------------------------------------------------
(***************************************************************************)
(* The signalling loop.                                                    *)
(***************************************************************************)
(* It goes on to block x, or ends.                                          *)
GoesTo(t, x) ==
    IF x = NoBlock THEN pc'[t] = (IF loc[t].ret = "Idle" THEN "Idle" ELSE "WaitBit")
    ELSE pc'[t] = "Signal" /\ loc'[t].cur = x /\ loc'[t].ret = loc[t].ret

(* SignalNext does that.                                                    *)
LEMMA SignalNextStep ==
    ASSUME Types, NEW t \in Threads, NEW x \in Blocks, SignalNext(t, x)
    PROVE  /\ pc' \in [Threads -> PCs] /\ loc' \in [Threads -> LocalVars]
           /\ Others(t) /\ GoesTo(t, x)
<1>1. CASE x = NoBlock
  <2>1. Resume(t)
    BY <1>1 DEF SignalNext
  <2>2. /\ pc' \in [Threads -> PCs] /\ loc' \in [Threads -> LocalVars]
        /\ pc'[t] = (IF loc[t].ret = "Idle" THEN "Idle" ELSE "WaitBit") /\ Others(t)
    BY <2>1, ResumeStep
  <2> QED BY <1>1, <2>2 DEF GoesTo
<1>2. CASE x # NoBlock
  <2>1. loc[t] \in LocalVars /\ "Signal" \in PCs /\ NoBlock \in Blocks
    BY DEF Types, PCs, Blocks
  <2> DEFINE r == [loc[t] EXCEPT !.cur = x, !.nxt = NoBlock]
  <2>2. r \in LocalVars /\ r.cur = x /\ r.ret = loc[t].ret
    BY <2>1 DEF LocalVars
  <2>3. Goto(t, "Signal", r)
    BY <1>2 DEF SignalNext
  <2> HIDE DEF r
  <2>4. /\ pc' \in [Threads -> PCs] /\ loc' \in [Threads -> LocalVars]
        /\ pc'[t] = "Signal" /\ loc'[t] = r /\ Others(t)
    BY <2>1, <2>2, <2>3, GotoStep
  <2> QED BY <1>2, <2>2, <2>4 DEF GoesTo
<1> QED BY <1>1, <1>2

(* What the rest of the invariant needs of a step of the loop.              *)
LEMMA SignalStays ==
    ASSUME NEW q, NEW pos, NEW lo, NEW hi, NEW m, Inv(q, pos, lo, hi, m),
           NEW t \in Threads, pc[t] \in {"Signal", "SignalGate"},
           pc'[t] \in {"Signal", "SignalGate", "Idle", "WaitBit"},
           Types', Others(t), UNCHANGED <<word, held>>,
           \A u \in Threads : blk'[u].prev = blk[u].prev /\ blk'[u].share = blk[u].share,
           NEW lo2, lo2[NoBlock] = lo[NoBlock], Queue(q, pos, lo2, hi, m)', Promise'
    PROVE  Inv(q, pos, lo2, hi, m)'
<1>1. /\ Queue(q, pos, lo, hi, m) /\ Calling /\ Holders(q[lo[NoBlock]])
      /\ Releasers(q, lo[NoBlock], hi[NoBlock]) /\ word' = word /\ Kept(t)
      /\ (word.multi => q[lo[NoBlock]] \in Threads)
      /\ held[t] = "no"
  BY BottomIn DEF Inv, Kept, Calling, CallOf, Entering
<1>2. ~Working(t) /\ ~Working(t)' /\ ~Finisher(t) /\ ~Finisher(t)' /\ ~Counting(t)'
  BY DEF Working, Finisher, Unlocking, Counting
<1>3. CallOf(t)'
  BY <1>1 DEF CallOf, Entering, Unlocking
<1>4. Calling'
  BY <1>1, <1>3, CallingFrame
<1>5. Releasers(q, lo[NoBlock], hi[NoBlock])'
  <2>1. \A u \in Threads : u # t /\ Counting(u) /\ word.multi => word'.multi
    BY <1>1
  <2> QED BY <1>1, <1>2, <2>1, ReleasersFrame
<1>6. Wakers(q, hi[NoBlock], m)'
  <2>1. \A i \in lo[NoBlock] .. hi[NoBlock] : blk'[q[i]].prev = blk[q[i]].prev
    BY <1>1, RowFacts
  <2> QED BY <1>1, <1>2, <2>1, WakersStay
<1>7. Holders(q[lo[NoBlock]])'
  <2>1. /\ \A u \in Threads : blk'[u].share = blk[u].share
        /\ UNCHANGED held
        /\ word'.locked = word.locked /\ word'.waiting = word.waiting /\ word'.multi = word.multi
        /\ word'.shared = word.shared /\ (~word.waiting => word'.ptr = word.ptr)
    BY <1>1
  <2>2. word'.waking => word.waiting
    BY <1>1 DEF Holders, Shape
  <2> QED BY <1>1, <1>2, <2>1, <2>2, HoldersKept
<1> QED BY <1>4, <1>5, <1>6, <1>7 DEF Inv

(* The gate is signalled: the row.                                          *)
LEMMA SignalGateQueue ==
    ASSUME NEW q, NEW pos, NEW lo, NEW hi, NEW m, Queue(q, pos, lo, hi, m), Types,
           word.multi => word.waiting, NEW t \in Threads, pc[t] = "SignalGate", Others(t),
           GoesTo(t, loc[t].nxt), UNCHANGED <<word, blk>>, gate'[loc[t].cur],
           \A u \in Threads : u # loc[t].cur => gate'[u] = gate[u]
    PROVE  Queue(q, pos, lo, hi, m)'
<1>1. PICK c : c = loc[t].cur
  OBVIOUS
<1>2. /\ loc[t].nxt = IF lo[t] <= hi[t] THEN q[lo[t]] ELSE NoBlock
      /\ c \in Threads /\ pc[c] = "Gate" /\ ~gate[c] /\ blk[c].signaled
      /\ \A u \in Threads : Signalling(u, c) => u = t
  BY <1>1 DEF Queue, SignalOf
<1>3. /\ \A x \in Blocks : \A i \in lo[x] .. hi[x] : q[i] \in Threads /\ InWait(q[i])
      /\ t \in Blocks /\ lo[t] \in Int /\ hi[t] \in Int
  BY RowFacts
<1>4. c # t /\ gate'[c] /\ \A u \in Threads : u # c => gate'[u] = gate[u]
  BY <1>1, <1>2
<1>5. \A u \in Threads : u # t => pc'[u] = pc[u] /\ loc'[u] = loc[u]
  BY DEF Others
<1>6. loc[t].nxt # NoBlock <=> lo[t] <= hi[t]
  <2>1. ASSUME lo[t] <= hi[t] PROVE q[lo[t]] # NoBlock
    <3>1. lo[t] \in lo[t] .. hi[t]
      BY <2>1, <1>3
    <3> QED BY <3>1, <1>3
  <2> QED BY <2>1, <1>2
<1>7. pc'[t] \in {"Idle", "WaitBit", "Signal"} /\ (Alive(t)' <=> Alive(t))
  <2>1. loc[t].ret \in {"Idle", "WaitBit"}
    BY LocalsFields DEF Types
  <2> QED BY <2>1 DEF GoesTo, Alive
<1>8. Links(q, lo[NoBlock], hi[NoBlock], m)' /\ Chains(q, lo, hi)'
  <2>1. \A x \in Blocks : \A i \in lo[x] .. hi[x] : SameLinks(blk'[q[i]], blk[q[i]])
    BY DEF SameLinks
  <2> QED BY <2>1, RowFrame
<1>9. \A u \in Threads : /\ Alive(u)' <=> Alive(u)
                         /\ pc'[u] = "Gate" <=> pc[u] = "Gate"
  BY <1>5, <1>7 DEF Alive
<1>10. Seated(q, lo, hi)'
  <2> SUFFICES ASSUME NEW x \in Blocks, NEW i \in lo[x] .. hi[x] PROVE InWait(q[i])'
    BY DEF Seated
  <2>1. q[i] \in Threads /\ InWait(q[i])
    BY <1>3
  <2>2. q[i] # c
    BY <2>1, <1>2 DEF InWait
  <2> QED BY <2>1, <2>2, <1>4, <1>9 DEF InWait
<1>11. ASSUME NEW u \in Threads PROVE SignalOf(q, lo, hi, u)'
  <2>1. SignalOf(q, lo, hi, u)
    BY DEF Queue
  <2>2. CASE u = t
    <3>1. CASE lo[t] <= hi[t]
      <4>1. pc'[t] = "Signal" /\ loc'[t].cur = q[lo[t]]
        BY <3>1, <1>2, <1>6 DEF GoesTo
      <4> QED BY <2>2, <3>1, <4>1 DEF SignalOf
    <3>2. CASE ~(lo[t] <= hi[t])
      <4>1. pc'[t] \in {"Idle", "WaitBit"} /\ hi[t] < lo[t]
        BY <3>2, <1>3, <1>6 DEF GoesTo
      <4> QED BY <2>2, <4>1 DEF SignalOf
    <3> QED BY <3>1, <3>2
  <2>3. CASE u # t
    <3>1. pc'[u] = pc[u] /\ loc'[u] = loc[u]
      BY <2>3, <1>5
    <3>2. CASE pc[u] = "SignalGate"
      <4>1. /\ loc[u].cur \in Threads /\ pc[loc[u].cur] = "Gate" /\ ~gate[loc[u].cur]
            /\ blk[loc[u].cur].signaled
            /\ \A v \in Threads : Signalling(v, loc[u].cur) => v = u
            /\ loc[u].nxt = IF lo[u] <= hi[u] THEN q[lo[u]] ELSE NoBlock
        BY <2>1, <3>2 DEF SignalOf
      <4>2. loc[u].cur # c
        BY <2>3, <3>2, <1>2 DEF Signalling
      <4>3. pc'[loc[u].cur] = "Gate" /\ ~gate'[loc[u].cur] /\ blk'[loc[u].cur].signaled
        BY <4>1, <4>2, <1>4, <1>9
      <4>4. \A v \in Threads : Signalling(v, loc[u].cur)' => v = u
        BY <4>1, <3>1, <1>5, <1>7 DEF Signalling
      <4> QED BY <3>1, <3>2, <4>1, <4>3, <4>4 DEF SignalOf
    <3>3. CASE pc[u] # "SignalGate"
      BY <2>1, <3>1, <3>3 DEF SignalOf
    <3> QED BY <3>2, <3>3
  <2> QED BY <2>2, <2>3
<1>12. ASSUME NEW u \in Threads PROVE WaiterOf(q, lo, hi, u)'
  <2>1. WaiterOf(q, lo, hi, u)
    BY DEF Queue
  <2>2. CASE u = c
    <3>1. Alive(c) /\ blk'[c].signaled /\ gate'[c]
      BY <1>2, <1>4 DEF Alive
    <3> QED BY <2>1, <2>2, <3>1, <1>9 DEF WaiterOf
  <2>3. CASE u # c
    <3>1. \A v \in Threads : Signalling(v, u) => Signalling(v, u)'
      BY <2>3, <1>1, <1>5 DEF Signalling
    <3>2. gate'[u] = gate[u]
      BY <2>3, <1>4
    <3> QED BY <2>1, <3>1, <3>2, <1>9 DEF WaiterOf, HasSeat
  <2> QED BY <2>2, <2>3
<1> QED BY <1>8, <1>10, <1>11, <1>12 DEF Queue, Ghosts, Seats

(* KeSignalGateBoostPriority.                                               *)
LEMMA SignalGateStep ==
    ASSUME NEW q, NEW pos, NEW lo, NEW hi, NEW m, Inv(q, pos, lo, hi, m),
           NEW t \in Threads, SignalGate(t)
    PROVE  Inv(q, pos, lo, hi, m)'
<1>1. /\ Types /\ pc[t] = "SignalGate" /\ UNCHANGED <<word, blk, held>>
      /\ gate' = [gate EXCEPT ![loc[t].cur] = TRUE] /\ SignalNext(t, loc[t].nxt)
      /\ Queue(q, pos, lo, hi, m) /\ gate \in [Threads -> BOOLEAN] /\ Promise
  BY DEF SignalGate, Inv, Types
<1>2. loc[t].cur \in Threads /\ loc[t].nxt \in Blocks /\ pc[loc[t].cur] = "Gate"
  BY <1>1, LocalsFields DEF Queue, SignalOf, Types
<1>3. /\ pc' \in [Threads -> PCs] /\ loc' \in [Threads -> LocalVars]
      /\ Others(t) /\ GoesTo(t, loc[t].nxt)
  BY <1>1, <1>2, SignalNextStep
<1>4. /\ gate' \in [Threads -> BOOLEAN] /\ gate'[loc[t].cur]
      /\ \A u \in Threads : u # loc[t].cur => gate'[u] = gate[u]
  BY <1>1, <1>2
<1>5. Types'
  BY <1>1, <1>3, <1>4 DEF Types
<1>6. Queue(q, pos, lo, hi, m)'
  BY <1>1, <1>3, <1>4, BottomIn, SignalGateQueue
<1>7. Promise'
  <2>1. PICK c \in Threads : c = loc[t].cur
    BY <1>2
  <2>2. c # t /\ pc[c] = "Gate"
    BY <1>1, <1>2, <2>1
  <2>3. Active(c)'
    BY <1>3, <1>4, <2>1, <2>2 DEF Active, Others
  <2>4. \A u \in Threads : Working(u) => Working(u)'
    BY <1>1, <1>3 DEF Working, Others
  <2> QED BY <1>1, <2>3, <2>4 DEF Promise
<1>8. /\ pc[t] \in {"Signal", "SignalGate"} /\ pc'[t] \in {"Signal", "SignalGate", "Idle", "WaitBit"}
      /\ \A u \in Threads : blk'[u].prev = blk[u].prev /\ blk'[u].share = blk[u].share
      /\ lo[NoBlock] = lo[NoBlock] /\ UNCHANGED <<word, held>>
  BY <1>1, <1>3 DEF GoesTo
<1> QED BY <1>3, <1>5, <1>6, <1>7, <1>8, SignalStays

(* The wait bit of the block in the lowest seat is cleared.                 *)
Signals(q, lo, hi, t, b, p) ==
    /\ pc[t] = "Signal" /\ Others(t) /\ UNCHANGED <<word, gate, held>>
    /\ b \in Threads /\ lo[t] <= hi[t] /\ b = q[lo[t]] /\ InWait(b)
    /\ p = IF lo[t] = hi[t] THEN NoBlock ELSE q[lo[t] + 1]
    /\ \A u \in Threads : u # b => blk'[u] = blk[u]
    /\ SameLinks(blk'[b], blk[b]) /\ blk'[b].share = blk[b].share
    /\ ~blk'[b].wait /\ blk'[b].signaled
    /\ IF blk[b].wait THEN GoesTo(t, p)
       ELSE /\ pc'[t] = "SignalGate" /\ loc'[t].cur = b /\ loc'[t].nxt = p
            /\ loc'[t].ret = loc[t].ret

(* The step.                                                                *)
LEMMA SignalsStep ==
    ASSUME NEW q, NEW pos, NEW lo, NEW hi, NEW m, Inv(q, pos, lo, hi, m),
           NEW t \in Threads, Signal(t)
    PROVE  Types' /\ \E b, p : Signals(q, lo, hi, t, b, p)
<1>1. /\ Types /\ pc[t] = "Signal" /\ UNCHANGED <<word, gate, held>>
      /\ Queue(q, pos, lo, hi, m) /\ blk \in [Threads -> WaitBlock]
      /\ loc[t] \in LocalVars
  BY DEF Signal, Inv, Types
<1>2. lo[t] <= hi[t] /\ loc[t].cur = q[lo[t]]
  BY <1>1 DEF Queue, SignalOf
<1>3. t \in Blocks /\ lo[t] \in Int /\ hi[t] \in Int
  BY <1>1, RowFacts
<1>4. lo[t] \in lo[t] .. hi[t]
  BY <1>2, <1>3
<1>5. q[lo[t]] \in Threads /\ InWait(q[lo[t]])
  BY <1>1, <1>3, <1>4, RowFacts
<1>6. PICK b \in Threads : b = loc[t].cur
  BY <1>2, <1>5
<1>7. b = q[lo[t]] /\ InWait(b) /\ blk[b] \in WaitBlock /\ blk[b].prev \in Blocks
  BY <1>1, <1>2, <1>5, <1>6, BlockFields
<1>8. PICK p \in Blocks : p = blk[b].prev
  BY <1>7
<1>9. p = IF lo[t] = hi[t] THEN NoBlock ELSE q[lo[t] + 1]
  <2>1. blk[q[lo[t]]].prev = IF lo[t] = hi[t] THEN NoBlock ELSE q[lo[t] + 1]
    BY <1>1, <1>4 DEF Queue, Chains
  <2> QED BY <2>1, <1>7, <1>8
<1>10. /\ blk' = [blk EXCEPT ![b].wait = FALSE, ![b].signaled = TRUE]
       /\ IF blk[b].wait THEN SignalNext(t, p)
          ELSE Goto(t, "SignalGate", [loc[t] EXCEPT !.nxt = p])
  BY <1>6, <1>8 DEF Signal
<1>11. /\ blk' \in [Threads -> WaitBlock]
       /\ \A u \in Threads : u # b => blk'[u] = blk[u]
       /\ SameLinks(blk'[b], blk[b]) /\ blk'[b].share = blk[b].share
       /\ ~blk'[b].wait /\ blk'[b].signaled
  <2> DEFINE r == [blk[b] EXCEPT !.wait = FALSE, !.signaled = TRUE]
  <2>1. r.next = blk[b].next /\ r.prev = blk[b].prev /\ r.last = blk[b].last
    BY <1>7 DEF WaitBlock
  <2>2. r.exclusive = blk[b].exclusive /\ r.share = blk[b].share
    BY <1>7 DEF WaitBlock
  <2>3. ~r.wait /\ r.signaled
    BY <1>7 DEF WaitBlock
  <2>4. r \in WaitBlock
    BY <1>7 DEF WaitBlock
  <2>5. blk' = [blk EXCEPT ![b] = r]
    BY <1>1, <1>10
  <2> HIDE DEF r
  <2>6. blk' \in [Threads -> WaitBlock] /\ blk'[b] = r /\ \A u \in Threads : u # b => blk'[u] = blk[u]
    BY <1>1, <2>4, <2>5
  <2>7. SameLinks(r, blk[b])
    BY <2>1, <2>2 DEF SameLinks
  <2> QED BY <2>2, <2>3, <2>6, <2>7
<1>12. /\ pc' \in [Threads -> PCs] /\ loc' \in [Threads -> LocalVars] /\ Others(t)
       /\ IF blk[b].wait THEN GoesTo(t, p)
          ELSE /\ pc'[t] = "SignalGate" /\ loc'[t].cur = b /\ loc'[t].nxt = p
               /\ loc'[t].ret = loc[t].ret
  <2>1. CASE blk[b].wait
    BY <2>1, <1>1, <1>10, SignalNextStep
  <2>2. CASE ~blk[b].wait
    <3> DEFINE r == [loc[t] EXCEPT !.nxt = p]
    <3>1. r \in LocalVars /\ r.cur = loc[t].cur /\ r.nxt = p /\ r.ret = loc[t].ret
      BY <1>1 DEF LocalVars
    <3>2. Goto(t, "SignalGate", r) /\ "SignalGate" \in PCs
      BY <1>10, <2>2 DEF PCs
    <3> HIDE DEF r
    <3>3. /\ pc' \in [Threads -> PCs] /\ loc' \in [Threads -> LocalVars] /\ Others(t)
          /\ pc'[t] = "SignalGate" /\ loc'[t] = r
      BY <1>1, <3>1, <3>2, GotoStep
    <3> QED BY <2>2, <3>1, <3>3, <1>6
  <2> QED BY <2>1, <2>2
<1>13. Types'
  BY <1>1, <1>11, <1>12 DEF Types
<1>14. Signals(q, lo, hi, t, b, p)
  BY <1>1, <1>2, <1>7, <1>9, <1>11, <1>12 DEF Signals
<1> QED BY <1>13, <1>14

(* The row without the lowest seat of t.                                    *)
Lowered(lo, lo2, t) ==
    /\ lo2 \in [Blocks -> Int] /\ lo2[t] = lo[t] + 1
    /\ \A x \in Blocks : x # t => lo2[x] = lo[x]

(* The row after the signal.                                                *)
LEMMA SignalQueue ==
    ASSUME NEW q, NEW pos, NEW lo, NEW hi, NEW m, Queue(q, pos, lo, hi, m), Types,
           word.multi => word.waiting, NEW t \in Threads, NEW b, NEW p,
           Signals(q, lo, hi, t, b, p), NEW lo2, Lowered(lo, lo2, t)
    PROVE  Queue(q, pos, lo2, hi, m)'
<1>1. /\ pc[t] = "Signal" /\ word' = word /\ gate' = gate
      /\ b \in Threads /\ lo[t] <= hi[t] /\ b = q[lo[t]] /\ InWait(b)
      /\ p = IF lo[t] = hi[t] THEN NoBlock ELSE q[lo[t] + 1]
  BY DEF Signals
<1>2. /\ \A u \in Threads : u # b => blk'[u] = blk[u]
      /\ SameLinks(blk'[b], blk[b]) /\ ~blk'[b].wait /\ blk'[b].signaled
      /\ \A u \in Threads : u # t => pc'[u] = pc[u] /\ loc'[u] = loc[u]
  BY DEF Signals, Others
<1>3. IF blk[b].wait THEN GoesTo(t, p)
      ELSE /\ pc'[t] = "SignalGate" /\ loc'[t].cur = b /\ loc'[t].nxt = p
           /\ loc'[t].ret = loc[t].ret
  BY DEF Signals
<1>4. /\ \A x \in Blocks : \A i \in lo[x] .. hi[x] : q[i] \in Threads /\ pos[q[i]] = i /\ InWait(q[i])
      /\ t \in Blocks /\ t # NoBlock /\ NoBlock \in Blocks
      /\ \A x \in Blocks : lo[x] \in Int /\ hi[x] \in Int
      /\ \A u \in Threads : u \in Blocks /\ u # NoBlock /\ hi[u] < lo[NoBlock]
  <2>1. \A x \in Blocks : lo[x] \in Int /\ hi[x] \in Int
    BY DEF Queue, Ghosts
  <2>2. \A u \in Threads : u \in Blocks /\ u # NoBlock
    BY DEF Blocks
  <2>3. \A u \in Threads : hi[u] < lo[NoBlock]
    BY DEF Queue, Seats
  <2> QED BY <2>1, <2>2, <2>3, RowFacts
<1>5. lo2[t] = lo[t] + 1 /\ lo2[NoBlock] = lo[NoBlock] /\ \A x \in Blocks : x # t => lo2[x] = lo[x]
  BY <1>4 DEF Lowered
<1>6. ASSUME NEW x \in Blocks, NEW i \in lo2[x] .. hi[x] PROVE i \in lo[x] .. hi[x]
  <2>1. CASE x = t
    BY <2>1, <1>4, <1>5
  <2>2. CASE x # t
    BY <2>2, <1>5
  <2> QED BY <2>1, <2>2
<1>7. lo[t] \in lo[t] .. hi[t] /\ pos[b] = lo[t]
  BY <1>1, <1>4
<1>8. Seats(q, pos, lo, hi)
  BY DEF Queue
<1>9. ASSUME NEW x \in Blocks, NEW i \in lo2[x] .. hi[x] PROVE i # lo[t]
  <2>1. i \in lo[x] .. hi[x]
    BY <1>6
  <2>2. CASE x = t
    BY <2>2, <1>4, <1>5
  <2>3. CASE x = NoBlock
    BY <2>1, <2>3, <1>1, <1>4
  <2>4. CASE x \in Threads /\ x # t
    BY <2>1, <2>4, <1>7, <1>8 DEF Seats
  <2> QED BY <2>2, <2>3, <2>4 DEF Blocks
<1>10. ASSUME NEW x \in Blocks, NEW i \in lo2[x] .. hi[x]
       PROVE  q[i] \in Threads /\ pos[q[i]] = i /\ InWait(q[i]) /\ q[i] # b
  BY <1>4, <1>6, <1>7, <1>9
<1>11. ASSUME NEW x \in Blocks, NEW i \in lo[x] .. hi[x], q[i] # b PROVE i \in lo2[x] .. hi[x]
  <2>1. i # lo[t]
    BY <1>1, <1>11
  <2>2. CASE x = t
    BY <2>1, <2>2, <1>4, <1>5
  <2>3. CASE x # t
    BY <2>3, <1>5
  <2> QED BY <2>2, <2>3
<1>12. Ghosts(q, pos, lo2, hi, m)
  BY DEF Queue, Ghosts, Lowered
<1>13. Seats(q, pos, lo2, hi)
  <2>1. \A x \in Blocks : \A i \in lo2[x] .. hi[x] : q[i] \in Threads /\ pos[q[i]] = i
    BY <1>10
  <2>2. \A u, v \in Threads : u # v => \A i \in lo2[u] .. hi[u] : i \notin lo2[v] .. hi[v]
    BY <1>4, <1>6, <1>8 DEF Seats
  <2>3. (\A u \in Threads : hi[u] < lo2[NoBlock]) /\ lo2[NoBlock] <= hi[NoBlock] + 1
    BY <1>5, <1>8 DEF Seats
  <2> QED BY <2>1, <2>2, <2>3 DEF Seats
<1>14. Links(q, lo[NoBlock], hi[NoBlock], m)' /\ Chains(q, lo, hi)'
  <2>1. ASSUME NEW x \in Blocks, NEW i \in lo[x] .. hi[x] PROVE SameLinks(blk'[q[i]], blk[q[i]])
    <3>1. CASE q[i] = b
      BY <3>1, <1>2
    <3>2. CASE q[i] # b
      BY <3>2, <1>2, <1>4 DEF SameLinks
    <3> QED BY <3>1, <3>2
  <2> QED BY <2>1, <1>1, RowFrame
<1>15. Links(q, lo2[NoBlock], hi[NoBlock], m)'
  BY <1>5, <1>14
<1>16. Chains(q, lo2, hi)'
  BY <1>4, <1>6, <1>14 DEF Chains
<1>17. /\ pc'[t] \in {"Idle", "WaitBit", "Signal", "SignalGate"}
       /\ Alive(t)' <=> Alive(t)
  <2>1. loc[t].ret \in {"Idle", "WaitBit"}
    BY LocalsFields DEF Types
  <2>2. CASE blk[b].wait
    <3>1. GoesTo(t, p)
      BY <2>2, <1>3
    <3> QED BY <2>1, <3>1, <1>1 DEF GoesTo, Alive
  <2>3. CASE ~blk[b].wait
    <3>1. pc'[t] = "SignalGate" /\ loc'[t].ret = loc[t].ret
      BY <2>3, <1>3
    <3> QED BY <3>1, <1>1 DEF Alive
  <2> QED BY <2>2, <2>3
<1>18. \A u \in Threads : /\ Alive(u)' <=> Alive(u)
                          /\ pc'[u] = "Gate" <=> pc[u] = "Gate"
  BY <1>1, <1>2, <1>17 DEF Alive
<1>19. Seated(q, lo2, hi)'
  <2> SUFFICES ASSUME NEW x \in Blocks, NEW i \in lo2[x] .. hi[x] PROVE InWait(q[i])'
    BY DEF Seated
  <2>1. q[i] \in Threads /\ InWait(q[i]) /\ blk'[q[i]] = blk[q[i]]
    BY <1>2, <1>10
  <2> QED BY <2>1, <1>1, <1>18 DEF InWait
<1>20. SignalOf(q, lo2, hi, t)'
  <2>1. lo[t] \in Int /\ hi[t] \in Int
    BY <1>4
  <2>2. p = IF lo2[t] <= hi[t] THEN q[lo2[t]] ELSE NoBlock
    BY <2>1, <1>1, <1>5
  <2>3. p # NoBlock <=> lo2[t] <= hi[t]
    <3>1. ASSUME lo2[t] <= hi[t] PROVE q[lo2[t]] # NoBlock
      <4>1. lo2[t] \in lo2[t] .. hi[t]
        BY <2>1, <3>1, <1>5
      <4> QED BY <4>1, <1>4, <1>10
    <3> QED BY <2>2, <3>1
  <2>4. CASE blk[b].wait
    <3>0. GoesTo(t, p)
      BY <2>4, <1>3
    <3>1. CASE lo2[t] <= hi[t]
      <4>1. pc'[t] = "Signal" /\ loc'[t].cur = q[lo2[t]]
        BY <3>0, <3>1, <2>2, <2>3 DEF GoesTo
      <4> QED BY <3>1, <4>1 DEF SignalOf
    <3>2. CASE ~(lo2[t] <= hi[t])
      <4>1. pc'[t] \in {"Idle", "WaitBit"} /\ hi[t] < lo2[t]
        BY <3>0, <3>2, <2>1, <2>3, <1>5 DEF GoesTo
      <4> QED BY <4>1 DEF SignalOf
    <3> QED BY <3>1, <3>2
  <2>5. CASE ~blk[b].wait
    <3>1. /\ pc'[t] = "SignalGate" /\ loc'[t].cur = b /\ loc'[t].nxt = p
      BY <2>5, <1>3
    <3>2. pc[b] = "Gate" /\ ~gate[b] /\ ~blk[b].signaled
      BY <2>5, <1>1 DEF InWait
    <3>3. pc'[b] = "Gate" /\ ~gate'[b]
      BY <3>2, <1>1, <1>18
    <3>4. ASSUME NEW u \in Threads, Signalling(u, b)' PROVE u = t
      <4> SUFFICES ASSUME u # t PROVE FALSE
        OBVIOUS
      <4>1. pc[u] = "SignalGate" /\ loc[u].cur = b
        BY <3>4, <1>2 DEF Signalling
      <4>2. blk[b].signaled
        BY <4>1 DEF Queue, SignalOf
      <4> QED BY <4>2, <3>2
    <3>5. \A u \in Threads : Signalling(u, loc[t].cur)' => u = t
      BY <3>1, <3>4 DEF Signalling
    <3> QED BY <2>2, <3>1, <3>3, <3>5, <1>1, <1>2 DEF SignalOf
  <2> QED BY <2>4, <2>5
<1>21. ASSUME NEW u \in Threads, u # t PROVE SignalOf(q, lo2, hi, u)'
  <2>1. SignalOf(q, lo, hi, u) /\ pc'[u] = pc[u] /\ loc'[u] = loc[u] /\ lo2[u] = lo[u]
    BY <1>2, <1>4, <1>5, <1>21 DEF Queue
  <2>2. CASE pc[u] = "SignalGate"
    <3>1. /\ loc[u].cur \in Threads /\ pc[loc[u].cur] = "Gate" /\ ~gate[loc[u].cur]
          /\ blk[loc[u].cur].signaled
          /\ \A v \in Threads : Signalling(v, loc[u].cur) => v = u
          /\ loc[u].nxt = IF lo[u] <= hi[u] THEN q[lo[u]] ELSE NoBlock
      BY <2>1, <2>2 DEF SignalOf
    <3>2. loc[u].cur # b
      BY <3>1, <1>1 DEF InWait
    <3>3. pc'[loc[u].cur] = "Gate" /\ ~gate'[loc[u].cur] /\ blk'[loc[u].cur].signaled
      BY <3>1, <3>2, <1>1, <1>2, <1>18
    <3>4. ASSUME NEW v \in Threads, Signalling(v, loc[u].cur)' PROVE v = u
      <4>1. CASE v = t
        <5>1. pc'[t] = "SignalGate" /\ loc'[t].cur = loc[u].cur
          BY <4>1, <3>4, <2>1 DEF Signalling
        <5>2. loc'[t].cur = b
          BY <5>1, <1>3 DEF GoesTo
        <5> QED BY <5>1, <5>2, <3>2
      <4>2. CASE v # t
        BY <4>2, <3>1, <3>4, <2>1, <1>2 DEF Signalling
      <4> QED BY <4>1, <4>2
    <3> QED BY <2>1, <2>2, <3>1, <3>3, <3>4 DEF SignalOf
  <2>3. CASE pc[u] # "SignalGate"
    BY <2>1, <2>3 DEF SignalOf
  <2> QED BY <2>2, <2>3
<1>22. ASSUME NEW u \in Threads PROVE WaiterOf(q, lo2, hi, u)'
  <2>1. WaiterOf(q, lo, hi, u)
    BY DEF Queue
  <2>2. CASE u = b
    <3>1. ASSUME pc'[b] = "Gate" PROVE Signalling(t, b)'
      <4>1. pc[b] = "Gate"
        BY <3>1, <1>1, <1>18
      <4>2. ~blk[b].wait
        BY <4>1, <1>1 DEF InWait
      <4> QED BY <4>2, <1>3 DEF Signalling
    <3>2. pc'[b] = "Gate" => \E v \in Threads : Signalling(v, b)'
      BY <3>1
    <3> QED BY <2>2, <3>2, <1>2 DEF WaiterOf
  <2>3. CASE u # b
    <3>1. \A v \in Threads : Signalling(v, u) => Signalling(v, u)'
      BY <1>1, <1>2 DEF Signalling
    <3>2. HasSeat(q, lo, hi, u) => HasSeat(q, lo2, hi, u)'
      BY <2>3, <1>11 DEF HasSeat
    <3>3. gate'[u] = gate[u] /\ blk'[u] = blk[u]
      BY <2>3, <1>1, <1>2
    <3> QED BY <2>1, <3>1, <3>2, <3>3, <1>18 DEF WaiterOf
  <2> QED BY <2>2, <2>3
<1> QED BY <1>12, <1>13, <1>15, <1>16, <1>19, <1>20, <1>21, <1>22 DEF Queue, Ghosts, Seats

(* Someone will look at the word after the signal.                          *)
LEMMA SignalPromise ==
    ASSUME NEW q, NEW pos, NEW lo, NEW hi, NEW m, Inv(q, pos, lo, hi, m),
           NEW t \in Threads, NEW b, NEW p, Signals(q, lo, hi, t, b, p)
    PROVE  Promise'
<1>1. /\ pc[t] = "Signal" /\ word' = word /\ b \in Threads /\ InWait(b)
      /\ ~blk'[b].wait /\ \A u \in Threads : u # t => pc'[u] = pc[u] /\ loc'[u] = loc[u]
  BY DEF Signals, Others
<1>2. IF blk[b].wait THEN GoesTo(t, p)
      ELSE /\ pc'[t] = "SignalGate" /\ loc'[t].cur = b /\ loc'[t].nxt = p
           /\ loc'[t].ret = loc[t].ret
  BY DEF Signals
<1>3. Promise /\ Wakers(q, hi[NoBlock], m)
  BY DEF Inv
<1>4. \A u \in Threads : Working(u) => Working(u)'
  BY <1>1 DEF Working
<1>5. ASSUME ~word.waking PROVE \E u \in Threads : Active(u)'
  <2>1. CASE pc'[t] \in {"Signal", "SignalGate"}
    BY <2>1 DEF Active
  <2>2. CASE pc'[t] \notin {"Signal", "SignalGate"}
    <3>1. blk[b].wait /\ GoesTo(t, p)
      BY <2>2, <1>2
    <3>2. Alive(b) /\ pc[b] # "Gate"
      BY <3>1, <1>1 DEF InWait
    <3>3. CASE b = t
      <4>1. loc[t].ret = "WaitBit"
        BY <3>2, <3>3, <1>1 DEF Alive
      <4>2. pc'[t] = "WaitBit"
        BY <2>2, <3>1, <4>1 DEF GoesTo
      <4> QED BY <3>3, <4>2, <1>1 DEF Active
    <3>4. CASE b # t
      <4>1. ~Working(b)
        BY <1>1, <1>3, <1>5 DEF Wakers, WakerOf
      <4>2. pc'[b] = pc[b] /\ pc[b] \in {"WaitBit", "Signal", "SignalGate"}
        BY <3>2, <3>4, <4>1, <1>1 DEF Alive, Working
      <4> QED BY <4>2, <1>1 DEF Active
    <3> QED BY <3>3, <3>4
  <2> QED BY <2>1, <2>2
<1> QED BY <1>1, <1>3, <1>4, <1>5 DEF Promise

(* One turn of the signalling loop.                                         *)
LEMMA SignalStep ==
    ASSUME NEW q, NEW pos, NEW lo, NEW hi, NEW m, Inv(q, pos, lo, hi, m),
           NEW t \in Threads, Signal(t)
    PROVE  \E lo2 \in [Blocks -> Int] : Inv(q, pos, lo2, hi, m)'
<1>1. /\ Types /\ Queue(q, pos, lo, hi, m) /\ Ghosts(q, pos, lo, hi, m)
      /\ Holders(q[lo[NoBlock]])
  BY DEF Inv, Queue
<1>2. PICK b, p : Types' /\ Signals(q, lo, hi, t, b, p)
  BY SignalsStep
<1>3. lo \in [Blocks -> Int] /\ t \in Blocks /\ t # NoBlock /\ NoBlock \in Blocks
  BY <1>1 DEF Ghosts, Blocks
<1>4. PICK lo2 : Lowered(lo, lo2, t)
  <2>1. Lowered(lo, [lo EXCEPT ![t] = lo[t] + 1], t)
    BY <1>3 DEF Lowered
  <2> QED BY <2>1
<1>5. lo2 \in [Blocks -> Int] /\ lo2[NoBlock] = lo[NoBlock]
  BY <1>3, <1>4 DEF Lowered
<1>6. word.multi => word.waiting
  BY <1>1 DEF Holders, Shape
<1>7. Queue(q, pos, lo2, hi, m)'
  BY <1>1, <1>2, <1>4, <1>6, SignalQueue
<1>8. Promise'
  BY <1>2, SignalPromise
<1>9. /\ pc[t] \in {"Signal", "SignalGate"} /\ Types' /\ Others(t) /\ UNCHANGED <<word, held>>
  BY <1>2 DEF Signals
<1>10. pc'[t] \in {"Signal", "SignalGate", "Idle", "WaitBit"}
  BY <1>2 DEF Signals, GoesTo
<1>11. \A u \in Threads : blk'[u].prev = blk[u].prev /\ blk'[u].share = blk[u].share
  BY <1>2 DEF Signals, SameLinks
<1>12. Inv(q, pos, lo2, hi, m)'
  BY <1>5, <1>7, <1>8, <1>9, <1>10, <1>11, SignalStays
<1> QED BY <1>5, <1>12

-----------------------------------------------------------------------------
(***************************************************************************)
(* The invariant holds.                                                    *)
(***************************************************************************)
(* A step that keeps the row.                                               *)
LEMMA InvKept ==
    ASSUME NEW q, NEW pos, NEW lo, NEW hi, NEW m, Inv(q, pos, lo, hi, m)'
    PROVE  IInv'
<1>1. Ghosts(q, pos, lo, hi, m)
  BY DEF Inv, Queue, Ghosts
<1> QED BY <1>1 DEF IInv, Ghosts

(* The first state: nobody waits, nobody holds the lock.                    *)
LEMMA InitInv == Init => IInv
<1> SUFFICES ASSUME Init PROVE IInv
  OBVIOUS
<1>1. PICK q, pos, lo, hi, m : /\ Ghosts(q, pos, lo, hi, m)
                               /\ \A x \in Blocks : lo[x] = 2 /\ hi[x] = 1
  <2>1. Ghosts([i \in Int |-> NoBlock], [u \in Threads |-> 0], [x \in Blocks |-> 2],
               [x \in Blocks |-> 1], 0)
    BY DEF Ghosts, Blocks
  <2>2. \A x \in Blocks : [y \in Blocks |-> 2][x] = 2 /\ [y \in Blocks |-> 1][x] = 1
    OBVIOUS
  <2> QED BY <2>1, <2>2
<1>2. word = Free /\ \A u \in Threads : /\ pc[u] = "Idle" /\ loc[u] = NoLocals /\ held[u] = "no"
                                         /\ blk[u] = NullBlock /\ ~gate[u]
  BY DEF Init
<1>3. Types
  <2>1. pc \in [Threads -> PCs] /\ held \in [Threads -> {"no", "X", "S"}]
        /\ gate \in [Threads -> BOOLEAN]
    BY DEF Init, PCs
  <2>2. loc \in [Threads -> LocalVars]
    BY LocalsFields DEF Init
  <2>3. blk \in [Threads -> WaitBlock]
    BY BlockFields DEF Init
  <2>4. word \in Word
    BY <1>2, FreeFields
  <2> QED BY <2>1, <2>2, <2>3, <2>4 DEF Types
<1>4. /\ ~word.locked /\ ~word.waiting /\ ~word.waking /\ ~word.multi /\ word.shared = 0
      /\ word.ptr = NoBlock
  BY <1>2, FreeFields
<1>5. /\ NoBlock \in Blocks /\ lo[NoBlock] = 2 /\ hi[NoBlock] = 1
      /\ \A u \in Threads : u \in Blocks /\ lo[u] = 2 /\ hi[u] = 1
      /\ \A x \in Blocks, i \in Int : i \notin lo[x] .. hi[x]
  BY <1>1 DEF Blocks
<1>6. \A x \in Blocks : \A i \in lo[x] .. hi[x] : FALSE
  BY <1>1
<1>7. \A u \in Threads : ~Alive(u) /\ ~Working(u) /\ ~Unlocking(u) /\ ~Counting(u) /\ ~Finisher(u)
  BY <1>2 DEF Alive, Working, Unlocking, Counting, Finisher
<1>8. Queue(q, pos, lo, hi, m)
  <2>1. Seats(q, pos, lo, hi)
    BY <1>5, <1>6 DEF Seats
  <2>2. Links(q, lo[NoBlock], hi[NoBlock], m)
    BY <1>4, <1>5, <1>6 DEF Links
  <2>3. Chains(q, lo, hi) /\ Seated(q, lo, hi)
    BY <1>5, <1>6 DEF Chains, Seated
  <2>4. \A u \in Threads : SignalOf(q, lo, hi, u)
    BY <1>2, <1>5 DEF SignalOf
  <2>5. \A u \in Threads : WaiterOf(q, lo, hi, u)
    BY <1>2, <1>7 DEF WaiterOf
  <2> QED BY <1>1, <2>1, <2>2, <2>3, <2>4, <2>5 DEF Queue
<1>9. Wakers(q, hi[NoBlock], m) /\ Promise
  BY <1>2, <1>4, <1>7 DEF Wakers, WakerOf, Promise
<1>10. Calling /\ Releasers(q, lo[NoBlock], hi[NoBlock])
  BY <1>2, <1>7 DEF Calling, CallOf, Entering, Releasers, ReleaserOf
<1>11. Holders(q[lo[NoBlock]])
  <2>1. \A u \in Threads : blk[u].share = 0
    BY <1>2, BlockFields
  <2>2. Shape
    BY <1>4 DEF Shape
  <2>3. Counts(q[lo[NoBlock]])
    BY <1>2, <1>4, <2>1 DEF Counts
  <2>4. Finish(q[lo[NoBlock]])
    BY <1>4, <1>7 DEF Finish
  <2> QED BY <2>2, <2>3, <2>4 DEF Holders
<1>12. Inv(q, pos, lo, hi, m)
  BY <1>3, <1>8, <1>9, <1>10, <1>11 DEF Inv
<1> QED BY <1>1, <1>12 DEF IInv, Ghosts

(* Every step of a thread keeps it.                                         *)
LEMMA NextInv == IInv /\ [Next]_vars => IInv'
<1> SUFFICES ASSUME IInv, [Next]_vars PROVE IInv'
  OBVIOUS
<1>1. PICK q, pos, lo, hi, m : Inv(q, pos, lo, hi, m)
  BY DEF IInv
<1>2. CASE UNCHANGED vars
  BY <1>1, <1>2, StutterStep, InvKept
<1>3. CASE Next
  <2>1. PICK t \in Threads :
           StartAcquire(t) \/ StartRelease(t) \/ ConvertToExclusive(t) \/ Continue(t)
    BY <1>3 DEF Next
  <2>2. CASE StartAcquire(t)
    <3>1. CASE AcquireExclusive(t)
      BY <1>1, <3>1, AcquireExclusiveStep, InvKept
    <3>2. CASE AcquireShared(t)
      BY <1>1, <3>2, AcquireSharedStep, InvKept
    <3> QED BY <2>2, <3>1, <3>2 DEF StartAcquire
  <2>3. CASE StartRelease(t)
    <3>1. CASE ReleaseExclusive(t)
      BY <1>1, <3>1, ReleaseExclusiveStep, InvKept
    <3>2. CASE ReleaseExclusiveLoad(t)
      BY <1>1, <3>2, ReleaseLoads, InvKept
    <3>3. CASE ReleaseShared(t) /\ word = LockedBy(1)
      BY <1>1, <3>3, ReleaseSharedStep, InvKept
    <3>4. CASE ReleaseShared(t) /\ word # LockedBy(1)
      BY <1>1, <3>4, ReleaseLoads, InvKept
    <3>5. CASE ReleaseAnyLoad(t)
      BY <1>1, <3>5, ReleaseLoads, InvKept
    <3> QED BY <2>3, <3>1, <3>2, <3>3, <3>4, <3>5 DEF StartRelease
  <2>4. CASE ConvertToExclusive(t)
    BY <1>1, <2>4, ConvertStep, InvKept
  <2>5. CASE WaitAndWake(t)
    <3>1. CASE WaitBit(t)
      BY <1>1, <3>1, WaitBitStep, InvKept
    <3>2. CASE WaitGate(t)
      BY <1>1, <3>2, WaitGateStep, InvKept
    <3>3. CASE Optimize(t)
      <4>1. PICK m2 \in Int : Inv(q, pos, lo, hi, m2)'
        BY <1>1, <3>3, OptimizeStep
      <4> QED BY <4>1, InvKept
    <3>4. CASE WakeLocked(t)
      BY <1>1, <3>4, WakeLockedStep, InvKept
    <3>5. CASE WakeAll(t)
      BY <1>1, <3>5, WakeAllStep
    <3>6. CASE WakeOne(t)
      BY <1>1, <3>6, WakeOneStep
    <3>7. CASE Signal(t)
      <4>1. PICK lo2 \in [Blocks -> Int] : Inv(q, pos, lo2, hi, m)'
        BY <1>1, <3>7, SignalStep
      <4> QED BY <4>1, InvKept
    <3>8. CASE SignalGate(t)
      BY <1>1, <3>8, SignalGateStep, InvKept
    <3> QED BY <2>5, <3>1, <3>2, <3>3, <3>4, <3>5, <3>6, <3>7, <3>8 DEF WaitAndWake
  <2>6. ASSUME NEW a \in {"RS", "RA"},
               \/ ReleaseLoad(t, a) \/ ReleaseLoop(t, a) \/ ReleaseCount(t, a)
               \/ ReleaseUnlock(t, a)
        PROVE  IInv'
    <3>1. CASE ReleaseLoad(t, a)
      BY <1>1, <3>1, ReleaseLoads, InvKept
    <3>2. CASE ReleaseLoop(t, a)
      BY <1>1, <3>2, ReleaseLoopStep, InvKept
    <3>3. CASE ReleaseCount(t, a)
      BY <1>1, <3>3, ReleaseCountStep, InvKept
    <3>4. CASE ReleaseUnlock(t, a)
      BY <1>1, <3>4, ReleaseUnlockStep, InvKept
    <3> QED BY <2>6, <3>1, <3>2, <3>3, <3>4
  <2>7. CASE Continue(t)
    <3>1. CASE AcquireLoad(t)
      BY <1>1, <3>1, AcquireLoadStep, InvKept
    <3>2. CASE AcquireLoopLock(t)
      BY <1>1, <3>2, AcquireLoopLockStep, InvKept
    <3>3. CASE AcquireLoopPush(t)
      BY <1>1, <3>3, AcquireLoopPushStep
    <3>4. CASE TryToWakeLoad(t)
      BY <1>1, <3>4, TryToWakeLoadStep, InvKept
    <3>5. CASE TryToWake(t)
      BY <1>1, <3>5, TryToWakeStep, InvKept
    <3>6. CASE ReleaseExclusiveLoop(t)
      BY <1>1, <3>6, ReleaseExclusiveLoopStep, InvKept
    <3>7. CASE ReleaseAnyFast(t)
      BY <1>1, <3>7, ReleaseAnyFastStep, InvKept
    <3> QED BY <2>5, <2>6, <2>7, <3>1, <3>2, <3>3, <3>4, <3>5, <3>6, <3>7 DEF Continue
  <2> QED BY <2>1, <2>2, <2>3, <2>4, <2>7
<1> QED BY <1>2, <1>3

(* The inductive invariant holds in every state.                            *)
THEOREM Invariance == Spec => []IInv
  BY InitInv, NextInv, PTL DEF Spec

-----------------------------------------------------------------------------
(***************************************************************************)
(* What it says.                                                           *)
(***************************************************************************)
(* The last block, found from the word while somebody waits.                *)
LEMMA LastOfWord ==
    ASSUME NEW q, NEW pos, NEW lo, NEW hi, NEW m, Inv(q, pos, lo, hi, m), word.waiting
    PROVE  LastOf(word.ptr) = q[lo[NoBlock]]
<1>1. Queue(q, pos, lo, hi, m)
  BY DEF Inv
<1>2. word.ptr = q[hi[NoBlock]] /\ m \in lo[NoBlock] .. hi[NoBlock]
  BY <1>1 DEF Queue, Links
<1>3. lo[NoBlock] \in Int /\ hi[NoBlock] \in Int /\ m \in Int
  BY <1>1, RowFacts
<1>4. PICK k \in m .. hi[NoBlock] : k = hi[NoBlock]
  BY <1>2, <1>3
<1>5. Walk(q, pos, m, k) /\ blk[q[m]].last = q[lo[NoBlock]]
  BY <1>1, MainWalk
<1>6. LastOf(q[k]) = blk[q[m]].last
  BY <1>5, WalkEnds
<1> QED BY <1>2, <1>4, <1>5, <1>6

(* The only holder is one of one.                                           *)
LEMMA SoleOne ==
    ASSUME Types, NEW t \in Threads, Sole(t)
    PROVE  /\ Cardinality(Owners \cup Sharers) = 1
           /\ held[t] = "X" => Cardinality(Owners) = 1
<1>1. held \in [Threads -> {"no", "X", "S"}]
  BY DEF Types
<1>2. Owners \cup Sharers = {t}
  BY <1>1 DEF Owners, Sharers, Sole
<1>3. held[t] = "X" => Owners = {t}
  BY <1>1 DEF Owners, Sole
<1> QED BY <1>2, <1>3, FS_Singleton

(* The word and the last wait block tell who holds the lock.                *)
THEOREM HoldersCountedRight == Spec => []WordCountsHolders
<1>1. IInv => WordCountsHolders
  <2> SUFFICES ASSUME IInv PROVE WordCountsHolders
    OBVIOUS
  <2>1. PICK q, pos, lo, hi, m : Inv(q, pos, lo, hi, m)
    BY DEF IInv
  <2>2. PICK b : b = q[lo[NoBlock]]
    OBVIOUS
  <2>3. Types /\ Shape /\ Counts(b) /\ word \in Word /\ word.shared \in Nat
    BY <2>1, <2>2, WordFields DEF Inv, Holders, Types
  <2>4. TypeOK
    BY <2>3 DEF Types, TypeOK, LocalVars
  <2>5. ~word.locked => Sharers \cup Owners = {}
    BY <2>3 DEF Counts, Sharers, Owners
  <2>6. ASSUME word.locked, ~word.waiting
        PROVE  /\ word.shared = Cardinality(Sharers)
               /\ Cardinality(Owners) = IF word.shared = 0 THEN 1 ELSE 0
    <3>1. /\ word.shared = Cardinality(Sharers)
          /\ word.shared = 0 => \E t \in Threads : Sole(t)
          /\ word.shared > 0 => \A t \in Threads : held[t] # "X"
      BY <2>3, <2>6 DEF Counts
    <3>2. CASE word.shared = 0
      <4>1. PICK t \in Threads : Sole(t)
        BY <3>1, <3>2
      <4>2. held[t] # "S"
        BY <3>1, <3>2, SharersZero
      <4>3. held[t] = "X"
        BY <4>1, <4>2, <2>3 DEF Sole, Types
      <4>4. Cardinality(Owners) = 1
        BY <4>1, <4>3, <2>3, SoleOne
      <4> QED BY <3>1, <3>2, <4>4
    <3>3. CASE word.shared # 0
      <4>1. Owners = {}
        BY <3>1, <3>3, <2>3 DEF Owners
      <4> QED BY <3>1, <3>3, <4>1, FS_EmptySet
    <3> QED BY <3>2, <3>3
  <2>7. ASSUME word.locked, word.waiting, word.multi
        PROVE  Owners = {} /\ blk[LastOf(word.ptr)].share = Cardinality(Sharers)
    <3>1. LastOf(word.ptr) = b
      BY <2>1, <2>2, <2>7, LastOfWord
    <3>2. (\A t \in Threads : held[t] # "X") /\ blk[b].share = Cardinality(Sharers)
      BY <2>3, <2>7 DEF Counts
    <3> QED BY <3>1, <3>2 DEF Owners
  <2>8. ASSUME word.locked, word.waiting, ~word.multi
        PROVE  Cardinality(Owners \cup Sharers) = 1
    <3>1. PICK t \in Threads : Sole(t)
      BY <2>3, <2>8 DEF Counts
    <3> QED BY <3>1, <2>3, SoleOne
  <2> QED BY <2>4, <2>5, <2>6, <2>7, <2>8 DEF WordCountsHolders
<1> QED BY <1>1, Invariance, PTL

(* One thread at a time works on the list, under the Waking bit.            *)
THEOREM OneWakerHolds == Spec => []OneWaker
<1>1. IInv => OneWaker
  BY DEF IInv, Inv, Wakers, WakerOf, OneWaker
<1> QED BY <1>1, Invariance, PTL

(* No walk and no signal touches the block of a thread that has gone on.    *)
THEOREM NoDangling == Spec => []NoDanglingBlock
<1>1. IInv => NoDanglingBlock
  <2> SUFFICES ASSUME IInv, NEW t \in Threads
               PROVE  /\ Working(t) => WalkAlive(Wk(t).ptr)
                      /\ pc[t] \in {"RSLoop", "RALoop"} /\ Old(t).waiting /\ Old(t).multi =>
                            WalkAlive(Old(t).ptr)
                      /\ pc[t] \in {"Signal", "SignalGate"} => Alive(loc[t].cur)
                      /\ pc[t] = "SignalGate" => pc[loc[t].cur] = "Gate" /\ ~gate[loc[t].cur]
    BY DEF NoDanglingBlock
  <2>1. PICK q, pos, lo, hi, m : Inv(q, pos, lo, hi, m)
    BY DEF IInv
  <2>2. Queue(q, pos, lo, hi, m)
    BY <2>1 DEF Inv
  <2>3. /\ lo[NoBlock] \in Int /\ hi[NoBlock] \in Int /\ m \in Int /\ NoBlock \in Blocks
        /\ word.waiting <=> lo[NoBlock] <= hi[NoBlock]
    BY <2>2, RowFacts
  <2>4. \A i \in lo[NoBlock] .. hi[NoBlock] : Alive(q[i])
    BY <2>2, <2>3, RowFacts
  <2>5. word.waiting => Alive(q[lo[NoBlock]])
    BY <2>3, <2>4
  <2>6. ASSUME Working(t) PROVE WalkAlive(Wk(t).ptr)
    <3>1. word.waiting
      BY <2>1, <2>6, WorkerSees
    <3>2. PICK k \in m .. hi[NoBlock] : /\ LastOf(Wk(t).ptr) = q[lo[NoBlock]]
                                        /\ Visited(Wk(t).ptr) = Span(q, m, k)
      BY <2>1, <2>6, WorkerSees
    <3>3. m \in lo[NoBlock] .. hi[NoBlock]
      BY <3>1, <2>2 DEF Queue, Links
    <3>4. \A i \in m .. k : i \in lo[NoBlock] .. hi[NoBlock]
      BY <2>3, <3>3
    <3>5. \A c \in Visited(Wk(t).ptr) : Alive(c)
      BY <2>4, <3>2, <3>4 DEF Span
    <3> QED BY <2>5, <3>1, <3>2, <3>5 DEF WalkAlive
  <2>7. ASSUME pc[t] \in {"RSLoop", "RALoop"}, Old(t).waiting, Old(t).multi
        PROVE  WalkAlive(Old(t).ptr)
    <3>1. Counting(t)
      BY <2>7 DEF Counting
    <3>2. /\ word.waiting /\ LastOf(Old(t).ptr) = q[lo[NoBlock]]
          /\ \A c \in Visited(Old(t).ptr) : \E i \in lo[NoBlock] .. hi[NoBlock] : c = q[i]
      BY <2>1, <3>1, CounterSees
    <3> QED BY <2>4, <2>5, <3>2 DEF WalkAlive
  <2>8. ASSUME pc[t] = "Signal" PROVE Alive(loc[t].cur)
    <3>1. lo[t] <= hi[t] /\ loc[t].cur = q[lo[t]]
      BY <2>2, <2>8 DEF Queue, SignalOf
    <3>2. t \in Blocks /\ lo[t] \in Int /\ hi[t] \in Int
      BY <2>2, RowFacts
    <3>3. lo[t] \in lo[t] .. hi[t]
      BY <3>1, <3>2
    <3> QED BY <2>2, <3>1, <3>2, <3>3, RowFacts
  <2>9. ASSUME pc[t] = "SignalGate"
        PROVE  Alive(loc[t].cur) /\ pc[loc[t].cur] = "Gate" /\ ~gate[loc[t].cur]
    BY <2>2, <2>9 DEF Queue, SignalOf, Alive
  <2> QED BY <2>6, <2>7, <2>8, <2>9
<1> QED BY <1>1, Invariance, PTL

(* The sanity checks of the code never fail.                                *)
THEOREM ChecksHold == Spec => []SanityChecks
<1>1. IInv => SanityChecks
  <2> SUFFICES ASSUME IInv, NEW t \in Threads
               PROVE  /\ pc[t] = "Wake" => Wk(t).waiting /\ Wk(t).waking /\ ~Wk(t).multi
                      /\ pc[t] = "Wake" /\ ~Wk(t).locked /\ WakesAlone(t) =>
                            word.waiting /\ Wk(t).ptr # LastOf(Wk(t).ptr)
                      /\ pc[t] = "Signal" => ~blk[loc[t].cur].signaled
                      /\ pc[t] = "Gate" /\ gate[t] => blk[t].signaled /\ blk[t].share = 0
                      /\ pc[t] \in {"RSLoop", "RALoop"} /\ Old(t).waiting /\ Old(t).multi =>
                            /\ blk[LastOf(Old(t).ptr)].share > 0
                            /\ blk[LastOf(Old(t).ptr)].exclusive
                      /\ pc[t] = "RXLoop" => Old(t).locked /\ (Old(t).waiting \/ Old(t).shared = 0)
    BY DEF SanityChecks
  <2>1. PICK q, pos, lo, hi, m : Inv(q, pos, lo, hi, m)
    BY DEF IInv
  <2>2. /\ Queue(q, pos, lo, hi, m) /\ CallOf(t) /\ WakerOf(q, hi[NoBlock], m, t)
        /\ Types /\ Holders(q[lo[NoBlock]])
    BY <2>1 DEF Inv, Calling, Wakers
  <2>3. pc[t] = "Wake" => Wk(t).waiting /\ Wk(t).waking /\ ~Wk(t).multi
    BY <2>2 DEF WakerOf, Working
  <2>4. ASSUME pc[t] = "Wake", WakesAlone(t)
        PROVE  word.waiting /\ Wk(t).ptr # LastOf(Wk(t).ptr)
    <3>1. Working(t)
      BY <2>4 DEF Working
    <3>2. PICK k \in Int : Saw(q, lo, hi, m, k, t)
      BY <2>1, <3>1, WorkerSaw
    <3>3. /\ word.waiting /\ Wk(t).ptr = q[k] /\ LastOf(Wk(t).ptr) = q[lo[NoBlock]]
          /\ m <= k /\ k <= hi[NoBlock] /\ m \in lo[NoBlock] .. hi[NoBlock]
      BY <3>2 DEF Saw
    <3>4. Linked(Wk(t).ptr)[q[lo[NoBlock]]].prev # NoBlock
      BY <2>4, <3>3 DEF WakesAlone
    <3>5. k > lo[NoBlock]
      BY <2>2, <3>2, <3>4, AloneFacts
    <3>6. lo[NoBlock] \in Int /\ hi[NoBlock] \in Int /\ m \in Int /\ NoBlock \in Blocks
      BY <2>2, RowFacts
    <3>7. k \in lo[NoBlock] .. hi[NoBlock] /\ lo[NoBlock] \in lo[NoBlock] .. hi[NoBlock]
      BY <3>3, <3>5, <3>6
    <3>8. pos[q[k]] = k /\ pos[q[lo[NoBlock]]] = lo[NoBlock]
      BY <2>2, <3>6, <3>7, RowFacts
    <3> QED BY <3>3, <3>5, <3>6, <3>8
  <2>5. ASSUME pc[t] = "Signal" PROVE ~blk[loc[t].cur].signaled
    <3>1. lo[t] <= hi[t] /\ loc[t].cur = q[lo[t]]
      BY <2>2, <2>5 DEF Queue, SignalOf
    <3>2. t \in Blocks /\ lo[t] \in Int /\ hi[t] \in Int
      BY <2>2, RowFacts
    <3>3. lo[t] \in lo[t] .. hi[t]
      BY <3>1, <3>2
    <3>4. InWait(q[lo[t]])
      BY <2>2, <3>2, <3>3, RowFacts
    <3> QED BY <3>1, <3>4 DEF InWait
  <2>6. ASSUME pc[t] = "Gate", gate[t] PROVE blk[t].signaled /\ blk[t].share = 0
    <3>1. blk[t].signaled
      BY <2>2, <2>6 DEF Queue, WaiterOf
    <3>2. blk[t].share = 0
      BY <2>1, <2>6, WokenFacts
    <3> QED BY <3>1, <3>2
  <2>7. ASSUME pc[t] \in {"RSLoop", "RALoop"}, Old(t).waiting, Old(t).multi
        PROVE  blk[LastOf(Old(t).ptr)].share > 0 /\ blk[LastOf(Old(t).ptr)].exclusive
    <3>1. Counting(t) /\ held[t] # "no"
      BY <2>2, <2>7 DEF Counting, CallOf
    <3>2. word.multi /\ LastOf(Old(t).ptr) = q[lo[NoBlock]]
      BY <2>1, <3>1, CounterSees
    <3>3. blk[q[lo[NoBlock]]].share > 0
      BY <2>2, <3>1, <3>2, HolderFacts
    <3>4. blk[q[lo[NoBlock]]].exclusive
      BY <2>2, <3>2 DEF Queue, Links
    <3> QED BY <3>2, <3>3, <3>4
  <2>8. pc[t] = "RXLoop" => Old(t).locked /\ (Old(t).waiting \/ Old(t).shared = 0)
    BY <2>2 DEF CallOf
  <2> QED BY <2>3, <2>4, <2>5, <2>6, <2>7, <2>8
<1> QED BY <1>1, Invariance, PTL

(* Nobody is left asleep on a lock that is free.                            *)
THEOREM NoWakeupLost == Spec => []NoLostWakeup
<1>1. IInv => NoLostWakeup
  <2> SUFFICES ASSUME IInv, NEW t \in Threads,
                      \A u \in Threads : held[u] = "no" /\ (pc[u] = "Idle" \/ (pc[u] = "Gate" /\ ~gate[u]))
               PROVE  pc[t] = "Idle"
    BY DEF NoLostWakeup
  <2> SUFFICES ASSUME pc[t] = "Gate" PROVE FALSE
    OBVIOUS
  <2>1. PICK q, pos, lo, hi, m : Inv(q, pos, lo, hi, m)
    BY DEF IInv
  <2>2. /\ Queue(q, pos, lo, hi, m) /\ Promise /\ word \in Word
        /\ Shape /\ Counts(q[lo[NoBlock]]) /\ Finish(q[lo[NoBlock]])
    BY <2>1 DEF Inv, Holders, Types
  <2>3. \A u \in Threads : /\ pc[u] \notin {"Signal", "SignalGate"} /\ ~Working(u)
                           /\ ~Finisher(u) /\ ~Sole(u) /\ ~Active(u)
    BY DEF Working, Finisher, Unlocking, Sole, Active
  <2>4. Alive(t) /\ ~gate[t]
    BY DEF Alive
  <2>5. ~blk[t].signaled
    BY <2>2, <2>3, <2>4 DEF Queue, WaiterOf, Signalling
  <2>6. HasSeat(q, lo, hi, t)
    BY <2>2, <2>4, <2>5 DEF Queue, WaiterOf
  <2>7. PICK x \in Blocks : \E i \in lo[x] .. hi[x] : q[i] = t
    BY <2>6 DEF HasSeat
  <2>8. lo[x] <= hi[x]
    <3>1. lo[x] \in Int /\ hi[x] \in Int
      BY <2>2 DEF Queue, Ghosts
    <3> QED BY <2>7, <3>1
  <2>9. x = NoBlock
    <3>1. ASSUME x \in Threads PROVE FALSE
      <4>1. hi[x] < lo[x]
        BY <2>2, <2>3, <3>1 DEF Queue, SignalOf
      <4>2. lo[x] \in Int /\ hi[x] \in Int
        BY <2>2 DEF Queue, Ghosts
      <4> QED BY <2>8, <4>1, <4>2
    <3> QED BY <3>1 DEF Blocks
  <2>10. word.waiting
    BY <2>2, <2>8, <2>9 DEF Queue, Links
  <2>11. ~word.waking
    BY <2>2, <2>3 DEF Promise
  <2>12. ~word.multi
    <3>1. Cardinality(Sharers) = 0
      BY SharersZero
    <3> QED BY <2>2, <2>3, <3>1 DEF Counts, Finish
  <2>13. ~word.locked
    BY <2>2, <2>3, <2>10, <2>12 DEF Counts
  <2> QED BY <2>2, <2>3, <2>10, <2>11, <2>13 DEF Promise
<1> QED BY <1>1, Invariance, PTL

-----------------------------------------------------------------------------
(***************************************************************************)
(* The abstract lock.  held is its only variable and is mapped to itself.  *)
(***************************************************************************)
(* The calls that take the lock, or make a sharer its owner.                *)
LEMMA TakeImplements ==
    ASSUME IInv, NEW t \in Threads,
           AcquireExclusive(t) \/ AcquireShared(t) \/ AcquireLoopLock(t) \/ ConvertToExclusive(t)
    PROVE  Abstract!Next \/ UNCHANGED held
<1>1. PICK q, pos, lo, hi, m : Inv(q, pos, lo, hi, m)
  BY DEF IInv
<1>2. /\ Types /\ Shape /\ Counts(q[lo[NoBlock]]) /\ CallOf(t)
      /\ word \in Word /\ word.shared \in Nat
  BY <1>1, WordFields DEF Inv, Holders, Calling, Types
<1>3. ~word.locked => \A u \in Threads : held[u] = "no"
  BY <1>2 DEF Counts
<1>4. CASE AcquireExclusive(t)
  <2>1. CASE ~word.locked
    <3>1. Abstract!LockExclusive(t)
      BY <1>3, <1>4, <2>1 DEF AcquireExclusive, Hold, Abstract!LockExclusive
    <3> QED BY <3>1 DEF Abstract!Next
  <2>2. CASE word.locked
    BY <1>4, <2>2 DEF AcquireExclusive
  <2> QED BY <2>1, <2>2
<1>5. CASE AcquireShared(t)
  <2>1. CASE word = Free
    <3>1. \A u \in Threads : held[u] = "no"
      BY <1>3, <2>1, FreeFields
    <3>2. Abstract!LockShared(t)
      BY <1>5, <2>1, <3>1 DEF AcquireShared, Hold, Abstract!LockShared
    <3> QED BY <3>2 DEF Abstract!Next
  <2>2. CASE word # Free
    BY <1>5, <2>2 DEF AcquireShared
  <2> QED BY <2>1, <2>2
<1>6. CASE AcquireLoopLock(t)
  <2>1. CASE word = Old(t)
    <3>1. /\ held[t] = "no" /\ CanLock(word, loc[t].want) /\ Hold(t, loc[t].want)
          /\ loc[t].want \in {"X", "S"}
      BY <1>2, <1>6, <2>1, LocalsFields DEF AcquireLoopLock, CallOf, Entering, Types
    <3>2. CASE loc[t].want = "X"
      <4>1. ~word.locked
        BY <3>1, <3>2 DEF CanLock
      <4>2. Abstract!LockExclusive(t)
        BY <1>3, <3>1, <3>2, <4>1 DEF Hold, Abstract!LockExclusive
      <4> QED BY <4>2 DEF Abstract!Next
    <3>3. CASE loc[t].want = "S"
      <4>1. \A u \in Threads : held[u] # "X"
        <5>1. CASE ~word.locked
          BY <5>1, <1>3
        <5>2. CASE word.locked
          <6>1. ~word.waiting /\ word.shared > 0
            BY <3>1, <5>2 DEF CanLock
          <6> QED BY <1>2, <5>2, <6>1 DEF Counts
        <5> QED BY <5>1, <5>2
      <4>2. Abstract!LockShared(t)
        BY <3>1, <3>3, <4>1 DEF Hold, Abstract!LockShared
      <4> QED BY <4>2 DEF Abstract!Next
    <3> QED BY <3>1, <3>2, <3>3
  <2>2. CASE word # Old(t)
    BY <1>6, <2>2 DEF AcquireLoopLock
  <2> QED BY <2>1, <2>2
<1>7. CASE ConvertToExclusive(t)
  <2>1. Sole(t) /\ held[t] = "S" /\ Hold(t, "X")
    BY <1>1, <1>7, ConvertStep DEF ConvertToExclusive
  <2>2. Abstract!Upgrade(t)
    BY <2>1 DEF Sole, Hold, Abstract!Upgrade
  <2> QED BY <2>2 DEF Abstract!Next
<1> QED BY <1>4, <1>5, <1>6, <1>7

(* The calls that give it up.                                               *)
LEMMA GiveImplements ==
    ASSUME IInv, NEW t \in Threads,
           \/ ReleaseExclusive(t) \/ ReleaseShared(t)
           \/ ReleaseExclusiveLoop(t) \/ ReleaseAnyFast(t)
           \/ \E a \in {"RS", "RA"} :
                 ReleaseLoop(t, a) \/ ReleaseCount(t, a) \/ ReleaseUnlock(t, a)
    PROVE  Abstract!Next \/ UNCHANGED held
<1>1. PICK q, pos, lo, hi, m : Inv(q, pos, lo, hi, m)
  BY DEF IInv
<1>2. held \in [Threads -> {"no", "X", "S"}]
  BY <1>1 DEF Inv, Types
<1>3. Hold(t, "no") \/ UNCHANGED held
  BY DEF ReleaseExclusive, ReleaseShared, ReleaseExclusiveLoop, ReleaseAnyFast,
         ReleaseLoop, ReleaseCount, ReleaseUnlock
<1>4. CASE Hold(t, "no") /\ held[t] # "no"
  <2>1. Abstract!Unlock(t)
    BY <1>4 DEF Hold, Abstract!Unlock
  <2> QED BY <2>1 DEF Abstract!Next
<1>5. CASE Hold(t, "no") /\ held[t] = "no"
  <2>1. held' = [held EXCEPT ![t] = held[t]]
    BY <1>5 DEF Hold
  <2> QED BY <1>2, <2>1
<1> QED BY <1>3, <1>4, <1>5

(* The other steps leave the holders as they are.                           *)
LEMMA OthersImplement ==
    ASSUME NEW t \in Threads,
           \/ ReleaseExclusiveLoad(t) \/ ReleaseAnyLoad(t)
           \/ AcquireLoad(t) \/ AcquireLoopPush(t) \/ WaitAndWake(t)
           \/ TryToWakeLoad(t) \/ TryToWake(t)
           \/ \E a \in {"RS", "RA"} : ReleaseLoad(t, a)
    PROVE  UNCHANGED held
<1>1. CASE WaitAndWake(t)
  BY <1>1 DEF WaitAndWake, WaitBit, WaitGate, Optimize, WakeLocked, WakeAll, WakeOne, Signal,
              SignalGate
<1>2. CASE ~WaitAndWake(t)
  BY <1>2 DEF ReleaseExclusiveLoad, ReleaseAnyLoad, AcquireLoad, AcquireLoopPush,
              TryToWakeLoad, TryToWake, ReleaseLoad
<1> QED BY <1>1, <1>2

(* Every step is one of the abstract lock, or leaves it alone.              *)
LEMMA StepImplements == IInv /\ [Next]_vars => [Abstract!Next]_held
<1> SUFFICES ASSUME IInv, [Next]_vars PROVE Abstract!Next \/ UNCHANGED held
  OBVIOUS
<1>1. CASE UNCHANGED vars
  BY <1>1 DEF vars
<1>2. CASE Next
  <2>1. PICK t \in Threads :
           StartAcquire(t) \/ StartRelease(t) \/ ConvertToExclusive(t) \/ Continue(t)
    BY <1>2 DEF Next
  <2>2. \/ AcquireExclusive(t) \/ AcquireShared(t) \/ AcquireLoopLock(t) \/ ConvertToExclusive(t)
        \/ ReleaseExclusive(t) \/ ReleaseShared(t)
        \/ ReleaseExclusiveLoop(t) \/ ReleaseAnyFast(t)
        \/ \E a \in {"RS", "RA"} :
              ReleaseLoop(t, a) \/ ReleaseCount(t, a) \/ ReleaseUnlock(t, a)
        \/ ReleaseExclusiveLoad(t) \/ ReleaseAnyLoad(t)
        \/ AcquireLoad(t) \/ AcquireLoopPush(t) \/ WaitAndWake(t)
        \/ TryToWakeLoad(t) \/ TryToWake(t)
        \/ \E a \in {"RS", "RA"} : ReleaseLoad(t, a)
    BY <2>1 DEF StartAcquire, StartRelease, Continue
  <2> QED BY <2>2, TakeImplements, GiveImplements, OthersImplement
<1> QED BY <1>1, <1>2

(* The push lock keeps the promise of RWLock.                               *)
THEOREM Implementation == Spec => ImplementsRWLock
<1>1. Init => Abstract!Init
  BY DEF Init, Abstract!Init
<1> QED
  BY <1>1, Invariance, StepImplements, PTL DEF Spec, ImplementsRWLock, Abstract!Spec
=============================================================================
