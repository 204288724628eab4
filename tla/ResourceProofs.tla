--------------------------- MODULE ResourceProofs ---------------------------
(***************************************************************************)
(* The invariants of Resource hold for every number of owners and every    *)
(* size of the owner table.                                                *)
(*                                                                         *)
(* The inductive invariant has a part for each of the three things that    *)
(* must agree: what each thread does and has (Calls), the table that names *)
(* the owners (Named, First), and the counts (Counting).  A step of one    *)
(* thread changes a count by what the thread was and what it becomes       *)
(* (MovedCounts), and a table by one or two entries (NamedPut, NamedFree,  *)
(* NamedPass, NamedMerge, NamedGrow).                                      *)
(***************************************************************************)
EXTENDS Resource, DataTheorems

(* How many owners are in each situation.                                   *)
Sharing       == Cardinality(In("S"))
Owning        == Cardinality(In("X") \cup At("SetOwner"))
Taking        == Cardinality(At("SetOwner"))
Listing       == Cardinality({o \in Owners : loc[o].call = "List"})
Setting       == Cardinality(At("SetEvent"))
SharedQueue   == Cardinality(At("WaitShared") \cup At("WaitUnlisted"))
ExclusiveQueue == Cardinality(At("WaitExclusive"))
Posted        == SumFunctionOnSet(Posting, Owners)
IsSet         == Number(event.set)
Released      == semaphore.count

(* The counts of the resource agree with them.                              *)
Counting ==
    /\ activeCount = Number(activeEntries > 0)
    /\ exclusive =>
          /\ activeEntries = 1 /\ Sharing = 0 /\ SharedGrants = 0 /\ Listing = 0
          /\ Owning + ExclusiveGrants = 1
    /\ ~exclusive =>
          /\ Owning = 0 /\ ExclusiveGrants = 0
          /\ activeEntries = Sharing + SharedGrants + Listing
    /\ SharedQueue = sharedWaiters + SharedGrants
    /\ ExclusiveQueue = exclusiveWaiters + ExclusiveGrants
    /\ sharedWaiters > 0 => exclusive \/ exclusiveWaiters > 0
    /\ exclusiveWaiters > 0 => activeEntries > 0
    /\ ownerEntry.thread = HandedOver <=> Taking + ExclusiveGrants > 0

(* What a thread that is at l with locals r has, h; whether the semaphore   *)
(* and the event exist.                                                     *)
CallOK(l, r, h, sem, ev) ==
    /\ h.mode = "no" <=> h.n = 0
    /\ l \notin {"Idle", "ReleaseSemaphore", "SetEvent"} => h.n = 0
    /\ r.call = "List" => l \in {"List", "Expand"}
    /\ l = "List" => r.call = "List"
    /\ l \in {"WaitShared", "WaitUnlisted"} => sem
    /\ l = "WaitExclusive" => ev

Calls ==
    /\ \A o \in Owners : CallOK(pc[o], loc[o], held[o], semaphore.there, event.there)
    /\ semaphore.there \/ Released = 0
    /\ event.there \/ IsSet = 0

(* The entries E name the owners, each with its count C.                    *)
Named(E, C) ==
    /\ \A i, j \in DOMAIN E : E[i].thread \in Owners /\ E[i].thread = E[j].thread => i = j
    /\ \A i \in DOMAIN E : E[i].thread \in Owners =>
          E[i].count = C[E[i].thread] /\ C[E[i].thread] > 0
    /\ \A o \in Owners : C[o] > 0 => \E i \in DOMAIN E : E[i].thread = o
    /\ \A i \in DOMAIN E : E[i].thread = NoOwner => E[i].count = 0

Entries == [i \in Indices |-> Entry(i)]
Counts  == [o \in Owners |-> Count(o)]

(* The first entry is nobody's reservation, and an exclusive owner's.       *)
First ==
    /\ ownerEntry.thread \in Owners => pc[ownerEntry.thread] # "WaitShared"
    /\ ownerEntry.thread = HandedOver => ownerEntry.count = 1
    /\ \A o \in Owners : held[o].mode = "X" => ownerEntry.thread = o

IInv == TypeOK /\ Calls /\ Named(Entries, Counts) /\ First /\ Counting

-----------------------------------------------------------------------------
(* What is assumed of the constants.                                        *)
LEMMA Constants ==
    /\ IsFiniteSet(Owners) /\ NoOwner \notin Owners /\ HandedOver \notin Owners
    /\ NoOwner # HandedOver /\ Threads \subseteq Owners /\ Pointers \subseteq Owners
    /\ FirstSize \in Nat /\ FirstSize > 1 /\ MoreEntries \in Nat
  BY ResourceAssumption DEF Owners

(* One element enters or leaves a set.                                      *)
LEMMA OneMoves ==
    ASSUME NEW D, IsFiniteSet(D), NEW S \in SUBSET D, NEW T \in SUBSET D, NEW t \in D,
           \A o \in D \ {t} : o \in S <=> o \in T
    PROVE  /\ Cardinality(S) \in Nat /\ Cardinality(T) \in Nat
           /\ Cardinality(T) = Cardinality(S) - Number(t \in S) + Number(t \in T)
<1>1. IsFiniteSet(S) /\ IsFiniteSet(T) /\ Cardinality(S) \in Nat /\ Cardinality(T) \in Nat
  BY FS_Subset, FS_CardinalityType
<1>2. CASE (t \in S) = (t \in T)
  <2>1. S = T
    BY <1>2
  <2>2. Number(t \in S) = Number(t \in T) /\ Number(t \in S) \in Nat
    BY <1>2 DEF Number
  <2> QED BY <1>1, <2>1, <2>2
<1>3. CASE t \in S /\ t \notin T
  <2>1. T = S \ {t}
    BY <1>3
  <2> QED BY <1>1, <1>3, <2>1, FS_RemoveElement DEF Number
<1>4. CASE t \notin S /\ t \in T
  <2>1. T = S \cup {t}
    BY <1>4
  <2> QED BY <1>1, <1>4, <2>1, FS_AddElement DEF Number
<1> QED BY <1>2, <1>3, <1>4

-----------------------------------------------------------------------------
(* The entry i becomes t's, or its count changes.                           *)
LEMMA NamedPut ==
    ASSUME NEW E, NEW C \in [Owners -> Nat], NEW E2, NEW C2 \in [Owners -> Nat], Named(E, C),
           DOMAIN E2 = DOMAIN E, NEW i \in DOMAIN E, NEW t \in Owners,
           E2[i] = [thread |-> t, count |-> C2[t]], C2[t] > 0,
           \A j \in DOMAIN E \ {i} : E2[j] = E[j],
           \A o \in Owners \ {t} : C2[o] = C[o],
           E[i].thread = t \/ (E[i].thread \notin Owners /\ C[t] = 0)
    PROVE  Named(E2, C2)
<1>1. \A j \in DOMAIN E \ {i} : E[j].thread # t
  BY DEF Named
<1>2. \A k, j \in DOMAIN E2 : E2[k].thread \in Owners /\ E2[k].thread = E2[j].thread => k = j
  BY <1>1 DEF Named
<1>3. \A j \in DOMAIN E2 : E2[j].thread \in Owners =>
          E2[j].count = C2[E2[j].thread] /\ C2[E2[j].thread] > 0
  BY <1>1 DEF Named
<1>4. ASSUME NEW o \in Owners, C2[o] > 0 PROVE \E j \in DOMAIN E2 : E2[j].thread = o
  <2>1. CASE o = t
    BY <2>1
  <2>2. CASE o # t
    <3>1. PICK j \in DOMAIN E : E[j].thread = o
      BY <1>4, <2>2 DEF Named
    <3> QED BY <2>2, <3>1
  <2> QED BY <2>1, <2>2
<1>5. \A j \in DOMAIN E2 : E2[j].thread = NoOwner => E2[j].count = 0
  BY Constants DEF Named
<1> QED BY <1>2, <1>3, <1>4, <1>5 DEF Named

(* The entry of t is given up, and perhaps one that is nobody's.            *)
LEMMA NamedFree ==
    ASSUME NEW E, NEW C \in [Owners -> Nat], NEW E2, NEW C2 \in [Owners -> Nat], Named(E, C),
           DOMAIN E2 = DOMAIN E, NEW t \in Owners, C2[t] = 0,
           \A o \in Owners \ {t} : C2[o] = C[o],
           \A j \in DOMAIN E :
              \/ E2[j] = E[j] /\ E[j].thread # t
              \/ /\ E[j].thread = t \/ E[j].thread \notin Owners
                 /\ E2[j].thread \notin Owners
                 /\ E2[j].thread = NoOwner => E2[j].count = 0
    PROVE  Named(E2, C2)
<1>2. \A k, j \in DOMAIN E2 : E2[k].thread \in Owners /\ E2[k].thread = E2[j].thread => k = j
  BY DEF Named
<1>3. \A j \in DOMAIN E2 : E2[j].thread \in Owners =>
          E2[j].count = C2[E2[j].thread] /\ C2[E2[j].thread] > 0
  BY DEF Named
<1>4. ASSUME NEW o \in Owners, C2[o] > 0 PROVE \E j \in DOMAIN E2 : E2[j].thread = o
  <2>1. o # t
    BY <1>4
  <2>2. PICK j \in DOMAIN E : E[j].thread = o
    BY <1>4, <2>1 DEF Named
  <2> QED BY <2>1, <2>2
<1>5. \A j \in DOMAIN E2 : E2[j].thread = NoOwner => E2[j].count = 0
  BY DEF Named
<1> QED BY <1>2, <1>3, <1>4, <1>5 DEF Named

(* The entry of t becomes that of p, who had none.                          *)
LEMMA NamedPass ==
    ASSUME NEW E, NEW C \in [Owners -> Nat], NEW E2, NEW C2 \in [Owners -> Nat], Named(E, C),
           DOMAIN E2 = DOMAIN E, NEW i \in DOMAIN E, NEW t \in Owners, NEW p \in Owners,
           E[i].thread = t, E2[i] = [thread |-> p, count |-> C2[p]], C2[p] > 0,
           C2[t] = 0, C[p] = 0,
           \A j \in DOMAIN E \ {i} : E2[j] = E[j],
           \A o \in Owners \ {t, p} : C2[o] = C[o]
    PROVE  Named(E2, C2)
<1>1. \A j \in DOMAIN E \ {i} : E[j].thread # t /\ E[j].thread # p
  BY DEF Named
<1>2. \A k, j \in DOMAIN E2 : E2[k].thread \in Owners /\ E2[k].thread = E2[j].thread => k = j
  BY <1>1 DEF Named
<1>3. \A j \in DOMAIN E2 : E2[j].thread \in Owners =>
          E2[j].count = C2[E2[j].thread] /\ C2[E2[j].thread] > 0
  BY <1>1 DEF Named
<1>4. ASSUME NEW o \in Owners, C2[o] > 0 PROVE \E j \in DOMAIN E2 : E2[j].thread = o
  <2>1. CASE o = p
    BY <2>1
  <2>2. CASE o # p
    <3>1. o # t
      BY <1>4
    <3>2. PICK j \in DOMAIN E : E[j].thread = o
      BY <1>4, <2>2, <3>1 DEF Named
    <3> QED BY <3>1, <3>2
  <2> QED BY <2>1, <2>2
<1>5. \A j \in DOMAIN E2 : E2[j].thread = NoOwner => E2[j].count = 0
  BY Constants DEF Named
<1> QED BY <1>2, <1>3, <1>4, <1>5 DEF Named

(* The entry of t is added to that of p, who has one.                       *)
LEMMA NamedMerge ==
    ASSUME NEW E, NEW C \in [Owners -> Nat], NEW E2, NEW C2 \in [Owners -> Nat], Named(E, C),
           DOMAIN E2 = DOMAIN E, NEW i \in DOMAIN E, NEW k \in DOMAIN E,
           NEW t \in Owners, NEW p \in Owners, t # p,
           E[i].thread = t, E[k].thread = p,
           E2[i] = FreeEntry, E2[k] = [thread |-> p, count |-> C2[p]], C2[p] > 0, C2[t] = 0,
           \A j \in DOMAIN E \ {i, k} : E2[j] = E[j],
           \A o \in Owners \ {t, p} : C2[o] = C[o]
    PROVE  Named(E2, C2)
<1>1. /\ \A j \in DOMAIN E \ {i, k} : E[j].thread # t /\ E[j].thread # p
      /\ i # k /\ E2[i].thread = NoOwner /\ E2[i].count = 0 /\ E2[k].thread = p
  BY DEF Named, FreeEntry
<1>2. \A l, j \in DOMAIN E2 : E2[l].thread \in Owners /\ E2[l].thread = E2[j].thread => l = j
  BY <1>1, Constants DEF Named
<1>3. \A j \in DOMAIN E2 : E2[j].thread \in Owners =>
          E2[j].count = C2[E2[j].thread] /\ C2[E2[j].thread] > 0
  BY <1>1, Constants DEF Named
<1>4. ASSUME NEW o \in Owners, C2[o] > 0 PROVE \E j \in DOMAIN E2 : E2[j].thread = o
  <2>1. CASE o = p
    BY <1>1, <2>1
  <2>2. CASE o # p
    <3>1. o # t
      BY <1>4
    <3>2. PICK j \in DOMAIN E : E[j].thread = o
      BY <1>4, <2>2, <3>1 DEF Named
    <3>3. j # i /\ j # k
      BY <2>2, <3>1, <3>2
    <3> QED BY <3>2, <3>3
  <2> QED BY <2>1, <2>2
<1>5. \A j \in DOMAIN E2 : E2[j].thread = NoOwner => E2[j].count = 0
  BY <1>1, Constants DEF Named
<1> QED BY <1>2, <1>3, <1>4, <1>5 DEF Named

(* Free entries are added.                                                  *)
LEMMA NamedGrow ==
    ASSUME NEW E, NEW C \in [Owners -> Nat], NEW E2, Named(E, C),
           DOMAIN E \subseteq DOMAIN E2,
           \A j \in DOMAIN E2 : IF j \in DOMAIN E THEN E2[j] = E[j] ELSE E2[j] = FreeEntry
    PROVE  Named(E2, C)
<1>1. FreeEntry.thread = NoOwner /\ FreeEntry.count = 0 /\ NoOwner \notin Owners
  BY Constants DEF FreeEntry
<1>2. \A l, j \in DOMAIN E2 : E2[l].thread \in Owners /\ E2[l].thread = E2[j].thread => l = j
  BY <1>1 DEF Named
<1>3. \A j \in DOMAIN E2 : E2[j].thread \in Owners =>
          E2[j].count = C[E2[j].thread] /\ C[E2[j].thread] > 0
  BY <1>1 DEF Named
<1>4. ASSUME NEW o \in Owners, C[o] > 0 PROVE \E j \in DOMAIN E2 : E2[j].thread = o
  <2>1. PICK j \in DOMAIN E : E[j].thread = o
    BY <1>4 DEF Named
  <2> QED BY <2>1
<1>5. \A j \in DOMAIN E2 : E2[j].thread = NoOwner => E2[j].count = 0
  BY <1>1 DEF Named
<1> QED BY <1>2, <1>3, <1>4, <1>5 DEF Named

-----------------------------------------------------------------------------
(* t goes to l with locals r, and has h; everybody else stays.              *)
Moves(t, l, r, h) ==
    /\ pc' \in [Owners -> PCs] /\ loc' \in [Owners -> Locals] /\ held' \in [Owners -> Holdings]
    /\ pc'[t] = l /\ loc'[t] = r /\ held'[t] = h
    /\ \A o \in Owners \ {t} : pc'[o] = pc[o] /\ loc'[o] = loc[o] /\ held'[o] = held[o]

(* That is what the actions do.                                             *)
LEMMA GotoMoves ==
    ASSUME TypeOK, NEW t \in Owners, NEW l \in PCs, NEW r \in Locals, Goto(t, l, r)
    PROVE  /\ UNCHANGED held => Moves(t, l, r, held[t])
           /\ \A h \in Holdings : held' = [held EXCEPT ![t] = h] => Moves(t, l, r, h)
<1>1. pc \in [Owners -> PCs] /\ loc \in [Owners -> Locals] /\ held \in [Owners -> Holdings]
  BY DEF TypeOK
<1>2. /\ pc' \in [Owners -> PCs] /\ loc' \in [Owners -> Locals]
      /\ pc'[t] = l /\ loc'[t] = r
      /\ \A o \in Owners \ {t} : pc'[o] = pc[o] /\ loc'[o] = loc[o]
  BY <1>1 DEF Goto
<1>3. UNCHANGED held => Moves(t, l, r, held[t])
  BY <1>1, <1>2 DEF Moves
<1>4. ASSUME NEW h \in Holdings, held' = [held EXCEPT ![t] = h] PROVE Moves(t, l, r, h)
  <2>1. /\ held' \in [Owners -> Holdings] /\ held'[t] = h
        /\ \A o \in Owners \ {t} : held'[o] = held[o]
    BY <1>1, <1>4
  <2> QED BY <1>2, <2>1 DEF Moves
<1> QED BY <1>3, <1>4

(* What Hold and Less make of what t has.                                   *)
LEMMA HoldMore ==
    ASSUME TypeOK, NEW t \in Owners, NEW m \in {"S", "X"}, Hold(t, m)
    PROVE  /\ [mode |-> m, n |-> held[t].n + 1] \in Holdings
           /\ held' = [held EXCEPT ![t] = [mode |-> m, n |-> held[t].n + 1]]
<1>1. held[t] \in Holdings
  BY DEF TypeOK
<1>2. held[t].n + 1 \in Nat
  BY <1>1 DEF Holdings
<1> QED BY <1>2 DEF Hold, Holdings

(* See HoldMore.                                                            *)
LEMMA HoldLess ==
    ASSUME TypeOK, NEW t \in Owners, Less(t), held[t].n > 0, held[t].mode # "no"
    PROVE  \E h \in Holdings :
              /\ held' = [held EXCEPT ![t] = h]
              /\ h.n = held[t].n - 1
              /\ h.mode = IF held[t].n = 1 THEN "no" ELSE held[t].mode
<1>1. held[t] \in Holdings
  BY DEF TypeOK
<1> DEFINE h == IF held[t].n = 1 THEN Nothing ELSE [mode |-> held[t].mode, n |-> held[t].n - 1]
<1>2. held[t].n \in Nat /\ held[t].mode \in {"no", "S", "X"} /\ held[t] = [mode |-> held[t].mode, n |-> held[t].n]
  BY <1>1 DEF Holdings
<1>3. h \in Holdings /\ h.n = held[t].n - 1 /\ h.mode = IF held[t].n = 1 THEN "no" ELSE held[t].mode
  BY <1>1, <1>2 DEF Holdings, Nothing
<1>4. held' = [held EXCEPT ![t] = h]
  BY DEF Less
<1> QED BY <1>3, <1>4

(* The locals of a call.                                                    *)
LEMMA LocalTypes ==
    /\ NoLocals \in Locals /\ NoLocals.call = "none" /\ NoLocals.n = 0
    /\ \A n \in Nat : /\ [NoLocals EXCEPT !.n = n] \in Locals
                      /\ [NoLocals EXCEPT !.n = n].n = n
                      /\ [NoLocals EXCEPT !.n = n].call = "none"
    /\ \A r \in Locals : /\ r.n \in Nat /\ [r EXCEPT !.size = 0] \in Locals
                         /\ [r EXCEPT !.size = 0].call = r.call
                         /\ [r EXCEPT !.size = 0].n = r.n
  BY DEF NoLocals, Locals

(* How the counts change with a step of t.                                  *)
LEMMA MovedCounts ==
    ASSUME TypeOK, NEW t \in Owners, NEW l \in PCs, NEW r \in Locals, NEW h \in Holdings,
           Moves(t, l, r, h)
    PROVE  /\ Sharing \in Nat /\ Sharing' \in Nat
           /\ Sharing' = Sharing - Number(held[t].mode = "S") + Number(h.mode = "S")
           /\ Owning \in Nat /\ Owning' \in Nat
           /\ Owning' = Owning - Number(held[t].mode = "X" \/ pc[t] = "SetOwner")
                               + Number(h.mode = "X" \/ l = "SetOwner")
           /\ Taking \in Nat /\ Taking' \in Nat
           /\ Taking' = Taking - Number(pc[t] = "SetOwner") + Number(l = "SetOwner")
           /\ Listing \in Nat /\ Listing' \in Nat
           /\ Listing' = Listing - Number(loc[t].call = "List") + Number(r.call = "List")
           /\ Setting \in Nat /\ Setting' \in Nat
           /\ Setting' = Setting - Number(pc[t] = "SetEvent") + Number(l = "SetEvent")
           /\ SharedQueue \in Nat /\ SharedQueue' \in Nat
           /\ SharedQueue' = SharedQueue - Number(pc[t] \in {"WaitShared", "WaitUnlisted"})
                                         + Number(l \in {"WaitShared", "WaitUnlisted"})
           /\ ExclusiveQueue \in Nat /\ ExclusiveQueue' \in Nat
           /\ ExclusiveQueue' = ExclusiveQueue - Number(pc[t] = "WaitExclusive")
                                               + Number(l = "WaitExclusive")
           /\ Posted \in Int /\ Posted' \in Int
           /\ Posted' = Posted - (IF pc[t] = "ReleaseSemaphore" THEN loc[t].n ELSE 0)
                               + (IF l = "ReleaseSemaphore" THEN r.n ELSE 0)
<1> USE Constants
<1>1. /\ pc'[t] = l /\ loc'[t] = r /\ held'[t] = h
      /\ \A o \in Owners \ {t} : pc'[o] = pc[o] /\ loc'[o] = loc[o] /\ held'[o] = held[o]
  BY DEF Moves
<1>2. /\ Sharing \in Nat /\ Sharing' \in Nat
      /\ Sharing' = Sharing - Number(held[t].mode = "S") + Number(h.mode = "S")
  <2> DEFINE S == {o \in Owners : held[o].mode = "S"}
             T == {o \in Owners : held'[o].mode = "S"}
  <2>1. S \in SUBSET Owners /\ T \in SUBSET Owners /\ \A o \in Owners \ {t} : o \in S <=> o \in T
    BY <1>1
  <2>2. (t \in S) = (held[t].mode = "S") /\ (t \in T) = (h.mode = "S")
    BY <1>1
  <2>3. Sharing = Cardinality(S) /\ Sharing' = Cardinality(T)
    BY DEF Sharing, In
  <2> HIDE DEF S, T
  <2>4. /\ Cardinality(S) \in Nat /\ Cardinality(T) \in Nat
        /\ Cardinality(T) = Cardinality(S) - Number(t \in S) + Number(t \in T)
    BY <2>1, OneMoves
  <2> QED BY <2>2, <2>3, <2>4
<1>3. /\ Owning \in Nat /\ Owning' \in Nat
      /\ Owning' = Owning - Number(held[t].mode = "X" \/ pc[t] = "SetOwner") + Number(h.mode = "X" \/ l = "SetOwner")
  <2> DEFINE S == {o \in Owners : held[o].mode = "X" \/ pc[o] = "SetOwner"}
             T == {o \in Owners : held'[o].mode = "X" \/ pc'[o] = "SetOwner"}
  <2>1. S \in SUBSET Owners /\ T \in SUBSET Owners /\ \A o \in Owners \ {t} : o \in S <=> o \in T
    BY <1>1
  <2>2. (t \in S) = (held[t].mode = "X" \/ pc[t] = "SetOwner") /\ (t \in T) = (h.mode = "X" \/ l = "SetOwner")
    BY <1>1
  <2>3. Owning = Cardinality(S) /\ Owning' = Cardinality(T)
    BY DEF Owning, In, At
  <2> HIDE DEF S, T
  <2>4. /\ Cardinality(S) \in Nat /\ Cardinality(T) \in Nat
        /\ Cardinality(T) = Cardinality(S) - Number(t \in S) + Number(t \in T)
    BY <2>1, OneMoves
  <2> QED BY <2>2, <2>3, <2>4
<1>4. /\ Taking \in Nat /\ Taking' \in Nat
      /\ Taking' = Taking - Number(pc[t] = "SetOwner") + Number(l = "SetOwner")
  <2> DEFINE S == {o \in Owners : pc[o] = "SetOwner"}
             T == {o \in Owners : pc'[o] = "SetOwner"}
  <2>1. S \in SUBSET Owners /\ T \in SUBSET Owners /\ \A o \in Owners \ {t} : o \in S <=> o \in T
    BY <1>1
  <2>2. (t \in S) = (pc[t] = "SetOwner") /\ (t \in T) = (l = "SetOwner")
    BY <1>1
  <2>3. Taking = Cardinality(S) /\ Taking' = Cardinality(T)
    BY DEF Taking, At
  <2> HIDE DEF S, T
  <2>4. /\ Cardinality(S) \in Nat /\ Cardinality(T) \in Nat
        /\ Cardinality(T) = Cardinality(S) - Number(t \in S) + Number(t \in T)
    BY <2>1, OneMoves
  <2> QED BY <2>2, <2>3, <2>4
<1>5. /\ Listing \in Nat /\ Listing' \in Nat
      /\ Listing' = Listing - Number(loc[t].call = "List") + Number(r.call = "List")
  <2> DEFINE S == {o \in Owners : loc[o].call = "List"}
             T == {o \in Owners : loc'[o].call = "List"}
  <2>1. S \in SUBSET Owners /\ T \in SUBSET Owners /\ \A o \in Owners \ {t} : o \in S <=> o \in T
    BY <1>1
  <2>2. (t \in S) = (loc[t].call = "List") /\ (t \in T) = (r.call = "List")
    BY <1>1
  <2>3. Listing = Cardinality(S) /\ Listing' = Cardinality(T)
    BY DEF Listing
  <2> HIDE DEF S, T
  <2>4. /\ Cardinality(S) \in Nat /\ Cardinality(T) \in Nat
        /\ Cardinality(T) = Cardinality(S) - Number(t \in S) + Number(t \in T)
    BY <2>1, OneMoves
  <2> QED BY <2>2, <2>3, <2>4
<1>6. /\ Setting \in Nat /\ Setting' \in Nat
      /\ Setting' = Setting - Number(pc[t] = "SetEvent") + Number(l = "SetEvent")
  <2> DEFINE S == {o \in Owners : pc[o] = "SetEvent"}
             T == {o \in Owners : pc'[o] = "SetEvent"}
  <2>1. S \in SUBSET Owners /\ T \in SUBSET Owners /\ \A o \in Owners \ {t} : o \in S <=> o \in T
    BY <1>1
  <2>2. (t \in S) = (pc[t] = "SetEvent") /\ (t \in T) = (l = "SetEvent")
    BY <1>1
  <2>3. Setting = Cardinality(S) /\ Setting' = Cardinality(T)
    BY DEF Setting, At
  <2> HIDE DEF S, T
  <2>4. /\ Cardinality(S) \in Nat /\ Cardinality(T) \in Nat
        /\ Cardinality(T) = Cardinality(S) - Number(t \in S) + Number(t \in T)
    BY <2>1, OneMoves
  <2> QED BY <2>2, <2>3, <2>4
<1>7. /\ SharedQueue \in Nat /\ SharedQueue' \in Nat
      /\ SharedQueue' = SharedQueue - Number(pc[t] \in {"WaitShared", "WaitUnlisted"}) + Number(l \in {"WaitShared", "WaitUnlisted"})
  <2> DEFINE S == {o \in Owners : pc[o] \in {"WaitShared", "WaitUnlisted"}}
             T == {o \in Owners : pc'[o] \in {"WaitShared", "WaitUnlisted"}}
  <2>1. S \in SUBSET Owners /\ T \in SUBSET Owners /\ \A o \in Owners \ {t} : o \in S <=> o \in T
    BY <1>1
  <2>2. (t \in S) = (pc[t] \in {"WaitShared", "WaitUnlisted"}) /\ (t \in T) = (l \in {"WaitShared", "WaitUnlisted"})
    BY <1>1
  <2>3. SharedQueue = Cardinality(S) /\ SharedQueue' = Cardinality(T)
    BY DEF SharedQueue, At
  <2> HIDE DEF S, T
  <2>4. /\ Cardinality(S) \in Nat /\ Cardinality(T) \in Nat
        /\ Cardinality(T) = Cardinality(S) - Number(t \in S) + Number(t \in T)
    BY <2>1, OneMoves
  <2> QED BY <2>2, <2>3, <2>4
<1>8. /\ ExclusiveQueue \in Nat /\ ExclusiveQueue' \in Nat
      /\ ExclusiveQueue' = ExclusiveQueue - Number(pc[t] = "WaitExclusive") + Number(l = "WaitExclusive")
  <2> DEFINE S == {o \in Owners : pc[o] = "WaitExclusive"}
             T == {o \in Owners : pc'[o] = "WaitExclusive"}
  <2>1. S \in SUBSET Owners /\ T \in SUBSET Owners /\ \A o \in Owners \ {t} : o \in S <=> o \in T
    BY <1>1
  <2>2. (t \in S) = (pc[t] = "WaitExclusive") /\ (t \in T) = (l = "WaitExclusive")
    BY <1>1
  <2>3. ExclusiveQueue = Cardinality(S) /\ ExclusiveQueue' = Cardinality(T)
    BY DEF ExclusiveQueue, At
  <2> HIDE DEF S, T
  <2>4. /\ Cardinality(S) \in Nat /\ Cardinality(T) \in Nat
        /\ Cardinality(T) = Cardinality(S) - Number(t \in S) + Number(t \in T)
    BY <2>1, OneMoves
  <2> QED BY <2>2, <2>3, <2>4
<1>9. /\ Posted \in Int /\ Posted' \in Int
      /\ Posted' = Posted - (IF pc[t] = "ReleaseSemaphore" THEN loc[t].n ELSE 0)
                          + (IF l = "ReleaseSemaphore" THEN r.n ELSE 0)
  <2> DEFINE f  == [o \in Owners |-> IF pc[o] = "ReleaseSemaphore" THEN loc[o].n ELSE 0]
             f2 == [o \in Owners |-> IF pc'[o] = "ReleaseSemaphore" THEN loc'[o].n ELSE 0]
  <2>1. \A o \in Owners : loc[o] \in Locals /\ loc'[o] \in Locals
    BY DEF TypeOK, Moves
  <2>2. \A o \in Owners : loc[o].n \in Nat /\ loc'[o].n \in Nat
    BY <2>1 DEF Locals
  <2>3. \A o \in Owners : f[o] \in Int /\ f2[o] \in Int
    BY <2>2
  <2>4. \A o \in Owners \ {t} : f2[o] = f[o]
    BY <1>1
  <2>5. /\ f[t] = IF pc[t] = "ReleaseSemaphore" THEN loc[t].n ELSE 0
        /\ f2[t] = IF l = "ReleaseSemaphore" THEN r.n ELSE 0
    BY <1>1
  <2>6. Posted = SumFunctionOnSet(f, Owners) /\ Posted' = SumFunctionOnSet(f2, Owners)
    BY DEF Posted, Posting
  <2> HIDE DEF f, f2
  <2>7. SumFunctionOnSet(f2, Owners) = SumFunctionOnSet(f, Owners) - f[t] + f2[t]
    BY <2>3, <2>4, SumChange
  <2>8. SumFunctionOnSet(f, Owners) \in Int /\ SumFunctionOnSet(f2, Owners) \in Int
    BY <2>3, SumType
  <2> QED BY <2>5, <2>6, <2>7, <2>8
<1> QED BY <1>2, <1>3, <1>4, <1>5, <1>6, <1>7, <1>8, <1>9

(* An owner in a situation counts.                                          *)
LEMMA Situations ==
    ASSUME TypeOK
    PROVE  /\ \A o \in Owners : /\ held[o].mode = "S" => Sharing > 0
                                /\ held[o].mode = "X" \/ pc[o] = "SetOwner" => Owning > 0
                                /\ pc[o] = "SetOwner" => Taking > 0
                                /\ loc[o].call = "List" => Listing > 0
                                /\ pc[o] = "SetEvent" => Setting > 0
                                /\ pc[o] = "WaitExclusive" => ExclusiveQueue > 0
           /\ Sharing \in Nat /\ Owning \in Nat /\ Taking \in Nat /\ Listing \in Nat
           /\ Setting \in Nat /\ SharedQueue \in Nat /\ ExclusiveQueue \in Nat
           /\ Posted \in Nat /\ Taking <= Owning
<1>1. /\ \A S \in SUBSET Owners : Cardinality(S) \in Nat
      /\ \A S \in SUBSET Owners : \A o \in S : Cardinality(S) > 0
      /\ \A S, T \in SUBSET Owners : S \subseteq T => Cardinality(S) <= Cardinality(T)
  <2>1. ASSUME NEW S \in SUBSET Owners
        PROVE  IsFiniteSet(S) /\ Cardinality(S) \in Nat /\ (Cardinality(S) = 0 <=> S = {})
    <3>1. IsFiniteSet(S)
      BY Constants, FS_Subset
    <3> QED BY <3>1, FS_CardinalityType, FS_EmptySet
  <2>2. ASSUME NEW S \in SUBSET Owners, NEW T \in SUBSET Owners, S \subseteq T
        PROVE  Cardinality(S) <= Cardinality(T)
    BY <2>1, <2>2, FS_Subset
  <2>3. ASSUME NEW S \in SUBSET Owners, NEW o \in S PROVE Cardinality(S) > 0
    BY <2>1, <2>3
  <2> QED BY <2>1, <2>2, <2>3
<1>2. /\ In("S") \in SUBSET Owners /\ In("X") \cup At("SetOwner") \in SUBSET Owners
      /\ At("SetOwner") \in SUBSET Owners /\ At("SetEvent") \in SUBSET Owners
      /\ {o \in Owners : loc[o].call = "List"} \in SUBSET Owners
      /\ At("WaitShared") \cup At("WaitUnlisted") \in SUBSET Owners
      /\ At("WaitExclusive") \in SUBSET Owners
      /\ At("SetOwner") \subseteq In("X") \cup At("SetOwner")
  BY DEF In, At
<1>3. /\ Sharing \in Nat /\ Owning \in Nat /\ Taking \in Nat /\ Listing \in Nat
      /\ Setting \in Nat /\ SharedQueue \in Nat /\ ExclusiveQueue \in Nat /\ Taking <= Owning
  BY <1>1, <1>2 DEF Sharing, Owning, Taking, Listing, Setting, SharedQueue, ExclusiveQueue
<1>4. Posted \in Nat
  <2>1. \A o \in Owners : loc[o] \in Locals
    BY DEF TypeOK
  <2>2. \A o \in Owners : Posting[o] \in Nat
    BY <2>1 DEF Posting, Locals
  <2> QED BY <2>2, Constants, SumNat DEF Posted
<1>5. ASSUME NEW o \in Owners
      PROVE  /\ held[o].mode = "S" => Sharing > 0
             /\ held[o].mode = "X" \/ pc[o] = "SetOwner" => Owning > 0
             /\ pc[o] = "SetOwner" => Taking > 0
             /\ loc[o].call = "List" => Listing > 0
             /\ pc[o] = "SetEvent" => Setting > 0
             /\ pc[o] = "WaitExclusive" => ExclusiveQueue > 0
  <2>1. /\ held[o].mode = "S" => o \in In("S")
        /\ held[o].mode = "X" \/ pc[o] = "SetOwner" => o \in In("X") \cup At("SetOwner")
        /\ pc[o] = "SetOwner" => o \in At("SetOwner")
        /\ loc[o].call = "List" => o \in {x \in Owners : loc[x].call = "List"}
        /\ pc[o] = "SetEvent" => o \in At("SetEvent")
        /\ pc[o] = "WaitExclusive" => o \in At("WaitExclusive")
    BY DEF In, At
  <2> QED BY <1>1, <1>2, <2>1
          DEF Sharing, Owning, Taking, Listing, Setting, ExclusiveQueue
<1> QED BY <1>3, <1>4, <1>5

(* The counts are natural numbers.                                          *)
Numbers ==
    /\ Sharing \in Nat /\ Owning \in Nat /\ Taking \in Nat /\ Listing \in Nat
    /\ SharedQueue \in Nat /\ ExclusiveQueue \in Nat /\ Taking <= Owning
    /\ SharedGrants \in Nat /\ ExclusiveGrants \in Nat
    /\ activeEntries \in Nat /\ activeCount \in {0, 1}
    /\ sharedWaiters \in Nat /\ exclusiveWaiters \in Nat /\ exclusive \in BOOLEAN

(* What the grants are the sums of.                                         *)
Parts ==
    /\ SharedGrants = Released + Posted /\ Released \in Nat /\ Posted \in Nat
    /\ ExclusiveGrants = IsSet + Setting /\ IsSet \in {0, 1} /\ Setting \in Nat

(* Both follow from the types.                                              *)
LEMMA CountFacts ==
    ASSUME TypeOK
    PROVE  Numbers /\ Parts
<1>1. Released \in Nat /\ activeEntries \in Nat /\ activeCount \in {0, 1}
      /\ sharedWaiters \in Nat /\ exclusiveWaiters \in Nat /\ exclusive \in BOOLEAN
  BY DEF TypeOK, Released
<1>2. IsSet \in {0, 1}
  BY DEF IsSet, Number
<1>3. SharedGrants = Released + Posted /\ ExclusiveGrants = IsSet + Setting
  BY DEF SharedGrants, ExclusiveGrants, Released, Posted, IsSet, Setting
<1>4. Posted \in Nat /\ Setting \in Nat
  BY Situations
<1>5. SharedGrants \in Nat /\ ExclusiveGrants \in Nat
  BY <1>1, <1>2, <1>3, <1>4
<1> QED BY <1>1, <1>2, <1>3, <1>4, <1>5, Situations DEF Numbers, Parts

(* b is what becomes of a number a that counts something that was, and is.  *)
Changes(a, b, was, is) ==
    /\ (was <=> is) => b = a
    /\ was /\ ~is => b = a - 1
    /\ ~was /\ is => b = a + 1

(* How the counts change with a step of t.                                  *)
Shifted(t, l, r, h) ==
    /\ Changes(Sharing, Sharing', held[t].mode = "S", h.mode = "S")
    /\ Changes(Owning, Owning', held[t].mode = "X" \/ pc[t] = "SetOwner",
                                h.mode = "X" \/ l = "SetOwner")
    /\ Changes(Taking, Taking', pc[t] = "SetOwner", l = "SetOwner")
    /\ Changes(Listing, Listing', loc[t].call = "List", r.call = "List")
    /\ Changes(SharedQueue, SharedQueue', pc[t] \in {"WaitShared", "WaitUnlisted"},
                                          l \in {"WaitShared", "WaitUnlisted"})
    /\ Changes(ExclusiveQueue, ExclusiveQueue', pc[t] = "WaitExclusive", l = "WaitExclusive")

(* How the grants change.                                                   *)
GrantsShifted(t, l, r) ==
    /\ pc[t] # "ReleaseSemaphore" /\ l # "ReleaseSemaphore" =>
          SharedGrants' = SharedGrants + (Released' - Released)
    /\ pc[t] # "ReleaseSemaphore" /\ l = "ReleaseSemaphore" =>
          SharedGrants' = SharedGrants + (Released' - Released) + r.n
    /\ pc[t] = "ReleaseSemaphore" /\ l # "ReleaseSemaphore" =>
          SharedGrants' = SharedGrants + (Released' - Released) - loc[t].n
    /\ pc[t] # "SetEvent" /\ l # "SetEvent" =>
          ExclusiveGrants' = ExclusiveGrants + (IsSet' - IsSet)
    /\ pc[t] # "SetEvent" /\ l = "SetEvent" =>
          ExclusiveGrants' = ExclusiveGrants + (IsSet' - IsSet) + 1
    /\ pc[t] = "SetEvent" /\ l # "SetEvent" =>
          ExclusiveGrants' = ExclusiveGrants + (IsSet' - IsSet) - 1
    /\ Released \in Nat /\ Released' \in Nat /\ IsSet \in {0, 1} /\ IsSet' \in {0, 1}

(* They do.                                                                 *)
LEMMA Shift ==
    ASSUME TypeOK, TypeOK', NEW t \in Owners, NEW l \in PCs, NEW r \in Locals,
           NEW h \in Holdings, Moves(t, l, r, h)
    PROVE  Shifted(t, l, r, h) /\ GrantsShifted(t, l, r) /\ Numbers /\ Numbers'
<1>1. Numbers /\ Parts
  BY CountFacts
<1>2. Numbers' /\ Parts'
  BY CountFacts, PTL
<1>3. loc[t].n \in Nat /\ r.n \in Nat
  BY LocalTypes DEF TypeOK
<1>4. /\ Posted' = Posted - (IF pc[t] = "ReleaseSemaphore" THEN loc[t].n ELSE 0)
                          + (IF l = "ReleaseSemaphore" THEN r.n ELSE 0)
      /\ Setting' = Setting - Number(pc[t] = "SetEvent") + Number(l = "SetEvent")
  BY MovedCounts
<1>5. GrantsShifted(t, l, r)
  BY <1>1, <1>2, <1>3, <1>4 DEF GrantsShifted, Parts, Number
<1>6. ASSUME NEW a \in Nat, NEW b, NEW was, NEW is, b = a - Number(was) + Number(is)
      PROVE  Changes(a, b, was, is)
  BY <1>6 DEF Changes, Number
<1>7. /\ Sharing' = Sharing - Number(held[t].mode = "S") + Number(h.mode = "S")
      /\ Owning' = Owning - Number(held[t].mode = "X" \/ pc[t] = "SetOwner")
                          + Number(h.mode = "X" \/ l = "SetOwner")
      /\ Taking' = Taking - Number(pc[t] = "SetOwner") + Number(l = "SetOwner")
      /\ Listing' = Listing - Number(loc[t].call = "List") + Number(r.call = "List")
      /\ SharedQueue' = SharedQueue - Number(pc[t] \in {"WaitShared", "WaitUnlisted"})
                                    + Number(l \in {"WaitShared", "WaitUnlisted"})
      /\ ExclusiveQueue' = ExclusiveQueue - Number(pc[t] = "WaitExclusive")
                                          + Number(l = "WaitExclusive")
  BY MovedCounts
<1>8. Changes(Sharing, Sharing', held[t].mode = "S", h.mode = "S")
  BY <1>1, <1>6, <1>7 DEF Numbers
<1>9. Changes(Owning, Owning', held[t].mode = "X" \/ pc[t] = "SetOwner",
                               h.mode = "X" \/ l = "SetOwner")
  BY <1>1, <1>6, <1>7 DEF Numbers
<1>10. Changes(Taking, Taking', pc[t] = "SetOwner", l = "SetOwner")
  BY <1>1, <1>6, <1>7 DEF Numbers
<1>11. Changes(Listing, Listing', loc[t].call = "List", r.call = "List")
  BY <1>1, <1>6, <1>7 DEF Numbers
<1>12. Changes(SharedQueue, SharedQueue', pc[t] \in {"WaitShared", "WaitUnlisted"},
                                          l \in {"WaitShared", "WaitUnlisted"})
  BY <1>1, <1>6, <1>7 DEF Numbers
<1>13. Changes(ExclusiveQueue, ExclusiveQueue', pc[t] = "WaitExclusive", l = "WaitExclusive")
  BY <1>1, <1>6, <1>7 DEF Numbers
<1> QED BY <1>1, <1>2, <1>5, <1>8, <1>9, <1>10, <1>11, <1>12, <1>13 DEF Shifted

-----------------------------------------------------------------------------
(* The entries, as a function.                                              *)
LEMMA EntryFacts ==
    ASSUME TypeOK
    PROVE  /\ DOMAIN Entries = 0 .. Len(ownerTable) /\ Len(ownerTable) \in Nat
           /\ DOMAIN ownerTable = 1 .. Len(ownerTable)
           /\ 0 \in DOMAIN Entries /\ Entries[0] = ownerEntry
           /\ \A i \in DOMAIN ownerTable : i \in DOMAIN Entries /\ Entries[i] = ownerTable[i]
           /\ \A i \in DOMAIN Entries : i # 0 => i \in DOMAIN ownerTable
           /\ \A i \in DOMAIN Entries : Entry(i) = Entries[i] /\ i # None
           /\ \A i \in DOMAIN Entries : Entries[i] \in OwnerEntries(Owners \cup {NoOwner, HandedOver})
           /\ \A i \in DOMAIN ownerTable : ownerTable[i] \in OwnerEntries(Owners \cup {NoOwner})
<1>1. /\ Len(ownerTable) \in Nat /\ DOMAIN ownerTable = 1 .. Len(ownerTable)
      /\ \A i \in DOMAIN ownerTable : ownerTable[i] \in OwnerEntries(Owners \cup {NoOwner})
      /\ ownerEntry \in OwnerEntries(Owners \cup {NoOwner, HandedOver})
  BY DEF TypeOK
<1>2. /\ DOMAIN Entries = 0 .. Len(ownerTable)
      /\ \A i \in 0 .. Len(ownerTable) : Entries[i] = IF i = 0 THEN ownerEntry ELSE ownerTable[i]
      /\ \A i \in 0 .. Len(ownerTable) : Entry(i) = Entries[i]
  BY DEF Entries, Indices, Entry
<1>3. 0 \in 0 .. Len(ownerTable) /\ \A i \in 1 .. Len(ownerTable) : i \in 0 .. Len(ownerTable) /\ i # 0
  BY <1>1
<1>4. \A i \in 0 .. Len(ownerTable) : i # None /\ (i # 0 => i \in 1 .. Len(ownerTable))
  BY <1>1 DEF None
<1>5. \A e \in OwnerEntries(Owners \cup {NoOwner}) : e \in OwnerEntries(Owners \cup {NoOwner, HandedOver})
  BY DEF OwnerEntries
<1> QED BY <1>1, <1>2, <1>3, <1>4, <1>5

(* One of them is replaced.                                                 *)
LEMMA PutFacts ==
    ASSUME TypeOK, NEW i \in DOMAIN Entries, NEW e, PutEntry(i, e),
           e \in OwnerEntries(Owners \cup {NoOwner})
              \/ (i = 0 /\ e \in OwnerEntries(Owners \cup {NoOwner, HandedOver}))
    PROVE  /\ ownerTable' \in Seq(OwnerEntries(Owners \cup {NoOwner}))
           /\ ownerEntry' \in OwnerEntries(Owners \cup {NoOwner, HandedOver})
           /\ DOMAIN Entries' = DOMAIN Entries
           /\ Entries'[i] = e
           /\ \A j \in DOMAIN Entries \ {i} : Entries'[j] = Entries[j]
           /\ ownerEntry' = IF i = 0 THEN e ELSE ownerEntry
<1>1. \A x \in OwnerEntries(Owners \cup {NoOwner}) : x \in OwnerEntries(Owners \cup {NoOwner, HandedOver})
  BY DEF OwnerEntries
<1>2. /\ ownerTable \in Seq(OwnerEntries(Owners \cup {NoOwner}))
      /\ ownerEntry \in OwnerEntries(Owners \cup {NoOwner, HandedOver})
  BY DEF TypeOK
<1>3. /\ ownerTable' \in Seq(OwnerEntries(Owners \cup {NoOwner})) /\ Len(ownerTable') = Len(ownerTable)
      /\ \A j \in 1 .. Len(ownerTable) : ownerTable'[j] = IF j = i THEN e ELSE ownerTable[j]
  <2>1. CASE i = 0
    BY <1>2, <2>1 DEF PutEntry
  <2>2. CASE i # 0
    <3>1. ownerTable' = [ownerTable EXCEPT ![i] = e] /\ e \in OwnerEntries(Owners \cup {NoOwner})
      BY <2>2 DEF PutEntry
    <3>2. i \in 1 .. Len(ownerTable)
      BY <2>2, EntryFacts
    <3> QED BY <1>2, <3>1, <3>2
  <2> QED BY <2>1, <2>2
<1>4. /\ ownerEntry' = IF i = 0 THEN e ELSE ownerEntry
      /\ ownerEntry' \in OwnerEntries(Owners \cup {NoOwner, HandedOver})
  BY <1>1, <1>2 DEF PutEntry
<1>5. /\ DOMAIN Entries' = 0 .. Len(ownerTable)
      /\ \A j \in 0 .. Len(ownerTable) : Entries'[j] = IF j = 0 THEN ownerEntry' ELSE ownerTable'[j]
  BY <1>3 DEF Entries, Indices, Entry
<1>6. /\ DOMAIN Entries = 0 .. Len(ownerTable) /\ Len(ownerTable) \in Nat
      /\ Entries[0] = ownerEntry /\ \A j \in 1 .. Len(ownerTable) : Entries[j] = ownerTable[j]
  BY EntryFacts
<1>7. \A j \in 0 .. Len(ownerTable) : j # 0 => j \in 1 .. Len(ownerTable)
  BY <1>6
<1>8. Entries'[i] = e
  BY <1>3, <1>4, <1>5, <1>6, <1>7
<1>9. \A j \in DOMAIN Entries \ {i} : Entries'[j] = Entries[j]
  BY <1>3, <1>4, <1>5, <1>6, <1>7
<1> QED BY <1>3, <1>4, <1>5, <1>6, <1>8, <1>9

(* They stay.                                                               *)
LEMMA EntriesStay ==
    ASSUME UNCHANGED entries
    PROVE  Entries' = Entries
  BY DEF entries, Entries, Indices, Entry

(* The least of the entries of an owner in the table.                       *)
LEMMA LeastListed ==
    ASSUME TypeOK, NEW o, Listed(o) # {}
    PROVE  /\ Min(Listed(o)) \in DOMAIN Entries /\ Min(Listed(o)) # 0
           /\ Entries[Min(Listed(o))].thread = o
<1>1. Listed(o) \in SUBSET Nat
  BY EntryFacts DEF Listed
<1>2. \E x \in Listed(o) : \A y \in Listed(o) : x <= y
  BY <1>1, LeastNumber
<1>3. Min(Listed(o)) \in Listed(o)
  BY <1>2 DEF Min
<1>4. \A i \in Listed(o) : i \in DOMAIN ownerTable /\ i # 0 /\ ownerTable[i].thread = o
  BY EntryFacts DEF Listed
<1> QED BY <1>3, <1>4, EntryFacts

(* What the searches find.                                                  *)
LEMMA FreeFound ==
    ASSUME TypeOK, FindFreeEntry # None
    PROVE  /\ FindFreeEntry \in DOMAIN Entries /\ FindFreeEntry # 0
           /\ Entries[FindFreeEntry].thread = NoOwner
  BY LeastListed DEF FindFreeEntry

(* See FreeFound.                                                           *)
LEMMA ThreadFound ==
    ASSUME TypeOK, NEW t \in Owners, NEW first \in BOOLEAN
    PROVE  LET i == FindEntryForThread(t, first) IN
           \/ i = None /\ \A j \in DOMAIN Entries : Entries[j].thread # t
           \/ i # None /\ i \in DOMAIN Entries /\ Entries[i].thread = t
           \/ /\ i # None /\ i \in DOMAIN Entries /\ Entries[i].thread = NoOwner
              /\ \A j \in DOMAIN Entries : Entries[j].thread # t
              /\ first => i # 0
<1> DEFINE i == FindEntryForThread(t, first)
<1>1. CASE ownerEntry.thread = t
  BY <1>1, EntryFacts DEF FindEntryForThread
<1>2. CASE ownerEntry.thread # t /\ Listed(t) # {}
  <2>1. i = Min(Listed(t))
    BY <1>2 DEF FindEntryForThread
  <2> QED BY <1>2, <2>1, LeastListed, EntryFacts
<1>3. CASE ownerEntry.thread # t /\ Listed(t) = {}
  <2>1. \A j \in DOMAIN Entries : Entries[j].thread # t
    BY <1>3, EntryFacts DEF Listed
  <2>2. CASE ~first /\ ownerEntry.thread = NoOwner
    <3>1. i = 0
      BY <1>3, <2>2 DEF FindEntryForThread
    <3> QED BY <2>1, <2>2, <3>1, EntryFacts
  <2>3. CASE ~(~first /\ ownerEntry.thread = NoOwner)
    <3>1. i = FindFreeEntry
      BY <1>3, <2>3 DEF FindEntryForThread
    <3> QED BY <2>1, <3>1, FreeFound
  <2> QED BY <2>2, <2>3
<1> QED BY <1>1, <1>2, <1>3

(* See FreeFound.                                                           *)
LEMMA OwnerFound ==
    ASSUME TypeOK, NEW o \in Owners
    PROVE  \/ EntryOf(o) = None /\ \A j \in DOMAIN Entries : Entries[j].thread # o
           \/ /\ EntryOf(o) # None /\ EntryOf(o) \in DOMAIN Entries
              /\ Entries[EntryOf(o)].thread = o
<1>1. CASE ownerEntry.thread = o
  BY <1>1, EntryFacts DEF EntryOf
<1>2. CASE ownerEntry.thread # o /\ Listed(o) # {}
  <2>1. EntryOf(o) = Min(Listed(o))
    BY <1>2 DEF EntryOf
  <2> QED BY <1>2, <2>1, LeastListed, EntryFacts
<1>3. CASE ownerEntry.thread # o /\ Listed(o) = {}
  <2>1. \A j \in DOMAIN Entries : Entries[j].thread # o
    BY <1>3, EntryFacts DEF Listed
  <2> QED BY <1>3, <2>1 DEF EntryOf
<1> QED BY <1>1, <1>2, <1>3

-----------------------------------------------------------------------------
(* What the counts of the entries are, before and after a step of t.        *)
LEMMA CountsMoved ==
    ASSUME TypeOK, NEW t \in Owners, NEW l \in PCs, NEW r \in Locals, NEW h \in Holdings,
           Moves(t, l, r, h)
    PROVE  /\ Counts \in [Owners -> Nat] /\ Counts' \in [Owners -> Nat]
           /\ Counts'[t] = IF l = "WaitShared" THEN 1 ELSE h.n
           /\ Counts[t] = IF pc[t] = "WaitShared" THEN 1 ELSE held[t].n
           /\ \A o \in Owners \ {t} : Counts'[o] = Counts[o]
<1>1. \A o \in Owners : held[o] \in Holdings /\ held'[o] \in Holdings
  BY DEF TypeOK, Moves
<1>2. \A o \in Owners : held[o].n \in Nat /\ held'[o].n \in Nat
  BY <1>1 DEF Holdings
<1>3. /\ Counts = [o \in Owners |-> IF pc[o] = "WaitShared" THEN 1 ELSE held[o].n]
      /\ Counts' = [o \in Owners |-> IF pc'[o] = "WaitShared" THEN 1 ELSE held'[o].n]
  BY DEF Counts, Count
<1> QED BY <1>2, <1>3 DEF Moves

(* Calls is kept by a step of t to a state that has it.                     *)
LEMMA CallsMoved ==
    ASSUME Calls, NEW t \in Owners, NEW l, NEW r, NEW h, Moves(t, l, r, h),
           CallOK(l, r, h, semaphore'.there, event'.there),
           semaphore.there => semaphore'.there, event.there => event'.there,
           semaphore'.there \/ Released' = 0, event'.there \/ IsSet' = 0
    PROVE  Calls'
<1>1. ASSUME NEW o \in Owners
      PROVE  CallOK(pc'[o], loc'[o], held'[o], semaphore'.there, event'.there)
  <2>1. CASE o = t
    BY <2>1 DEF Moves
  <2>2. CASE o # t
    BY <2>2 DEF Moves, Calls, CallOK
  <2> QED BY <2>1, <2>2
<1> QED BY <1>1 DEF Calls

(* First is kept by a step that leaves the first entry alone.               *)
LEMMA FirstMoved ==
    ASSUME First, NEW t \in Owners, NEW l, NEW r, NEW h, Moves(t, l, r, h),
           ownerEntry' = ownerEntry, l # "WaitShared" \/ ownerEntry.thread # t,
           h.mode = "X" => held[t].mode = "X"
    PROVE  First'
<1>1. ownerEntry'.thread \in Owners => pc'[ownerEntry'.thread] # "WaitShared"
  BY DEF First, Moves
<1>2. \A o \in Owners : held'[o].mode = "X" => ownerEntry'.thread = o
  BY DEF First, Moves
<1> QED BY <1>1, <1>2 DEF First

(* What the invariant says of one owner.                                    *)
LEMMA OwnerFacts ==
    ASSUME IInv, NEW o \in Owners
    PROVE  /\ pc[o] \in PCs /\ loc[o] \in Locals /\ held[o] \in Holdings
           /\ held[o].n \in Nat /\ held[o].mode \in {"no", "S", "X"}
           /\ CallOK(pc[o], loc[o], held[o], semaphore.there, event.there)
           /\ Counts[o] = IF pc[o] = "WaitShared" THEN 1 ELSE held[o].n
           /\ held[o].mode = "S" => ~exclusive
           /\ held[o].mode = "X" => exclusive /\ ownerEntry.thread = o
           /\ (\A j \in DOMAIN Entries : Entries[j].thread # o) => Counts[o] = 0
           /\ \A j \in DOMAIN Entries : Entries[j].thread = o =>
                 Entries[j].count = Counts[o] /\ Counts[o] > 0
           /\ ownerEntry.thread = o => held[o].n > 0 /\ ownerEntry.count = held[o].n
<1>1. /\ pc[o] \in PCs /\ loc[o] \in Locals /\ held[o] \in Holdings
      /\ held[o].n \in Nat /\ held[o].mode \in {"no", "S", "X"}
  BY DEF IInv, TypeOK, Holdings
<1>2. CallOK(pc[o], loc[o], held[o], semaphore.there, event.there)
  BY DEF IInv, Calls
<1>3. Counts[o] = IF pc[o] = "WaitShared" THEN 1 ELSE held[o].n
  BY DEF Counts, Count
<1>4. /\ held[o].mode = "S" => ~exclusive
      /\ held[o].mode = "X" => exclusive /\ ownerEntry.thread = o
  BY Situations DEF IInv, Counting, First
<1>5. /\ (\A j \in DOMAIN Entries : Entries[j].thread # o) => Counts[o] = 0
      /\ \A j \in DOMAIN Entries : Entries[j].thread = o =>
                 Entries[j].count = Counts[o] /\ Counts[o] > 0
  <2>1. Counts[o] \in Nat
    BY <1>1, <1>3
  <2> QED BY <2>1 DEF IInv, Named
<1>6. ownerEntry.thread = o => held[o].n > 0 /\ ownerEntry.count = held[o].n
  BY <1>3, <1>5, EntryFacts DEF IInv, First
<1> QED BY <1>1, <1>2, <1>3, <1>4, <1>5, <1>6

-----------------------------------------------------------------------------
(* Acquiring: the resource is free.                                         *)
LEMMA TakeFreeStep ==
    ASSUME IInv, NEW t \in Owners, NEW m \in {"S", "X"}, pc[t] \in {"Idle", "Again"},
           activeEntries = 0, TakeFree(t, m), UNCHANGED objects
    PROVE  IInv'
<1> DEFINE h == [mode |-> m, n |-> 1]
<1>0. TypeOK /\ Calls /\ First /\ Counting /\ Named(Entries, Counts) /\ Numbers
  BY CountFacts DEF IInv
<1>1. ~exclusive /\ Sharing = 0 /\ Owning = 0 /\ Listing = 0 /\ SharedGrants = 0
  BY <1>0 DEF Counting, Numbers
<1>2. \A o \in Owners : held[o].mode = "no" /\ held[o].n = 0
  BY <1>0, <1>1, Situations, OwnerFacts DEF CallOK
<1>3. ownerEntry.thread \notin Owners /\ ownerEntry.thread # HandedOver
  <2>1. ownerEntry.thread \notin Owners
    BY <1>2, OwnerFacts
  <2>2. Taking = 0 /\ ExclusiveGrants = 0
    BY <1>0, <1>1 DEF Counting, Numbers
  <2> QED BY <1>0, <2>1, <2>2 DEF Counting, Numbers
<1>4. h \in Holdings /\ held' = [held EXCEPT ![t] = h]
  <2>1. h = [mode |-> m, n |-> held[t].n + 1]
    BY <1>2
  <2> HIDE DEF h
  <2> QED BY <1>0, <2>1, HoldMore DEF TakeFree
<1>5. Moves(t, "Idle", NoLocals, h)
  <2> HIDE DEF h
  <2> QED BY <1>0, <1>4, GotoMoves, LocalTypes DEF TakeFree, Return, PCs
<1>6. /\ ownerEntry' = [thread |-> t, count |-> 1]
      /\ ownerTable' \in Seq(OwnerEntries(Owners \cup {NoOwner}))
      /\ ownerEntry' \in OwnerEntries(Owners \cup {NoOwner, HandedOver})
      /\ DOMAIN Entries' = DOMAIN Entries /\ Entries'[0] = [thread |-> t, count |-> 1]
      /\ \A j \in DOMAIN Entries \ {0} : Entries'[j] = Entries[j]
  <2>1. [thread |-> t, count |-> 1] \in OwnerEntries(Owners \cup {NoOwner})
    BY DEF OwnerEntries
  <2> QED BY <1>0, <2>1, EntryFacts, PutFacts DEF TakeFree
<1>7. TypeOK'
  BY <1>0, <1>5, <1>6 DEF TypeOK, TakeFree, Moves, objects, waiters
<1>8. Named(Entries', Counts')
  <2>1. /\ Counts \in [Owners -> Nat] /\ Counts' \in [Owners -> Nat] /\ Counts'[t] = 1
        /\ Counts[t] = 0 /\ \A o \in Owners \ {t} : Counts'[o] = Counts[o]
    BY <1>0, <1>2, <1>4, <1>5, CountsMoved, LocalTypes DEF PCs
  <2>2. 0 \in DOMAIN Entries /\ Entries[0] = ownerEntry
    BY <1>0, EntryFacts
  <2> QED BY <1>0, <1>3, <1>6, <2>1, <2>2, NamedPut
<1>9. Calls'
  <2>1. CallOK("Idle", NoLocals, h, semaphore'.there, event'.there)
    BY LocalTypes DEF CallOK
  <2>2. semaphore' = semaphore /\ event' = event /\ IsSet' = IsSet /\ Released' = Released
    BY DEF objects, IsSet, Released
  <2> QED BY <1>0, <1>5, <2>1, <2>2, CallsMoved DEF Calls
<1>10. First'
  <2>1. pc'[t] = "Idle" /\ ownerEntry'.thread = t /\ ownerEntry'.thread # HandedOver
    BY <1>5, <1>6, Constants DEF Moves
  <2>2. \A o \in Owners : held'[o].mode = "X" => o = t
    BY <1>2, <1>5 DEF Moves
  <2> QED BY <2>1, <2>2 DEF First
<1>11. Counting'
  <2>1. Shifted(t, "Idle", NoLocals, h) /\ GrantsShifted(t, "Idle", NoLocals) /\ Numbers'
    BY <1>0, <1>4, <1>5, <1>7, Shift, LocalTypes DEF PCs
  <2>2. /\ loc[t].call # "List" /\ NoLocals.call # "List" /\ h.mode = m
        /\ held[t].mode = "no" /\ pc[t] \in {"Idle", "Again"}
    BY <1>2, LocalTypes, OwnerFacts DEF CallOK
  <2>3. /\ exclusive' = (m = "X") /\ activeEntries' = 1 /\ activeCount' = 1
        /\ UNCHANGED <<sharedWaiters, exclusiveWaiters, Released, IsSet>>
    BY DEF TakeFree, waiters, objects, IsSet, Released
  <2>4. ownerEntry'.thread # HandedOver /\ ExclusiveGrants = 0 /\ Taking = 0
    BY <1>0, <1>1, <1>6, Constants DEF Counting, Numbers
  <2>5. exclusiveWaiters = 0 /\ sharedWaiters = 0
    BY <1>0, <1>1 DEF Counting, Numbers
  <2> HIDE DEF h
  <2>6. /\ Sharing' = Number(m = "S") /\ Owning' = Number(m = "X")
        /\ Taking' = 0 /\ Listing' = 0
        /\ SharedQueue' = SharedQueue /\ ExclusiveQueue' = ExclusiveQueue
    BY <1>1, <2>1, <2>2, <2>4 DEF Shifted, Changes, Number
  <2>7. SharedGrants' = 0 /\ ExclusiveGrants' = 0
    BY <1>1, <2>1, <2>2, <2>3, <2>4 DEF GrantsShifted
  <2>8. SharedQueue = 0 /\ ExclusiveQueue = 0
    BY <1>0, <1>1, <2>4, <2>5 DEF Counting
  <2>9. CASE m = "S"
    <3>1. Sharing' = 1 /\ Owning' = 0 /\ exclusive' = FALSE
      BY <2>3, <2>6, <2>9 DEF Number
    <3> QED BY <2>3, <2>4, <2>5, <2>6, <2>7, <2>8, <3>1 DEF Counting, Number
  <2>10. CASE m = "X"
    <3>1. Sharing' = 0 /\ Owning' = 1 /\ exclusive' = TRUE
      BY <2>3, <2>6, <2>10 DEF Number
    <3> QED BY <2>3, <2>4, <2>5, <2>6, <2>7, <2>8, <3>1 DEF Counting, Number
  <2> QED BY <2>9, <2>10
<1> QED BY <1>7, <1>8, <1>9, <1>10, <1>11 DEF IInv

(* The counts still agree when none of them changes.                        *)
LEMMA CountingStays ==
    ASSUME Counting, UNCHANGED <<counts, waiters>>,
           Sharing' = Sharing, Owning' = Owning, Taking' = Taking, Listing' = Listing,
           SharedQueue' = SharedQueue, ExclusiveQueue' = ExclusiveQueue,
           SharedGrants' = SharedGrants, ExclusiveGrants' = ExclusiveGrants,
           ownerEntry'.thread = HandedOver <=> ownerEntry.thread = HandedOver
    PROVE  Counting'
<1>1. UNCHANGED <<exclusive, activeEntries, activeCount, sharedWaiters, exclusiveWaiters>>
  BY DEF counts, waiters
<1> QED BY <1>1 DEF Counting

(* What t does changes no count.                                            *)
Quiet(l) == l \notin {"WaitShared", "WaitUnlisted", "WaitExclusive", "SetOwner", "SetEvent",
                      "ReleaseSemaphore"}

(* Such a step keeps the counts.                                            *)
LEMMA QuietCounts ==
    ASSUME TypeOK, TypeOK', Counting, NEW t \in Owners, NEW l \in PCs, NEW r \in Locals,
           NEW h \in Holdings, Moves(t, l, r, h), UNCHANGED <<counts, waiters>>,
           Released' = Released, IsSet' = IsSet, Quiet(pc[t]), Quiet(l),
           held[t].mode = h.mode, loc[t].call = "List" <=> r.call = "List",
           ownerEntry'.thread = HandedOver <=> ownerEntry.thread = HandedOver
    PROVE  Counting'
<1>1. Shifted(t, l, r, h) /\ GrantsShifted(t, l, r) /\ Numbers
  BY Shift
<1>2. /\ Sharing' = Sharing /\ Owning' = Owning /\ Taking' = Taking /\ Listing' = Listing
      /\ SharedQueue' = SharedQueue /\ ExclusiveQueue' = ExclusiveQueue
  BY <1>1 DEF Shifted, Changes, Quiet
<1>3. SharedGrants' = SharedGrants /\ ExclusiveGrants' = ExclusiveGrants
  BY <1>1 DEF GrantsShifted, Quiet, Numbers
<1> QED BY <1>2, <1>3, CountingStays

(* Calls is kept by a step that leaves the semaphore and the event alone.   *)
LEMMA CallsStay ==
    ASSUME Calls, NEW t \in Owners, NEW l, NEW r, NEW h, Moves(t, l, r, h), UNCHANGED objects,
           CallOK(l, r, h, semaphore.there, event.there)
    PROVE  Calls' /\ Released' = Released /\ IsSet' = IsSet
<1>1. semaphore' = semaphore /\ event' = event /\ IsSet' = IsSet /\ Released' = Released
  BY DEF objects, IsSet, Released
<1> QED BY <1>1, CallsMoved DEF Calls

(* A step of t that changes nothing but where t is.                         *)
LEMMA QuietStep ==
    ASSUME IInv, NEW t \in Owners, NEW l \in PCs, NEW r \in Locals, Moves(t, l, r, held[t]),
           UNCHANGED <<counts, waiters, entries>>, Calls', Released' = Released, IsSet' = IsSet,
           semaphore' \in [there : BOOLEAN, count : Nat],
           event' \in [there : BOOLEAN, set : BOOLEAN],
           Quiet(pc[t]), Quiet(l), loc[t].call = "List" <=> r.call = "List"
    PROVE  IInv'
<1>0. TypeOK /\ Calls /\ First /\ Counting /\ Named(Entries, Counts) /\ held[t] \in Holdings
  BY OwnerFacts DEF IInv
<1>1. TypeOK'
  BY <1>0 DEF TypeOK, Moves, counts, waiters, entries
<1>2. Entries' = Entries /\ ownerEntry' = ownerEntry
  BY EntriesStay DEF entries
<1>3. Counts' = Counts
  <2>1. /\ Counts \in [Owners -> Nat] /\ Counts' \in [Owners -> Nat]
        /\ Counts'[t] = Counts[t] /\ \A o \in Owners \ {t} : Counts'[o] = Counts[o]
    BY <1>0, CountsMoved DEF Quiet
  <2> QED BY <2>1
<1>4. Named(Entries', Counts')
  BY <1>0, <1>2, <1>3
<1>5. First'
  BY <1>0, <1>2, FirstMoved DEF Quiet
<1>6. Counting'
  BY <1>0, <1>1, <1>2, QuietCounts
<1> QED BY <1>1, <1>4, <1>5, <1>6 DEF IInv

(* A call drops the lock to allocate something.                             *)
LEMMA AllocateForStep ==
    ASSUME IInv, NEW t \in Owners, NEW what \in {"AllocEvent", "AllocSemaphore", "Expand"},
           NEW call \in {"none", "Exclusive", "Shared", "Starve", "WaitForExclusive", "List"},
           AllocateFor(t, what, call), UNCHANGED objects, held[t].n = 0,
           pc[t] \in {"Idle", "Again", "List"}, pc[t] = "List" <=> call = "List",
           call = "List" => what = "Expand"
    PROVE  IInv'
<1> DEFINE r == [NoLocals EXCEPT !.call = call, !.size = Len(ownerTable)]
<1>0. TypeOK /\ Calls
  BY DEF IInv
<1>1. r \in Locals /\ r.call = call /\ what \in PCs
  BY <1>0, EntryFacts DEF Locals, NoLocals, PCs
<1>2. Goto(t, what, r) /\ UNCHANGED held /\ UNCHANGED <<counts, entries, waiters>>
  BY DEF AllocateFor
<1> HIDE DEF r
<1>3. Moves(t, what, r, held[t])
  BY <1>0, <1>1, <1>2, GotoMoves
<1>4. CallOK(pc[t], loc[t], held[t], semaphore.there, event.there)
  BY OwnerFacts
<1>5. CallOK(what, r, held[t], semaphore.there, event.there)
  BY <1>1, <1>4 DEF CallOK
<1>6. Calls' /\ Released' = Released /\ IsSet' = IsSet
  BY <1>0, <1>3, <1>5, CallsStay
<1>7. loc[t].call = "List" <=> r.call = "List"
  BY <1>1, <1>4 DEF CallOK
<1>8. /\ semaphore' \in [there : BOOLEAN, count : Nat]
      /\ event' \in [there : BOOLEAN, set : BOOLEAN]
  BY <1>0 DEF TypeOK, objects
<1>9. Quiet(pc[t]) /\ Quiet(what)
  BY DEF Quiet
<1> QED BY <1>1, <1>2, <1>3, <1>6, <1>7, <1>8, <1>9, QuietStep

(* The owner of entry i acquires once more.                                 *)
LEMMA TakeAgainStep ==
    ASSUME IInv, NEW t \in Owners, NEW i \in DOMAIN Entries, Entries[i].thread = t,
           pc[t] \in {"Idle", "Again"}, TakeAgain(t, i), UNCHANGED objects
    PROVE  IInv'
<1> DEFINE h == [mode |-> held[t].mode, n |-> held[t].n + 1]
           e == [thread |-> t, count |-> held[t].n + 1]
<1>0. TypeOK /\ Calls /\ First /\ Counting /\ Named(Entries, Counts)
  BY DEF IInv
<1>1. /\ held[t].n \in Nat /\ held[t].n > 0 /\ pc[t] = "Idle" /\ held[t].mode \in {"S", "X"}
      /\ Entries[i].count = held[t].n /\ loc[t].call # "List"
  BY OwnerFacts DEF CallOK
<1>2. h \in Holdings /\ held' = [held EXCEPT ![t] = h]
  BY <1>0, <1>1, HoldMore DEF TakeAgain
<1>3. Moves(t, "Idle", NoLocals, h)
  <2> HIDE DEF h
  <2> QED BY <1>0, <1>2, GotoMoves, LocalTypes DEF TakeAgain, Return, PCs
<1>4. PutEntry(i, e) /\ e \in OwnerEntries(Owners \cup {NoOwner})
  <2>1. Entry(i) = Entries[i] /\ Entries[i] \in OwnerEntries(Owners \cup {NoOwner, HandedOver})
    BY <1>0, EntryFacts
  <2>2. Entry(i) = [thread |-> t, count |-> held[t].n]
    BY <1>1, <2>1 DEF OwnerEntries
  <2>3. [Entry(i) EXCEPT !.count = @ + 1] = e
    BY <2>2
  <2>4. PutEntry(i, [Entry(i) EXCEPT !.count = @ + 1])
    BY DEF TakeAgain
  <2>5. e \in OwnerEntries(Owners \cup {NoOwner})
    BY <1>1 DEF OwnerEntries
  <2> QED BY <2>3, <2>4, <2>5
<1>5. /\ ownerTable' \in Seq(OwnerEntries(Owners \cup {NoOwner}))
      /\ ownerEntry' \in OwnerEntries(Owners \cup {NoOwner, HandedOver})
      /\ DOMAIN Entries' = DOMAIN Entries /\ Entries'[i] = e
      /\ \A j \in DOMAIN Entries \ {i} : Entries'[j] = Entries[j]
      /\ ownerEntry' = IF i = 0 THEN e ELSE ownerEntry
  <2> HIDE DEF e
  <2> QED BY <1>0, <1>4, PutFacts
<1>6. TypeOK'
  BY <1>0, <1>3, <1>5 DEF TypeOK, TakeAgain, Moves, objects, waiters, counts
<1>7. Named(Entries', Counts')
  <2>1. /\ Counts \in [Owners -> Nat] /\ Counts' \in [Owners -> Nat] /\ Counts'[t] = held[t].n + 1
        /\ \A o \in Owners \ {t} : Counts'[o] = Counts[o]
    BY <1>0, <1>2, <1>3, CountsMoved, LocalTypes DEF PCs
  <2>2. Entries'[i] = [thread |-> t, count |-> Counts'[t]] /\ Counts'[t] > 0
    BY <1>1, <1>5, <2>1
  <2>3. /\ DOMAIN Entries' = DOMAIN Entries
        /\ \A j \in DOMAIN Entries \ {i} : Entries'[j] = Entries[j]
        /\ Entries[i].thread = t \/ (Entries[i].thread \notin Owners /\ Counts[t] = 0)
    BY <1>1, <1>5, Constants
  <2> HIDE DEF e, h
  <2> QED BY <1>0, <2>1, <2>2, <2>3, NamedPut
<1>8. CallOK("Idle", NoLocals, h, semaphore.there, event.there)
  BY <1>1, LocalTypes DEF CallOK
<1>9. Calls' /\ Released' = Released /\ IsSet' = IsSet
  <2> HIDE DEF h
  <2> QED BY <1>0, <1>3, <1>8, CallsStay
<1>10. \/ ownerEntry'.thread = ownerEntry.thread /\ ownerEntry'.thread = t
       \/ ownerEntry' = ownerEntry
  BY <1>0, <1>5, EntryFacts
<1>11. First'
  <2>1. pc'[t] = "Idle" /\ t # HandedOver
    BY <1>3, Constants DEF Moves
  <2>2. \A o \in Owners : held'[o].mode = "X" => held[o].mode = "X"
    BY <1>3 DEF Moves
  <2>3. \A o \in Owners : pc'[o] = "WaitShared" => pc[o] = "WaitShared"
    BY <1>3 DEF Moves
  <2> QED BY <1>0, <1>10, <2>1, <2>2, <2>3 DEF First
<1>12. Counting'
  <2>1. h.mode = held[t].mode /\ NoLocals.call # "List" /\ "Idle" \in PCs /\ NoLocals \in Locals
    BY LocalTypes DEF PCs
  <2>2. UNCHANGED <<counts, waiters>>
    BY DEF TakeAgain
  <2>3. Quiet(pc[t]) /\ Quiet("Idle")
    BY <1>1 DEF Quiet
  <2>4. ownerEntry'.thread = HandedOver <=> ownerEntry.thread = HandedOver
    BY <1>10
  <2> HIDE DEF h
  <2> QED BY <1>0, <1>1, <1>2, <1>3, <1>6, <1>9, <2>1, <2>2, <2>3, <2>4, QuietCounts
<1> QED BY <1>6, <1>7, <1>9, <1>11, <1>12 DEF IInv

(* t waits for exclusive access.                                            *)
LEMMA WaitExclusiveStep ==
    ASSUME IInv, NEW t \in Owners, pc[t] \in {"Idle", "Again"}, held[t].n = 0,
           activeEntries # 0, event.there, exclusiveWaiters' = exclusiveWaiters + 1,
           Goto(t, "WaitExclusive", NoLocals),
           UNCHANGED <<counts, entries, sharedWaiters, held>>, UNCHANGED objects
    PROVE  IInv'
<1> DEFINE l == "WaitExclusive"
<1>0. TypeOK /\ Calls /\ First /\ Counting /\ Named(Entries, Counts)
  BY DEF IInv
<1>1. /\ held[t] \in Holdings /\ loc[t].call # "List" /\ NoLocals \in Locals /\ NoLocals.call = "none"
      /\ CallOK(pc[t], loc[t], held[t], semaphore.there, event.there) /\ l \in PCs
  BY OwnerFacts, LocalTypes DEF CallOK, PCs
<1>2. Moves(t, l, NoLocals, held[t])
  BY <1>0, <1>1, GotoMoves
<1>3. CallOK(l, NoLocals, held[t], semaphore.there, event.there)
  BY <1>1 DEF CallOK
<1>4. Calls' /\ Released' = Released /\ IsSet' = IsSet
  BY <1>0, <1>2, <1>3, CallsStay
<1>5. TypeOK'
  BY <1>0, <1>2 DEF TypeOK, Moves, counts, entries, objects
<1>6. Named(Entries', Counts')
  <2>1. /\ Counts \in [Owners -> Nat] /\ Counts' \in [Owners -> Nat]
        /\ Counts'[t] = Counts[t] /\ \A o \in Owners \ {t} : Counts'[o] = Counts[o]
    BY <1>0, <1>1, <1>2, CountsMoved
  <2>2. Counts' = Counts
    BY <2>1
  <2> QED BY <1>0, <2>2, EntriesStay
<1>7. ownerEntry' = ownerEntry
  BY DEF entries
<1>8. First'
  BY <1>0, <1>2, <1>7, FirstMoved
<1>9. Counting'
  <2>1. Shifted(t, l, NoLocals, held[t]) /\ GrantsShifted(t, l, NoLocals) /\ Numbers
    BY <1>0, <1>1, <1>2, <1>5, Shift
  <2>2. /\ Sharing' = Sharing /\ Owning' = Owning /\ Taking' = Taking /\ Listing' = Listing
        /\ SharedQueue' = SharedQueue /\ ExclusiveQueue' = ExclusiveQueue + 1
    BY <1>1, <2>1 DEF Shifted, Changes
  <2>3. SharedGrants' = SharedGrants /\ ExclusiveGrants' = ExclusiveGrants
    BY <1>4, <2>1 DEF GrantsShifted, Numbers
  <2>4. UNCHANGED <<exclusive, activeEntries, activeCount, sharedWaiters>>
    BY DEF counts
  <2>5. activeEntries > 0
    BY <2>1 DEF Numbers
  <2> QED BY <1>0, <1>7, <2>1, <2>2, <2>3, <2>4, <2>5 DEF Counting, Numbers
<1> QED BY <1>4, <1>5, <1>6, <1>8, <1>9 DEF IInv

(* t waits for shared access, with entry i reserved if it is not None.      *)
LEMMA WaitSharedStep ==
    ASSUME IInv, NEW t \in Owners, pc[t] \in {"Idle", "Again"}, held[t].n = 0, NEW i,
           NEW call \in {"none", "Exclusive", "Shared", "Starve", "WaitForExclusive"},
           WaitShared(t, i, call), UNCHANGED objects, exclusive \/ exclusiveWaiters > 0,
           i = None \/ (i # None /\ i # 0 /\ i \in DOMAIN Entries /\ Entries[i].thread = NoOwner)
    PROVE  IInv'
<1>1. CASE ~semaphore.there
  <2>1. AllocateFor(t, "AllocSemaphore", call)
    BY <1>1 DEF WaitShared
  <2> QED BY <2>1, AllocateForStep
<1>2. CASE semaphore.there
  <2> DEFINE l == IF i = None THEN "WaitUnlisted" ELSE "WaitShared"
  <2>0. TypeOK /\ Calls /\ First /\ Counting /\ Named(Entries, Counts)
    BY DEF IInv
  <2>1. /\ IF i = None THEN UNCHANGED entries ELSE PutEntry(i, [thread |-> t, count |-> 1])
        /\ sharedWaiters' = sharedWaiters + 1 /\ Goto(t, l, NoLocals)
        /\ UNCHANGED <<counts, exclusiveWaiters, held>>
    BY <1>2 DEF WaitShared
  <2>2. /\ held[t] \in Holdings /\ loc[t].call # "List" /\ NoLocals \in Locals
        /\ NoLocals.call = "none" /\ l \in PCs /\ l \in {"WaitShared", "WaitUnlisted"}
        /\ CallOK(pc[t], loc[t], held[t], semaphore.there, event.there)
        /\ Counts[t] = 0 /\ ownerEntry.thread # t
    BY OwnerFacts, LocalTypes DEF CallOK, PCs
  <2>3. (i = None => l = "WaitUnlisted") /\ (i # None => l = "WaitShared")
    OBVIOUS
  <2> HIDE DEF l
  <2>4. Moves(t, l, NoLocals, held[t])
    BY <2>0, <2>1, <2>2, GotoMoves
  <2>5. CallOK(l, NoLocals, held[t], semaphore.there, event.there)
    BY <1>2, <2>2 DEF CallOK
  <2>6. Calls' /\ Released' = Released /\ IsSet' = IsSet
    BY <2>0, <2>4, <2>5, CallsStay
  <2>7. /\ Counts \in [Owners -> Nat] /\ Counts' \in [Owners -> Nat]
        /\ Counts'[t] = IF l = "WaitShared" THEN 1 ELSE 0
        /\ \A o \in Owners \ {t} : Counts'[o] = Counts[o]
    BY <2>0, <2>2, <2>4, CountsMoved
  <2>8. /\ ownerTable' \in Seq(OwnerEntries(Owners \cup {NoOwner}))
        /\ ownerEntry' = ownerEntry
        /\ Named(Entries', Counts')
    <3>1. CASE i = None
      <4>1. Counts' = Counts
        BY <2>2, <2>3, <2>7, <3>1
      <4> QED BY <2>0, <2>1, <3>1, <4>1, EntriesStay DEF entries, TypeOK
    <3>2. CASE i # None
      <4> DEFINE e == [thread |-> t, count |-> 1]
      <4>1. e \in OwnerEntries(Owners \cup {NoOwner}) /\ PutEntry(i, e)
        BY <2>1, <3>2 DEF OwnerEntries
      <4>2. e = [thread |-> t, count |-> Counts'[t]] /\ Counts'[t] > 0
        BY <2>3, <2>7, <3>2
      <4> HIDE DEF e
      <4>3. /\ ownerTable' \in Seq(OwnerEntries(Owners \cup {NoOwner}))
            /\ DOMAIN Entries' = DOMAIN Entries /\ Entries'[i] = e
            /\ \A j \in DOMAIN Entries \ {i} : Entries'[j] = Entries[j]
            /\ ownerEntry' = ownerEntry
        BY <2>0, <3>2, <4>1, PutFacts
      <4>4. /\ Entries'[i] = [thread |-> t, count |-> Counts'[t]] /\ i \in DOMAIN Entries
            /\ Entries[i].thread = t \/ (Entries[i].thread \notin Owners /\ Counts[t] = 0)
        BY <2>2, <3>2, <4>2, <4>3, Constants
      <4>5. Named(Entries', Counts')
        BY <2>0, <2>7, <4>2, <4>3, <4>4, NamedPut
      <4> QED BY <4>3, <4>5
    <3> QED BY <3>1, <3>2
  <2>9. TypeOK'
    BY <2>0, <2>1, <2>4, <2>8 DEF TypeOK, Moves, counts, objects
  <2>10. First'
    BY <2>0, <2>2, <2>4, <2>8, FirstMoved
  <2>11. Counting'
    <3>1. Shifted(t, l, NoLocals, held[t]) /\ GrantsShifted(t, l, NoLocals) /\ Numbers
      BY <2>0, <2>2, <2>4, <2>9, Shift
    <3>2. /\ Sharing' = Sharing /\ Owning' = Owning /\ Taking' = Taking /\ Listing' = Listing
          /\ SharedQueue' = SharedQueue + 1 /\ ExclusiveQueue' = ExclusiveQueue
      BY <2>2, <3>1 DEF Shifted, Changes
    <3>3. SharedGrants' = SharedGrants /\ ExclusiveGrants' = ExclusiveGrants
      BY <2>2, <2>6, <3>1 DEF GrantsShifted, Numbers
    <3>4. UNCHANGED <<exclusive, activeEntries, activeCount, exclusiveWaiters>>
      BY <2>1 DEF counts
    <3> QED BY <2>0, <2>1, <2>8, <3>1, <3>2, <3>3, <3>4 DEF Counting, Numbers
  <2> QED BY <2>6, <2>8, <2>9, <2>10, <2>11 DEF IInv
<1> QED BY <1>1, <1>2

(* One more sharer, in entry i.                                             *)
LEMMA TakeSharedStep ==
    ASSUME IInv, NEW t \in Owners, pc[t] \in {"Idle", "Again"}, held[t].n = 0,
           NEW i \in DOMAIN Entries, Entries[i].thread = NoOwner,
           ~exclusive, activeEntries # 0, TakeShared(t, i), UNCHANGED objects
    PROVE  IInv'
<1> DEFINE h == [mode |-> "S", n |-> 1]
           e == [thread |-> t, count |-> 1]
<1>0. TypeOK /\ Calls /\ First /\ Counting /\ Named(Entries, Counts)
  BY DEF IInv
<1>1. /\ loc[t].call # "List" /\ held[t].mode = "no" /\ Counts[t] = 0
      /\ NoLocals \in Locals /\ NoLocals.call = "none" /\ "Idle" \in PCs
  BY OwnerFacts, LocalTypes DEF CallOK, PCs
<1>2. h \in Holdings /\ held' = [held EXCEPT ![t] = h]
  <2>1. h = [mode |-> "S", n |-> held[t].n + 1] /\ Hold(t, "S")
    BY DEF TakeShared
  <2> HIDE DEF h
  <2> QED BY <1>0, <2>1, HoldMore
<1>3. Moves(t, "Idle", NoLocals, h)
  <2> HIDE DEF h
  <2> QED BY <1>0, <1>1, <1>2, GotoMoves DEF TakeShared, Return
<1>4. PutEntry(i, e) /\ e \in OwnerEntries(Owners \cup {NoOwner})
  BY DEF TakeShared, OwnerEntries
<1>5. /\ ownerTable' \in Seq(OwnerEntries(Owners \cup {NoOwner}))
      /\ ownerEntry' \in OwnerEntries(Owners \cup {NoOwner, HandedOver})
      /\ DOMAIN Entries' = DOMAIN Entries /\ Entries'[i] = e
      /\ \A j \in DOMAIN Entries \ {i} : Entries'[j] = Entries[j]
      /\ ownerEntry' = IF i = 0 THEN e ELSE ownerEntry
  <2> HIDE DEF e
  <2> QED BY <1>0, <1>4, PutFacts
<1>6. /\ activeEntries' = activeEntries + 1
      /\ UNCHANGED <<exclusive, activeCount, sharedWaiters, exclusiveWaiters>>
  BY DEF TakeShared, waiters
<1>7. TypeOK'
  BY <1>0, <1>3, <1>5, <1>6 DEF TypeOK, Moves, objects
<1>8. Named(Entries', Counts')
  <2>1. /\ Counts \in [Owners -> Nat] /\ Counts' \in [Owners -> Nat] /\ Counts'[t] = 1
        /\ \A o \in Owners \ {t} : Counts'[o] = Counts[o]
    BY <1>0, <1>1, <1>2, <1>3, CountsMoved
  <2>2. Entries'[i] = [thread |-> t, count |-> Counts'[t]] /\ Counts'[t] > 0
    BY <1>5, <2>1
  <2>3. /\ DOMAIN Entries' = DOMAIN Entries
        /\ \A j \in DOMAIN Entries \ {i} : Entries'[j] = Entries[j]
        /\ Entries[i].thread = t \/ (Entries[i].thread \notin Owners /\ Counts[t] = 0)
    BY <1>1, <1>5, Constants
  <2> HIDE DEF e, h
  <2> QED BY <1>0, <2>1, <2>2, <2>3, NamedPut
<1>9. CallOK("Idle", NoLocals, h, semaphore.there, event.there)
  BY <1>1 DEF CallOK
<1>10. Calls' /\ Released' = Released /\ IsSet' = IsSet
  <2> HIDE DEF h
  <2> QED BY <1>0, <1>3, <1>9, CallsStay
<1>11. \/ ownerEntry'.thread = t /\ ownerEntry.thread = NoOwner
       \/ ownerEntry' = ownerEntry
  BY <1>0, <1>5, EntryFacts
<1>12. First'
  <2>1. pc'[t] = "Idle" /\ t # HandedOver
    BY <1>3, Constants DEF Moves
  <2>2. \A o \in Owners : held[o].mode # "X"
    BY OwnerFacts
  <2>3. \A o \in Owners : held'[o].mode # "X"
    BY <1>3, <2>2 DEF Moves
  <2>4. \A o \in Owners : pc'[o] = "WaitShared" => pc[o] = "WaitShared"
    BY <1>3 DEF Moves
  <2> QED BY <1>0, <1>11, <2>1, <2>3, <2>4 DEF First
<1>13. Counting'
  <2>1. Shifted(t, "Idle", NoLocals, h) /\ GrantsShifted(t, "Idle", NoLocals) /\ Numbers
    BY <1>0, <1>1, <1>2, <1>3, <1>7, Shift
  <2>2. /\ Sharing' = Sharing + 1 /\ Owning' = Owning /\ Taking' = Taking /\ Listing' = Listing
        /\ SharedQueue' = SharedQueue /\ ExclusiveQueue' = ExclusiveQueue
    BY <1>1, <2>1 DEF Shifted, Changes
  <2>3. SharedGrants' = SharedGrants /\ ExclusiveGrants' = ExclusiveGrants
    BY <1>10, <2>1 DEF GrantsShifted, Numbers
  <2>4. ownerEntry'.thread = HandedOver <=> ownerEntry.thread = HandedOver
    BY <1>11, Constants
  <2>5. activeCount = 1 /\ activeEntries > 0
    BY <1>0, <2>1 DEF Counting, Numbers, Number
  <2> HIDE DEF h, e
  <2> QED BY <1>0, <1>6, <2>1, <2>2, <2>3, <2>4, <2>5 DEF Counting, Numbers, Number
<1> QED BY <1>7, <1>8, <1>10, <1>12, <1>13 DEF IInv

(* ExAcquireResourceExclusiveLite                                           *)
LEMMA AcquireExclusiveStep ==
    ASSUME IInv, NEW t \in Owners, pc[t] \in {"Idle", "Again"}, held[t].mode # "S",
           AcquireExclusive(t)
    PROVE  IInv'
<1>0. TypeOK /\ UNCHANGED objects /\ 0 \in DOMAIN Entries /\ Entries[0] = ownerEntry
  BY EntryFacts DEF IInv, AcquireExclusive
<1>1. CASE activeEntries = 0 /\ TakeFree(t, "X")
  BY <1>0, <1>1, TakeFreeStep
<1>2. CASE OwnsExclusive(t) /\ TakeAgain(t, 0)
  BY <1>0, <1>2, TakeAgainStep DEF OwnsExclusive
<1>3. ASSUME ~OwnsExclusive(t) PROVE held[t].n = 0
  BY <1>3, OwnerFacts DEF OwnsExclusive, CallOK
<1>4. CASE ~OwnsExclusive(t) /\ AllocateFor(t, "AllocEvent", "Exclusive")
  BY <1>0, <1>3, <1>4, AllocateForStep
<1>5. CASE /\ activeEntries # 0 /\ ~OwnsExclusive(t) /\ event.there
           /\ exclusiveWaiters' = exclusiveWaiters + 1
           /\ Goto(t, "WaitExclusive", NoLocals)
           /\ UNCHANGED <<counts, entries, sharedWaiters, held>>
  BY <1>0, <1>3, <1>5, WaitExclusiveStep
<1> QED BY <1>1, <1>2, <1>4, <1>5 DEF AcquireExclusive

(* The three calls for shared access                                        *)
LEMMA AcquireSharedStep ==
    ASSUME IInv, NEW t \in Owners, pc[t] \in {"Idle", "Again"},
           NEW call \in {"none", "Exclusive", "Shared", "Starve", "WaitForExclusive"},
           call = "WaitForExclusive" => held[t].mode # "S" \/ exclusiveWaiters = 0,
           AcquireShared(t, call)
    PROVE  IInv'
<1>0. /\ TypeOK /\ UNCHANGED objects /\ 0 \in DOMAIN Entries /\ Entries[0] = ownerEntry
      /\ exclusive \in BOOLEAN /\ exclusiveWaiters \in Nat
  BY EntryFacts DEF IInv, AcquireShared, TypeOK
<1>1. CASE activeEntries = 0 /\ TakeFree(t, "S")
  BY <1>0, <1>1, TakeFreeStep
<1>2. CASE OwnsExclusive(t) /\ TakeAgain(t, 0)
  BY <1>0, <1>2, TakeAgainStep DEF OwnsExclusive
<1>3. CASE /\ exclusive /\ ~OwnsExclusive(t)
           /\ IF FindFreeEntry = None THEN AllocateFor(t, "Expand", call)
              ELSE WaitShared(t, FindFreeEntry, call)
  <2>1. held[t].n = 0
    BY <1>3, OwnerFacts DEF OwnsExclusive, CallOK
  <2>2. CASE FindFreeEntry = None
    BY <1>0, <1>3, <2>1, <2>2, AllocateForStep
  <2>3. CASE FindFreeEntry # None
    <3>1. /\ FindFreeEntry \in DOMAIN Entries /\ FindFreeEntry # 0
          /\ Entries[FindFreeEntry].thread = NoOwner
      BY <1>0, <2>3, FreeFound
    <3> QED BY <1>0, <1>3, <2>1, <2>3, <3>1, WaitSharedStep
  <2> QED BY <2>2, <2>3
<1>4. CASE ~exclusive /\ MustWaitUnlisted(call) /\ WaitShared(t, None, call)
  <2>1. held[t].n = 0 /\ exclusiveWaiters > 0
    BY <1>0, <1>4, OwnerFacts DEF MustWaitUnlisted, CallOK
  <2> QED BY <1>0, <1>4, <2>1, WaitSharedStep
<1>5. CASE /\ activeEntries # 0 /\ ~exclusive
           /\ SharedByOthers(t, FindEntryForThread(t, MustQueue(call)), call)
  <2> DEFINE i == FindEntryForThread(t, MustQueue(call))
  <2>1. \/ i = None /\ \A j \in DOMAIN Entries : Entries[j].thread # t
        \/ i # None /\ i \in DOMAIN Entries /\ Entries[i].thread = t
        \/ /\ i # None /\ i \in DOMAIN Entries /\ Entries[i].thread = NoOwner
           /\ \A j \in DOMAIN Entries : Entries[j].thread # t
           /\ MustQueue(call) => i # 0
    <3>1. MustQueue(call) \in BOOLEAN
      BY DEF MustQueue
    <3> QED BY <1>0, <3>1, ThreadFound
  <2> HIDE DEF i
  <2>2. SharedByOthers(t, i, call)
    BY <1>5 DEF i
  <2>3. (\A j \in DOMAIN Entries : Entries[j].thread # t) => held[t].n = 0
    BY OwnerFacts
  <2>4. CASE i = None
    <3>1. AllocateFor(t, "Expand", call)
      BY <2>2, <2>4 DEF SharedByOthers
    <3> QED BY <1>0, <2>1, <2>3, <2>4, <3>1, AllocateForStep
  <2>5. CASE i # None /\ i \in DOMAIN Entries /\ Entries[i].thread = t
    <3>1. Entry(i) = Entries[i]
      BY <1>0, <2>5, EntryFacts
    <3>2. TakeAgain(t, i)
      BY <2>2, <2>5, <3>1 DEF SharedByOthers
    <3> QED BY <1>0, <2>5, <3>2, TakeAgainStep
  <2>6. CASE /\ i # None /\ i \in DOMAIN Entries /\ Entries[i].thread = NoOwner
             /\ \A j \in DOMAIN Entries : Entries[j].thread # t
             /\ MustQueue(call) => i # 0
    <3>1. held[t].n = 0 /\ Entry(i).thread # t
      BY <1>0, <2>3, <2>6, EntryFacts, Constants
    <3>2. CASE MustQueue(call)
      <4>1. WaitShared(t, i, call) /\ exclusiveWaiters > 0
        BY <2>2, <2>6, <3>1, <3>2 DEF SharedByOthers, MustQueue
      <4> QED BY <1>0, <2>6, <3>1, <3>2, <4>1, WaitSharedStep
    <3>3. CASE ~MustQueue(call)
      <4>1. TakeShared(t, i)
        BY <2>2, <2>6, <3>1, <3>3 DEF SharedByOthers
      <4> QED BY <1>0, <1>5, <2>6, <3>1, <4>1, TakeSharedStep
    <3> QED BY <3>2, <3>3
  <2> QED BY <2>1, <2>4, <2>5, <2>6
<1> QED BY <1>1, <1>2, <1>3, <1>4, <1>5 DEF AcquireShared

(* A call that starts, and one that starts again.                           *)
LEMMA StartStep ==
    ASSUME IInv, NEW t \in Owners, Start(t) \/ Again(t)
    PROVE  IInv'
<1>1. CASE StartExclusive(t)
  <2>1. pc[t] = "Idle" /\ held[t].mode # "S"
    BY <1>1 DEF StartExclusive, CanAcquire
  <2>2. CASE AcquireExclusive(t)
    BY <2>1, <2>2, AcquireExclusiveStep
  <2>3. CASE TryToAcquireExclusive(t)
    <3>1. activeEntries = 0
      <4>1. Counting /\ Numbers /\ activeCount = 0
        BY <2>3, CountFacts DEF IInv, TryToAcquireExclusive
      <4> QED BY <4>1 DEF Counting, Numbers, Number
    <3> QED BY <2>1, <2>3, <3>1, TakeFreeStep DEF TryToAcquireExclusive
  <2> QED BY <1>1, <2>2, <2>3 DEF StartExclusive
<1>2. CASE StartShared(t)
  <2>1. PICK call \in {"Shared", "Starve", "WaitForExclusive"} :
          /\ call = "WaitForExclusive" => held[t].mode # "S" \/ exclusiveWaiters = 0
          /\ AcquireShared(t, call)
    BY <1>2 DEF StartShared
  <2>2. pc[t] = "Idle"
    BY <1>2 DEF StartShared, CanAcquire
  <2> QED BY <2>1, <2>2, AcquireSharedStep
<1>3. CASE Again(t)
  <2>1. pc[t] = "Again" /\ held[t].mode = "no"
    BY <1>3, OwnerFacts DEF Again, CallOK
  <2>2. loc[t].call \in {"none", "Exclusive", "Shared", "Starve", "WaitForExclusive"}
    BY <2>1, OwnerFacts DEF CallOK, Locals
  <2>3. CASE AcquireExclusive(t)
    BY <2>1, <2>3, AcquireExclusiveStep
  <2>4. CASE AcquireShared(t, loc[t].call)
    BY <2>1, <2>2, <2>4, AcquireSharedStep
  <2> QED BY <1>3, <2>3, <2>4 DEF Again
<1> QED BY <1>1, <1>2, <1>3 DEF Start

-----------------------------------------------------------------------------
(* The event and the semaphore are allocated.                               *)
LEMMA AllocateStep ==
    ASSUME IInv, NEW t \in Owners, AllocateEvent(t) \/ AllocateSemaphore(t)
    PROVE  IInv'
<1> DEFINE r == [loc[t] EXCEPT !.size = 0]
<1>0. TypeOK /\ Calls
  BY DEF IInv
<1>1. /\ loc[t] \in Locals /\ CallOK(pc[t], loc[t], held[t], semaphore.there, event.there)
      /\ pc[t] \in {"AllocEvent", "AllocSemaphore"}
  BY OwnerFacts DEF AllocateEvent, AllocateSemaphore
<1>2. r \in Locals /\ r.call = loc[t].call /\ loc[t].call # "List" /\ "Again" \in PCs
  BY <1>1, LocalTypes DEF CallOK, PCs
<1>3. Goto(t, "Again", r) /\ UNCHANGED <<counts, entries, waiters, held>>
  BY DEF AllocateEvent, AllocateSemaphore
<1> HIDE DEF r
<1>4. Moves(t, "Again", r, held[t])
  BY <1>0, <1>2, <1>3, GotoMoves
<1>5. /\ semaphore' \in [there : BOOLEAN, count : Nat]
      /\ event' \in [there : BOOLEAN, set : BOOLEAN]
      /\ semaphore.there => semaphore'.there
      /\ event.there => event'.there
      /\ Released' = Released /\ IsSet' = IsSet
  <2>1. /\ semaphore \in [there : BOOLEAN, count : Nat]
        /\ event \in [there : BOOLEAN, set : BOOLEAN]
        /\ semaphore.there \/ semaphore.count = 0
        /\ event.there \/ event.set = FALSE
    BY <1>0 DEF TypeOK, Calls, Released, IsSet, Number
  <2>2. \/ semaphore' = semaphore
        \/ ~semaphore.there /\ semaphore' = [there |-> TRUE, count |-> 0]
    BY DEF AllocateEvent, AllocateSemaphore
  <2>3. \/ event' = event
        \/ ~event.there /\ event' = [there |-> TRUE, set |-> FALSE]
    BY DEF AllocateEvent, AllocateSemaphore
  <2>4. semaphore' \in [there : BOOLEAN, count : Nat] /\ semaphore'.count = semaphore.count
    <3>1. CASE semaphore' = semaphore
      BY <2>1, <3>1
    <3>2. CASE ~semaphore.there /\ semaphore' = [there |-> TRUE, count |-> 0]
      <4>1. semaphore.count = 0
        BY <2>1, <3>2
      <4> QED BY <3>2, <4>1
    <3> QED BY <2>2, <3>1, <3>2
  <2>5. event' \in [there : BOOLEAN, set : BOOLEAN] /\ event'.set = event.set
    <3>1. CASE event' = event
      BY <2>1, <3>1
    <3>2. CASE ~event.there /\ event' = [there |-> TRUE, set |-> FALSE]
      BY <2>1, <3>2
    <3> QED BY <2>3, <3>1, <3>2
  <2>6. (semaphore.there => semaphore'.there) /\ (event.there => event'.there)
    BY <2>2, <2>3, Zenon
  <2> QED BY <2>4, <2>5, <2>6 DEF Released, IsSet
<1>6. CallOK("Again", r, held[t], semaphore'.there, event'.there)
  BY <1>1, <1>2 DEF CallOK
<1>7. Calls'
  BY <1>0, <1>4, <1>5, <1>6, CallsMoved DEF Calls
<1>8. Quiet(pc[t]) /\ Quiet("Again")
  BY <1>1 DEF Quiet
<1> QED BY <1>2, <1>3, <1>4, <1>5, <1>7, <1>8, QuietStep

(* The owner table is expanded, unless somebody else has done it.           *)
LEMMA ExpandStep ==
    ASSUME IInv, NEW t \in Owners, ExpandOwnerTable(t)
    PROVE  IInv'
<1> DEFINE l == IF loc[t].call = "List" THEN "List" ELSE "Again"
           r == [loc[t] EXCEPT !.size = 0]
           T == OwnerEntries(Owners \cup {NoOwner})
<1>0. TypeOK /\ Calls /\ First /\ Counting /\ Named(Entries, Counts)
  BY DEF IInv
<1>1. /\ loc[t] \in Locals /\ held[t] \in Holdings /\ pc[t] = "Expand"
      /\ CallOK(pc[t], loc[t], held[t], semaphore.there, event.there)
  BY OwnerFacts DEF ExpandOwnerTable
<1>2. r \in Locals /\ r.call = loc[t].call /\ l \in PCs
  BY <1>1, LocalTypes DEF PCs
<1>3. Goto(t, l, r) /\ UNCHANGED <<counts, ownerEntry, waiters, objects, held>>
  BY DEF ExpandOwnerTable, Expanded
<1>4. CallOK(l, r, held[t], semaphore.there, event.there) /\ Quiet(l) /\ Quiet(pc[t])
  BY <1>1, <1>2 DEF CallOK, Quiet
<1> HIDE DEF l, r
<1>5. Moves(t, l, r, held[t])
  BY <1>0, <1>2, <1>3, GotoMoves
<1>6. Calls' /\ Released' = Released /\ IsSet' = IsSet
  BY <1>0, <1>3, <1>4, <1>5, CallsStay
<1>7. /\ ownerTable' \in Seq(T) /\ Len(ownerTable') >= Len(ownerTable)
      /\ \A j \in 1 .. Len(ownerTable') :
            IF j <= Len(ownerTable) THEN ownerTable'[j] = ownerTable[j]
            ELSE ownerTable'[j] = FreeEntry
  <2>1. ownerTable \in Seq(T) /\ FreeEntry \in T
    BY <1>0 DEF TypeOK, OwnerEntries, FreeEntry
  <2>2. \A n \in Nat : Free(n) \in Seq(T) /\ Len(Free(n)) = n /\ \A j \in 1 .. n : Free(n)[j] = FreeEntry
    BY <2>1 DEF Free
  <2> HIDE DEF T
  <2>3. CASE ownerTable' = ownerTable
    BY <2>1, <2>3
  <2>4. CASE ownerTable = <<>> /\ ownerTable' = Free(FirstSize - 1)
    <3>1. FirstSize - 1 \in Nat
      BY Constants
    <3> QED BY <2>2, <2>4, <3>1
  <2>5. CASE ownerTable' = ownerTable \o Free(MoreEntries)
    <3>1. /\ Free(MoreEntries) \in Seq(T) /\ Len(Free(MoreEntries)) = MoreEntries
          /\ \A j \in 1 .. MoreEntries : Free(MoreEntries)[j] = FreeEntry
          /\ MoreEntries \in Nat
      BY <2>2, Constants
    <3> QED BY <2>1, <2>5, <3>1
  <2> QED BY <2>3, <2>4, <2>5 DEF ExpandOwnerTable
<1>8. TypeOK'
  BY <1>0, <1>3, <1>5, <1>7 DEF TypeOK, Moves, counts, waiters, objects
<1>9. Named(Entries', Counts)
  <2>1. /\ DOMAIN Entries' = 0 .. Len(ownerTable')
        /\ \A j \in 0 .. Len(ownerTable') : Entries'[j] = IF j = 0 THEN ownerEntry ELSE ownerTable'[j]
    BY <1>3 DEF Entries, Indices, Entry
  <2>2. /\ DOMAIN Entries = 0 .. Len(ownerTable) /\ Len(ownerTable) \in Nat
        /\ Entries[0] = ownerEntry /\ \A j \in 1 .. Len(ownerTable) : Entries[j] = ownerTable[j]
    BY <1>0, EntryFacts
  <2>3. Len(ownerTable') \in Nat /\ Len(ownerTable') >= Len(ownerTable)
    BY <1>7
  <2>4. DOMAIN Entries \subseteq DOMAIN Entries'
    BY <2>1, <2>2, <2>3
  <2>5. ASSUME NEW j \in DOMAIN Entries'
        PROVE  IF j \in DOMAIN Entries THEN Entries'[j] = Entries[j] ELSE Entries'[j] = FreeEntry
    <3>1. CASE j = 0
      BY <2>1, <2>2, <3>1
    <3>2. CASE j # 0
      <4>1. j \in 1 .. Len(ownerTable') /\ Entries'[j] = ownerTable'[j]
        BY <2>1, <2>3, <2>5, <3>2
      <4>2. j \in DOMAIN Entries <=> j <= Len(ownerTable)
        BY <2>2, <2>3, <4>1
      <4>3. j <= Len(ownerTable) => j \in 1 .. Len(ownerTable)
        BY <2>2, <2>3, <4>1
      <4> QED BY <1>7, <2>2, <4>1, <4>2, <4>3
    <3> QED BY <3>1, <3>2
  <2>6. Counts \in [Owners -> Nat]
    BY <1>0, <1>1, <1>2, <1>5, CountsMoved
  <2> QED BY <1>0, <2>4, <2>5, <2>6, NamedGrow
<1>10. Counts' = Counts
  <2>1. /\ Counts \in [Owners -> Nat] /\ Counts' \in [Owners -> Nat]
        /\ Counts'[t] = Counts[t] /\ \A o \in Owners \ {t} : Counts'[o] = Counts[o]
    BY <1>0, <1>1, <1>2, <1>4, <1>5, CountsMoved DEF Quiet
  <2> QED BY <2>1
<1>11. First'
  BY <1>0, <1>3, <1>4, <1>5, FirstMoved DEF Quiet
<1>12. Counting'
  BY <1>0, <1>1, <1>2, <1>3, <1>4, <1>5, <1>6, <1>8, QuietCounts
<1> QED BY <1>6, <1>8, <1>9, <1>10, <1>11, <1>12 DEF IInv

-----------------------------------------------------------------------------
(* What a step that takes one from the semaphore makes of it.               *)
LEMMA TakenFromSemaphore ==
    ASSUME TypeOK, Calls, semaphore.count > 0,
           semaphore' = [semaphore EXCEPT !.count = @ - 1], event' = event
    PROVE  /\ semaphore' \in [there : BOOLEAN, count : Nat]
           /\ event' \in [there : BOOLEAN, set : BOOLEAN]
           /\ semaphore'.there = semaphore.there /\ semaphore'.there
           /\ Released' = Released - 1 /\ Released > 0 /\ Released \in Nat /\ IsSet' = IsSet
<1>1. /\ semaphore \in [there : BOOLEAN, count : Nat]
      /\ event \in [there : BOOLEAN, set : BOOLEAN]
  BY DEF TypeOK
<1>2. semaphore.there
  BY <1>1 DEF Calls, Released
<1>3. semaphore'.there = semaphore.there /\ semaphore'.count = semaphore.count - 1
  BY <1>1
<1>4. semaphore' \in [there : BOOLEAN, count : Nat]
  BY <1>1
<1> QED BY <1>1, <1>2, <1>3, <1>4 DEF Released, IsSet

(* A waiter that reserved an entry gets shared access.                      *)
LEMMA WakeSharedStep ==
    ASSUME IInv, NEW t \in Owners, WakeShared(t)
    PROVE  IInv'
<1> DEFINE h == [mode |-> "S", n |-> 1]
<1>0. TypeOK /\ Calls /\ First /\ Counting /\ Named(Entries, Counts)
  BY DEF IInv
<1>1. /\ pc[t] = "WaitShared" /\ held[t].n = 0 /\ held[t].mode = "no" /\ loc[t].call # "List"
      /\ NoLocals \in Locals /\ NoLocals.call = "none" /\ "Idle" \in PCs
  BY OwnerFacts, LocalTypes DEF WakeShared, CallOK, PCs
<1>2. h \in Holdings /\ held' = [held EXCEPT ![t] = h]
  <2>1. h = [mode |-> "S", n |-> held[t].n + 1] /\ Hold(t, "S")
    BY <1>1 DEF WakeShared
  <2> HIDE DEF h
  <2> QED BY <1>0, <2>1, HoldMore
<1>3. Moves(t, "Idle", NoLocals, h)
  <2> HIDE DEF h
  <2> QED BY <1>0, <1>1, <1>2, GotoMoves DEF WakeShared, Return
<1>4. /\ semaphore' \in [there : BOOLEAN, count : Nat]
      /\ event' \in [there : BOOLEAN, set : BOOLEAN]
      /\ semaphore'.there = semaphore.there /\ semaphore'.there
      /\ Released' = Released - 1 /\ Released > 0 /\ Released \in Nat /\ IsSet' = IsSet
      /\ event' = event
  BY <1>0, TakenFromSemaphore DEF WakeShared
<1>5. UNCHANGED <<counts, waiters, entries>> /\ ownerEntry' = ownerEntry
  BY DEF WakeShared, entries
<1>6. TypeOK'
  BY <1>0, <1>3, <1>4, <1>5 DEF TypeOK, Moves, counts, waiters, entries
<1>7. Named(Entries', Counts')
  <2>1. /\ Counts \in [Owners -> Nat] /\ Counts' \in [Owners -> Nat]
        /\ Counts'[t] = Counts[t] /\ \A o \in Owners \ {t} : Counts'[o] = Counts[o]
    BY <1>0, <1>1, <1>2, <1>3, CountsMoved
  <2>2. Counts' = Counts
    BY <2>1
  <2> QED BY <1>0, <1>5, <2>2, EntriesStay
<1>8. Calls'
  <2>1. CallOK("Idle", NoLocals, h, semaphore'.there, event'.there)
    BY <1>1 DEF CallOK
  <2> HIDE DEF h
  <2> QED BY <1>0, <1>3, <1>4, <2>1, CallsMoved DEF Calls
<1>9. First'
  <2>1. h.mode # "X"
    OBVIOUS
  <2> HIDE DEF h
  <2> QED BY <1>0, <1>3, <1>5, <2>1, FirstMoved
<1>10. Counting'
  <2>1. Shifted(t, "Idle", NoLocals, h) /\ GrantsShifted(t, "Idle", NoLocals) /\ Numbers /\ Numbers'
    BY <1>0, <1>1, <1>2, <1>3, <1>6, Shift
  <2>2. /\ Sharing' = Sharing + 1 /\ Owning' = Owning /\ Taking' = Taking /\ Listing' = Listing
        /\ SharedQueue' = SharedQueue - 1 /\ ExclusiveQueue' = ExclusiveQueue
    BY <1>1, <2>1 DEF Shifted, Changes
  <2>3. SharedGrants' = SharedGrants - 1 /\ ExclusiveGrants' = ExclusiveGrants
    BY <1>1, <1>4, <2>1 DEF GrantsShifted, Numbers
  <2>4. /\ UNCHANGED <<exclusive, activeEntries, activeCount, sharedWaiters, exclusiveWaiters>>
    BY <1>5 DEF counts, waiters
  <2> HIDE DEF h
  <2>5. ~exclusive
    BY <1>0, <2>1, <2>3 DEF Counting, Numbers
  <2> QED BY <1>0, <1>5, <2>1, <2>2, <2>3, <2>4, <2>5 DEF Counting, Numbers
<1> QED BY <1>6, <1>7, <1>8, <1>9, <1>10 DEF IInv

(* A waiter without an entry is woken.                                      *)
LEMMA WakeUnlistedStep ==
    ASSUME IInv, NEW t \in Owners, WakeUnlisted(t)
    PROVE  IInv'
<1> DEFINE r == [NoLocals EXCEPT !.call = "List"]
<1>0. TypeOK /\ Calls /\ First /\ Counting /\ Named(Entries, Counts)
  BY DEF IInv
<1>1. /\ pc[t] = "WaitUnlisted" /\ held[t].n = 0 /\ held[t].mode = "no" /\ loc[t].call # "List"
      /\ r \in Locals /\ r.call = "List" /\ "List" \in PCs /\ held[t] \in Holdings
  BY OwnerFacts DEF WakeUnlisted, CallOK, PCs, Locals, NoLocals
<1>2. Goto(t, "List", r) /\ UNCHANGED held
  BY DEF WakeUnlisted
<1> HIDE DEF r
<1>3. Moves(t, "List", r, held[t])
  BY <1>0, <1>1, <1>2, GotoMoves
<1>4. /\ semaphore' \in [there : BOOLEAN, count : Nat]
      /\ event' \in [there : BOOLEAN, set : BOOLEAN]
      /\ semaphore'.there = semaphore.there /\ semaphore'.there
      /\ Released' = Released - 1 /\ Released > 0 /\ Released \in Nat /\ IsSet' = IsSet
      /\ event' = event
  BY <1>0, TakenFromSemaphore DEF WakeUnlisted
<1>5. UNCHANGED <<counts, waiters, entries>> /\ ownerEntry' = ownerEntry
  BY DEF WakeUnlisted, entries
<1>6. TypeOK'
  BY <1>0, <1>3, <1>4, <1>5 DEF TypeOK, Moves, counts, waiters, entries
<1>7. Named(Entries', Counts')
  <2>1. /\ Counts \in [Owners -> Nat] /\ Counts' \in [Owners -> Nat]
        /\ Counts'[t] = Counts[t] /\ \A o \in Owners \ {t} : Counts'[o] = Counts[o]
    BY <1>0, <1>1, <1>3, CountsMoved
  <2>2. Counts' = Counts
    BY <2>1
  <2> QED BY <1>0, <1>5, <2>2, EntriesStay
<1>8. Calls'
  <2>1. CallOK("List", r, held[t], semaphore'.there, event'.there)
    BY <1>1 DEF CallOK
  <2> QED BY <1>0, <1>3, <1>4, <2>1, CallsMoved DEF Calls
<1>9. First'
  BY <1>0, <1>3, <1>5, FirstMoved
<1>10. Counting'
  <2>1. Shifted(t, "List", r, held[t]) /\ GrantsShifted(t, "List", r) /\ Numbers /\ Numbers'
    BY <1>0, <1>1, <1>3, <1>6, Shift
  <2>2. /\ Sharing' = Sharing /\ Owning' = Owning /\ Taking' = Taking /\ Listing' = Listing + 1
        /\ SharedQueue' = SharedQueue - 1 /\ ExclusiveQueue' = ExclusiveQueue
    BY <1>1, <2>1 DEF Shifted, Changes
  <2>3. SharedGrants' = SharedGrants - 1 /\ ExclusiveGrants' = ExclusiveGrants
    BY <1>1, <1>4, <2>1 DEF GrantsShifted, Numbers
  <2>4. /\ UNCHANGED <<exclusive, activeEntries, activeCount, sharedWaiters, exclusiveWaiters>>
    BY <1>5 DEF counts, waiters
  <2>5. ~exclusive
    BY <1>0, <2>1, <2>3 DEF Counting, Numbers
  <2> QED BY <1>0, <1>5, <2>1, <2>2, <2>3, <2>4, <2>5 DEF Counting, Numbers
<1> QED BY <1>6, <1>7, <1>8, <1>9, <1>10 DEF IInv

(* It finds an entry, or has the table expanded.                            *)
LEMMA ListWokenStep ==
    ASSUME IInv, NEW t \in Owners, ListWoken(t)
    PROVE  IInv'
<1> DEFINE i == FindEntryForThread(t, TRUE)
           h == [mode |-> "S", n |-> 1]
           e == [thread |-> t, count |-> 1]
<1>0. TypeOK /\ Calls /\ First /\ Counting /\ Named(Entries, Counts) /\ UNCHANGED objects
  BY DEF IInv, ListWoken
<1>1. /\ pc[t] = "List" /\ held[t].n = 0 /\ held[t].mode = "no" /\ loc[t].call = "List"
      /\ Counts[t] = 0 /\ NoLocals \in Locals /\ NoLocals.call = "none" /\ "Idle" \in PCs
  BY OwnerFacts, LocalTypes DEF ListWoken, CallOK, PCs
<1>2. \/ i = None
      \/ i # None /\ i \in DOMAIN Entries /\ Entries[i].thread = NoOwner /\ i # 0
  <2>1. \A j \in DOMAIN Entries : Entries[j].thread # t
    BY <1>1, OwnerFacts
  <2> QED BY <1>0, <2>1, ThreadFound
<1>3. \/ i = None /\ AllocateFor(t, "Expand", "List")
      \/ /\ i # None /\ PutEntry(i, e) /\ Hold(t, "S") /\ Return(t)
         /\ UNCHANGED <<counts, waiters>>
  BY DEF ListWoken
<1> HIDE DEF i
<1>4. CASE i = None
  BY <1>0, <1>1, <1>3, <1>4, AllocateForStep
<1>5. CASE i # None
  <2>0. /\ PutEntry(i, e) /\ Hold(t, "S") /\ Return(t) /\ UNCHANGED <<counts, waiters>>
        /\ i \in DOMAIN Entries /\ Entries[i].thread = NoOwner /\ i # 0
    BY <1>2, <1>3, <1>5
  <2>1. h \in Holdings /\ held' = [held EXCEPT ![t] = h]
    <3>1. h = [mode |-> "S", n |-> held[t].n + 1]
      BY <1>1
    <3> HIDE DEF h
    <3> QED BY <1>0, <2>0, <3>1, HoldMore
  <2>2. Moves(t, "Idle", NoLocals, h)
    <3> HIDE DEF h
    <3> QED BY <1>0, <1>1, <2>0, <2>1, GotoMoves DEF Return
  <2>3. e \in OwnerEntries(Owners \cup {NoOwner})
    BY DEF OwnerEntries
  <2>4. /\ ownerTable' \in Seq(OwnerEntries(Owners \cup {NoOwner}))
        /\ DOMAIN Entries' = DOMAIN Entries /\ Entries'[i] = e
        /\ \A j \in DOMAIN Entries \ {i} : Entries'[j] = Entries[j]
        /\ ownerEntry' = ownerEntry
    <3> HIDE DEF e
    <3> QED BY <1>0, <2>0, <2>3, PutFacts
  <2>5. TypeOK'
    BY <1>0, <2>0, <2>2, <2>4 DEF TypeOK, Moves, objects, counts, waiters
  <2>6. Named(Entries', Counts')
    <3>1. /\ Counts \in [Owners -> Nat] /\ Counts' \in [Owners -> Nat] /\ Counts'[t] = 1
          /\ \A o \in Owners \ {t} : Counts'[o] = Counts[o]
      BY <1>0, <1>1, <2>1, <2>2, CountsMoved
    <3>2. Entries'[i] = [thread |-> t, count |-> Counts'[t]] /\ Counts'[t] > 0
      BY <2>4, <3>1
    <3>3. /\ i \in DOMAIN Entries /\ DOMAIN Entries' = DOMAIN Entries
          /\ \A j \in DOMAIN Entries \ {i} : Entries'[j] = Entries[j]
          /\ Entries[i].thread = t \/ (Entries[i].thread \notin Owners /\ Counts[t] = 0)
      BY <1>1, <2>0, <2>4, Constants
    <3> HIDE DEF e, h
    <3> QED BY <1>0, <3>1, <3>2, <3>3, NamedPut
  <2>7. CallOK("Idle", NoLocals, h, semaphore.there, event.there) /\ h.mode = "S"
    BY <1>1 DEF CallOK
  <2> HIDE DEF h, e
  <2>8. Calls' /\ Released' = Released /\ IsSet' = IsSet
    BY <1>0, <2>2, <2>7, CallsStay
  <2>9. First'
    BY <1>0, <2>2, <2>4, <2>7, FirstMoved
  <2>10. Counting'
    <3>1. Shifted(t, "Idle", NoLocals, h) /\ GrantsShifted(t, "Idle", NoLocals) /\ Numbers /\ Numbers'
      BY <1>0, <1>1, <2>1, <2>2, <2>5, Shift
    <3>2. /\ Sharing' = Sharing + 1 /\ Owning' = Owning /\ Taking' = Taking
          /\ Listing' = Listing - 1
          /\ SharedQueue' = SharedQueue /\ ExclusiveQueue' = ExclusiveQueue
      BY <1>1, <2>7, <3>1 DEF Shifted, Changes
    <3>3. SharedGrants' = SharedGrants /\ ExclusiveGrants' = ExclusiveGrants
      BY <1>1, <2>8, <3>1 DEF GrantsShifted, Numbers
    <3>4. UNCHANGED <<exclusive, activeEntries, activeCount, sharedWaiters, exclusiveWaiters>>
      BY <2>0 DEF counts, waiters
    <3>5. ~exclusive
      BY <1>0, <3>1, <3>2 DEF Counting, Numbers
    <3> QED BY <1>0, <2>4, <3>1, <3>2, <3>3, <3>4, <3>5 DEF Counting, Numbers
  <2> QED BY <2>5, <2>6, <2>8, <2>9, <2>10 DEF IInv
<1> QED BY <1>4, <1>5

(* A waiter for exclusive access is woken.                                  *)
LEMMA WakeExclusiveStep ==
    ASSUME IInv, NEW t \in Owners, WakeExclusive(t)
    PROVE  IInv'
<1>0. TypeOK /\ Calls /\ First /\ Counting /\ Named(Entries, Counts)
  BY DEF IInv
<1>1. /\ pc[t] = "WaitExclusive" /\ held[t].n = 0 /\ held[t].mode = "no" /\ loc[t].call # "List"
      /\ NoLocals \in Locals /\ NoLocals.call = "none" /\ "SetOwner" \in PCs /\ held[t] \in Holdings
  BY OwnerFacts, LocalTypes DEF WakeExclusive, CallOK, PCs
<1>2. Moves(t, "SetOwner", NoLocals, held[t])
  BY <1>0, <1>1, GotoMoves DEF WakeExclusive
<1>3. /\ semaphore' = semaphore /\ Released' = Released
      /\ event' \in [there : BOOLEAN, set : BOOLEAN] /\ event'.there = event.there
      /\ IsSet = 1 /\ IsSet' = 0
  <2>1. event \in [there : BOOLEAN, set : BOOLEAN] /\ event.set
        /\ event' = [event EXCEPT !.set = FALSE] /\ semaphore' = semaphore
    BY <1>0 DEF TypeOK, WakeExclusive
  <2>2. event' \in [there : BOOLEAN, set : BOOLEAN] /\ event'.there = event.there /\ event'.set = FALSE
    BY <2>1
  <2> QED BY <2>1, <2>2 DEF Released, IsSet, Number
<1>4. UNCHANGED <<counts, waiters, entries>> /\ ownerEntry' = ownerEntry
  BY DEF WakeExclusive, entries
<1>5. TypeOK'
  BY <1>0, <1>2, <1>3, <1>4 DEF TypeOK, Moves, counts, waiters, entries
<1>6. Named(Entries', Counts')
  <2>1. /\ Counts \in [Owners -> Nat] /\ Counts' \in [Owners -> Nat]
        /\ Counts'[t] = Counts[t] /\ \A o \in Owners \ {t} : Counts'[o] = Counts[o]
    BY <1>0, <1>1, <1>2, CountsMoved
  <2>2. Counts' = Counts
    BY <2>1
  <2> QED BY <1>0, <1>4, <2>2, EntriesStay
<1>7. Calls'
  <2>1. CallOK("SetOwner", NoLocals, held[t], semaphore'.there, event'.there)
    BY <1>1 DEF CallOK
  <2> QED BY <1>0, <1>2, <1>3, <2>1, CallsMoved DEF Calls
<1>8. First'
  BY <1>0, <1>2, <1>4, FirstMoved
<1>9. Counting'
  <2>1. /\ Shifted(t, "SetOwner", NoLocals, held[t]) /\ GrantsShifted(t, "SetOwner", NoLocals)
        /\ Numbers /\ Numbers'
    BY <1>0, <1>1, <1>2, <1>5, Shift
  <2>2. /\ Sharing' = Sharing /\ Owning' = Owning + 1 /\ Taking' = Taking + 1
        /\ Listing' = Listing
        /\ SharedQueue' = SharedQueue /\ ExclusiveQueue' = ExclusiveQueue - 1
    BY <1>1, <2>1 DEF Shifted, Changes
  <2>3. SharedGrants' = SharedGrants /\ ExclusiveGrants' = ExclusiveGrants - 1
    BY <1>1, <1>3, <2>1 DEF GrantsShifted, Numbers
  <2>4. UNCHANGED <<exclusive, activeEntries, activeCount, sharedWaiters, exclusiveWaiters>>
    BY <1>4 DEF counts, waiters
  <2>5. exclusive
    BY <1>0, <2>1, <2>3 DEF Counting, Numbers
  <2> QED BY <1>0, <1>4, <2>1, <2>2, <2>3, <2>4, <2>5 DEF Counting, Numbers
<1> QED BY <1>5, <1>6, <1>7, <1>8, <1>9 DEF IInv

(* It puts its name in place.                                               *)
LEMMA SetOwnerStep ==
    ASSUME IInv, NEW t \in Owners, SetOwner(t)
    PROVE  IInv'
<1> DEFINE h == [mode |-> "X", n |-> 1]
           e == [thread |-> t, count |-> 1]
<1>0. TypeOK /\ Calls /\ First /\ Counting /\ Named(Entries, Counts) /\ UNCHANGED objects /\ Numbers
  BY CountFacts DEF IInv, SetOwner
<1>1. /\ pc[t] = "SetOwner" /\ held[t].n = 0 /\ held[t].mode = "no" /\ loc[t].call # "List"
      /\ Counts[t] = 0 /\ NoLocals \in Locals /\ NoLocals.call = "none" /\ "Idle" \in PCs
  BY OwnerFacts, LocalTypes DEF SetOwner, CallOK, PCs
<1>2. Owning > 0 /\ Taking > 0
  BY <1>0, <1>1, Situations
<1>3. /\ exclusive /\ Owning = 1 /\ ExclusiveGrants = 0 /\ Taking = 1
      /\ ownerEntry.thread = HandedOver /\ ownerEntry.count = 1
  <2>1. exclusive /\ Owning = 1 /\ ExclusiveGrants = 0 /\ Taking = 1
    BY <1>0, <1>2 DEF Counting, Numbers
  <2>2. ownerEntry.thread = HandedOver
    BY <1>0, <1>2, <2>1 DEF Counting
  <2> QED BY <1>0, <2>1, <2>2 DEF First
<1>4. \A o \in Owners : held[o].mode = "no"
  <2>1. \A o \in Owners : held[o].mode # "X"
    BY <1>3, OwnerFacts, Constants
  <2> QED BY <1>3, <2>1, OwnerFacts
<1>5. h \in Holdings /\ held' = [held EXCEPT ![t] = h]
  <2>1. h = [mode |-> "X", n |-> held[t].n + 1] /\ Hold(t, "X")
    BY <1>1 DEF SetOwner
  <2> HIDE DEF h
  <2> QED BY <1>0, <2>1, HoldMore
<1>6. Moves(t, "Idle", NoLocals, h)
  <2> HIDE DEF h
  <2> QED BY <1>0, <1>1, <1>5, GotoMoves DEF SetOwner, Return
<1>7. PutEntry(0, e) /\ e \in OwnerEntries(Owners \cup {NoOwner})
  <2>1. ownerEntry \in OwnerEntries(Owners \cup {NoOwner, HandedOver})
    BY <1>0 DEF TypeOK
  <2>2. [ownerEntry EXCEPT !.thread = t] = e
    BY <1>3, <2>1 DEF OwnerEntries
  <2>3. PutEntry(0, [ownerEntry EXCEPT !.thread = t])
    BY DEF SetOwner
  <2>4. e \in OwnerEntries(Owners \cup {NoOwner})
    BY DEF OwnerEntries
  <2> QED BY <2>2, <2>3, <2>4
<1>8. /\ ownerTable' \in Seq(OwnerEntries(Owners \cup {NoOwner}))
      /\ ownerEntry' \in OwnerEntries(Owners \cup {NoOwner, HandedOver})
      /\ 0 \in DOMAIN Entries /\ Entries[0] = ownerEntry
      /\ DOMAIN Entries' = DOMAIN Entries /\ Entries'[0] = e
      /\ \A j \in DOMAIN Entries \ {0} : Entries'[j] = Entries[j]
      /\ ownerEntry' = e
  <2>1. 0 \in DOMAIN Entries /\ Entries[0] = ownerEntry
    BY <1>0, EntryFacts
  <2> HIDE DEF e
  <2> QED BY <1>0, <1>7, <2>1, PutFacts
<1>9. UNCHANGED <<counts, waiters>>
  BY DEF SetOwner
<1>10. TypeOK'
  BY <1>0, <1>6, <1>8, <1>9 DEF TypeOK, Moves, objects, counts, waiters
<1>11. Named(Entries', Counts')
  <2>1. /\ Counts \in [Owners -> Nat] /\ Counts' \in [Owners -> Nat] /\ Counts'[t] = 1
        /\ \A o \in Owners \ {t} : Counts'[o] = Counts[o]
    BY <1>0, <1>1, <1>5, <1>6, CountsMoved
  <2>2. Entries'[0] = [thread |-> t, count |-> Counts'[t]] /\ Counts'[t] > 0
    BY <1>8, <2>1
  <2>3. /\ 0 \in DOMAIN Entries /\ DOMAIN Entries' = DOMAIN Entries
        /\ \A j \in DOMAIN Entries \ {0} : Entries'[j] = Entries[j]
        /\ Entries[0].thread \notin Owners /\ Counts[t] = 0
    BY <1>1, <1>3, <1>8, Constants
  <2> HIDE DEF e, h
  <2> QED BY <1>0, <2>1, <2>2, <2>3, NamedPut
<1>12. CallOK("Idle", NoLocals, h, semaphore.there, event.there) /\ h.mode = "X" /\ e.thread = t
  BY <1>1 DEF CallOK
<1> HIDE DEF h, e
<1>13. Calls' /\ Released' = Released /\ IsSet' = IsSet
  BY <1>0, <1>6, <1>12, CallsStay
<1>14. First'
  <2>1. pc'[t] = "Idle" /\ ownerEntry'.thread = t /\ t # HandedOver
    BY <1>6, <1>8, <1>12, Constants DEF Moves
  <2>2. \A o \in Owners : held'[o].mode = "X" => o = t
    BY <1>4, <1>6 DEF Moves
  <2> QED BY <2>1, <2>2 DEF First
<1>15. Counting'
  <2>1. /\ Shifted(t, "Idle", NoLocals, h) /\ GrantsShifted(t, "Idle", NoLocals) /\ Numbers'
    BY <1>0, <1>1, <1>5, <1>6, <1>10, Shift
  <2>2. /\ Sharing' = Sharing /\ Owning' = Owning /\ Taking' = Taking - 1
        /\ Listing' = Listing
        /\ SharedQueue' = SharedQueue /\ ExclusiveQueue' = ExclusiveQueue
    BY <1>1, <1>12, <2>1 DEF Shifted, Changes
  <2>3. SharedGrants' = SharedGrants /\ ExclusiveGrants' = 0
    BY <1>0, <1>1, <1>3, <1>13, <2>1 DEF GrantsShifted, Numbers
  <2>4. UNCHANGED <<exclusive, activeEntries, activeCount, sharedWaiters, exclusiveWaiters>>
    BY <1>9 DEF counts, waiters
  <2>5. ownerEntry'.thread # HandedOver /\ Taking' = 0
    BY <1>3, <1>8, <1>12, <2>2, Constants
  <2> QED BY <1>0, <1>3, <2>2, <2>3, <2>4, <2>5 DEF Counting, Numbers
<1> QED BY <1>10, <1>11, <1>13, <1>14, <1>15 DEF IInv

-----------------------------------------------------------------------------
(* Releasing: what the invariant says of an exclusive owner ...             *)
LEMMA ExclusiveOwner ==
    ASSUME IInv, NEW o \in Owners, exclusive, held[o].n > 0
    PROVE  /\ held[o].mode = "X" /\ ownerEntry.thread = o /\ ownerEntry.count = held[o].n
           /\ activeEntries = 1 /\ Sharing = 0 /\ SharedGrants = 0 /\ Listing = 0
           /\ Owning = 1 /\ ExclusiveGrants = 0 /\ Taking = 0 /\ activeCount = 1
           /\ \A p \in Owners \ {o} : held[p].mode = "no" /\ held[p].n = 0
<1>0. TypeOK /\ Counting /\ Numbers
  BY CountFacts DEF IInv
<1>1. held[o].mode = "X" /\ ownerEntry.thread = o /\ ownerEntry.count = held[o].n
  BY OwnerFacts DEF CallOK
<1>2. \A p \in Owners \ {o} : held[p].mode = "no" /\ held[p].n = 0
  BY <1>1, OwnerFacts DEF CallOK
<1>3. Owning > 0
  BY <1>0, <1>1, Situations
<1>4. /\ activeEntries = 1 /\ Sharing = 0 /\ SharedGrants = 0 /\ Listing = 0
      /\ Owning = 1 /\ ExclusiveGrants = 0
  BY <1>0, <1>3 DEF Counting, Numbers
<1>5. Taking = 0
  BY <1>0, <1>1, <1>4, Constants DEF Counting, Numbers
<1>6. activeCount = 1
  BY <1>0, <1>4 DEF Counting, Number
<1> QED BY <1>1, <1>2, <1>4, <1>5, <1>6

(* ... and of a sharer.                                                     *)
LEMMA SharedOwner ==
    ASSUME IInv, NEW o \in Owners, ~exclusive, held[o].n > 0
    PROVE  /\ held[o].mode = "S" /\ Sharing > 0
           /\ Owning = 0 /\ ExclusiveGrants = 0 /\ Taking = 0
           /\ activeEntries = Sharing + SharedGrants + Listing
           /\ activeEntries > 0 /\ activeCount = 1
           /\ ownerEntry.thread # HandedOver
           /\ \A p \in Owners : held[p].mode # "X"
<1>0. TypeOK /\ Counting /\ Numbers
  BY CountFacts DEF IInv
<1>1. \A p \in Owners : held[p].mode # "X"
  BY OwnerFacts
<1>2. held[o].mode = "S"
  BY <1>1, OwnerFacts DEF CallOK
<1>3. Sharing > 0
  BY <1>0, <1>2, Situations
<1>4. /\ Owning = 0 /\ ExclusiveGrants = 0 /\ Taking = 0
      /\ activeEntries = Sharing + SharedGrants + Listing
  BY <1>0 DEF Counting, Numbers
<1>5. activeEntries > 0
  BY <1>0, <1>3, <1>4 DEF Numbers
<1>6. activeCount = 1
  BY <1>0, <1>5 DEF Counting, Number
<1>7. ownerEntry.thread # HandedOver
  BY <1>0, <1>4 DEF Counting
<1> QED BY <1>1, <1>2, <1>3, <1>4, <1>5, <1>6, <1>7

(* One release of several.                                                  *)
LEMMA ReleaseOnceStep ==
    ASSUME IInv, NEW o \in Owners, pc[o] = "Idle", held[o].n > 0, NEW i \in DOMAIN Entries,
           Entries[i].thread = o, Entries[i].count > 1, ReleaseOnce(o, i), Less(o),
           UNCHANGED objects
    PROVE  IInv'
<1> DEFINE e == [thread |-> o, count |-> held[o].n - 1]
<1>0. TypeOK /\ Calls /\ First /\ Counting /\ Named(Entries, Counts)
  BY DEF IInv
<1>1. /\ held[o].n \in Nat /\ held[o].n > 1 /\ held[o].mode # "no" /\ loc[o].call # "List"
      /\ Entries[i].count = held[o].n /\ NoLocals \in Locals /\ NoLocals.call = "none"
      /\ "Idle" \in PCs
  BY OwnerFacts, LocalTypes DEF CallOK, PCs
<1>2. PICK h \in Holdings : /\ held' = [held EXCEPT ![o] = h]
                            /\ h.n = held[o].n - 1 /\ h.mode = held[o].mode
  BY <1>0, <1>1, HoldLess
<1>3. Moves(o, "Idle", NoLocals, h)
  BY <1>0, <1>1, <1>2, GotoMoves DEF ReleaseOnce, Return
<1>4. PutEntry(i, e) /\ e \in OwnerEntries(Owners \cup {NoOwner})
  <2>1. Entry(i) = Entries[i] /\ Entries[i] \in OwnerEntries(Owners \cup {NoOwner, HandedOver})
    BY <1>0, EntryFacts
  <2>2. Entry(i) = [thread |-> o, count |-> held[o].n]
    BY <1>1, <2>1 DEF OwnerEntries
  <2>3. [Entry(i) EXCEPT !.count = @ - 1] = e
    BY <2>2
  <2>4. PutEntry(i, [Entry(i) EXCEPT !.count = @ - 1])
    BY DEF ReleaseOnce
  <2>5. e \in OwnerEntries(Owners \cup {NoOwner})
    BY <1>1 DEF OwnerEntries
  <2> QED BY <2>3, <2>4, <2>5
<1>5. /\ ownerTable' \in Seq(OwnerEntries(Owners \cup {NoOwner}))
      /\ ownerEntry' \in OwnerEntries(Owners \cup {NoOwner, HandedOver})
      /\ DOMAIN Entries' = DOMAIN Entries /\ Entries'[i] = e
      /\ \A j \in DOMAIN Entries \ {i} : Entries'[j] = Entries[j]
      /\ ownerEntry' = IF i = 0 THEN e ELSE ownerEntry
  <2> HIDE DEF e
  <2> QED BY <1>0, <1>4, PutFacts
<1>6. UNCHANGED <<counts, waiters>>
  BY DEF ReleaseOnce
<1>7. TypeOK'
  BY <1>0, <1>3, <1>5, <1>6 DEF TypeOK, Moves, objects, waiters, counts
<1>8. Named(Entries', Counts')
  <2>1. /\ Counts \in [Owners -> Nat] /\ Counts' \in [Owners -> Nat] /\ Counts'[o] = held[o].n - 1
        /\ \A p \in Owners \ {o} : Counts'[p] = Counts[p]
    BY <1>0, <1>1, <1>2, <1>3, CountsMoved
  <2>2. Entries'[i] = [thread |-> o, count |-> Counts'[o]] /\ Counts'[o] > 0
    BY <1>1, <1>5, <2>1
  <2>3. /\ DOMAIN Entries' = DOMAIN Entries
        /\ \A j \in DOMAIN Entries \ {i} : Entries'[j] = Entries[j]
        /\ Entries[i].thread = o \/ (Entries[i].thread \notin Owners /\ Counts[o] = 0)
    BY <1>5
  <2> HIDE DEF e
  <2> QED BY <1>0, <2>1, <2>2, <2>3, NamedPut
<1>9. CallOK("Idle", NoLocals, h, semaphore.there, event.there)
  BY <1>1, <1>2 DEF CallOK
<1>10. Calls' /\ Released' = Released /\ IsSet' = IsSet
  BY <1>0, <1>3, <1>9, CallsStay
<1>11. \/ ownerEntry'.thread = ownerEntry.thread /\ ownerEntry'.thread = o
       \/ ownerEntry' = ownerEntry
  BY <1>0, <1>5, EntryFacts
<1>12. First'
  <2>1. pc'[o] = "Idle" /\ o # HandedOver
    BY <1>3, Constants DEF Moves
  <2>2. \A p \in Owners : held'[p].mode = "X" => held[p].mode = "X"
    BY <1>2, <1>3 DEF Moves
  <2>3. \A p \in Owners : pc'[p] = "WaitShared" => pc[p] = "WaitShared"
    BY <1>3 DEF Moves
  <2> QED BY <1>0, <1>11, <2>1, <2>2, <2>3 DEF First
<1>13. Counting'
  <2>1. Quiet(pc[o]) /\ Quiet("Idle")
    BY DEF Quiet
  <2>2. ownerEntry'.thread = HandedOver <=> ownerEntry.thread = HandedOver
    BY <1>11
  <2> HIDE DEF e
  <2> QED BY <1>0, <1>1, <1>2, <1>3, <1>6, <1>7, <1>10, <2>1, <2>2, QuietCounts
<1> QED BY <1>7, <1>8, <1>10, <1>12, <1>13 DEF IInv

(* The entries after the last release of an owner.                          *)
Freed(o) ==
    /\ DOMAIN Entries' = DOMAIN Entries
    /\ \A j \in DOMAIN Entries :
          \/ Entries'[j] = Entries[j] /\ Entries[j].thread # o
          \/ /\ Entries[j].thread = o \/ Entries[j].thread \notin Owners
             /\ Entries'[j].thread \notin Owners
             /\ Entries'[j].thread = NoOwner => Entries'[j].count = 0
    /\ ownerTable' \in Seq(OwnerEntries(Owners \cup {NoOwner}))
    /\ ownerEntry' \in OwnerEntries(Owners \cup {NoOwner, HandedOver})

(* An entry of the owner is freed, or handed over.                          *)
LEMMA FreedEntry ==
    ASSUME TypeOK, Named(Entries, Counts), NEW o \in Owners, NEW i \in DOMAIN Entries,
           Entries[i].thread = o, NEW e, PutEntry(i, e),
           e = FreeEntry \/ (i = 0 /\ e = HandedEntry)
    PROVE  /\ Freed(o) /\ ownerEntry' = IF i = 0 THEN e ELSE ownerEntry
           /\ i # 0 => ownerEntry.thread # o
<1>1. /\ FreeEntry \in OwnerEntries(Owners \cup {NoOwner}) /\ FreeEntry.thread = NoOwner
      /\ FreeEntry.count = 0
      /\ HandedEntry \in OwnerEntries(Owners \cup {NoOwner, HandedOver})
      /\ HandedEntry.thread = HandedOver
  BY DEF FreeEntry, HandedEntry, OwnerEntries
<1>2. e.thread \notin Owners /\ (e.thread = NoOwner => e.count = 0)
  BY <1>1, Constants
<1>3. /\ ownerTable' \in Seq(OwnerEntries(Owners \cup {NoOwner}))
      /\ ownerEntry' \in OwnerEntries(Owners \cup {NoOwner, HandedOver})
      /\ DOMAIN Entries' = DOMAIN Entries /\ Entries'[i] = e
      /\ \A j \in DOMAIN Entries \ {i} : Entries'[j] = Entries[j]
      /\ ownerEntry' = IF i = 0 THEN e ELSE ownerEntry
  BY <1>1, PutFacts
<1>4. \A j \in DOMAIN Entries \ {i} : Entries[j].thread # o
  BY DEF Named
<1>5. i # 0 => ownerEntry.thread # o
  BY <1>4, EntryFacts
<1> QED BY <1>2, <1>3, <1>4, <1>5 DEF Freed

(* The last entry of a sharer is freed and the first one handed over.       *)
LEMMA FreedHanded ==
    ASSUME TypeOK, Named(Entries, Counts), NEW o \in Owners, NEW i \in DOMAIN Entries,
           Entries[i].thread = o, i # 0, ownerEntry.thread \notin Owners,
           ownerEntry' = HandedEntry, ownerTable' = [ownerTable EXCEPT ![i] = FreeEntry]
    PROVE  Freed(o)
<1>1. /\ FreeEntry \in OwnerEntries(Owners \cup {NoOwner}) /\ FreeEntry.thread = NoOwner
      /\ FreeEntry.count = 0
      /\ HandedEntry \in OwnerEntries(Owners \cup {NoOwner, HandedOver})
      /\ HandedEntry.thread = HandedOver
  BY DEF FreeEntry, HandedEntry, OwnerEntries
<1>2. /\ i \in 1 .. Len(ownerTable) /\ Len(ownerTable) \in Nat
      /\ DOMAIN Entries = 0 .. Len(ownerTable) /\ Entries[0] = ownerEntry
      /\ \A j \in 1 .. Len(ownerTable) : Entries[j] = ownerTable[j]
  BY EntryFacts
<1>3. ownerTable \in Seq(OwnerEntries(Owners \cup {NoOwner}))
  BY DEF TypeOK
<1>4. /\ ownerTable' \in Seq(OwnerEntries(Owners \cup {NoOwner})) /\ Len(ownerTable') = Len(ownerTable)
      /\ \A j \in 1 .. Len(ownerTable) : ownerTable'[j] = IF j = i THEN FreeEntry ELSE ownerTable[j]
  BY <1>1, <1>2, <1>3
<1>5. /\ DOMAIN Entries' = 0 .. Len(ownerTable)
      /\ \A j \in 0 .. Len(ownerTable) : Entries'[j] = IF j = 0 THEN ownerEntry' ELSE ownerTable'[j]
  BY <1>4 DEF Entries, Indices, Entry
<1>6. \A j \in DOMAIN Entries \ {i} : Entries[j].thread # o
  BY DEF Named
<1>7. ASSUME NEW j \in DOMAIN Entries
      PROVE  \/ Entries'[j] = Entries[j] /\ Entries[j].thread # o
             \/ /\ Entries[j].thread = o \/ Entries[j].thread \notin Owners
                /\ Entries'[j].thread \notin Owners
                /\ Entries'[j].thread = NoOwner => Entries'[j].count = 0
  <2>1. CASE j = 0
    <3>1. Entries'[j] = HandedEntry /\ Entries[j].thread \notin Owners
      BY <1>2, <1>5, <2>1
    <3> QED BY <1>1, <3>1, Constants
  <2>2. CASE j = i
    <3>1. Entries'[j] = FreeEntry
      BY <1>2, <1>4, <1>5, <2>2
    <3> QED BY <1>1, <2>2, <3>1, Constants
  <2>3. CASE j # 0 /\ j # i
    <3>1. j \in 1 .. Len(ownerTable)
      BY <1>2, <2>3
    <3>2. Entries'[j] = Entries[j]
      BY <1>2, <1>4, <1>5, <2>3, <3>1
    <3> QED BY <1>6, <2>3, <3>2
  <2> QED BY <2>1, <2>2, <2>3
<1> QED BY <1>1, <1>2, <1>4, <1>5, <1>7 DEF Freed

(* What all last releases have in common.                                   *)
LEMMA LastRelease ==
    ASSUME IInv, NEW o \in Owners, pc[o] = "Idle", held[o].n = 1,
           NEW l \in {"Idle", "ReleaseSemaphore", "SetEvent"}, NEW r \in Locals, r.call = "none",
           Goto(o, l, r), Less(o), UNCHANGED objects, Freed(o)
    PROVE  /\ Moves(o, l, r, held'[o]) /\ l \in PCs /\ held'[o] \in Holdings
           /\ held'[o].mode = "no" /\ loc[o].call # "List"
           /\ Named(Entries', Counts')
           /\ Calls' /\ Released' = Released /\ IsSet' = IsSet
<1>0. TypeOK /\ Calls /\ Named(Entries, Counts)
  BY DEF IInv
<1>1. held[o].mode # "no" /\ loc[o].call # "List" /\ l \in PCs
  BY OwnerFacts DEF CallOK, PCs
<1>2. PICK h \in Holdings : held' = [held EXCEPT ![o] = h] /\ h.n = 0 /\ h.mode = "no"
  BY <1>0, <1>1, HoldLess
<1>3. Moves(o, l, r, h)
  BY <1>0, <1>1, <1>2, GotoMoves
<1>4. held'[o] = h
  BY <1>3 DEF Moves
<1>5. CallOK(l, r, h, semaphore.there, event.there)
  BY <1>2 DEF CallOK
<1>6. Calls' /\ Released' = Released /\ IsSet' = IsSet
  BY <1>0, <1>3, <1>5, CallsStay
<1>7. /\ Counts \in [Owners -> Nat] /\ Counts' \in [Owners -> Nat] /\ Counts'[o] = 0
      /\ \A p \in Owners \ {o} : Counts'[p] = Counts[p]
  BY <1>0, <1>1, <1>2, <1>3, CountsMoved
<1>8. Named(Entries', Counts')
  BY <1>0, <1>7, NamedFree DEF Freed
<1> QED BY <1>1, <1>2, <1>3, <1>4, <1>6, <1>8

(* First is kept by a last release.                                         *)
LEMMA LastReleaseFirst ==
    ASSUME First, NEW o \in Owners, NEW l \in {"Idle", "ReleaseSemaphore", "SetEvent"}, NEW r,
           Moves(o, l, r, held'[o]), held'[o].mode = "no",
           \A p \in Owners \ {o} : held[p].mode # "X",
           ownerEntry' \in {FreeEntry, HandedEntry, ownerEntry}
    PROVE  First'
<1>1. \A p \in Owners : held'[p].mode # "X"
  BY DEF Moves
<1>2. \A p \in Owners : pc'[p] = "WaitShared" => pc[p] = "WaitShared"
  BY DEF Moves
<1>3. /\ FreeEntry.thread = NoOwner /\ HandedEntry.thread = HandedOver /\ HandedEntry.count = 1
      /\ NoOwner \notin Owners /\ HandedOver \notin Owners /\ NoOwner # HandedOver
  BY Constants DEF FreeEntry, HandedEntry
<1>4. CASE ownerEntry' = ownerEntry
  BY <1>1, <1>2, <1>4 DEF First
<1>5. CASE ownerEntry' = FreeEntry
  BY <1>1, <1>3, <1>5 DEF First
<1>6. CASE ownerEntry' = HandedEntry
  BY <1>1, <1>3, <1>6 DEF First
<1> QED BY <1>4, <1>5, <1>6

(* How the counts of owners change with a last release.                     *)
LastCounts(o, l, r) ==
    /\ Taking' = Taking /\ Listing' = Listing
    /\ SharedQueue' = SharedQueue /\ ExclusiveQueue' = ExclusiveQueue
    /\ held[o].mode = "X" => Owning' = Owning - 1 /\ Sharing' = Sharing
    /\ held[o].mode = "S" => Owning' = Owning /\ Sharing' = Sharing - 1
    /\ l = "Idle" => SharedGrants' = SharedGrants /\ ExclusiveGrants' = ExclusiveGrants
    /\ l = "ReleaseSemaphore" =>
          SharedGrants' = SharedGrants + r.n /\ ExclusiveGrants' = ExclusiveGrants
    /\ l = "SetEvent" =>
          SharedGrants' = SharedGrants /\ ExclusiveGrants' = ExclusiveGrants + 1

(* A last release keeps the invariant if it keeps Counting.                 *)
LEMMA LastReleaseStep ==
    ASSUME IInv, NEW o \in Owners, pc[o] = "Idle", held[o].n = 1,
           NEW l \in {"Idle", "ReleaseSemaphore", "SetEvent"}, NEW r \in Locals, r.call = "none",
           Goto(o, l, r), Less(o), UNCHANGED objects, Freed(o),
           \A p \in Owners \ {o} : held[p].mode # "X",
           ownerEntry' \in {FreeEntry, HandedEntry, ownerEntry},
           exclusive' \in BOOLEAN, activeEntries' \in Nat, activeCount' \in {0, 1},
           sharedWaiters' \in Nat, exclusiveWaiters' \in Nat
    PROVE  /\ Counting' => IInv'
           /\ LastCounts(o, l, r) /\ Numbers /\ Numbers'
<1>0. TypeOK /\ First
  BY DEF IInv
<1>1. /\ Moves(o, l, r, held'[o]) /\ l \in PCs /\ held'[o] \in Holdings
      /\ held'[o].mode = "no" /\ loc[o].call # "List"
      /\ Named(Entries', Counts') /\ Calls' /\ Released' = Released /\ IsSet' = IsSet
  BY LastRelease
<1>2. TypeOK'
  BY <1>0, <1>1 DEF TypeOK, Moves, Freed, objects
<1>3. First'
  BY <1>0, <1>1, LastReleaseFirst
<1> DEFINE h == held'[o]
<1>4. h \in Holdings /\ h.mode = "no" /\ Moves(o, l, r, h)
  BY <1>1
<1> HIDE DEF h
<1>5. Shifted(o, l, r, h) /\ GrantsShifted(o, l, r) /\ Numbers /\ Numbers'
  BY <1>0, <1>1, <1>2, <1>4, Shift
<1>6. /\ Taking' = Taking /\ Listing' = Listing
      /\ SharedQueue' = SharedQueue /\ ExclusiveQueue' = ExclusiveQueue
      /\ held[o].mode = "X" => Owning' = Owning - 1 /\ Sharing' = Sharing
      /\ held[o].mode = "S" => Owning' = Owning /\ Sharing' = Sharing - 1
  BY <1>1, <1>4, <1>5 DEF Shifted, Changes
<1>7. SharedGrants \in Nat /\ ExclusiveGrants \in Nat /\ r.n \in Nat
  BY <1>5, LocalTypes DEF Numbers
<1>8. /\ l = "Idle" => SharedGrants' = SharedGrants /\ ExclusiveGrants' = ExclusiveGrants
      /\ l = "ReleaseSemaphore" =>
            SharedGrants' = SharedGrants + r.n /\ ExclusiveGrants' = ExclusiveGrants
      /\ l = "SetEvent" =>
            SharedGrants' = SharedGrants /\ ExclusiveGrants' = ExclusiveGrants + 1
  BY <1>1, <1>5, <1>7 DEF GrantsShifted
<1> QED BY <1>1, <1>2, <1>3, <1>5, <1>6, <1>8 DEF IInv, LastCounts

(* An exclusive owner releases.                                             *)
LEMMA ReleaseExclusiveStep ==
    ASSUME IInv, NEW o \in Owners, ReleaseExclusive(o)
    PROVE  IInv'
<1>0. /\ TypeOK /\ Named(Entries, Counts) /\ Counting /\ Numbers
      /\ pc[o] = "Idle" /\ held[o].n > 0 /\ exclusive /\ Less(o) /\ UNCHANGED objects
  BY CountFacts DEF IInv, ReleaseExclusive
<1>1. /\ held[o].mode = "X" /\ ownerEntry.thread = o /\ ownerEntry.count = held[o].n
      /\ activeEntries = 1 /\ Sharing = 0 /\ SharedGrants = 0 /\ Listing = 0
      /\ Owning = 1 /\ ExclusiveGrants = 0 /\ Taking = 0 /\ activeCount = 1
      /\ \A p \in Owners \ {o} : held[p].mode # "X"
  BY <1>0, ExclusiveOwner
<1>2. 0 \in DOMAIN Entries /\ Entries[0] = ownerEntry /\ held[o].n \in Nat
  BY <1>0, EntryFacts, OwnerFacts
<1>3. CASE ownerEntry.count > 1 /\ ReleaseOnce(o, 0)
  BY <1>0, <1>1, <1>2, <1>3, ReleaseOnceStep
<1>4. CASE ownerEntry.count <= 1 /\ sharedWaiters > 0 /\ PutEntry(0, FreeEntry) /\ GiveShared(o, 0)
  <2> DEFINE r == [NoLocals EXCEPT !.n = sharedWaiters]
  <2>1. held[o].n = 1
    BY <1>0, <1>1, <1>2, <1>4
  <2>2. Freed(o) /\ ownerEntry' = FreeEntry
    BY <1>0, <1>1, <1>2, <1>4, FreedEntry
  <2>3. /\ exclusive' = FALSE /\ activeEntries' = 0 + sharedWaiters /\ sharedWaiters' = 0
        /\ Goto(o, "ReleaseSemaphore", r) /\ activeCount' = 1
        /\ exclusiveWaiters' = exclusiveWaiters
    BY <1>1, <1>4 DEF GiveShared
  <2>4. sharedWaiters \in Nat /\ exclusiveWaiters \in Nat
    BY <1>0 DEF Numbers
  <2>5. r \in Locals /\ r.call = "none" /\ r.n = sharedWaiters
    BY <2>4, LocalTypes
  <2> HIDE DEF r
  <2>6. /\ Counting' => IInv'
        /\ LastCounts(o, "ReleaseSemaphore", r) /\ Numbers'
    <3>0. activeEntries' \in Nat
      BY <2>3, <2>4
    <3>1. /\ exclusive' \in BOOLEAN /\ activeEntries' \in Nat /\ activeCount' \in {0, 1}
          /\ sharedWaiters' \in Nat /\ exclusiveWaiters' \in Nat
      BY <2>3, <2>4, <3>0
    <3> QED BY <1>0, <1>1, <2>1, <2>2, <2>3, <2>5, <3>1, LastReleaseStep
  <2>7. ownerEntry'.thread # HandedOver
    BY <2>2, Constants DEF FreeEntry
  <2>8. /\ Taking' = 0 /\ Listing' = 0 /\ Owning' = 0 /\ Sharing' = 0
        /\ SharedQueue' = SharedQueue /\ ExclusiveQueue' = ExclusiveQueue
        /\ SharedGrants' = sharedWaiters /\ ExclusiveGrants' = 0
    BY <1>0, <1>1, <2>4, <2>5, <2>6 DEF LastCounts
  <2>9. SharedQueue = sharedWaiters /\ ExclusiveQueue = exclusiveWaiters
    BY <1>0, <1>1, <2>4 DEF Counting
  <2>10. Counting'
    BY <1>4, <2>3, <2>4, <2>7, <2>8, <2>9 DEF Counting, Number
  <2> QED BY <2>6, <2>10
<1>5. CASE /\ ownerEntry.count <= 1 /\ sharedWaiters = 0 /\ exclusiveWaiters > 0
           /\ PutEntry(0, HandedEntry) /\ GiveExclusive(o)
  <2>1. held[o].n = 1
    BY <1>0, <1>1, <1>2, <1>5
  <2>2. Freed(o) /\ ownerEntry' = HandedEntry
    BY <1>0, <1>1, <1>2, <1>5, FreedEntry
  <2>3. /\ exclusive' = TRUE /\ activeEntries' = 1 /\ sharedWaiters' = 0
        /\ Goto(o, "SetEvent", NoLocals) /\ activeCount' = 1
        /\ exclusiveWaiters' = exclusiveWaiters - 1
    BY <1>1, <1>5 DEF GiveExclusive
  <2>4. sharedWaiters \in Nat /\ exclusiveWaiters \in Nat /\ exclusiveWaiters - 1 \in Nat
    BY <1>0, <1>5 DEF Numbers
  <2>5. NoLocals \in Locals /\ NoLocals.call = "none"
    BY LocalTypes
  <2>6. /\ Counting' => IInv'
        /\ LastCounts(o, "SetEvent", NoLocals) /\ Numbers'
    BY <1>0, <1>1, <2>1, <2>2, <2>3, <2>4, <2>5, LastReleaseStep
  <2>7. ownerEntry'.thread = HandedOver
    BY <2>2 DEF HandedEntry
  <2>8. /\ Taking' = 0 /\ Listing' = 0 /\ Owning' = 0 /\ Sharing' = 0
        /\ SharedQueue' = SharedQueue /\ ExclusiveQueue' = ExclusiveQueue
        /\ SharedGrants' = 0 /\ ExclusiveGrants' = 1
    BY <1>0, <1>1, <2>6 DEF LastCounts
  <2>9. SharedQueue = 0 /\ ExclusiveQueue = exclusiveWaiters
    BY <1>0, <1>1, <1>5, <2>4 DEF Counting
  <2>10. Counting'
    BY <1>5, <2>3, <2>4, <2>7, <2>8, <2>9 DEF Counting, Number
  <2> QED BY <2>6, <2>10
<1>6. CASE /\ ownerEntry.count <= 1 /\ sharedWaiters = 0 /\ exclusiveWaiters = 0
           /\ PutEntry(0, FreeEntry) /\ BecomeFree(o)
  <2>1. held[o].n = 1
    BY <1>0, <1>1, <1>2, <1>6
  <2>2. Freed(o) /\ ownerEntry' = FreeEntry
    BY <1>0, <1>1, <1>2, <1>6, FreedEntry
  <2>3. /\ exclusive' = FALSE /\ activeEntries' = 0 /\ activeCount' = 0
        /\ sharedWaiters' = 0 /\ exclusiveWaiters' = 0 /\ Goto(o, "Idle", NoLocals)
    BY <1>6 DEF BecomeFree, Return, waiters
  <2>5. NoLocals \in Locals /\ NoLocals.call = "none"
    BY LocalTypes
  <2>6. /\ Counting' => IInv'
        /\ LastCounts(o, "Idle", NoLocals) /\ Numbers'
    BY <1>0, <1>1, <2>1, <2>2, <2>3, <2>5, LastReleaseStep
  <2>7. ownerEntry'.thread # HandedOver
    BY <2>2, Constants DEF FreeEntry
  <2>8. /\ Taking' = 0 /\ Listing' = 0 /\ Owning' = 0 /\ Sharing' = 0
        /\ SharedQueue' = SharedQueue /\ ExclusiveQueue' = ExclusiveQueue
        /\ SharedGrants' = 0 /\ ExclusiveGrants' = 0
    BY <1>0, <1>1, <2>6 DEF LastCounts
  <2>9. SharedQueue = 0 /\ ExclusiveQueue = 0
    BY <1>0, <1>1, <1>6 DEF Counting
  <2>10. Counting'
    BY <2>3, <2>7, <2>8, <2>9 DEF Counting, Number
  <2> QED BY <2>6, <2>10
<1> QED BY <1>3, <1>4, <1>5, <1>6 DEF ReleaseExclusive

(* When one owner shares, no other does.                                    *)
LEMMA OneSharer ==
    ASSUME Sharing = 1, NEW o \in Owners, held[o].mode = "S", NEW p \in Owners \ {o}
    PROVE  held[p].mode # "S"
<1>1. In("S") \subseteq Owners /\ o \in In("S")
  BY DEF In
<1>2. IsFiniteSet(In("S"))
  BY <1>1, Constants, FS_Subset
<1>3. PICK x : In("S") = {x}
  BY <1>2, FS_Singleton DEF Sharing
<1> QED BY <1>1, <1>3 DEF In

(* A sharer releases.                                                       *)
LEMMA ReleaseSharedStep ==
    ASSUME IInv, NEW o \in Owners, ReleaseShared(o)
    PROVE  IInv'
<1> DEFINE i == EntryOf(o)
<1>0. /\ TypeOK /\ Named(Entries, Counts) /\ Counting /\ Numbers
      /\ pc[o] = "Idle" /\ held[o].n > 0 /\ ~exclusive /\ Less(o) /\ UNCHANGED objects
  BY CountFacts DEF IInv, ReleaseShared
<1>1. /\ held[o].mode = "S" /\ Sharing > 0 /\ Owning = 0 /\ ExclusiveGrants = 0 /\ Taking = 0
      /\ activeEntries = Sharing + SharedGrants + Listing
      /\ activeEntries > 0 /\ activeCount = 1 /\ ownerEntry.thread # HandedOver
      /\ \A p \in Owners \ {o} : held[p].mode # "X"
  BY <1>0, SharedOwner
<1>2. i \in DOMAIN Entries /\ Entries[i].thread = o
  BY <1>0, OwnerFound DEF ReleaseShared
<1>3. held[o].n \in Nat /\ Entries[i].count = held[o].n /\ Entry(i) = Entries[i]
  <2> HIDE DEF i
  <2> QED BY <1>0, <1>2, EntryFacts, OwnerFacts
<1>4. \/ Entries[i].count > 1 /\ ReleaseOnce(o, i)
      \/ /\ Entries[i].count <= 1 /\ activeEntries > 1
         /\ PutEntry(i, FreeEntry) /\ activeEntries' = activeEntries - 1
         /\ Return(o) /\ UNCHANGED <<exclusive, activeCount, waiters>>
      \/ /\ Entries[i].count <= 1 /\ activeEntries <= 1 /\ exclusiveWaiters > 0
         /\ ownerEntry' = HandedEntry
         /\ ownerTable' = IF i = 0 THEN ownerTable
                          ELSE [ownerTable EXCEPT ![i] = FreeEntry]
         /\ GiveExclusive(o)
      \/ /\ Entries[i].count <= 1 /\ activeEntries <= 1 /\ exclusiveWaiters = 0
         /\ PutEntry(i, FreeEntry) /\ BecomeFree(o)
  BY <1>3 DEF ReleaseShared
<1> HIDE DEF i
<1>5. CASE Entries[i].count > 1 /\ ReleaseOnce(o, i)
  BY <1>0, <1>2, <1>5, ReleaseOnceStep
<1>6. CASE /\ Entries[i].count <= 1 /\ activeEntries > 1
           /\ PutEntry(i, FreeEntry) /\ activeEntries' = activeEntries - 1
           /\ Return(o) /\ UNCHANGED <<exclusive, activeCount, waiters>>
  <2>1. held[o].n = 1
    BY <1>0, <1>3, <1>6
  <2>2. Freed(o) /\ ownerEntry' \in {FreeEntry, HandedEntry, ownerEntry}
    BY <1>0, <1>2, <1>6, FreedEntry
  <2>3. /\ exclusive' = exclusive /\ activeEntries' = activeEntries - 1 /\ activeCount' = 1
        /\ sharedWaiters' = sharedWaiters /\ exclusiveWaiters' = exclusiveWaiters
        /\ Goto(o, "Idle", NoLocals)
    BY <1>1, <1>6 DEF Return, waiters
  <2>4. /\ exclusive' \in BOOLEAN /\ activeEntries' \in Nat /\ activeCount' \in {0, 1}
        /\ sharedWaiters' \in Nat /\ exclusiveWaiters' \in Nat
    BY <1>0, <1>6, <2>3 DEF Numbers
  <2>5. NoLocals \in Locals /\ NoLocals.call = "none"
    BY LocalTypes
  <2>6. /\ Counting' => IInv'
        /\ LastCounts(o, "Idle", NoLocals) /\ Numbers'
    BY <1>0, <1>1, <2>1, <2>2, <2>3, <2>4, <2>5, LastReleaseStep
  <2>7. ownerEntry'.thread # HandedOver
    BY <1>0, <1>1, <1>2, <1>6, FreedEntry, Constants DEF FreeEntry
  <2>8. /\ Taking' = 0 /\ Listing' = Listing /\ Owning' = 0 /\ Sharing' = Sharing - 1
        /\ SharedQueue' = SharedQueue /\ ExclusiveQueue' = ExclusiveQueue
        /\ SharedGrants' = SharedGrants /\ ExclusiveGrants' = 0
    BY <1>0, <1>1, <2>6 DEF LastCounts
  <2>9. /\ Sharing \in Nat /\ SharedGrants \in Nat /\ Listing \in Nat /\ activeEntries \in Nat
        /\ exclusiveWaiters \in Nat /\ sharedWaiters \in Nat
        /\ SharedQueue = sharedWaiters + SharedGrants
        /\ ExclusiveQueue = exclusiveWaiters
        /\ sharedWaiters > 0 => exclusive \/ exclusiveWaiters > 0
    BY <1>0, <1>1 DEF Counting, Numbers
  <2>10. Counting'
    BY <1>0, <1>1, <1>6, <2>3, <2>7, <2>8, <2>9 DEF Counting, Number
  <2> QED BY <2>6, <2>10
<1>7. activeEntries <= 1 => /\ Sharing = 1 /\ SharedGrants = 0 /\ Listing = 0 /\ activeEntries = 1
  BY <1>0, <1>1 DEF Numbers
<1>8. CASE /\ Entries[i].count <= 1 /\ activeEntries <= 1 /\ exclusiveWaiters > 0
           /\ ownerEntry' = HandedEntry
           /\ ownerTable' = IF i = 0 THEN ownerTable
                            ELSE [ownerTable EXCEPT ![i] = FreeEntry]
           /\ GiveExclusive(o)
  <2>1. held[o].n = 1
    BY <1>0, <1>3, <1>8
  <2>2. Freed(o)
    <3>1. CASE i = 0
      <4>1. PutEntry(0, HandedEntry)
        BY <1>8, <3>1 DEF PutEntry
      <4> QED BY <1>0, <1>2, <3>1, <4>1, FreedEntry
    <3>2. CASE i # 0
      <4>1. ASSUME NEW p \in Owners \ {o} PROVE held[p].mode # "S"
        BY <1>0, <1>1, <1>7, <1>8, OneSharer
      <4>2. \A p \in Owners \ {o} : held[p].mode = "no" /\ held[p].n = 0
        BY <1>1, <4>1, OwnerFacts DEF CallOK
      <4>3. Entries[0] = ownerEntry /\ 0 \in DOMAIN Entries
        BY <1>0, EntryFacts
      <4>4. ownerEntry.thread # o
        BY <1>0, <1>2, <3>2, <4>3 DEF Named
      <4>5. ownerEntry.thread \notin Owners
        BY <4>2, <4>4, OwnerFacts
      <4> QED BY <1>0, <1>2, <1>8, <3>2, <4>5, FreedHanded
    <3> QED BY <3>1, <3>2
  <2>3. /\ exclusive' = TRUE /\ activeEntries' = 1 /\ sharedWaiters' = sharedWaiters
        /\ Goto(o, "SetEvent", NoLocals) /\ activeCount' = 1
        /\ exclusiveWaiters' = exclusiveWaiters - 1
    BY <1>1, <1>8 DEF GiveExclusive
  <2>4. /\ exclusive' \in BOOLEAN /\ activeEntries' \in Nat /\ activeCount' \in {0, 1}
        /\ sharedWaiters' \in Nat /\ exclusiveWaiters' \in Nat
    BY <1>0, <1>8, <2>3 DEF Numbers
  <2>5. /\ NoLocals \in Locals /\ NoLocals.call = "none"
        /\ ownerEntry' \in {FreeEntry, HandedEntry, ownerEntry}
    BY <1>8, LocalTypes
  <2>6. /\ Counting' => IInv'
        /\ LastCounts(o, "SetEvent", NoLocals) /\ Numbers'
    BY <1>0, <1>1, <2>1, <2>2, <2>3, <2>4, <2>5, LastReleaseStep
  <2>7. ownerEntry'.thread = HandedOver
    BY <1>8 DEF HandedEntry
  <2>8. /\ Taking' = 0 /\ Listing' = 0 /\ Owning' = 0 /\ Sharing' = 0
        /\ SharedQueue' = SharedQueue /\ ExclusiveQueue' = ExclusiveQueue
        /\ SharedGrants' = 0 /\ ExclusiveGrants' = 1
    BY <1>0, <1>1, <1>7, <1>8, <2>6 DEF LastCounts
  <2>9. /\ SharedQueue = sharedWaiters /\ ExclusiveQueue = exclusiveWaiters
        /\ sharedWaiters \in Nat /\ exclusiveWaiters \in Nat
    BY <1>0, <1>1, <1>7, <1>8 DEF Counting, Numbers
  <2>10. Counting'
    BY <2>3, <2>7, <2>8, <2>9 DEF Counting, Number
  <2> QED BY <2>6, <2>10
<1>9. CASE /\ Entries[i].count <= 1 /\ activeEntries <= 1 /\ exclusiveWaiters = 0
           /\ PutEntry(i, FreeEntry) /\ BecomeFree(o)
  <2>1. held[o].n = 1
    BY <1>0, <1>3, <1>9
  <2>2. Freed(o) /\ ownerEntry' \in {FreeEntry, HandedEntry, ownerEntry}
    BY <1>0, <1>2, <1>9, FreedEntry
  <2>3. /\ exclusive' = FALSE /\ activeEntries' = 0 /\ activeCount' = 0
        /\ sharedWaiters' = sharedWaiters /\ exclusiveWaiters' = 0 /\ Goto(o, "Idle", NoLocals)
    BY <1>9 DEF BecomeFree, Return, waiters
  <2>4. /\ exclusive' \in BOOLEAN /\ activeEntries' \in Nat /\ activeCount' \in {0, 1}
        /\ sharedWaiters' \in Nat /\ exclusiveWaiters' \in Nat
    BY <1>0, <2>3 DEF Numbers
  <2>5. NoLocals \in Locals /\ NoLocals.call = "none"
    BY LocalTypes
  <2>6. /\ Counting' => IInv'
        /\ LastCounts(o, "Idle", NoLocals) /\ Numbers'
    BY <1>0, <1>1, <2>1, <2>2, <2>3, <2>4, <2>5, LastReleaseStep
  <2>7. ownerEntry'.thread # HandedOver
    BY <1>0, <1>1, <1>2, <1>9, FreedEntry, Constants DEF FreeEntry
  <2>8. /\ Taking' = 0 /\ Listing' = 0 /\ Owning' = 0 /\ Sharing' = 0
        /\ SharedQueue' = SharedQueue /\ ExclusiveQueue' = ExclusiveQueue
        /\ SharedGrants' = 0 /\ ExclusiveGrants' = 0
    BY <1>0, <1>1, <1>7, <1>9, <2>6 DEF LastCounts
  <2>9. /\ SharedQueue = sharedWaiters /\ ExclusiveQueue = 0 /\ sharedWaiters \in Nat
        /\ sharedWaiters = 0
    BY <1>0, <1>1, <1>7, <1>9 DEF Counting, Numbers
  <2>10. Counting'
    BY <2>3, <2>7, <2>8, <2>9 DEF Counting, Number
  <2> QED BY <2>6, <2>10
<1> QED BY <1>4, <1>5, <1>6, <1>8, <1>9

-----------------------------------------------------------------------------
(* Where somebody waits, there is what it waits for.                        *)
LEMMA WaitedFor ==
    ASSUME TypeOK, Calls
    PROVE  /\ SharedQueue > 0 => semaphore.there
           /\ ExclusiveQueue > 0 => event.there
<1>1. ASSUME SharedQueue > 0 PROVE semaphore.there
  <2>1. At("WaitShared") \cup At("WaitUnlisted") # {}
    BY <1>1, FS_EmptySet DEF SharedQueue
  <2>2. PICK o \in Owners : pc[o] \in {"WaitShared", "WaitUnlisted"}
    BY <2>1 DEF At
  <2> QED BY <2>2 DEF Calls, CallOK
<1>2. ASSUME ExclusiveQueue > 0 PROVE event.there
  <2>1. At("WaitExclusive") # {}
    BY <1>2, FS_EmptySet DEF ExclusiveQueue
  <2>2. PICK o \in Owners : pc[o] = "WaitExclusive"
    BY <2>1 DEF At
  <2> QED BY <2>2 DEF Calls, CallOK
<1> QED BY <1>1, <1>2

(* The semaphore is released.                                               *)
LEMMA ReleaseSemaphoreStep ==
    ASSUME IInv, NEW o \in Owners, ReleaseSemaphore(o)
    PROVE  IInv'
<1>0. TypeOK /\ Calls /\ First /\ Counting /\ Named(Entries, Counts)
  BY DEF IInv
<1>1. /\ pc[o] = "ReleaseSemaphore" /\ loc[o].call # "List" /\ loc[o].n \in Nat
      /\ NoLocals \in Locals /\ NoLocals.call = "none" /\ "Idle" \in PCs /\ held[o] \in Holdings
      /\ CallOK("ReleaseSemaphore", loc[o], held[o], semaphore.there, event.there)
  BY OwnerFacts, LocalTypes DEF ReleaseSemaphore, CallOK, PCs
<1>2. Moves(o, "Idle", NoLocals, held[o])
  BY <1>0, <1>1, GotoMoves DEF ReleaseSemaphore, Return
<1>3. /\ semaphore' \in [there : BOOLEAN, count : Nat] /\ semaphore'.there = semaphore.there
      /\ event' = event /\ Released' = Released + loc[o].n /\ IsSet' = IsSet
  <2>1. semaphore \in [there : BOOLEAN, count : Nat] /\ event' = event
        /\ semaphore' = [semaphore EXCEPT !.count = @ + loc[o].n]
    BY <1>0 DEF TypeOK, ReleaseSemaphore
  <2>2. /\ semaphore'.there = semaphore.there
        /\ semaphore'.count = semaphore.count + loc[o].n
        /\ semaphore' \in [there : BOOLEAN, count : Nat]
    BY <1>1, <2>1
  <2> QED BY <2>1, <2>2 DEF Released, IsSet
<1>4. UNCHANGED <<counts, waiters, entries>> /\ ownerEntry' = ownerEntry
  BY DEF ReleaseSemaphore, entries
<1>5. TypeOK'
  BY <1>0, <1>2, <1>3, <1>4 DEF TypeOK, Moves, counts, waiters, entries
<1>6. Named(Entries', Counts')
  <2>1. /\ Counts \in [Owners -> Nat] /\ Counts' \in [Owners -> Nat]
        /\ Counts'[o] = Counts[o] /\ \A p \in Owners \ {o} : Counts'[p] = Counts[p]
    BY <1>0, <1>1, <1>2, CountsMoved
  <2>2. Counts' = Counts
    BY <2>1
  <2> QED BY <1>0, <1>4, <2>2, EntriesStay
<1>7. First'
  BY <1>0, <1>2, <1>4, FirstMoved
<1>8. /\ Shifted(o, "Idle", NoLocals, held[o]) /\ GrantsShifted(o, "Idle", NoLocals)
      /\ Numbers /\ Numbers'
  BY <1>0, <1>1, <1>2, <1>5, Shift
<1>9. SharedGrants' = SharedGrants /\ ExclusiveGrants' = ExclusiveGrants
  <2>1. SharedGrants' = SharedGrants + (Released' - Released) - loc[o].n
    BY <1>1, <1>8 DEF GrantsShifted
  <2>2. ExclusiveGrants' = ExclusiveGrants + (IsSet' - IsSet)
    BY <1>1, <1>8 DEF GrantsShifted
  <2>3. /\ SharedGrants \in Nat /\ ExclusiveGrants \in Nat /\ Released \in Nat
        /\ IsSet \in {0, 1}
    BY <1>8 DEF Numbers, GrantsShifted
  <2> QED BY <1>1, <1>3, <2>1, <2>2, <2>3
<1>10. Calls'
  <2>1. CallOK("Idle", NoLocals, held[o], semaphore'.there, event'.there)
    BY <1>1 DEF CallOK
  <2>2. semaphore.there \/ Released' = 0
    <3>1. Parts'
      BY <1>5, CountFacts, PTL
    <3>2. /\ SharedGrants' = Released' + Posted' /\ Released' \in Nat /\ Posted' \in Nat
          /\ SharedQueue = sharedWaiters + SharedGrants
          /\ sharedWaiters \in Nat /\ SharedGrants \in Nat
      BY <1>0, <1>8, <3>1 DEF Counting, Numbers, Parts
    <3>3. ASSUME NEW a \in Nat, NEW b \in Nat, NEW c \in Nat, NEW g \in Nat, g = a + b, a # 0
          PROVE  c + g > 0
      BY <3>3
    <3>4. Released' # 0 => SharedQueue > 0
      BY <1>9, <3>2, <3>3
    <3> QED BY <1>0, <3>4, WaitedFor
  <2> QED BY <1>0, <1>2, <1>3, <2>1, <2>2, CallsMoved DEF Calls
<1>11. Counting'
  <2>1. /\ Sharing' = Sharing /\ Owning' = Owning /\ Taking' = Taking /\ Listing' = Listing
        /\ SharedQueue' = SharedQueue /\ ExclusiveQueue' = ExclusiveQueue
    BY <1>1, <1>8 DEF Shifted, Changes
  <2> QED BY <1>0, <1>4, <1>9, <2>1, CountingStays
<1> QED BY <1>5, <1>6, <1>7, <1>10, <1>11 DEF IInv

(* The event is set.                                                        *)
LEMMA SetEventStep ==
    ASSUME IInv, NEW o \in Owners, SetEvent(o)
    PROVE  IInv'
<1>0. TypeOK /\ Calls /\ First /\ Counting /\ Named(Entries, Counts) /\ Numbers /\ Parts
  BY CountFacts DEF IInv
<1>1. /\ pc[o] = "SetEvent" /\ loc[o].call # "List"
      /\ NoLocals \in Locals /\ NoLocals.call = "none" /\ "Idle" \in PCs /\ held[o] \in Holdings
      /\ CallOK("SetEvent", loc[o], held[o], semaphore.there, event.there)
  BY OwnerFacts, LocalTypes DEF SetEvent, CallOK, PCs
<1>2. Moves(o, "Idle", NoLocals, held[o])
  BY <1>0, <1>1, GotoMoves DEF SetEvent, Return
<1>3. /\ event' \in [there : BOOLEAN, set : BOOLEAN] /\ event'.there = event.there
      /\ semaphore' = semaphore /\ Released' = Released /\ IsSet' = 1
  <2>1. event \in [there : BOOLEAN, set : BOOLEAN] /\ event' = [event EXCEPT !.set = TRUE]
        /\ semaphore' = semaphore
    BY <1>0 DEF TypeOK, SetEvent
  <2>2. event' \in [there : BOOLEAN, set : BOOLEAN] /\ event'.there = event.there /\ event'.set = TRUE
    BY <2>1
  <2> QED BY <2>1, <2>2 DEF Released, IsSet, Number
<1>4. UNCHANGED <<counts, waiters, entries>> /\ ownerEntry' = ownerEntry
  BY DEF SetEvent, entries
<1>5. TypeOK'
  BY <1>0, <1>2, <1>3, <1>4 DEF TypeOK, Moves, counts, waiters, entries
<1>6. Named(Entries', Counts')
  <2>1. /\ Counts \in [Owners -> Nat] /\ Counts' \in [Owners -> Nat]
        /\ Counts'[o] = Counts[o] /\ \A p \in Owners \ {o} : Counts'[p] = Counts[p]
    BY <1>0, <1>1, <1>2, CountsMoved
  <2>2. Counts' = Counts
    BY <2>1
  <2> QED BY <1>0, <1>4, <2>2, EntriesStay
<1>7. First'
  BY <1>0, <1>2, <1>4, FirstMoved
<1>8. IsSet = 0 /\ ExclusiveQueue > 0
  <2>1. Setting > 0
    BY <1>0, <1>1, Situations
  <2>2. ExclusiveGrants <= 1
    BY <1>0 DEF Counting, Numbers
  <2> QED BY <1>0, <2>1, <2>2 DEF Counting, Numbers, Parts
<1>9. /\ Shifted(o, "Idle", NoLocals, held[o]) /\ GrantsShifted(o, "Idle", NoLocals)
      /\ Numbers /\ Numbers'
  BY <1>0, <1>1, <1>2, <1>5, Shift
<1>10. SharedGrants' = SharedGrants /\ ExclusiveGrants' = ExclusiveGrants
  BY <1>1, <1>3, <1>8, <1>9 DEF GrantsShifted, Numbers
<1>11. Calls'
  <2>1. CallOK("Idle", NoLocals, held[o], semaphore'.there, event'.there)
    BY <1>1 DEF CallOK
  <2>2. event.there
    BY <1>0, <1>8, WaitedFor
  <2> QED BY <1>0, <1>2, <1>3, <2>1, <2>2, CallsMoved DEF Calls
<1>12. Counting'
  <2>1. /\ Sharing' = Sharing /\ Owning' = Owning /\ Taking' = Taking /\ Listing' = Listing
        /\ SharedQueue' = SharedQueue /\ ExclusiveQueue' = ExclusiveQueue
    BY <1>1, <1>9 DEF Shifted, Changes
  <2> QED BY <1>0, <1>4, <1>10, <2>1, CountingStays
<1> QED BY <1>5, <1>6, <1>7, <1>11, <1>12 DEF IInv

-----------------------------------------------------------------------------
(* An exclusive owner becomes a sharer.                                     *)
LEMMA ConvertToSharedStep ==
    ASSUME IInv, NEW t \in Owners, ConvertToShared(t)
    PROVE  IInv'
<1> DEFINE h == [mode |-> "S", n |-> held[t].n]
<1>0. /\ TypeOK /\ Calls /\ First /\ Counting /\ Named(Entries, Counts) /\ Numbers
      /\ UNCHANGED <<entries, objects>> /\ ownerEntry' = ownerEntry
  BY CountFacts DEF IInv, ConvertToShared, entries
<1>1. /\ pc[t] = "Idle" /\ held[t].mode = "X" /\ held[t].n > 0 /\ loc[t].call # "List" /\ exclusive
      /\ held[t] \in Holdings /\ held[t].n \in Nat /\ loc[t] \in Locals
  BY OwnerFacts DEF ConvertToShared, CallOK
<1>2. /\ ownerEntry.thread = t
      /\ activeEntries = 1 /\ Sharing = 0 /\ SharedGrants = 0 /\ Listing = 0
      /\ Owning = 1 /\ ExclusiveGrants = 0 /\ Taking = 0 /\ activeCount = 1
  BY <1>1, ExclusiveOwner
<1>3. h \in Holdings /\ h.mode = "S" /\ h.n = held[t].n /\ held' = [held EXCEPT ![t] = h]
  <2>1. held[t] = [mode |-> held[t].mode, n |-> held[t].n]
    BY <1>1 DEF Holdings
  <2>2. [held[t] EXCEPT !.mode = "S"] = h
    BY <2>1
  <2>3. held' = [held EXCEPT ![t] = [held[t] EXCEPT !.mode = "S"]]
    BY DEF ConvertToShared
  <2>4. h \in Holdings
    BY <1>1 DEF Holdings
  <2> QED BY <2>2, <2>3, <2>4
<1> HIDE DEF h
<1>4. sharedWaiters \in Nat /\ exclusiveWaiters \in Nat
  BY <1>0 DEF Numbers
<1>5. PICK l \in {"Idle", "ReleaseSemaphore"}, r \in Locals :
         /\ Goto(t, l, r) /\ r.call # "List"
         /\ \/ /\ l = "ReleaseSemaphore" /\ r.n = sharedWaiters /\ sharedWaiters > 0
               /\ activeEntries' = activeEntries + sharedWaiters
            \/ l = "Idle" /\ sharedWaiters = 0 /\ activeEntries' = activeEntries
         /\ exclusive' = FALSE /\ sharedWaiters' = 0
         /\ UNCHANGED <<activeCount, exclusiveWaiters>>
  <2>1. CASE sharedWaiters > 0 /\ GiveShared(t, activeEntries)
    <3> DEFINE r == [NoLocals EXCEPT !.n = sharedWaiters]
    <3>1. r \in Locals /\ r.call # "List" /\ r.n = sharedWaiters
      BY <1>4, LocalTypes
    <3> QED BY <2>1, <3>1 DEF GiveShared
  <2>2. CASE /\ sharedWaiters = 0 /\ exclusive' = FALSE
             /\ UNCHANGED <<activeEntries, activeCount, waiters, pc, loc>>
    <3>1. pc \in [Owners -> PCs] /\ loc \in [Owners -> Locals]
      BY <1>0 DEF TypeOK
    <3>2. Goto(t, "Idle", loc[t])
      BY <1>1, <2>2, <3>1 DEF Goto
    <3> QED BY <1>1, <2>2, <3>2 DEF waiters
  <2> QED BY <2>1, <2>2 DEF ConvertToShared
<1>6. l \in PCs /\ Moves(t, l, r, h)
  <2>1. l \in PCs
    BY DEF PCs
  <2> QED BY <1>0, <1>3, <1>5, <2>1, GotoMoves
<1>7. TypeOK'
  <2>1. activeEntries' \in Nat
    BY <1>2, <1>4, <1>5
  <2>2. sharedWaiters' \in Nat /\ exclusive' \in BOOLEAN
    BY <1>5
  <2> QED BY <1>0, <1>5, <1>6, <2>1, <2>2 DEF TypeOK, Moves, entries, objects
<1>8. Named(Entries', Counts')
  <2>1. /\ Counts \in [Owners -> Nat] /\ Counts' \in [Owners -> Nat]
        /\ Counts'[t] = Counts[t] /\ \A o \in Owners \ {t} : Counts'[o] = Counts[o]
    BY <1>0, <1>1, <1>3, <1>6, CountsMoved
  <2>2. Counts' = Counts
    BY <2>1
  <2> QED BY <1>0, <2>2, EntriesStay
<1>9. CallOK(l, r, h, semaphore.there, event.there)
  BY <1>1, <1>3, <1>5 DEF CallOK
<1>10. Calls' /\ Released' = Released /\ IsSet' = IsSet
  BY <1>0, <1>6, <1>9, CallsStay
<1>11. First'
  BY <1>0, <1>3, <1>5, <1>6, FirstMoved
<1>12. Counting'
  <2>1. Shifted(t, l, r, h) /\ GrantsShifted(t, l, r) /\ Numbers'
    BY <1>0, <1>3, <1>6, <1>7, Shift
  <2>2. /\ Sharing' = 1 /\ Owning' = 0 /\ Taking' = 0 /\ Listing' = 0
        /\ SharedQueue' = SharedQueue /\ ExclusiveQueue' = ExclusiveQueue
    BY <1>1, <1>2, <1>3, <1>5, <2>1 DEF Shifted, Changes
  <2>3. SharedGrants' = sharedWaiters /\ ExclusiveGrants' = 0
    BY <1>1, <1>2, <1>4, <1>5, <1>10, <2>1 DEF GrantsShifted
  <2>4. activeEntries' = 1 + sharedWaiters /\ activeCount' = 1
    BY <1>2, <1>4, <1>5
  <2>5. SharedQueue = sharedWaiters /\ ExclusiveQueue = exclusiveWaiters
    BY <1>0, <1>2, <1>4 DEF Counting
  <2>6. ownerEntry'.thread # HandedOver
    BY <1>0, <1>2, Constants
  <2> QED BY <1>4, <1>5, <2>2, <2>3, <2>4, <2>5, <2>6 DEF Counting, Number
<1> QED BY <1>7, <1>8, <1>10, <1>11, <1>12 DEF IInv

(* t leaves a set and p enters it, unless it is there.                      *)
LEMMA PassedOn ==
    ASSUME NEW D, IsFiniteSet(D), NEW S \in SUBSET D, NEW T \in SUBSET D, NEW t \in D, NEW p \in D,
           t # p, t \in S, t \notin T, p \in T, \A o \in D \ {t, p} : o \in S <=> o \in T
    PROVE  /\ Cardinality(S) \in Nat /\ Cardinality(T) \in Nat /\ Cardinality(T) > 0
           /\ p \in S => Cardinality(T) = Cardinality(S) - 1
           /\ p \notin S => Cardinality(T) = Cardinality(S)
<1>1. /\ IsFiniteSet(S) /\ IsFiniteSet(T) /\ Cardinality(S) \in Nat /\ Cardinality(T) \in Nat
  BY FS_Subset, FS_CardinalityType
<1>2. Cardinality(T) > 0
  BY <1>1, FS_EmptySet
<1>3. IsFiniteSet(S \ {t}) /\ Cardinality(S \ {t}) = Cardinality(S) - 1
  BY <1>1, FS_RemoveElement
<1>4. T = (S \ {t}) \cup {p}
  OBVIOUS
<1>5. CASE p \in S
  <2>1. T = S \ {t}
    BY <1>4, <1>5
  <2> QED BY <1>1, <1>2, <1>3, <1>5, <2>1
<1>6. CASE p \notin S
  <2>1. Cardinality(T) = Cardinality(S \ {t}) + 1
    BY <1>3, <1>4, <1>6, FS_AddElement
  <2> QED BY <1>1, <1>2, <1>3, <1>6, <2>1
<1> QED BY <1>5, <1>6

(* What t has goes to p, and nobody calls.                                  *)
Given(t, p, h) ==
    /\ held' \in [Owners -> Holdings] /\ held'[t] = Nothing /\ held'[p] = h
    /\ \A o \in Owners \ {t, p} : held'[o] = held[o]
    /\ UNCHANGED <<exclusive, activeCount, waiters, objects, pc, loc>>

(* What does not depend on the entries.                                     *)
LEMMA GivenFacts ==
    ASSUME IInv, NEW t \in Owners, NEW p \in Owners, t # p, pc[t] = "Idle", pc[p] = "Idle",
           held[t].n > 0, NEW h \in Holdings, Given(t, p, h),
           h.mode = held[t].mode, h.n = held[t].n + held[p].n
    PROVE  /\ Calls'
           /\ Counts \in [Owners -> Nat] /\ Counts' \in [Owners -> Nat]
           /\ Counts'[t] = 0 /\ Counts'[p] = h.n /\ h.n > 0 /\ Counts[p] = held[p].n
           /\ Counts[t] = held[t].n
           /\ \A o \in Owners \ {t, p} : Counts'[o] = Counts[o]
           /\ Taking' = Taking /\ Listing' = Listing
           /\ SharedQueue' = SharedQueue /\ ExclusiveQueue' = ExclusiveQueue
           /\ SharedGrants' = SharedGrants /\ ExclusiveGrants' = ExclusiveGrants
<1>1. /\ UNCHANGED <<semaphore, event, pc, loc>> /\ held' \in [Owners -> Holdings]
      /\ held'[t] = Nothing /\ held'[p] = h
      /\ \A o \in Owners \ {t, p} : held'[o] = held[o]
  BY DEF Given, objects
<1>2. \A o \in Owners : held[o].n \in Nat /\ held'[o].n \in Nat
  BY <1>1 DEF IInv, TypeOK, Holdings
<1>3. Nothing.mode = "no" /\ Nothing.n = 0
  BY DEF Nothing
<1>4. h.n > 0 /\ held[t].mode # "no" /\ h.n \in Nat
  <2>1. held[t].mode # "no"
    BY OwnerFacts DEF CallOK
  <2> QED BY <1>2, <2>1
<1>5. /\ Counts = [o \in Owners |-> IF pc[o] = "WaitShared" THEN 1 ELSE held[o].n]
      /\ Counts' = [o \in Owners |-> IF pc[o] = "WaitShared" THEN 1 ELSE held'[o].n]
  BY <1>1 DEF Counts, Count
<1>6. /\ Counts \in [Owners -> Nat] /\ Counts' \in [Owners -> Nat]
      /\ Counts'[t] = 0 /\ Counts'[p] = h.n /\ Counts[p] = held[p].n /\ Counts[t] = held[t].n
      /\ \A o \in Owners \ {t, p} : Counts'[o] = Counts[o]
  BY <1>1, <1>2, <1>3, <1>5
<1>7. /\ Taking' = Taking /\ Listing' = Listing
      /\ SharedQueue' = SharedQueue /\ ExclusiveQueue' = ExclusiveQueue
      /\ SharedGrants' = SharedGrants /\ ExclusiveGrants' = ExclusiveGrants
  BY <1>1 DEF Taking, Listing, SharedQueue, ExclusiveQueue, SharedGrants, ExclusiveGrants, Posting, At
<1>8. Calls'
  <2>1. ASSUME NEW o \in Owners
        PROVE  CallOK(pc[o], loc[o], held'[o], semaphore.there, event.there)
    <3>1. CallOK(pc[o], loc[o], held[o], semaphore.there, event.there)
      BY DEF IInv, Calls
    <3>2. CASE o = t
      BY <1>1, <1>3, <3>1, <3>2 DEF CallOK
    <3>3. CASE o = p
      BY <1>1, <1>4, <3>1, <3>3 DEF CallOK
    <3>4. CASE o # t /\ o # p
      BY <1>1, <3>1, <3>4
    <3> QED BY <3>2, <3>3, <3>4
  <2> QED BY <1>1, <2>1 DEF IInv, Calls, Released, IsSet
<1> QED BY <1>4, <1>6, <1>7, <1>8

(* The sharers, when p gets what t shared.                                  *)
LEMMA GivenShared ==
    ASSUME NEW t \in Owners, NEW p \in Owners, t # p, NEW h, Given(t, p, h),
           held[t].mode = "S", h.mode = "S", held[p].mode # "X"
    PROVE  /\ Sharing \in Nat /\ Sharing' \in Nat /\ Sharing' > 0 /\ Owning' = Owning
           /\ held[p].mode = "S" => Sharing' = Sharing - 1
           /\ held[p].mode # "S" => Sharing' = Sharing
<1> DEFINE S == {o \in Owners : held[o].mode = "S"}
           T == {o \in Owners : held'[o].mode = "S"}
<1>1. /\ held'[t] = Nothing /\ held'[p] = h /\ \A o \in Owners \ {t, p} : held'[o] = held[o]
      /\ pc' = pc /\ Nothing.mode = "no"
  BY DEF Given, Nothing
<1>2. /\ S \in SUBSET Owners /\ T \in SUBSET Owners /\ t \in S /\ t \notin T /\ p \in T
      /\ \A o \in Owners \ {t, p} : o \in S <=> o \in T
      /\ p \in S <=> held[p].mode = "S"
  BY <1>1
<1>3. Sharing = Cardinality(S) /\ Sharing' = Cardinality(T)
  BY DEF Sharing, In
<1>4. (In("X") \cup At("SetOwner"))' = In("X") \cup At("SetOwner")
  BY <1>1 DEF In, At
<1>5. Owning' = Owning
  BY <1>4 DEF Owning
<1> HIDE DEF S, T
<1>6. /\ Cardinality(S) \in Nat /\ Cardinality(T) \in Nat /\ Cardinality(T) > 0
      /\ p \in S => Cardinality(T) = Cardinality(S) - 1
      /\ p \notin S => Cardinality(T) = Cardinality(S)
  <2>1. /\ IsFiniteSet(Owners) /\ S \in SUBSET Owners /\ T \in SUBSET Owners
        /\ t \in S /\ t \notin T /\ p \in T /\ \A o \in Owners \ {t, p} : o \in S <=> o \in T
    BY <1>2, Constants
  <2> QED BY <2>1, PassedOn, Zenon
<1> QED BY <1>2, <1>3, <1>5, <1>6

(* The owners, when p gets what t owned.                                    *)
LEMMA GivenExclusive ==
    ASSUME NEW t \in Owners, NEW p \in Owners, t # p, NEW h, Given(t, p, h), pc[t] = "Idle",
           pc[p] = "Idle", held[t].mode = "X", h.mode = "X", held[p].mode = "no"
    PROVE  Sharing' = Sharing /\ Owning' = Owning
<1> DEFINE S == {o \in Owners : held[o].mode = "X" \/ pc[o] = "SetOwner"}
           T == {o \in Owners : held'[o].mode = "X" \/ pc[o] = "SetOwner"}
<1>1. /\ held'[t] = Nothing /\ held'[p] = h /\ \A o \in Owners \ {t, p} : held'[o] = held[o]
      /\ pc' = pc /\ Nothing.mode = "no"
  BY DEF Given, Nothing
<1>2. /\ S \in SUBSET Owners /\ T \in SUBSET Owners /\ t \in S /\ t \notin T /\ p \in T
      /\ \A o \in Owners \ {t, p} : o \in S <=> o \in T
      /\ p \notin S
  BY <1>1
<1>3. Owning = Cardinality(S) /\ Owning' = Cardinality(T)
  BY <1>1 DEF Owning, In, At
<1>4. In("S")' = In("S")
  BY <1>1 DEF In
<1>5. Sharing' = Sharing
  BY <1>4 DEF Sharing
<1> HIDE DEF S, T
<1>6. p \notin S => Cardinality(T) = Cardinality(S)
  <2>1. /\ IsFiniteSet(Owners) /\ S \in SUBSET Owners /\ T \in SUBSET Owners
        /\ t \in S /\ t \notin T /\ p \in T /\ \A o \in Owners \ {t, p} : o \in S <=> o \in T
    BY <1>2, Constants
  <2> QED BY <2>1, PassedOn, Zenon
<1> QED BY <1>2, <1>3, <1>5, <1>6

(* An owner gives what it has to a pointer.                                 *)
LEMMA SetOwnerPointerStep ==
    ASSUME IInv, NEW t \in Owners, NEW p \in Owners, t # p, SetOwnerPointer(t, p)
    PROVE  IInv'
<1> DEFINE h == [mode |-> held[t].mode, n |-> held[t].n + held[p].n]
           own  == IF exclusive THEN 0 ELSE EntryOf(t)
           this == IF exclusive THEN None ELSE EntryOf(p)
           sum  == [thread |-> p, count |-> Entry(this).count + Entry(own).count]
           e    == [thread |-> p, count |-> h.n]
<1>0. /\ TypeOK /\ First /\ Counting /\ Named(Entries, Counts) /\ Numbers
      /\ pc[t] = "Idle" /\ pc[p] = "Idle" /\ held[t].n > 0
  BY CountFacts DEF IInv, SetOwnerPointer
<1>1. /\ held[t].n \in Nat /\ held[p].n \in Nat /\ held[t].mode \in {"S", "X"}
      /\ held[p].mode = "no" <=> held[p].n = 0
      /\ held[p].mode \in {"no", "S", "X"}
  BY <1>0, OwnerFacts DEF CallOK
<1>2. h \in Holdings /\ h.mode = held[t].mode /\ h.n = held[t].n + held[p].n /\ h.n \in Nat
  BY <1>1 DEF Holdings
<1>3. Given(t, p, h)
  <2>1. held \in [Owners -> Holdings] /\ Nothing \in Holdings
    BY <1>0 DEF TypeOK, Holdings, Nothing
  <2>2. held' = [held EXCEPT ![t] = Nothing, ![p] = h]
    BY DEF SetOwnerPointer
  <2>3. UNCHANGED <<exclusive, activeCount, waiters, objects, pc, loc>>
    BY DEF SetOwnerPointer
  <2> HIDE DEF h
  <2> QED BY <1>2, <2>1, <2>2, <2>3 DEF Given
<1>4. /\ own # None
      /\ \/ /\ this = None /\ PutEntry(own, [Entry(own) EXCEPT !.thread = p])
            /\ activeEntries' = activeEntries
         \/ /\ this # None
            /\ ownerEntry' = CASE this = 0 -> sum [] own = 0 -> FreeEntry
                                    [] OTHER -> ownerEntry
            /\ ownerTable' = [i \in DOMAIN ownerTable |->
                                 CASE i = this -> sum [] i = own -> FreeEntry
                                   [] OTHER -> ownerTable[i]]
            /\ activeEntries' = activeEntries - 1
  BY DEF SetOwnerPointer
<1>5. own \in DOMAIN Entries /\ Entries[own].thread = t
  <2>1. CASE exclusive
    BY <1>0, <2>1, ExclusiveOwner, EntryFacts
  <2>2. CASE ~exclusive
    BY <1>0, <1>4, <2>2, OwnerFound
  <2> QED BY <2>1, <2>2
<1>6. /\ this = None => held[p].n = 0 /\ held[p].mode = "no"
      /\ this # None => ~exclusive /\ this \in DOMAIN Entries /\ Entries[this].thread = p
  <2>1. CASE exclusive
    BY <1>0, <2>1, ExclusiveOwner
  <2>2. CASE ~exclusive
    BY <1>0, <1>1, <2>2, OwnerFound, OwnerFacts
  <2> QED BY <2>1, <2>2
<1> HIDE DEF h
<1>7. /\ Calls'
      /\ Counts \in [Owners -> Nat] /\ Counts' \in [Owners -> Nat]
      /\ Counts'[t] = 0 /\ Counts'[p] = h.n /\ h.n > 0 /\ Counts[p] = held[p].n
      /\ Counts[t] = held[t].n
      /\ \A o \in Owners \ {t, p} : Counts'[o] = Counts[o]
      /\ Taking' = Taking /\ Listing' = Listing
      /\ SharedQueue' = SharedQueue /\ ExclusiveQueue' = ExclusiveQueue
      /\ SharedGrants' = SharedGrants /\ ExclusiveGrants' = ExclusiveGrants
  BY <1>0, <1>2, <1>3, GivenFacts
<1> HIDE DEF own, this, sum
<1>8. /\ Entry(own) = [thread |-> t, count |-> held[t].n]
      /\ this # None => Entry(this).count = held[p].n
      /\ this # None => this # own
  <2>1. Entry(own) = Entries[own] /\ Entries[own] \in OwnerEntries(Owners \cup {NoOwner, HandedOver})
    BY <1>0, <1>5, EntryFacts
  <2>2. Entries[own].count = held[t].n
    BY <1>0, <1>5, OwnerFacts
  <2>3. this # None => Entry(this) = Entries[this] /\ Entries[this].count = held[p].n
    BY <1>0, <1>6, EntryFacts, OwnerFacts
  <2>4. Entries[own] = [thread |-> t, count |-> held[t].n]
    BY <1>5, <2>1, <2>2 DEF OwnerEntries
  <2> QED BY <1>5, <1>6, <2>1, <2>3, <2>4
<1>9. e \in OwnerEntries(Owners \cup {NoOwner}) /\ e.thread = p
  BY <1>2 DEF OwnerEntries
<1>10. /\ ownerTable' \in Seq(OwnerEntries(Owners \cup {NoOwner}))
       /\ ownerEntry' \in OwnerEntries(Owners \cup {NoOwner, HandedOver})
       /\ Named(Entries', Counts')
       /\ ownerEntry' \in {e, FreeEntry, ownerEntry}
       /\ exclusive => ownerEntry' = e
  <2>1. CASE this = None
    <3>1. PutEntry(own, e)
      <4>1. [Entry(own) EXCEPT !.thread = p] = [thread |-> p, count |-> held[t].n]
        BY <1>8
      <4>2. [thread |-> p, count |-> held[t].n] = e
        BY <1>1, <1>2, <1>6, <2>1
      <4> QED BY <1>4, <2>1, <4>1, <4>2
    <3>2. e = [thread |-> p, count |-> Counts'[p]]
      BY <1>7
    <3> HIDE DEF e
    <3>3. /\ ownerTable' \in Seq(OwnerEntries(Owners \cup {NoOwner}))
          /\ ownerEntry' \in OwnerEntries(Owners \cup {NoOwner, HandedOver})
          /\ DOMAIN Entries' = DOMAIN Entries /\ Entries'[own] = e
          /\ \A j \in DOMAIN Entries \ {own} : Entries'[j] = Entries[j]
          /\ ownerEntry' = IF own = 0 THEN e ELSE ownerEntry
      BY <1>0, <1>5, <1>9, <3>1, PutFacts
    <3>4. Counts[p] = 0 /\ Counts'[p] > 0
      BY <1>6, <1>7, <2>1
    <3>5. Named(Entries', Counts')
      <4>1. /\ own \in DOMAIN Entries /\ Entries[own].thread = t
            /\ Entries'[own] = [thread |-> p, count |-> Counts'[p]]
            /\ Counts'[t] = 0 /\ \A o \in Owners \ {t, p} : Counts'[o] = Counts[o]
            /\ Counts \in [Owners -> Nat] /\ Counts' \in [Owners -> Nat]
        BY <1>5, <1>7, <3>2, <3>3
      <4>2. /\ DOMAIN Entries' = DOMAIN Entries
            /\ \A j \in DOMAIN Entries \ {own} : Entries'[j] = Entries[j]
        BY <3>3
      <4> QED BY <1>0, <3>4, <4>1, <4>2, NamedPass
    <3>6. exclusive => own = 0
      BY DEF own
    <3> QED BY <3>3, <3>5, <3>6
  <2>2. CASE this # None
    <3>1. sum = e
      <4>1. sum = [thread |-> p, count |-> held[p].n + held[t].n]
        BY <1>8, <2>2 DEF sum
      <4> QED BY <1>1, <1>2, <4>1
    <3>2. /\ ownerEntry' = CASE this = 0 -> e [] own = 0 -> FreeEntry [] OTHER -> ownerEntry
          /\ ownerTable' = [i \in DOMAIN ownerTable |->
                              CASE i = this -> e [] i = own -> FreeEntry
                                [] OTHER -> ownerTable[i]]
      BY <1>4, <2>2, <3>1
    <3>3. /\ e = [thread |-> p, count |-> Counts'[p]] /\ Counts'[p] > 0
          /\ FreeEntry \in OwnerEntries(Owners \cup {NoOwner})
      BY <1>7 DEF FreeEntry, OwnerEntries
    <3> HIDE DEF e
    <3>4. /\ Len(ownerTable) \in Nat /\ DOMAIN ownerTable = 1 .. Len(ownerTable)
          /\ DOMAIN Entries = 0 .. Len(ownerTable) /\ Entries[0] = ownerEntry
          /\ \A j \in 1 .. Len(ownerTable) : Entries[j] = ownerTable[j]
          /\ \A j \in 1 .. Len(ownerTable) : ownerTable[j] \in OwnerEntries(Owners \cup {NoOwner})
          /\ ownerEntry \in OwnerEntries(Owners \cup {NoOwner, HandedOver})
          /\ \A j \in DOMAIN Entries : j # 0 => j \in 1 .. Len(ownerTable)
      BY <1>0, EntryFacts
    <3>5. /\ DOMAIN ownerTable' = 1 .. Len(ownerTable)
          /\ \A j \in 1 .. Len(ownerTable) :
                /\ j = this => ownerTable'[j] = e
                /\ j = own => ownerTable'[j] = FreeEntry
                /\ j # this /\ j # own => ownerTable'[j] = ownerTable[j]
      BY <1>8, <2>2, <3>2, <3>4
    <3>6. \A j \in 1 .. Len(ownerTable) : ownerTable'[j] \in OwnerEntries(Owners \cup {NoOwner})
      BY <1>9, <3>3, <3>4, <3>5
    <3>7. /\ ownerTable' \in Seq(OwnerEntries(Owners \cup {NoOwner}))
          /\ Len(ownerTable') = Len(ownerTable)
      <4>1. ownerTable' = [j \in 1 .. Len(ownerTable) |-> ownerTable'[j]]
        BY <3>2, <3>4
      <4>2. ownerTable' \in [1 .. Len(ownerTable) -> OwnerEntries(Owners \cup {NoOwner})]
        BY <3>6, <4>1
      <4>3. ASSUME NEW n \in Nat, NEW A, NEW f \in [1 .. n -> A]
            PROVE  f \in Seq(A) /\ Len(f) = n
        OBVIOUS
      <4> QED BY <3>4, <4>2, <4>3
    <3>8. /\ this = 0 => ownerEntry' = e
          /\ own = 0 => ownerEntry' = FreeEntry
          /\ this # 0 /\ own # 0 => ownerEntry' = ownerEntry
      BY <1>8, <2>2, <3>2
    <3>9. /\ DOMAIN Entries' = 0 .. Len(ownerTable)
          /\ \A j \in 0 .. Len(ownerTable) : Entries'[j] = IF j = 0 THEN ownerEntry' ELSE ownerTable'[j]
      BY <3>7 DEF Entries, Indices, Entry
    <3>10. Entries'[own] = FreeEntry
      BY <1>5, <3>4, <3>5, <3>8, <3>9
    <3>11. Entries'[this] = e
      BY <1>6, <2>2, <3>4, <3>5, <3>8, <3>9
    <3>12. \A j \in DOMAIN Entries \ {own, this} : Entries'[j] = Entries[j]
      BY <3>4, <3>5, <3>8, <3>9
    <3>13. Named(Entries', Counts')
      <4>1. /\ own \in DOMAIN Entries /\ Entries[own].thread = t
            /\ this \in DOMAIN Entries /\ Entries[this].thread = p
            /\ DOMAIN Entries' = DOMAIN Entries /\ Entries'[own] = FreeEntry
            /\ Entries'[this] = [thread |-> p, count |-> Counts'[p]] /\ Counts'[p] > 0
            /\ Counts'[t] = 0 /\ \A o \in Owners \ {t, p} : Counts'[o] = Counts[o]
            /\ Counts \in [Owners -> Nat] /\ Counts' \in [Owners -> Nat]
        BY <1>5, <1>6, <1>7, <2>2, <3>3, <3>4, <3>9, <3>10, <3>11
      <4> QED BY <1>0, <3>12, <4>1, NamedMerge
    <3>14. /\ ownerEntry' \in {e, FreeEntry, ownerEntry}
           /\ ownerEntry' \in OwnerEntries(Owners \cup {NoOwner, HandedOver})
      <4>1. \A x \in OwnerEntries(Owners \cup {NoOwner}) : x \in OwnerEntries(Owners \cup {NoOwner, HandedOver})
        BY DEF OwnerEntries
      <4> QED BY <1>9, <3>3, <3>4, <3>8, <4>1
    <3> QED BY <1>6, <2>2, <3>7, <3>13, <3>14
  <2> QED BY <2>1, <2>2
<1> HIDE DEF e
<1>11. activeEntries' \in Nat
  <2>1. CASE this = None
    BY <1>0, <1>4, <2>1 DEF Numbers
  <2>2. CASE this # None
    <3>1. activeEntries > 0
      BY <1>0, <1>6, <2>2, SharedOwner
    <3> QED BY <1>0, <1>4, <2>2, <3>1 DEF Numbers
  <2> QED BY <2>1, <2>2
<1>12. TypeOK'
  BY <1>0, <1>3, <1>10, <1>11 DEF TypeOK, Given, waiters, objects
<1>13. /\ FreeEntry.thread = NoOwner /\ NoOwner \notin Owners /\ HandedOver \notin Owners
       /\ NoOwner # HandedOver
  BY Constants DEF FreeEntry
<1>14. First'
  <2>1. pc' = pc /\ held'[t] = Nothing /\ Nothing.mode = "no" /\ held'[p] = h
        /\ \A o \in Owners \ {t, p} : held'[o] = held[o]
    BY <1>3 DEF Given, Nothing
  <2>2. ownerEntry'.thread \in Owners => pc'[ownerEntry'.thread] # "WaitShared"
    BY <1>0, <1>9, <1>10, <1>13, <2>1 DEF First
  <2>3. ownerEntry'.thread = HandedOver => ownerEntry'.count = 1
    BY <1>0, <1>9, <1>10, <1>13 DEF First
  <2>4. ASSUME NEW o \in Owners, held'[o].mode = "X" PROVE ownerEntry'.thread = o
    <3>1. CASE exclusive
      <4>1. \A q \in Owners \ {t} : held[q].mode # "X"
        BY <1>0, <3>1, ExclusiveOwner
      <4>2. o = p
        BY <2>1, <2>4, <4>1
      <4> QED BY <1>9, <1>10, <3>1, <4>2
    <3>2. CASE ~exclusive
      <4>1. \A q \in Owners : held[q].mode # "X"
        BY <1>0, <3>2, SharedOwner
      <4> QED BY <1>2, <2>1, <2>4, <4>1
    <3> QED BY <3>1, <3>2
  <2> QED BY <2>2, <2>3, <2>4 DEF First
<1>15. UNCHANGED <<exclusive, activeCount, sharedWaiters, exclusiveWaiters>>
  BY <1>3 DEF Given, waiters
<1>16. Counting'
  <2>1. CASE exclusive
    <3>1. /\ held[t].mode = "X" /\ held[p].mode = "no" /\ ownerEntry.thread # HandedOver
      BY <1>0, <1>13, <2>1, ExclusiveOwner
    <3>2. Sharing' = Sharing /\ Owning' = Owning
      BY <1>0, <1>2, <1>3, <3>1, GivenExclusive
    <3>3. activeEntries' = activeEntries
      BY <1>4, <1>6, <2>1
    <3>4. ownerEntry'.thread # HandedOver
      BY <1>9, <1>10, <1>13, <2>1
    <3> QED BY <1>0, <1>7, <1>15, <3>1, <3>2, <3>3, <3>4, CountingStays DEF counts, waiters
  <2>2. CASE ~exclusive
    <3>1. /\ held[t].mode = "S" /\ held[p].mode # "X" /\ ownerEntry.thread # HandedOver
          /\ Owning = 0 /\ ExclusiveGrants = 0 /\ Taking = 0
          /\ activeEntries = Sharing + SharedGrants + Listing
          /\ activeEntries > 0 /\ activeCount = 1
      BY <1>0, <2>2, SharedOwner
    <3>2. /\ Sharing \in Nat /\ Sharing' \in Nat /\ Sharing' > 0 /\ Owning' = Owning
          /\ held[p].mode = "S" => Sharing' = Sharing - 1
          /\ held[p].mode # "S" => Sharing' = Sharing
      BY <1>0, <1>2, <1>3, <3>1, GivenShared
    <3>3. ownerEntry'.thread # HandedOver
      BY <1>9, <1>10, <1>13, <3>1
    <3>4. /\ SharedQueue = sharedWaiters + SharedGrants /\ ExclusiveQueue = exclusiveWaiters
          /\ sharedWaiters > 0 => exclusive \/ exclusiveWaiters > 0
          /\ SharedGrants \in Nat /\ Listing \in Nat /\ exclusiveWaiters \in Nat
      BY <1>0, <2>2, <3>1 DEF Counting, Numbers
    <3>5. CASE this = None
      <4>1. held[p].mode # "S" /\ activeEntries' = activeEntries
        BY <1>4, <1>6, <3>5
      <4> QED BY <1>0, <1>7, <1>15, <3>1, <3>2, <3>3, <4>1, CountingStays DEF counts, waiters
    <3>6. CASE this # None
      <4>1. held[p].mode = "S" /\ activeEntries' = activeEntries - 1
        <5>1. held[p].n > 0
          BY <1>0, <1>6, <1>7, <3>6, OwnerFacts
        <5> QED BY <1>1, <1>4, <3>1, <3>6, <5>1
      <4>2. activeEntries' = Sharing' + SharedGrants' + Listing' /\ activeEntries' > 0
        BY <1>7, <3>1, <3>2, <3>4, <4>1
      <4>3. /\ Owning' = 0 /\ ExclusiveGrants' = 0 /\ Taking' = 0 /\ activeCount' = 1
            /\ SharedQueue' = sharedWaiters' + SharedGrants' /\ ExclusiveQueue' = exclusiveWaiters'
            /\ sharedWaiters' > 0 => exclusive' \/ exclusiveWaiters' > 0
            /\ exclusiveWaiters' \in Nat
        BY <1>7, <1>15, <3>1, <3>2, <3>4
      <4>4. ~exclusive'
        BY <1>15, <2>2
      <4>5. activeCount' = Number(activeEntries' > 0)
        BY <4>2, <4>3 DEF Number
      <4>6. ASSUME NEW a \in Nat, NEW b, NEW c, b = 0, c = 0 PROVE a = a + b /\ ~(b + c > 0)
        BY <4>6
      <4>7. ExclusiveQueue' = exclusiveWaiters' + ExclusiveGrants' /\ ~(Taking' + ExclusiveGrants' > 0)
        BY <4>3, <4>6, Zenon
      <4> QED BY <3>3, <4>2, <4>3, <4>4, <4>5, <4>7 DEF Counting
    <3> QED BY <3>5, <3>6
  <2> QED BY <2>1, <2>2
<1> QED BY <1>7, <1>10, <1>12, <1>14, <1>16 DEF IInv

-----------------------------------------------------------------------------
(* Nobody uses the resource.                                                *)
Fresh ==
    /\ TypeOK /\ ~exclusive /\ activeEntries = 0 /\ activeCount = 0
    /\ sharedWaiters = 0 /\ exclusiveWaiters = 0 /\ Released = 0 /\ IsSet = 0
    /\ ownerEntry = FreeEntry /\ \A i \in DOMAIN ownerTable : ownerTable[i] = FreeEntry
    /\ \A o \in Owners : pc[o] = "Idle" /\ loc[o].call # "List" /\ held[o] = Nothing

(* Then the invariant holds.                                                *)
LEMMA FreshInvariant ==
    ASSUME Fresh
    PROVE  IInv
<1>1. /\ TypeOK /\ Nothing.mode = "no" /\ Nothing.n = 0
      /\ FreeEntry.thread = NoOwner /\ FreeEntry.count = 0
  BY DEF Fresh, Nothing, FreeEntry
<1>2. \A o \in Owners : pc[o] = "Idle" /\ loc[o].call # "List" /\ held[o].mode = "no" /\ held[o].n = 0
  BY <1>1 DEF Fresh
<1>3. Calls
  BY <1>2 DEF Calls, CallOK, Fresh
<1>4. First
  BY <1>1, <1>2, Constants DEF First, Fresh
<1>5. Named(Entries, Counts)
  <2>1. \A i \in DOMAIN Entries : Entries[i] = FreeEntry
    BY <1>1, EntryFacts DEF Fresh
  <2>2. \A o \in Owners : Counts[o] = 0
    BY <1>2 DEF Counts, Count
  <2> QED BY <1>1, <2>1, <2>2, Constants DEF Named
<1>6. Counting
  <2>1. /\ In("S") = {} /\ In("X") \cup At("SetOwner") = {} /\ At("SetOwner") = {}
        /\ {o \in Owners : loc[o].call = "List"} = {} /\ At("SetEvent") = {}
        /\ At("WaitShared") \cup At("WaitUnlisted") = {} /\ At("WaitExclusive") = {}
    BY <1>2 DEF In, At
  <2>2. /\ Sharing = 0 /\ Owning = 0 /\ Taking = 0 /\ Listing = 0 /\ Setting = 0
        /\ SharedQueue = 0 /\ ExclusiveQueue = 0
    BY <2>1, FS_EmptySet DEF Sharing, Owning, Taking, Listing, Setting, SharedQueue, ExclusiveQueue
  <2>3. Posted = 0
    <3>1. \A o \in Owners : Posting[o] = 0
      BY <1>2 DEF Posting
    <3> QED BY <3>1, Constants, SumZero DEF Posted
  <2>4. SharedGrants = Released + Posted /\ ExclusiveGrants = IsSet + Setting
    BY <1>1, CountFacts DEF Parts
  <2>5. SharedGrants = 0 /\ ExclusiveGrants = 0
    BY <2>2, <2>3, <2>4 DEF Fresh
  <2>6. ownerEntry.thread # HandedOver
    BY <1>1, Constants DEF Fresh
  <2> QED BY <2>2, <2>5, <2>6 DEF Counting, Fresh, Number
<1> QED BY <1>1, <1>3, <1>4, <1>5, <1>6 DEF IInv

(* Free tables.                                                             *)
LEMMA FreeTable ==
    /\ <<>> \in Seq(OwnerEntries(Owners \cup {NoOwner})) /\ DOMAIN <<>> = {}
    /\ \A n \in Nat : /\ Free(n) \in Seq(OwnerEntries(Owners \cup {NoOwner}))
                      /\ \A j \in DOMAIN Free(n) : Free(n)[j] = FreeEntry
<1>1. FreeEntry \in OwnerEntries(Owners \cup {NoOwner})
  BY DEF OwnerEntries, FreeEntry
<1> QED BY <1>1 DEF Free

(* ExInitializeResourceLite                                                 *)
LEMMA InitInvariant ==
    Init => IInv
<1> SUFFICES ASSUME Init PROVE IInv
  OBVIOUS
<1>1. NoLocals \in Locals /\ NoLocals.call = "none" /\ Nothing \in Holdings
  BY LocalTypes DEF Nothing, Holdings
<1>2. /\ ownerTable \in Seq(OwnerEntries(Owners \cup {NoOwner}))
      /\ \A i \in DOMAIN ownerTable : ownerTable[i] = FreeEntry
  BY FreeTable DEF Init
<1>3. /\ pc \in [Owners -> PCs] /\ loc \in [Owners -> Locals] /\ held \in [Owners -> Holdings]
      /\ \A o \in Owners : pc[o] = "Idle" /\ loc[o].call # "List" /\ held[o] = Nothing
  BY <1>1 DEF Init, PCs
<1>4. /\ ownerEntry \in OwnerEntries(Owners \cup {NoOwner, HandedOver}) /\ ownerEntry = FreeEntry
  BY DEF Init, FreeEntry, OwnerEntries
<1>5. /\ semaphore \in [there : BOOLEAN, count : Nat] /\ Released = 0
      /\ event \in [there : BOOLEAN, set : BOOLEAN] /\ IsSet = 0
  BY DEF Init, Released, IsSet, Number
<1>6. TypeOK
  BY <1>2, <1>3, <1>4, <1>5 DEF TypeOK, Init
<1>7. Fresh
  BY <1>2, <1>3, <1>4, <1>5, <1>6 DEF Fresh, Init
<1> QED BY <1>7, FreshInvariant

(* ExReinitializeResourceLite                                               *)
LEMMA ReinitializeStep ==
    ASSUME IInv, Reinitialize
    PROVE  IInv'
<1>0. TypeOK
  BY DEF IInv
<1>1. Nothing \in Holdings
  BY DEF Nothing, Holdings
<1>2. /\ ownerTable' \in Seq(OwnerEntries(Owners \cup {NoOwner}))
      /\ \A i \in DOMAIN ownerTable' : ownerTable'[i] = FreeEntry
  <2>1. FirstSize - 1 \in Nat
    BY Constants
  <2>2. ownerTable' = <<>> \/ ownerTable' = Free(FirstSize - 1)
    BY DEF Reinitialize
  <2> QED BY <2>1, <2>2, FreeTable
<1>3. /\ pc' = pc /\ loc' = loc /\ held' \in [Owners -> Holdings]
      /\ \A o \in Owners : held'[o] = Nothing
  BY <1>1 DEF Reinitialize
<1>4. \A o \in Owners : pc[o] = "Idle" /\ loc[o].call # "List"
  <2>1. ASSUME NEW o \in Owners PROVE pc[o] = "Idle" /\ loc[o].call # "List"
    BY OwnerFacts DEF Reinitialize, CallOK
  <2> QED BY <2>1
<1>5. ownerEntry' \in OwnerEntries(Owners \cup {NoOwner, HandedOver}) /\ ownerEntry' = FreeEntry
  BY DEF Reinitialize, FreeEntry, OwnerEntries
<1>6. /\ semaphore' \in [there : BOOLEAN, count : Nat] /\ Released' = 0
      /\ event' \in [there : BOOLEAN, set : BOOLEAN] /\ IsSet' = 0
  <2>1. /\ semaphore \in [there : BOOLEAN, count : Nat] /\ event \in [there : BOOLEAN, set : BOOLEAN]
        /\ semaphore' = [semaphore EXCEPT !.count = 0] /\ event' = [event EXCEPT !.set = FALSE]
    BY <1>0 DEF TypeOK, Reinitialize
  <2>2. /\ semaphore' \in [there : BOOLEAN, count : Nat] /\ semaphore'.count = 0
        /\ event' \in [there : BOOLEAN, set : BOOLEAN] /\ event'.set = FALSE
    BY <2>1
  <2> QED BY <2>2 DEF Released, IsSet, Number
<1>7. TypeOK'
  BY <1>0, <1>2, <1>3, <1>5, <1>6 DEF TypeOK, Reinitialize
<1>8. Fresh'
  BY <1>2, <1>3, <1>4, <1>5, <1>6, <1>7 DEF Fresh, Reinitialize
<1> QED BY <1>8, FreshInvariant, PTL

(* A step that changes nothing.                                             *)
LEMMA StutterStep ==
    ASSUME IInv, UNCHANGED vars
    PROVE  IInv'
<1>1. UNCHANGED <<exclusive, activeEntries, activeCount, ownerEntry, ownerTable, sharedWaiters,
                  exclusiveWaiters, semaphore, event, pc, loc, held>>
  BY DEF vars, counts, entries, waiters, objects
<1>2. Entries' = Entries /\ Counts' = Counts
  BY <1>1 DEF Entries, Indices, Entry, Counts, Count
<1>3. /\ Sharing' = Sharing /\ Owning' = Owning /\ Taking' = Taking /\ Listing' = Listing
      /\ SharedQueue' = SharedQueue /\ ExclusiveQueue' = ExclusiveQueue
      /\ SharedGrants' = SharedGrants /\ ExclusiveGrants' = ExclusiveGrants
      /\ Released' = Released /\ IsSet' = IsSet
  BY <1>1 DEF Sharing, Owning, Taking, Listing, SharedQueue, ExclusiveQueue, SharedGrants,
              ExclusiveGrants, Released, IsSet, Posting, At, In
<1>4. Counting'
  BY <1>1, <1>3 DEF Counting, IInv
<1>5. TypeOK' /\ First' /\ Calls'
  BY <1>1, <1>3 DEF TypeOK, First, Calls, IInv
<1> QED BY <1>2, <1>4, <1>5 DEF IInv

-----------------------------------------------------------------------------
(* Every step keeps the invariant.                                          *)
LEMMA NextInvariant ==
    IInv /\ [Next]_vars => IInv'
<1> SUFFICES ASSUME IInv, [Next]_vars PROVE IInv'
  OBVIOUS
<1> USE Constants
<1>1. CASE \E t \in Threads : Start(t) \/ ConvertToShared(t)
  BY <1>1, StartStep, ConvertToSharedStep
<1>2. ASSUME NEW t \in Threads, NEW p \in Pointers, SetOwnerPointer(t, p) PROVE IInv'
  <2>1. t \in Owners /\ p \in Owners /\ t # p
    BY ResourceAssumption DEF Owners
  <2> QED BY <1>2, <2>1, SetOwnerPointerStep
<1>3. ASSUME NEW o \in Owners, Release(o) PROVE IInv'
  BY <1>3, ReleaseExclusiveStep, ReleaseSharedStep DEF Release
<1>4. ASSUME NEW o \in Owners, Continue(o) PROVE IInv'
  <2>1. CASE AllocateEvent(o) \/ AllocateSemaphore(o)
    BY <2>1, AllocateStep
  <2>2. CASE ExpandOwnerTable(o)
    BY <2>2, ExpandStep
  <2>3. CASE Again(o)
    BY <2>3, StartStep
  <2>4. CASE WakeShared(o) \/ WakeUnlisted(o) \/ ListWoken(o)
    BY <2>4, WakeSharedStep, WakeUnlistedStep, ListWokenStep
  <2>5. CASE WakeExclusive(o) \/ SetOwner(o)
    BY <2>5, WakeExclusiveStep, SetOwnerStep
  <2>6. CASE ReleaseSemaphore(o) \/ SetEvent(o)
    BY <2>6, ReleaseSemaphoreStep, SetEventStep
  <2> QED BY <1>4, <2>1, <2>2, <2>3, <2>4, <2>5, <2>6 DEF Continue
<1>5. CASE Reinitialize
  BY <1>5, ReinitializeStep
<1>6. CASE UNCHANGED vars
  BY <1>6, StutterStep
<1> QED BY <1>1, <1>2, <1>3, <1>4, <1>5, <1>6 DEF Next

(* The inductive invariant holds, for every number of threads and owner     *)
(* pointers, every depth of recursion and every size of the owner table.    *)
THEOREM ResourceInvariance == Spec => []IInv
<1>1. Init => IInv
  BY InitInvariant
<1>2. IInv /\ [Next]_vars => IInv'
  BY NextInvariant
<1> QED BY <1>1, <1>2, PTL DEF Spec

-----------------------------------------------------------------------------
(* A set of owners that has no members.                                     *)
LEMMA NoMembers ==
    ASSUME NEW S \in SUBSET Owners, Cardinality(S) = 0
    PROVE  S = {}
<1>1. IsFiniteSet(S)
  BY Constants, FS_Subset
<1> QED BY <1>1, FS_EmptySet, Zenon

(* Every waiter is counted by NumberOfSharedWaiters or                      *)
(* NumberOfExclusiveWaiters, or a grant is on its way to one of them, and   *)
(* somebody is active whom the waiters wait for: ExReleaseResourceLite and  *)
(* ExConvertExclusiveToSharedLite lose no wake-up and make none too many.   *)
THEOREM WakeUpsMatchWaiters == Spec => []WaitersCounted
<1>1. IInv => WaitersCounted
  BY DEF IInv, Counting, WaitersCounted, SharedQueue, ExclusiveQueue
<1> QED BY <1>1, ResourceInvariance, PTL

(* ActiveEntries and ActiveCount agree with who has the resource or is      *)
(* being given it, in every interleaving of the calls with the releases of  *)
(* the semaphore and the event after the spin lock is dropped: an exclusive *)
(* owner is alone.                                                          *)
THEOREM OwnersAreCounted == Spec => []ActiveCountsOwners
<1>1. ASSUME IInv PROVE ActiveCountsOwners
  <2>0. TypeOK /\ Counting /\ Numbers
    BY <1>1, CountFacts DEF IInv
  <2>1. activeCount = Number(activeEntries > 0)
    BY <2>0 DEF Counting
  <2>2. ASSUME exclusive
        PROVE  /\ activeEntries = 1 /\ In("S") = {}
               /\ SharedGrants = 0 /\ At("List") = {} /\ \A o \in Owners : loc[o].call # "List"
               /\ Cardinality(In("X") \cup At("SetOwner")) + ExclusiveGrants = 1
    <3>1. /\ activeEntries = 1 /\ Sharing = 0 /\ SharedGrants = 0 /\ Listing = 0
          /\ Owning + ExclusiveGrants = 1
      BY <2>0, <2>2 DEF Counting
    <3>2. In("S") = {}
      BY <3>1, NoMembers DEF Sharing, In
    <3>3. {o \in Owners : loc[o].call = "List"} = {}
      BY <3>1, NoMembers DEF Listing
    <3>4. \A o \in Owners : loc[o].call # "List"
      BY <3>3
    <3>5. At("List") = {}
      BY <1>1, <3>4, OwnerFacts DEF At, CallOK
    <3> QED BY <3>1, <3>2, <3>4, <3>5 DEF Owning
  <2>3. ASSUME ~exclusive
        PROVE  /\ In("X") \cup At("SetOwner") = {} /\ ExclusiveGrants = 0
               /\ activeEntries = Cardinality(In("S")) + SharedGrants
                      + Cardinality({o \in Owners : loc[o].call = "List"})
    <3>1. Owning = 0 /\ ExclusiveGrants = 0 /\ activeEntries = Sharing + SharedGrants + Listing
      BY <2>0, <2>3 DEF Counting
    <3>2. In("X") \cup At("SetOwner") = {}
      <4>1. In("X") \cup At("SetOwner") \in SUBSET Owners
        BY DEF In, At
      <4> QED BY <3>1, <4>1, NoMembers DEF Owning
    <3> QED BY <3>1, <3>2 DEF Sharing, Listing
  <2> QED BY <2>0, <2>1, <2>2, <2>3 DEF ActiveCountsOwners
<1> QED BY <1>1, ResourceInvariance, PTL

(* The owner entries name each owner and each waiter that reserved an entry *)
(* once, with its number of acquisitions, through every expansion of the    *)
(* table that races others (ExpExpandResourceOwnerTable) and every transfer *)
(* of ExSetResourceOwnerPointer.                                            *)
THEOREM EveryOwnerIsNamed == Spec => []EntriesNameOwners
<1>1. ASSUME IInv PROVE EntriesNameOwners
  <2>0. TypeOK /\ Named(Entries, Counts)
    BY <1>1 DEF IInv
  <2>1. Indices = DOMAIN Entries /\ \A i \in Indices : Entry(i) = Entries[i]
    BY <2>0, EntryFacts DEF Indices
  <2>2. \A i \in Indices : Entry(i).thread = NoOwner => Entry(i).count = 0
    BY <2>0, <2>1 DEF Named
  <2>3. ASSUME NEW o \in Owners
        PROVE  LET mine == {i \in Indices : Entry(i).thread = o} IN
               /\ Cardinality(mine) = Number(Count(o) > 0)
               /\ \A i \in mine : Entry(i).count = Count(o)
               /\ held[o].mode = "X" => mine = {0}
    <3> DEFINE mine == {i \in Indices : Entry(i).thread = o}
    <3>1. Counts[o] = Count(o) /\ Counts[o] \in Nat
      BY <1>1, OwnerFacts DEF Counts, Count
    <3>2. \A i \in mine : Entry(i).count = Count(o) /\ Count(o) > 0
      BY <1>1, <2>1, <3>1, OwnerFacts
    <3>3. CASE mine = {}
      <4>1. Counts[o] = 0
        BY <1>1, <2>1, <3>3, OwnerFacts
      <4>2. ~(Count(o) > 0)
        BY <3>1, <4>1
      <4>3. Cardinality(mine) = Number(Count(o) > 0)
        BY <3>3, <4>2, FS_EmptySet DEF Number
      <4>4. held[o].mode # "X"
        BY <1>1, <2>0, <2>1, <3>3, OwnerFacts, EntryFacts
      <4> QED BY <3>2, <4>3, <4>4
    <3>4. CASE mine # {}
      <4>1. PICK i \in mine : TRUE
        BY <3>4
      <4>2. mine = {i}
        BY <2>0, <2>1, <4>1 DEF Named
      <4>3. Cardinality(mine) = 1
        BY <4>2, FS_Singleton
      <4>4. Count(o) > 0
        BY <3>2, <4>1
      <4>5. Cardinality(mine) = Number(Count(o) > 0)
        BY <4>3, <4>4 DEF Number
      <4>6. held[o].mode = "X" => 0 \in mine
        BY <1>1, <2>0, <2>1, OwnerFacts, EntryFacts
      <4> QED BY <3>2, <4>2, <4>5, <4>6
    <3> QED BY <3>3, <3>4
  <2> QED BY <2>2, <2>3 DEF EntriesNameOwners
<1> QED BY <1>1, ResourceInvariance, PTL

(* The first entry is never one that a waiter has reserved, so that         *)
(* ExReleaseResourceForThreadLite may overwrite it when it gives exclusive  *)
(* access away; it says 1 exactly while that access is on its way; and a    *)
(* woken sharer that looks for an entry has none.                           *)
THEOREM FirstEntryIsNotReserved == Spec => []FirstEntryFree
<1>1. ASSUME IInv PROVE FirstEntryFree
  <2>0. TypeOK /\ Counting /\ Numbers
    BY <1>1, CountFacts DEF IInv
  <2>1. ownerEntry.thread = HandedOver <=> At("SetOwner") # {} \/ ExclusiveGrants > 0
    <3>1. At("SetOwner") = {} <=> Taking = 0
      <4>1. At("SetOwner") \in SUBSET Owners
        BY DEF At
      <4>2. Taking = 0 => At("SetOwner") = {}
        BY <4>1, NoMembers DEF Taking
      <4> QED BY <4>2, FS_EmptySet DEF Taking
    <3>2. Taking + ExclusiveGrants > 0 <=> Taking # 0 \/ ExclusiveGrants > 0
      BY <2>0 DEF Numbers
    <3> QED BY <2>0, <3>1, <3>2 DEF Counting
  <2>2. ownerEntry.thread \in Owners => held[ownerEntry.thread].n > 0
    BY <1>1, OwnerFacts
  <2>3. ASSUME NEW t \in At("List")
        PROVE  ~exclusive /\ activeEntries > 0 /\ EntryOf(t) = None
    <3>1. t \in Owners /\ pc[t] = "List"
      BY DEF At
    <3>2. loc[t].call = "List" /\ Counts[t] = 0
      BY <1>1, <3>1, OwnerFacts DEF CallOK
    <3>3. Listing > 0
      BY <2>0, <3>1, <3>2, Situations
    <3>4. ~exclusive /\ activeEntries > 0
      BY <2>0, <3>3 DEF Counting, Numbers
    <3>5. EntryOf(t) = None
      BY <1>1, <2>0, <3>1, <3>2, OwnerFound, OwnerFacts
    <3> QED BY <3>4, <3>5
  <2> QED BY <2>1, <2>2, <2>3 DEF FirstEntryFree
<1> QED BY <1>1, ResourceInvariance, PTL
=============================================================================
