---------------------------- MODULE CondVarProofs ----------------------------
(***************************************************************************)
(* Proofs about CondVar and the keyed event it sleeps on: a wait and a     *)
(* release of one key meet, no entry is touched after its owner returned,  *)
(* and a wake takes the oldest entry, or all of them, off the list.        *)
(***************************************************************************)
EXTENDS CondVar, DataTheorems

-----------------------------------------------------------------------------
(* What the operations do to a sequence without duplicates. *)

(* The least index of a set of them.                                        *)
LEMMA LeastIndex ==
    ASSUME NEW n \in Nat, NEW I, I \subseteq 1 .. n, I # {}
    PROVE  Min(I) \in I /\ \A j \in I : Min(I) <= j
<1>1. I \in SUBSET Nat
  OBVIOUS
<1>2. \E i \in I : \A j \in I : i <= j
  BY <1>1, LeastNumber
<1> QED BY <1>2 DEF Min

(* An element is put at the end, or in front.                               *)
LEMMA Appended ==
    ASSUME NEW T, NEW s \in Seq(T), NEW x \in T
    PROVE  /\ Append(s, x) \in Seq(T)
           /\ \A y : Contains(Append(s, x), y) <=> Contains(s, y) \/ y = x
           /\ IsInjective(s) /\ ~Contains(s, x) => IsInjective(Append(s, x))
<1>1. /\ Append(s, x) \in Seq(T) /\ Len(Append(s, x)) = Len(s) + 1 /\ Len(s) \in Nat
      /\ DOMAIN s = 1 .. Len(s) /\ DOMAIN Append(s, x) = 1 .. Len(s) + 1
      /\ \A i \in 1 .. Len(s) : Append(s, x)[i] = s[i]
      /\ Append(s, x)[Len(s) + 1] = x
  OBVIOUS
<1>2. \A y : Contains(Append(s, x), y) <=> Contains(s, y) \/ y = x
  BY <1>1 DEF Contains
<1>3. IsInjective(s) /\ ~Contains(s, x) => IsInjective(Append(s, x))
  BY <1>1 DEF Contains, IsInjective
<1> QED BY <1>1, <1>2, <1>3

(* An element is put in front.                                              *)
LEMMA Consed ==
    ASSUME NEW T, NEW s \in Seq(T), NEW x \in T
    PROVE  /\ Cons(x, s) \in Seq(T) /\ Cons(x, s) # <<>> /\ Head(Cons(x, s)) = x
           /\ \A y : Contains(Cons(x, s), y) <=> Contains(s, y) \/ y = x
           /\ IsInjective(s) /\ ~Contains(s, x) => IsInjective(Cons(x, s))
<1> DEFINE c == Cons(x, s)
<1>1. /\ c \in Seq(T) /\ Len(c) = Len(s) + 1 /\ Len(s) \in Nat
      /\ DOMAIN s = 1 .. Len(s) /\ DOMAIN c = 1 .. Len(s) + 1
      /\ c[1] = x /\ \A i \in 2 .. Len(s) + 1 : c[i] = s[i - 1]
  BY DEF Cons
<1> HIDE DEF c
<1>2. c # <<>> /\ Head(c) = x
  BY <1>1
<1>3. \A i \in 1 .. Len(s) : c[i + 1] = s[i]
  BY <1>1
<1>4. ASSUME NEW y PROVE Contains(c, y) <=> Contains(s, y) \/ y = x
  <2>1. ASSUME NEW i \in 1 .. Len(s) + 1, c[i] = y PROVE Contains(s, y) \/ y = x
    <3>1. CASE i = 1
      BY <1>1, <2>1, <3>1
    <3>2. CASE i # 1
      <4>1. i - 1 \in 1 .. Len(s) /\ i \in 2 .. Len(s) + 1
        BY <1>1, <3>2
      <4>2. s[i - 1] = y
        BY <1>1, <2>1, <4>1
      <4> QED BY <1>1, <4>1, <4>2 DEF Contains
    <3> QED BY <3>1, <3>2
  <2>2. ASSUME NEW i \in 1 .. Len(s), s[i] = y PROVE Contains(c, y)
    <3>1. i + 1 \in 1 .. Len(s) + 1 /\ c[i + 1] = y
      BY <1>1, <1>3, <2>2
    <3> QED BY <1>1, <3>1 DEF Contains
  <2>3. Contains(c, x)
    <3>1. 1 \in 1 .. Len(s) + 1
      BY <1>1
    <3> QED BY <1>1, <3>1 DEF Contains
  <2> QED BY <1>1, <2>1, <2>2, <2>3 DEF Contains
<1>5. IsInjective(s) /\ ~Contains(s, x) => IsInjective(c)
  <2> SUFFICES ASSUME IsInjective(s), ~Contains(s, x), NEW i \in 1 .. Len(s) + 1,
                      NEW j \in 1 .. Len(s) + 1, c[i] = c[j]
               PROVE  i = j
    BY <1>1 DEF IsInjective
  <2>1. CASE i = 1 \/ j = 1
    BY <1>1, <2>1 DEF Contains
  <2>2. CASE i # 1 /\ j # 1
    <3>1. i - 1 \in DOMAIN s /\ j - 1 \in DOMAIN s /\ s[i - 1] = s[j - 1]
      BY <1>1, <2>2
    <3> QED BY <3>1 DEF IsInjective
  <2> QED BY <2>1, <2>2
<1> QED BY <1>1, <1>2, <1>4, <1>5 DEF c

(* The element at an index is taken out.                                    *)
LEMMA RemovedAt ==
    ASSUME NEW T, NEW s \in Seq(T), NEW i \in 1 .. Len(s)
    PROVE  /\ RemoveAt(s, i) \in Seq(T) /\ Len(RemoveAt(s, i)) = Len(s) - 1
           /\ \A k \in 1 .. Len(s) - 1 :
                RemoveAt(s, i)[k] = IF k < i THEN s[k] ELSE s[k + 1]
<1> DEFINE a == SubSeq(s, 1, i - 1)
           b == SubSeq(s, i + 1, Len(s))
<1>1. a \in Seq(T) /\ Len(a) = i - 1 /\ \A k \in 1 .. i - 1 : a[k] = s[k]
  OBVIOUS
<1>2. b \in Seq(T) /\ Len(b) = Len(s) - i /\ \A k \in 1 .. Len(s) - i : b[k] = s[k + i]
  OBVIOUS
<1>3. RemoveAt(s, i) = a \o b
  BY DEF RemoveAt
<1> HIDE DEF a, b
<1>4. a \o b \in Seq(T) /\ Len(a \o b) = Len(s) - 1
  <2>1. a \in Seq(T) /\ b \in Seq(T)
    BY <1>1, <1>2
  <2>2. a \o b \in Seq(T) /\ Len(a \o b) = Len(a) + Len(b)
    BY <2>1
  <2>3. Len(a) = i - 1 /\ Len(b) = Len(s) - i /\ Len(s) \in Nat
    BY <1>1, <1>2
  <2> QED BY <2>2, <2>3
<1>5. ASSUME NEW k \in 1 .. Len(s) - 1
      PROVE  (a \o b)[k] = IF k < i THEN s[k] ELSE s[k + 1]
  <2>1. CASE k < i
    BY <1>1, <1>2, <2>1
  <2>2. CASE ~(k < i)
    <3>1. (a \o b)[k] = b[k - (i - 1)]
      BY <1>1, <1>2, <2>2
    <3>2. k - (i - 1) \in 1 .. Len(s) - i /\ (k - (i - 1)) + i = k + 1
      BY <2>2
    <3>3. b[k - (i - 1)] = s[(k - (i - 1)) + i]
      BY <1>2, <3>2
    <3> QED BY <2>2, <3>1, <3>2, <3>3
  <2> QED BY <2>1, <2>2
<1> QED BY <1>3, <1>4, <1>5

(* An element is taken out, if it is there.                                 *)
LEMMA Removed ==
    ASSUME NEW T, NEW s \in Seq(T), IsInjective(s), NEW x
    PROVE  /\ RemoveFirst(s, x) \in Seq(T) /\ IsInjective(RemoveFirst(s, x))
           /\ \A y : Contains(RemoveFirst(s, x), y) <=> Contains(s, y) /\ y # x
           /\ \A p \in 1 .. Len(s) : s[p] = x =>
                /\ Len(RemoveFirst(s, x)) = Len(s) - 1
                /\ \A k \in 1 .. p - 1 : RemoveFirst(s, x)[k] = s[k]
<1>0. DOMAIN s = 1 .. Len(s) /\ Len(s) \in Nat
  OBVIOUS
<1>1. CASE ~Contains(s, x)
  <2>1. RemoveFirst(s, x) = s
    BY <1>1 DEF RemoveFirst, Contains
  <2> QED BY <1>0, <1>1, <2>1 DEF Contains
<1>2. ASSUME NEW p \in 1 .. Len(s), s[p] = x
      PROVE  /\ RemoveFirst(s, x) \in Seq(T) /\ IsInjective(RemoveFirst(s, x))
             /\ \A y : Contains(RemoveFirst(s, x), y) <=> Contains(s, y) /\ y # x
             /\ Len(RemoveFirst(s, x)) = Len(s) - 1
             /\ \A k \in 1 .. p - 1 : RemoveFirst(s, x)[k] = s[k]
  <2> DEFINE I == {i \in 1 .. Len(s) : s[i] = x}
             r == RemoveAt(s, p)
  <2>1. RemoveFirst(s, x) = RemoveAt(s, Min(I))
    BY <1>2 DEF RemoveFirst, SelectInSeq
  <2>2. I = {p}
    BY <1>0, <1>2 DEF IsInjective
  <2>3. Min(I) = p
    BY <2>2 DEF Min
  <2>4. /\ r \in Seq(T) /\ Len(r) = Len(s) - 1 /\ DOMAIN r = 1 .. Len(s) - 1
        /\ \A k \in 1 .. Len(s) - 1 : r[k] = IF k < p THEN s[k] ELSE s[k + 1]
    BY RemovedAt
  <2> HIDE DEF r
  <2>5. IsInjective(r)
    <3> SUFFICES ASSUME NEW i \in 1 .. Len(s) - 1, NEW j \in 1 .. Len(s) - 1, r[i] = r[j]
                 PROVE  i = j
      BY <2>4 DEF IsInjective
    <3> DEFINE a == IF i < p THEN i ELSE i + 1
               b == IF j < p THEN j ELSE j + 1
    <3>1. r[i] = s[a] /\ r[j] = s[b] /\ a \in 1 .. Len(s) /\ b \in 1 .. Len(s)
      BY <1>0, <2>4
    <3>2. a = b
      BY <1>0, <3>1 DEF IsInjective
    <3> QED BY <3>2
  <2>6. ASSUME NEW y PROVE Contains(r, y) <=> Contains(s, y) /\ y # x
    <3>1. ASSUME NEW k \in 1 .. Len(s) - 1, r[k] = y PROVE Contains(s, y) /\ y # x
      <4> DEFINE a == IF k < p THEN k ELSE k + 1
      <4>1. s[a] = y /\ a \in 1 .. Len(s) /\ a # p
        BY <1>0, <2>4, <3>1
      <4> HIDE DEF a
      <4> QED BY <4>1, <1>0, <1>2 DEF Contains, IsInjective
    <3>2. ASSUME NEW k \in 1 .. Len(s), s[k] = y, y # x PROVE Contains(r, y)
      <4> DEFINE a == IF k < p THEN k ELSE k - 1
      <4>1. k # p
        BY <3>2, <1>2
      <4>2. r[a] = y /\ a \in 1 .. Len(s) - 1
        BY <1>0, <2>4, <3>2, <4>1
      <4> HIDE DEF a
      <4> QED BY <4>2, <2>4 DEF Contains
    <3> QED BY <3>1, <3>2, <2>4 DEF Contains
  <2>7. \A k \in 1 .. p - 1 : r[k] = s[k]
    BY <1>0, <2>4
  <2>8. RemoveFirst(s, x) = r
    BY <2>1, <2>3 DEF r
  <2> QED BY <2>4, <2>5, <2>6, <2>7, <2>8
<1>3. CASE Contains(s, x)
  <2>1. PICK p \in 1 .. Len(s) : s[p] = x
    BY <1>3 DEF Contains
  <2> HIDE DEF Contains
  <2> QED BY <1>2, <2>1
<1> QED BY <1>1, <1>3

(* Partner is the first thread of a list with the key, if there is one.     *)
LEMMA PartnerIs ==
    ASSUME NEW s \in Seq(Threads), NEW k
    PROVE  /\ \A u \in Partner(s, k) : u \in Threads /\ Contains(s, u) /\ keyed[u].key = k
           /\ Partner(s, k) = {} => \A u : Contains(s, u) => keyed[u].key # k
<1> DEFINE I == {i \in 1 .. Len(s) : keyed[s[i]].key = k}
<1>1. Partner(s, k) = IF (IF I # {} THEN Min(I) ELSE 0) = 0 THEN {}
                      ELSE {s[IF I # {} THEN Min(I) ELSE 0]}
  BY DEF Partner, SelectInSeq
<1>2. Len(s) \in Nat /\ I \subseteq 1 .. Len(s)
  OBVIOUS
<1>3. CASE I = {}
  <2>1. Partner(s, k) = {}
    BY <1>1, <1>3
  <2> QED BY <1>3, <2>1 DEF Contains
<1>4. CASE I # {}
  <2> DEFINE m == Min(I)
  <2> HIDE DEF I
  <2>1. m \in I
    BY <1>2, <1>4, LeastIndex
  <2> HIDE DEF m
  <2>2. m \in 1 .. Len(s) /\ keyed[s[m]].key = k
    BY <2>1 DEF I
  <2>3. m # 0 /\ s[m] \in Threads
    BY <1>2, <2>2
  <2>4. Partner(s, k) = {s[m]}
    BY <1>1, <1>4, <2>3 DEF m
  <2> QED BY <2>2, <2>3, <2>4 DEF Contains
<1> QED BY <1>3, <1>4

-----------------------------------------------------------------------------
(* The keyed event.  Whom its lists name, and what they say of a thread. *)
OnWait(t)    == Contains(waitList, t)
OnRelease(t) == Contains(releaseList, t)

KeyedCall == [at : {"Out", "Waiting", "TimedOut", "SUCCESS", "TIMEOUT"},
              key : Keys \cup {NoKey}, timeout : BOOLEAN, semaphore : 0 .. 1]
Expecting(c) == c.at \in {"Waiting", "TimedOut"} /\ c.semaphore = 0

Paired ==
    /\ waitList \in Seq(Threads) /\ releaseList \in Seq(Threads)
    /\ keyed \in [Threads -> KeyedCall]
    /\ IsInjective(waitList) /\ IsInjective(releaseList)
    /\ \A t \in Threads : OnWait(t) \/ OnRelease(t) <=> Expecting(keyed[t])
    /\ \A t, u \in Threads : OnWait(t) /\ OnRelease(u) => keyed[t].key # keyed[u].key

(* The others in the keyed event are not affected.                          *)
Apart(S) == \A v \in Threads \ S : keyed'[v] = keyed[v]

(* It does say what it means.                                               *)
LEMMA PairedMeans == Paired => RendezvousPaired
<1> SUFFICES ASSUME Paired PROVE RendezvousPaired
  OBVIOUS
<1> DEFINE all == waitList \o releaseList
<1>1. waitList \in Seq(Threads) /\ releaseList \in Seq(Threads)
  BY DEF Paired
<1>2. /\ all \in Seq(Threads) /\ Len(all) = Len(waitList) + Len(releaseList)
      /\ DOMAIN all = 1 .. Len(waitList) + Len(releaseList)
      /\ DOMAIN waitList = 1 .. Len(waitList) /\ DOMAIN releaseList = 1 .. Len(releaseList)
      /\ Len(waitList) \in Nat /\ Len(releaseList) \in Nat
  BY <1>1
<1>3. /\ \A i \in 1 .. Len(waitList) : all[i] = waitList[i]
      /\ \A i \in 1 .. Len(releaseList) : all[Len(waitList) + i] = releaseList[i]
  BY <1>1, <1>2
<1>4. /\ \A i \in 1 .. Len(waitList) : OnWait(waitList[i]) /\ waitList[i] \in Threads
      /\ \A i \in 1 .. Len(releaseList) : OnRelease(releaseList[i]) /\ releaseList[i] \in Threads
  BY <1>1 DEF OnWait, OnRelease, Contains
<1> HIDE DEF all
<1>5. KeyedTypeOK
  BY DEF Paired, KeyedTypeOK, KeyedCall
<1>6. \A i \in DOMAIN waitList, j \in DOMAIN releaseList :
         keyed[waitList[i]].key # keyed[releaseList[j]].key
  BY <1>2, <1>4 DEF Paired
<1>7. IsInjective(all)
  <2> SUFFICES ASSUME NEW i \in 1 .. Len(all), NEW j \in 1 .. Len(all), all[i] = all[j]
               PROVE  i = j
    BY <1>2 DEF IsInjective
  <2> DEFINE n == Len(waitList)
             m == Len(releaseList)
  <2>1. CASE i <= n /\ j <= n
    <3>1. i \in 1 .. n /\ j \in 1 .. n
      BY <2>1, <1>2
    <3>2. waitList[i] = waitList[j]
      BY <3>1, <1>3
    <3> QED BY <3>1, <3>2, <1>2 DEF Paired, IsInjective
  <2>2. CASE ~(i <= n) /\ ~(j <= n)
    <3>1. i - n \in 1 .. m /\ j - n \in 1 .. m /\ n + (i - n) = i /\ n + (j - n) = j
      BY <2>2, <1>2
    <3>2. releaseList[i - n] = releaseList[j - n]
      BY <3>1, <1>3
    <3>3. i - n = j - n
      BY <3>1, <3>2, <1>2 DEF Paired, IsInjective
    <3> QED BY <3>1, <3>3, <1>2
  <2>3. ASSUME NEW k \in 1 .. n, NEW l \in 1 .. Len(all), ~(l <= n), all[k] = all[l] PROVE FALSE
    <3>1. l - n \in 1 .. m /\ n + (l - n) = l
      BY <2>3, <1>2
    <3>2. all[k] = waitList[k] /\ all[l] = releaseList[l - n]
      BY <3>1, <1>3
    <3>3. keyed[waitList[k]].key # keyed[releaseList[l - n]].key
      BY <3>1, <1>2, <1>6
    <3> QED BY <2>3, <3>2, <3>3
  <2> QED BY <2>1, <2>2, <2>3, <1>2
<1>8. ASSUME NEW t \in Threads PROVE Contains(all, t) <=> OnWait(t) \/ OnRelease(t)
  <2>1. OnWait(t) \/ OnRelease(t) => Contains(all, t)
    BY <1>2, <1>3 DEF OnWait, OnRelease, Contains
  <2>2. ASSUME NEW i \in 1 .. Len(all), all[i] = t PROVE OnWait(t) \/ OnRelease(t)
    <3>1. CASE i <= Len(waitList)
      BY <2>2, <3>1, <1>2, <1>3, <1>4
    <3>2. CASE ~(i <= Len(waitList))
      <4>1. i - Len(waitList) \in 1 .. Len(releaseList) /\ Len(waitList) + (i - Len(waitList)) = i
        BY <3>2, <1>2
      <4> QED BY <2>2, <4>1, <1>3, <1>4
    <3> QED BY <3>1, <3>2
  <2> QED BY <2>1, <2>2 DEF Contains
<1>9. \A t \in Threads : Contains(all, t) <=>
          keyed[t].at \in {"Waiting", "TimedOut"} /\ keyed[t].semaphore = 0
  BY <1>8 DEF Paired, Expecting
<1> QED BY <1>5, <1>6, <1>7, <1>9 DEF RendezvousPaired, all

(* A thread that is not in the event is on no list, and its key is none.    *)
LEMMA NoCallFacts ==
    ASSUME Paired, NEW t \in Threads, keyed[t] = NoCall
    PROVE  /\ ~OnWait(t) /\ ~OnRelease(t)
           /\ keyed[t].at = "Out" /\ keyed[t].key = NoKey /\ keyed[t].semaphore = 0
  BY DEF Paired, Expecting, NoCall

(* The fields of a call.                                                    *)
LEMMA CallFields ==
    /\ NoCall \in KeyedCall
    /\ \A c \in KeyedCall : /\ c.semaphore \in {0, 1} /\ c.key \in Keys \cup {NoKey}
                            /\ c.timeout \in BOOLEAN
    /\ \A a \in {"SUCCESS", "TIMEOUT"} :
         /\ [NoCall EXCEPT !.at = a] \in KeyedCall
         /\ [NoCall EXCEPT !.at = a].at = a /\ [NoCall EXCEPT !.at = a].semaphore = 0
         /\ ~Expecting([NoCall EXCEPT !.at = a])
<1>1. NoCall \in KeyedCall
  BY DEF KeyedCall, NoCall
<1>2. \A c \in KeyedCall : /\ c.semaphore \in {0, 1} /\ c.key \in Keys \cup {NoKey}
                            /\ c.timeout \in BOOLEAN
  BY DEF KeyedCall
<1>3. ASSUME NEW a \in {"SUCCESS", "TIMEOUT"}
      PROVE  /\ [NoCall EXCEPT !.at = a] \in KeyedCall
             /\ [NoCall EXCEPT !.at = a].at = a /\ [NoCall EXCEPT !.at = a].semaphore = 0
  <2>1. \A c \in KeyedCall : /\ [c EXCEPT !.at = a] \in KeyedCall
                              /\ [c EXCEPT !.at = a].at = a
                              /\ [c EXCEPT !.at = a].semaphore = c.semaphore
    BY DEF KeyedCall
  <2>2. NoCall.semaphore = 0
    BY DEF NoCall
  <2> QED BY <1>1, <2>1, <2>2
<1>4. \A a \in {"SUCCESS", "TIMEOUT"} : ~Expecting([NoCall EXCEPT !.at = a])
  BY <1>3 DEF Expecting
<1> QED BY <1>1, <1>2, <1>3, <1>4

(* t finds u, which is on one of the lists, and takes it off.               *)
LEMMA MeetEffect ==
    ASSUME Paired, NEW t \in Threads, NEW u \in Threads, keyed[t] = NoCall,
           OnWait(u) \/ OnRelease(u), Meet(t, u)
    PROVE  /\ Paired' /\ u # t /\ Apart({t, u})
           /\ keyed'[t].at = "SUCCESS" /\ keyed'[t].key = NoKey /\ keyed'[t].semaphore = 0
           /\ keyed'[u].at = keyed[u].at /\ keyed'[u].key = keyed[u].key
           /\ keyed'[u].semaphore = 1
           /\ \A v : OnWait(v)' <=> OnWait(v) /\ v # u
           /\ \A v : OnRelease(v)' <=> OnRelease(v) /\ v # u
<1>1. u # t /\ Expecting(keyed[u]) /\ ~Expecting(keyed[t])
  BY NoCallFacts DEF Paired
<1>2. keyed[t] \in KeyedCall /\ keyed[u] \in KeyedCall /\ keyed[u].semaphore = 0
  BY <1>1 DEF Paired, Expecting
<1>3. /\ keyed'[t] = [keyed[t] EXCEPT !.at = "SUCCESS"]
      /\ keyed'[u] = [keyed[u] EXCEPT !.semaphore = keyed[u].semaphore + 1]
      /\ Apart({t, u}) /\ DOMAIN keyed' = Threads
      /\ keyed' = [v \in Threads |-> keyed'[v]]
  BY <1>1 DEF Paired, Meet, Apart
<1>4. /\ keyed'[t].at = "SUCCESS" /\ keyed'[t].key = NoKey /\ keyed'[t].semaphore = 0
      /\ keyed'[t] \in KeyedCall
  BY <1>2, <1>3, NoCallFacts DEF KeyedCall
<1>5. /\ keyed'[u].at = keyed[u].at /\ keyed'[u].key = keyed[u].key
      /\ keyed'[u].semaphore = 1 /\ keyed'[u] \in KeyedCall
  BY <1>2, <1>3 DEF KeyedCall
<1>6. keyed' \in [Threads -> KeyedCall]
  BY <1>3, <1>4, <1>5 DEF Apart, Paired
<1>7. /\ waitList' \in Seq(Threads) /\ IsInjective(waitList')
      /\ \A v : OnWait(v)' <=> OnWait(v) /\ v # u
  BY Removed DEF Paired, Meet, OnWait
<1>8. /\ releaseList' \in Seq(Threads) /\ IsInjective(releaseList')
      /\ \A v : OnRelease(v)' <=> OnRelease(v) /\ v # u
  BY Removed DEF Paired, Meet, OnRelease
<1>9. ASSUME NEW v \in Threads
      PROVE  OnWait(v)' \/ OnRelease(v)' <=> Expecting(keyed'[v])
  <2>1. CASE v \notin {t, u}
    BY <2>1, <1>3, <1>7, <1>8 DEF Apart, Paired
  <2>2. CASE v = t
    BY <2>2, <1>4, <1>7, <1>8, NoCallFacts DEF Expecting
  <2>3. CASE v = u
    BY <2>3, <1>5, <1>7, <1>8 DEF Expecting
  <2> QED BY <2>1, <2>2, <2>3
<1>10. ASSUME NEW v \in Threads, NEW w \in Threads, OnWait(v)', OnRelease(w)'
       PROVE  keyed'[v].key # keyed'[w].key
  <2>1. v \notin {t, u} /\ w \notin {t, u} /\ OnWait(v) /\ OnRelease(w)
    BY <1>7, <1>8, <1>10, NoCallFacts
  <2> QED BY <2>1, <1>3 DEF Apart, Paired
<1>11. Paired'
  BY <1>6, <1>7, <1>8, <1>9, <1>10 DEF Paired
<1> QED BY <1>1, <1>3, <1>4, <1>5, <1>7, <1>8, <1>11

(* t finds nobody, and joins the list of the waits.                         *)
LEMMA WaitEnlists ==
    ASSUME Paired, NEW t \in Threads, NEW k \in Keys, NEW b \in BOOLEAN, keyed[t] = NoCall,
           Partner(releaseList, k) = {}, Enlist(t, k, b),
           waitList' = Append(waitList, t), UNCHANGED releaseList
    PROVE  /\ Paired' /\ Apart({t})
           /\ keyed'[t].at = "Waiting" /\ keyed'[t].key = k /\ keyed'[t].semaphore = 0
           /\ \A v : OnWait(v)' <=> OnWait(v) \/ v = t
           /\ \A v : OnRelease(v)' <=> OnRelease(v)
<1>1. /\ keyed'[t] = [at |-> "Waiting", key |-> k, timeout |-> b, semaphore |-> 0]
      /\ Apart({t}) /\ keyed' = [v \in Threads |-> keyed'[v]]
  BY DEF Paired, Enlist, Apart
<1>2. /\ keyed'[t].at = "Waiting" /\ keyed'[t].key = k /\ keyed'[t].semaphore = 0
      /\ keyed'[t] \in KeyedCall
  BY <1>1 DEF KeyedCall
<1>3. keyed' \in [Threads -> KeyedCall]
  BY <1>1, <1>2 DEF Apart, Paired
<1>4. ~OnWait(t) /\ ~OnRelease(t)
  BY NoCallFacts
<1>5. /\ waitList' \in Seq(Threads) /\ IsInjective(waitList')
      /\ \A v : OnWait(v)' <=> OnWait(v) \/ v = t
  BY <1>4, Appended DEF Paired, OnWait
<1>6. \A v : OnRelease(v)' <=> OnRelease(v)
  BY DEF OnRelease
<1>7. ASSUME NEW v \in Threads
      PROVE  OnWait(v)' \/ OnRelease(v)' <=> Expecting(keyed'[v])
  BY <1>1, <1>2, <1>5, <1>6 DEF Apart, Paired, Expecting
<1>8. \A v : OnRelease(v) => keyed[v].key # k
  BY PartnerIs DEF Paired, OnRelease
<1>9. ASSUME NEW v \in Threads, NEW w \in Threads, OnWait(v)', OnRelease(w)'
      PROVE  keyed'[v].key # keyed'[w].key
  <2>1. OnRelease(w) /\ w # t /\ keyed'[w] = keyed[w]
    BY <1>1, <1>4, <1>6, <1>9 DEF Apart
  <2>2. CASE v = t
    BY <2>1, <2>2, <1>2, <1>8
  <2>3. CASE v # t
    BY <2>1, <2>3, <1>1, <1>5, <1>9 DEF Apart, Paired
  <2> QED BY <2>2, <2>3
<1>10. Paired'
  BY <1>3, <1>5, <1>6, <1>7, <1>9 DEF Paired
<1> QED BY <1>1, <1>2, <1>5, <1>6, <1>10

(* ... or the list of the releases.                                         *)
LEMMA ReleaseEnlists ==
    ASSUME Paired, NEW t \in Threads, NEW k \in Keys, NEW b \in BOOLEAN, keyed[t] = NoCall,
           Partner(waitList, k) = {}, Enlist(t, k, b),
           releaseList' = Append(releaseList, t), UNCHANGED waitList
    PROVE  /\ Paired' /\ Apart({t})
           /\ keyed'[t].at = "Waiting" /\ keyed'[t].key = k /\ keyed'[t].semaphore = 0
           /\ \A v : OnWait(v)' <=> OnWait(v)
           /\ \A v : OnRelease(v)' <=> OnRelease(v) \/ v = t
<1>1. /\ keyed'[t] = [at |-> "Waiting", key |-> k, timeout |-> b, semaphore |-> 0]
      /\ Apart({t}) /\ keyed' = [v \in Threads |-> keyed'[v]]
  BY DEF Paired, Enlist, Apart
<1>2. /\ keyed'[t].at = "Waiting" /\ keyed'[t].key = k /\ keyed'[t].semaphore = 0
      /\ keyed'[t] \in KeyedCall
  BY <1>1 DEF KeyedCall
<1>3. keyed' \in [Threads -> KeyedCall]
  BY <1>1, <1>2 DEF Apart, Paired
<1>4. ~OnWait(t) /\ ~OnRelease(t)
  BY NoCallFacts
<1>5. /\ releaseList' \in Seq(Threads) /\ IsInjective(releaseList')
      /\ \A v : OnRelease(v)' <=> OnRelease(v) \/ v = t
  BY <1>4, Appended DEF Paired, OnRelease
<1>6. \A v : OnWait(v)' <=> OnWait(v)
  BY DEF OnWait
<1>7. ASSUME NEW v \in Threads
      PROVE  OnWait(v)' \/ OnRelease(v)' <=> Expecting(keyed'[v])
  BY <1>1, <1>2, <1>5, <1>6 DEF Apart, Paired, Expecting
<1>8. \A v : OnWait(v) => keyed[v].key # k
  BY PartnerIs DEF Paired, OnWait
<1>9. ASSUME NEW v \in Threads, NEW w \in Threads, OnWait(v)', OnRelease(w)'
      PROVE  keyed'[v].key # keyed'[w].key
  <2>1. OnWait(v) /\ v # t /\ keyed'[v] = keyed[v]
    BY <1>1, <1>4, <1>6, <1>9 DEF Apart
  <2>2. CASE w = t
    BY <2>1, <2>2, <1>2, <1>8
  <2>3. CASE w # t
    BY <2>1, <2>3, <1>1, <1>5, <1>9 DEF Apart, Paired
  <2> QED BY <2>2, <2>3
<1>10. Paired'
  BY <1>3, <1>5, <1>6, <1>7, <1>9 DEF Paired
<1> QED BY <1>1, <1>2, <1>5, <1>6, <1>10

(* A call that waits goes on by itself.                                     *)
LEMMA KeyedStepEffect ==
    ASSUME Paired, NEW t \in Threads, KeyedStep(t)
    PROVE  /\ Paired' /\ Apart({t})
           /\ keyed[t].at \in {"Waiting", "TimedOut"}
           /\ OnWait(t)' \/ OnRelease(t)' => keyed'[t].key = keyed[t].key
           /\ \A v : /\ OnWait(v)' => OnWait(v)
                     /\ OnRelease(v)' => OnRelease(v)
                     /\ v # t => (OnWait(v)' <=> OnWait(v)) /\ (OnRelease(v)' <=> OnRelease(v))
<1>0. keyed[t] \in KeyedCall /\ keyed \in [Threads -> KeyedCall]
  BY DEF Paired
<1>1. CASE Signalled(t)
  <2>1. /\ keyed[t].at = "Waiting" /\ keyed[t].semaphore = 1 /\ ~Expecting(keyed[t])
        /\ keyed'[t] = [NoCall EXCEPT !.at = "SUCCESS"] /\ Apart({t})
        /\ UNCHANGED <<waitList, releaseList>>
    BY <1>0, <1>1, CallFields DEF Signalled, Expecting, Apart
  <2>2. keyed'[t] \in KeyedCall /\ ~Expecting(keyed'[t])
    BY <2>1, CallFields
  <2>3. keyed' \in [Threads -> KeyedCall]
    BY <1>0, <1>1, <2>1, <2>2 DEF Signalled
  <2>4. \A v : (OnWait(v)' <=> OnWait(v)) /\ (OnRelease(v)' <=> OnRelease(v))
    BY <2>1 DEF OnWait, OnRelease
  <2>5. ~OnWait(t) /\ ~OnRelease(t)
    BY <2>1 DEF Paired
  <2>6. Paired'
    BY <2>1, <2>2, <2>3, <2>4, <2>5 DEF Paired, Apart
  <2> QED BY <2>1, <2>4, <2>5, <2>6
<1>2. CASE TimeOut(t)
  <2>1. /\ keyed[t].at = "Waiting" /\ keyed[t].semaphore = 0 /\ Expecting(keyed[t])
        /\ keyed'[t] = [keyed[t] EXCEPT !.at = "TimedOut"] /\ Apart({t})
        /\ UNCHANGED <<waitList, releaseList>>
    BY <1>0, <1>2 DEF TimeOut, Expecting, Apart
  <2>2. /\ keyed'[t] \in KeyedCall /\ keyed'[t].key = keyed[t].key
        /\ keyed'[t].semaphore = 0 /\ keyed'[t].at = "TimedOut" /\ Expecting(keyed'[t])
    BY <1>0, <2>1 DEF KeyedCall, Expecting
  <2>3. keyed' \in [Threads -> KeyedCall]
    BY <1>0, <1>2, <2>1, <2>2 DEF TimeOut
  <2>4. \A v : (OnWait(v)' <=> OnWait(v)) /\ (OnRelease(v)' <=> OnRelease(v))
    BY <2>1 DEF OnWait, OnRelease
  <2>5. /\ \A v \in Threads : OnWait(v)' \/ OnRelease(v)' <=> Expecting(keyed'[v])
        /\ \A v \in Threads : keyed'[v].key = keyed[v].key
    BY <2>1, <2>2, <2>4 DEF Paired, Apart
  <2>6. Paired'
    BY <2>1, <2>3, <2>4, <2>5 DEF Paired
  <2> QED BY <2>1, <2>2, <2>4, <2>6
<1>3. CASE Unlist(t)
  <2>1. /\ keyed[t].at = "TimedOut"
        /\ keyed'[t] = [NoCall EXCEPT !.at = "TIMEOUT"] /\ Apart({t})
    BY <1>0, <1>3 DEF Unlist, Apart
  <2>2. /\ keyed'[t] \in KeyedCall /\ keyed'[t].semaphore = 0 /\ keyed'[t].at = "TIMEOUT"
        /\ ~Expecting(keyed'[t])
    BY <2>1, CallFields
  <2>3. keyed' \in [Threads -> KeyedCall]
    BY <1>0, <1>3, <2>1, <2>2 DEF Unlist
  <2>4. /\ waitList' \in Seq(Threads) /\ IsInjective(waitList')
        /\ \A v : OnWait(v)' <=> OnWait(v) /\ v # t
    BY <1>3, Removed DEF Paired, Unlist, OnWait
  <2>5. /\ releaseList' \in Seq(Threads) /\ IsInjective(releaseList')
        /\ \A v : OnRelease(v)' <=> OnRelease(v) /\ v # t
    BY <1>3, Removed DEF Paired, Unlist, OnRelease
  <2>6. \A v \in Threads : OnWait(v)' \/ OnRelease(v)' <=> Expecting(keyed'[v])
    BY <2>1, <2>2, <2>4, <2>5 DEF Paired, Apart
  <2>7. ASSUME NEW v \in Threads, NEW w \in Threads, OnWait(v)', OnRelease(w)'
        PROVE  keyed'[v].key # keyed'[w].key
    BY <2>1, <2>4, <2>5, <2>7 DEF Paired, Apart
  <2>8. Paired'
    BY <2>3, <2>4, <2>5, <2>6, <2>7 DEF Paired
  <2> QED BY <2>1, <2>2, <2>4, <2>5, <2>8
<1> QED BY <1>1, <1>2, <1>3 DEF KeyedStep

(* A call that has returned is over.                                        *)
LEMMA ReturnEffect ==
    ASSUME Paired, NEW t \in Threads, Returned(t), keyed' = [keyed EXCEPT ![t] = NoCall],
           UNCHANGED <<waitList, releaseList>>
    PROVE  /\ Paired' /\ Apart({t}) /\ keyed'[t] = NoCall /\ ~OnWait(t) /\ ~OnRelease(t)
           /\ \A v : (OnWait(v)' <=> OnWait(v)) /\ (OnRelease(v)' <=> OnRelease(v))
<1>1. keyed' \in [Threads -> KeyedCall] /\ keyed'[t] = NoCall /\ Apart({t})
  BY CallFields DEF Paired, Apart
<1>2. ~OnWait(t) /\ ~OnRelease(t) /\ ~Expecting(keyed[t]) /\ ~Expecting(NoCall)
  BY DEF Paired, Expecting, Returned, NoCall
<1>3. \A v : (OnWait(v)' <=> OnWait(v)) /\ (OnRelease(v)' <=> OnRelease(v))
  BY DEF OnWait, OnRelease
<1>4. Paired'
  BY <1>1, <1>2, <1>3 DEF Paired, Apart
<1> QED BY <1>1, <1>2, <1>3, <1>4

-----------------------------------------------------------------------------
(* The condition variable. *)
PCs     == Sleeping \cup Holding \cup {"Idle", "Insert", "Wake", "Reacquire"}
Entries == Threads \cup {NoEntry}
LocalVars == [all : BOOLEAN, entry : Entries, next : Entries, remove : Entries]
Seen == [list : Seq(Threads), asleep : SUBSET Threads, woken : SUBSET Threads]
Word == [head : Entries, locked : BOOLEAN]

Types ==
    /\ word \in Word /\ list \in Seq(Threads) /\ callerLock \subseteq Threads
    /\ handled \in [Threads -> BOOLEAN]
    /\ pc \in [Threads -> PCs] /\ loc \in [Threads -> LocalVars]
    /\ seen \in Seen
    /\ IsInjective(list) /\ IsInjective(seen.list)

(* Threads on their way to the keyed event.                                 *)
Entering == {"Inserted", "Drop", "Sleep"}

(* Whether a thread is on the list the linked entries make.                 *)
Linked(t) == Contains(list, t)

(* Who is in the keyed event, and for which key.                            *)
CallOf(t) ==
    /\ OnWait(t) => pc[t] = "Asleep" /\ keyed[t].key = t
    /\ OnRelease(t) => pc[t] = "Signalled" /\ keyed[t].key = loc[t].entry
    /\ pc[t] \notin {"Asleep", "Signalled"} => keyed[t] = NoCall

(* One thread has the lock of the list.                                     *)
Lock ==
    /\ \A t, u \in Threads : pc[t] \in Holding /\ pc[u] \in Holding => t = u
    /\ word.locked <=> \E t \in Threads : pc[t] \in Holding
    /\ ~word.locked => word.head = Newest

(* The list has the sleepers that have not been told of their removal.      *)
ListedOf(t) ==
    /\ Linked(t) <=> pc[t] \in Sleeping /\ ~handled[t]
    /\ handled[t] => pc[t] \in Sleeping \cup {"Reacquire"}

(* The loop of InternalWake is at p, or has ended there: the entries before *)
(* it are linked as they were when the list was locked and nobody of them   *)
(* has been woken; those behind it are gone, and of these nobody sleeps who *)
(* slept then.                                                              *)
Waking == {"Signal", "Signalled", "WakeUnlock"}
Loop(t, p) ==
    /\ Len(list) <= Len(seen.list) /\ \A i \in 1 .. Len(list) : list[i] = seen.list[i]
    /\ ~loc[t].all => p = Len(seen.list)
    /\ pc[t] # "WakeUnlock" => Len(list) = p /\ loc[t].entry = seen.list[p]
    /\ pc[t] = "Signalled" => loc[t].next = IF p = 1 THEN NoEntry ELSE seen.list[p - 1]
    /\ pc[t] = "WakeUnlock" =>
         /\ loc[t].all => p = 1
         /\ IF loc[t].remove = NoEntry THEN Len(list) = p - 1
            ELSE p = 1 /\ Len(list) = 1 /\ loc[t].remove = seen.list[1]
Past(t, p) ==
    \A j \in 1 .. Len(seen.list) :
        /\ seen.list[j] \in seen.woken => j >= p
        /\ (j > p \/ (j = p /\ pc[t] # "Signal")) /\ seen.list[j] \in seen.asleep
             => ~OnWait(seen.list[j])
Place(t, p) == Loop(t, p) /\ Past(t, p)

(* The locals of a thread that has the list.                                *)
LocalsOf(t) ==
    /\ pc[t] \notin {"SelfUnlock"} \cup Waking => loc[t] = NoLocals
    /\ pc[t] = "SelfUnlock" => /\ loc[t].entry = NoEntry /\ loc[t].next = NoEntry
                               /\ loc[t].remove = IF handled[t] THEN NoEntry ELSE t
    /\ pc[t] = "WakeUnlock" =>
         /\ loc[t].entry = NoEntry /\ loc[t].next = NoEntry
         /\ loc[t].remove # NoEntry => Linked(loc[t].remove)
    /\ pc[t] = "Signal" => loc[t].next = NoEntry
    /\ pc[t] \in {"Signal", "Signalled"} => loc[t].remove = NoEntry
    /\ pc[t] \in Waking => \E p \in 1 .. Len(seen.list) : Place(t, p)

(* What was seen when the list was locked, and who was woken since.         *)
Watched ==
    /\ (\A t \in Threads : pc[t] \notin Waking) => seen = NotSeen
    /\ \A u \in seen.asleep : pc[u] \notin Entering
    /\ \A u \in seen.woken : Contains(seen.list, u)

ThreadOK(t) == CallOf(t) /\ ListedOf(t) /\ LocalsOf(t)

IInv == Paired /\ Types /\ Lock /\ Watched /\ \A t \in Threads : ThreadOK(t)

(* Places of the threads, and the locals of those that do not have the list. *)
LEMMA Names ==
    /\ \A l \in Holding : l \in PCs
    /\ \A l \in Sleeping : l \in PCs
    /\ {"Idle", "Insert", "Wake", "Reacquire"} \subseteq PCs
    /\ NoLocals \in LocalVars /\ NotSeen \in Seen /\ IsInjective(NotSeen.list)
    /\ NotSeen.asleep = {} /\ NotSeen.woken = {} /\ NotSeen.list = <<>>
<1>1. NotSeen \in Seen /\ NotSeen.list = <<>> /\ NotSeen.asleep = {} /\ NotSeen.woken = {}
  BY DEF NotSeen, Seen
<1>2. IsInjective(<<>>)
  BY DEF IsInjective
<1> QED BY <1>1, <1>2 DEF PCs, NoLocals, LocalVars, Entries

(* Where a thread goes, and with which locals; the others stay.             *)
LEMMA Goes ==
    ASSUME Types, NEW t \in Threads, NEW l \in PCs, Goto(t, l)
    PROVE  /\ pc' \in [Threads -> PCs] /\ pc'[t] = l
           /\ \A u \in Threads \ {t} : pc'[u] = pc[u]
  BY DEF Types, Goto

(* The locals of one thread are set.                                        *)
LEMMA Sets ==
    ASSUME Types, NEW t \in Threads, NEW r \in LocalVars, Set(t, r)
    PROVE  /\ loc' \in [Threads -> LocalVars] /\ loc'[t] = r
           /\ \A u \in Threads \ {t} : loc'[u] = loc[u]
  BY DEF Types, Set

(* The initial state.                                                       *)
LEMMA InitOK == Init => IInv
<1> SUFFICES ASSUME Init PROVE IInv
  OBVIOUS
<1>1. IsInjective(<<>>) /\ \A x : ~Contains(<<>>, x)
  BY DEF IsInjective, Contains
<1>2. \A t \in Threads : /\ ~OnWait(t) /\ ~OnRelease(t) /\ ~Linked(t)
                         /\ keyed[t] = NoCall /\ pc[t] = "Idle" /\ loc[t] = NoLocals /\ ~handled[t]
  BY <1>1 DEF Init, KeyedInit, OnWait, OnRelease, Linked
<1>3. Paired
  BY <1>1, <1>2, CallFields DEF Init, KeyedInit, Paired, Expecting, NoCall
<1>4. Types
  BY <1>1, Names DEF Init, Types, Word, Entries
<1>5. Lock
  BY <1>2 DEF Init, Lock, Holding, Newest
<1>6. Watched
  BY <1>2, Names DEF Init, Watched
<1>7. \A t \in Threads : ThreadOK(t)
  BY <1>2 DEF ThreadOK, CallOf, ListedOf, LocalsOf, Sleeping, Waking
<1> QED BY <1>3, <1>4, <1>5, <1>6, <1>7 DEF IInv

-----------------------------------------------------------------------------
(* A thread that nothing happens to.                                        *)
Same(u) ==
    /\ pc'[u] = pc[u] /\ loc'[u] = loc[u] /\ handled'[u] = handled[u] /\ keyed'[u] = keyed[u]
    /\ (OnWait(u)' <=> OnWait(u)) /\ (OnRelease(u)' <=> OnRelease(u))

(* Those who are not in the loop of InternalWake depend on nothing else.    *)
LEMMA Bystander ==
    ASSUME IInv, NEW u \in Threads, Same(u), Linked(u)' <=> Linked(u), pc[u] \notin Waking
    PROVE  ThreadOK(u)'
<1>1. ThreadOK(u)
  BY DEF IInv
<1> QED BY <1>1 DEF ThreadOK, CallOf, ListedOf, LocalsOf, Same, Waking

(* Nobody starts to wait in the keyed event whom the waker saw waiting.     *)
NoneReturns == \A x \in seen.asleep : OnWait(x)' => OnWait(x)

(* The place of a waker does not change when others go on, or when the      *)
(* entry it is at is woken.                                                 *)
LEMMA PlaceStays ==
    ASSUME IInv, Types', NEW u \in Threads, NEW p \in 1 .. Len(seen.list), Place(u, p),
           pc'[u] = pc[u], loc'[u] = loc[u], list' = list,
           seen'.list = seen.list, seen'.asleep = seen.asleep,
           \A x \in seen'.woken : x \in seen.woken \/ (pc[u] # "WakeUnlock" /\ x = loc[u].entry),
           NoneReturns
    PROVE  Place(u, p)'
<1>1. seen.list \in Seq(Threads) /\ IsInjective(seen.list) /\ Len(seen.list) \in Nat
  BY DEF IInv, Types, Seen
<1>2. p \in Nat /\ p >= 1 /\ p <= Len(seen.list) /\ DOMAIN seen.list = 1 .. Len(seen.list)
  BY <1>1
<1>3. Loop(u, p) /\ Past(u, p)
  BY DEF Place
<1>4. ASSUME NEW j \in 1 .. Len(seen.list), seen.list[j] \in seen'.woken PROVE j >= p
  <2>1. CASE seen.list[j] \in seen.woken
    BY <1>3, <2>1 DEF Past
  <2>2. CASE pc[u] # "WakeUnlock" /\ seen.list[j] = loc[u].entry
    <3>1. seen.list[j] = seen.list[p]
      BY <1>3, <2>2 DEF Loop
    <3>2. j = p
      BY <1>1, <1>2, <3>1 DEF IsInjective
    <3> QED BY <3>2, <1>2
  <2> QED BY <2>1, <2>2, <1>4
<1>5. ASSUME NEW j \in 1 .. Len(seen.list),
             j > p \/ (j = p /\ pc[u] # "Signal"), seen.list[j] \in seen.asleep
      PROVE  ~OnWait(seen.list[j])'
  <2>1. ~OnWait(seen.list[j])
    BY <1>3, <1>5 DEF Past
  <2> QED BY <1>5, <2>1 DEF NoneReturns, OnWait
<1>6. Past(u, p)'
  BY <1>4, <1>5 DEF Past, OnWait
<1>7. Loop(u, p)'
  BY <1>3 DEF Loop
<1> QED BY <1>6, <1>7 DEF Place

(* Nor does anything else a waker relies on, outside the keyed event.       *)
LEMMA WakerKeeps ==
    ASSUME IInv, Types', NEW u \in Threads,
           pc'[u] = pc[u], loc'[u] = loc[u], handled'[u] = handled[u],
           list' = list, pc[u] \in Waking,
           seen'.list = seen.list, seen'.asleep = seen.asleep,
           \A x \in seen'.woken : x \in seen.woken \/ (pc[u] # "WakeUnlock" /\ x = loc[u].entry),
           NoneReturns
    PROVE  ListedOf(u)' /\ LocalsOf(u)'
<1>1. ThreadOK(u)
  BY DEF IInv
<1>2. Linked(u)' <=> Linked(u)
  BY DEF Linked
<1>3. ListedOf(u)'
  BY <1>1, <1>2 DEF ThreadOK, ListedOf
<1>4. LocalsOf(u)'
  <2>1. PICK p \in 1 .. Len(seen.list) : Place(u, p)
    BY <1>1 DEF ThreadOK, LocalsOf
  <2>2. Place(u, p)'
    BY <2>1, PlaceStays
  <2>3. /\ pc[u] = "WakeUnlock" =>
             /\ loc'[u].entry = NoEntry /\ loc'[u].next = NoEntry
             /\ loc'[u].remove # NoEntry => Contains(list', loc'[u].remove)
        /\ pc[u] = "Signal" => loc'[u].next = NoEntry
        /\ pc[u] \in {"Signal", "Signalled"} => loc'[u].remove = NoEntry
    BY <1>1 DEF ThreadOK, LocalsOf, Linked
  <2> QED BY <2>2, <2>3 DEF LocalsOf, Waking, Linked
<1> QED BY <1>3, <1>4

(* When nothing happens to it there either, it is as it was.                *)
LEMMA WakerStays ==
    ASSUME IInv, Types', NEW u \in Threads, Same(u), list' = list, pc[u] \in Waking,
           seen'.list = seen.list, seen'.asleep = seen.asleep,
           \A x \in seen'.woken : x \in seen.woken \/ (pc[u] # "WakeUnlock" /\ x = loc[u].entry),
           NoneReturns
    PROVE  ThreadOK(u)'
<1>1. CallOf(u)
  BY DEF IInv, ThreadOK
<1>2. CallOf(u)'
  BY <1>1 DEF CallOf, Same
<1>3. ListedOf(u)' /\ LocalsOf(u)'
  BY WakerKeeps DEF Same
<1> QED BY <1>2, <1>3 DEF ThreadOK

(* Whoever does not have the lock of the list is not a waker.               *)
LEMMA WakerHolds ==
    /\ Waking \subseteq Holding
    /\ Lock => \A t, u \in Threads : pc[t] \in Holding /\ pc[u] \in Waking => u = t
    /\ Lock /\ ~word.locked => \A t \in Threads : pc[t] \notin Holding /\ pc[t] \notin Waking
  BY DEF Waking, Holding, Lock

(* A step of a thread that does not have the lock, and does not take it.    *)
LEMMA QuietStep ==
    ASSUME IInv, Types', Paired', NEW t \in Threads,
           \A u \in Threads \ {t} : Same(u),
           UNCHANGED <<word, list, seen>>,
           pc[t] \notin Holding, pc'[t] \notin Holding, loc'[t] = loc[t],
           pc[t] \in Entering \/ pc'[t] \notin Entering,
           Linked(t) <=> pc'[t] \in Sleeping /\ ~handled'[t],
           handled'[t] => handled[t] /\ pc'[t] \in Sleeping \cup {"Reacquire"},
           OnWait(t)' => /\ pc'[t] = "Asleep" /\ keyed'[t].key = t
                         /\ OnWait(t) \/ pc[t] = "Sleep",
           ~OnRelease(t)', pc'[t] # "Asleep" => keyed'[t] = NoCall
    PROVE  IInv'
<1>1. Lock /\ Watched /\ ThreadOK(t) /\ Types
  BY DEF IInv
<1>2. Lock'
  <2>1. \A u \in Threads : pc'[u] \in Holding <=> pc[u] \in Holding
    BY DEF Same
  <2> QED BY <1>1, <2>1 DEF Lock, Newest
<1>3. \A u \in seen.asleep : u \in Threads /\ pc[u] \notin Entering
  BY <1>1 DEF Watched, Types, Seen
<1>4. \A u \in seen.asleep : (OnWait(u)' => OnWait(u)) /\ pc'[u] \notin Entering
  BY <1>3 DEF Same, Entering
<1>5. NoneReturns
  BY <1>4 DEF NoneReturns
<1>6. Watched'
  <2>1. (\A u \in Threads : pc'[u] \notin Waking) => seen' = NotSeen
    BY <1>1, WakerHolds DEF Watched, Same
  <2> QED BY <1>1, <1>4, <2>1 DEF Watched
<1>7. ASSUME NEW u \in Threads PROVE ThreadOK(u)'
  <2>1. CASE u # t /\ pc[u] \notin Waking
    BY <2>1, Bystander DEF Linked
  <2>2. CASE u # t /\ pc[u] \in Waking
    BY <2>2, <1>5, WakerStays
  <2>3. CASE u = t
    <3>1. pc[t] \notin Waking /\ pc'[t] \notin Waking /\ pc[t] # "SelfUnlock"
          /\ pc'[t] # "SelfUnlock"
      BY DEF Waking, Holding
    <3>2. CallOf(t)'
      BY <3>1 DEF CallOf, Waking
    <3>3. LocalsOf(t)'
      BY <1>1, <3>1 DEF ThreadOK, LocalsOf, Waking
    <3>4. ListedOf(t)'
      BY DEF ListedOf, Linked
    <3> QED BY <2>3, <3>2, <3>3, <3>4 DEF ThreadOK
  <2> QED BY <2>1, <2>2, <2>3
<1> QED BY <1>2, <1>6, <1>7 DEF IInv

(* The keyed event is left alone.                                           *)
LEMMA NoKeyedStep ==
    ASSUME Paired, UNCHANGED keyedVars
    PROVE  /\ Paired'
           /\ \A v : (OnWait(v)' <=> OnWait(v)) /\ (OnRelease(v)' <=> OnRelease(v))
<1>1. waitList' = waitList /\ releaseList' = releaseList /\ keyed' = keyed
  BY DEF keyedVars
<1>2. \A v : (OnWait(v)' <=> OnWait(v)) /\ (OnRelease(v)' <=> OnRelease(v))
  BY <1>1 DEF OnWait, OnRelease
<1> QED BY <1>1, <1>2 DEF Paired

(* A step outside the keyed event that leaves the variable alone.           *)
LEMMA StepAside ==
    ASSUME IInv, NEW t \in Threads, NEW l \in PCs, Goto(t, l),
           UNCHANGED <<word, list, loc, seen, keyedVars>>,
           pc[t] \notin Holding \cup {"Asleep"}, l \notin Holding \cup {"Asleep"},
           pc[t] \in Entering \/ l \notin Entering,
           Linked(t) <=> l \in Sleeping /\ ~handled'[t],
           handled'[t] => handled[t] /\ l \in Sleeping \cup {"Reacquire"},
           handled' \in [Threads -> BOOLEAN], callerLock' \subseteq Threads,
           \A u \in Threads \ {t} : handled'[u] = handled[u]
    PROVE  IInv'
<1>1. Paired /\ Types /\ ThreadOK(t)
  BY DEF IInv
<1>2. /\ Paired' /\ keyed' = keyed
      /\ \A v : (OnWait(v)' <=> OnWait(v)) /\ (OnRelease(v)' <=> OnRelease(v))
  BY <1>1, NoKeyedStep DEF keyedVars
<1>3. pc' \in [Threads -> PCs] /\ pc'[t] = l /\ \A u \in Threads \ {t} : pc'[u] = pc[u]
  BY <1>1, Goes
<1>4. Types'
  BY <1>1, <1>3 DEF Types
<1>5. \A u \in Threads \ {t} : Same(u)
  BY <1>2, <1>3 DEF Same
<1>6. ~OnWait(t)' /\ ~OnRelease(t)' /\ keyed'[t] = NoCall
  BY <1>1, <1>2 DEF ThreadOK, CallOf, Holding
<1>7. /\ pc[t] \notin Holding /\ pc'[t] \notin Holding /\ loc'[t] = loc[t]
      /\ pc[t] \in Entering \/ pc'[t] \notin Entering
      /\ Linked(t) <=> pc'[t] \in Sleeping /\ ~handled'[t]
      /\ handled'[t] => handled[t] /\ pc'[t] \in Sleeping \cup {"Reacquire"}
  BY <1>3
<1> QED BY <1>2, <1>4, <1>5, <1>6, <1>7, QuietStep

(* What a caller does between the accesses to the variable.                 *)
LEMMA CallerSteps ==
    ASSUME IInv, NEW t \in Threads,
           Caller(t) \/ Drop(t) \/ Spin(t) \/ Reacquire(t)
    PROVE  IInv'
<1>1. Types /\ ThreadOK(t) /\ pc[t] \in PCs
  BY DEF IInv, Types
<1>2. UNCHANGED <<word, list, loc, seen, keyedVars>>
  BY DEF Caller, Acquire, Release, SleepCall, WakeCall, Drop, Spin, Reacquire, condVars
<1>3. /\ handled \in [Threads -> BOOLEAN] /\ callerLock \subseteq Threads
      /\ Linked(t) <=> pc[t] \in Sleeping /\ ~handled[t]
      /\ handled[t] => pc[t] \in Sleeping \cup {"Reacquire"}
  BY <1>1 DEF Types, ThreadOK, ListedOf
<1>4. /\ "Idle" \in PCs /\ "Insert" \in PCs /\ "Wake" \in PCs /\ "Sleep" \in PCs
      /\ "Reacquire" \in PCs /\ "SelfLock" \in PCs
  BY DEF PCs, Sleeping
<1>5. CASE Acquire(t) \/ Release(t)
  <2>1. pc[t] = "Idle" /\ Goto(t, "Idle") /\ handled' = handled /\ callerLock' \subseteq Threads
    BY <1>1, <1>3, <1>5 DEF Acquire, Release, Types, Goto
  <2> QED BY <1>2, <1>3, <1>4, <2>1, StepAside DEF Sleeping, Holding, Entering
<1>6. CASE SleepCall(t)
  <2>1. pc[t] = "Idle" /\ Goto(t, "Insert") /\ UNCHANGED <<handled, callerLock>>
    BY <1>6 DEF SleepCall
  <2> QED BY <1>2, <1>3, <1>4, <2>1, StepAside DEF Sleeping, Holding, Entering
<1>7. CASE WakeCall(t)
  <2>1. pc[t] = "Idle" /\ Goto(t, "Wake") /\ UNCHANGED <<handled, callerLock>>
    BY <1>7 DEF WakeCall
  <2> QED BY <1>2, <1>3, <1>4, <2>1, StepAside DEF Sleeping, Holding, Entering
<1>8. CASE Drop(t)
  <2>1. pc[t] = "Drop" /\ Goto(t, "Sleep") /\ UNCHANGED handled /\ callerLock' \subseteq Threads
    BY <1>3, <1>8 DEF Drop
  <2> QED BY <1>2, <1>3, <1>4, <2>1, StepAside DEF Sleeping, Holding, Entering
<1>9. CASE Spin(t)
  <2>1. pc[t] = "Spin" /\ UNCHANGED <<handled, callerLock>>
        /\ Goto(t, IF handled[t] THEN "Reacquire" ELSE "SelfLock")
    BY <1>9 DEF Spin
  <2>2. CASE handled[t]
    BY <1>2, <1>3, <1>4, <2>1, <2>2, StepAside DEF Sleeping, Holding, Entering
  <2>3. CASE ~handled[t]
    BY <1>2, <1>3, <1>4, <2>1, <2>3, StepAside DEF Sleeping, Holding, Entering
  <2> QED BY <2>2, <2>3
<1>10. CASE Reacquire(t)
  <2>1. pc[t] = "Reacquire" /\ Goto(t, "Idle") /\ callerLock' \subseteq Threads
    BY <1>3, <1>10 DEF Reacquire
  <2>2. handled' \in [Threads -> BOOLEAN] /\ ~handled'[t]
        /\ \A u \in Threads \ {t} : handled'[u] = handled[u]
    BY <1>3, <1>10 DEF Reacquire
  <2> QED BY <1>2, <1>3, <1>4, <2>1, <2>2, StepAside DEF Sleeping, Holding, Entering
<1> QED BY <1>5, <1>6, <1>7, <1>8, <1>9, <1>10 DEF Caller

(* A sleeper that returns from the keyed event.                             *)
LEMMA AwakeStep ==
    ASSUME IInv, NEW t \in Threads, Awake(t)
    PROVE  IInv'
<1>1. Paired /\ Types /\ ThreadOK(t) /\ pc[t] = "Asleep"
  BY DEF IInv, Awake
<1>2. UNCHANGED <<word, list, loc, seen, handled, callerLock>>
  BY DEF Awake, condVars
<1>3. /\ Paired' /\ Apart({t}) /\ keyed'[t] = NoCall /\ ~OnWait(t) /\ ~OnRelease(t)
      /\ \A v : (OnWait(v)' <=> OnWait(v)) /\ (OnRelease(v)' <=> OnRelease(v))
  BY <1>1, ReturnEffect DEF Awake
<1> DEFINE l == IF handled[t] THEN "Reacquire" ELSE "SelfLock"
<1>4. pc' \in [Threads -> PCs] /\ pc'[t] = l /\ \A u \in Threads \ {t} : pc'[u] = pc[u]
  <2>1. l \in PCs /\ Goto(t, l)
    BY DEF PCs, Sleeping, Awake
  <2> QED BY <1>1, <2>1, Goes
<1>5. Types'
  BY <1>1, <1>2, <1>4 DEF Types
<1>6. \A u \in Threads \ {t} : Same(u)
  BY <1>2, <1>3, <1>4 DEF Same, Apart
<1>7. /\ pc[t] \notin Holding /\ pc'[t] \notin Holding /\ pc'[t] \notin Entering
      /\ Linked(t) <=> pc'[t] \in Sleeping /\ ~handled'[t]
      /\ handled'[t] => handled[t] /\ pc'[t] \in Sleeping \cup {"Reacquire"}
  BY <1>1, <1>2, <1>4 DEF ThreadOK, ListedOf, Holding, Entering, Sleeping
<1> QED BY <1>2, <1>3, <1>5, <1>6, <1>7, QuietStep

(* A thread is added to those the wake has woken.                           *)
LEMMA WokenMore ==
    ASSUME Types, NEW x \in Threads, seen' = [seen EXCEPT !.woken = @ \cup {x}]
    PROVE  /\ seen' \in Seen /\ seen'.list = seen.list /\ seen'.asleep = seen.asleep
           /\ seen'.woken = seen.woken \cup {x}
  BY DEF Types, Seen

(* A thread goes to sleep, or finds the waker waiting for it.               *)
LEMMA SleepStep ==
    ASSUME IInv, NEW t \in Threads, Sleep(t)
    PROVE  IInv'
<1>1. Paired /\ Types /\ Lock /\ Watched /\ ThreadOK(t) /\ pc[t] = "Sleep"
  BY DEF IInv, Sleep
<1>2. /\ UNCHANGED <<word, list, loc, handled, callerLock>>
      /\ \A u : Linked(u)' <=> Linked(u)
  BY DEF Sleep, condVars, Linked
<1>3. /\ keyed[t] = NoCall /\ loc[t] = NoLocals /\ handled[t] \in BOOLEAN
      /\ Linked(t) <=> ~handled[t]
  BY <1>1 DEF Types, ThreadOK, CallOf, ListedOf, LocalsOf, Sleeping, Waking
<1>4. pc' \in [Threads -> PCs] /\ pc'[t] = "Asleep" /\ \A u \in Threads \ {t} : pc'[u] = pc[u]
  <2>1. "Asleep" \in PCs /\ Goto(t, "Asleep")
    BY DEF PCs, Sleeping, Sleep
  <2> QED BY <1>1, <2>1, Goes
<1>5. ASSUME NEW u \in Partner(releaseList, t), Meet(t, u) PROVE IInv'
  <2>1. u \in Threads /\ OnRelease(u) /\ keyed[u].key = t
    BY <1>1, PartnerIs DEF Paired, OnRelease
  <2>2. /\ Paired' /\ u # t /\ Apart({t, u})
        /\ keyed'[t].at = "SUCCESS"
        /\ keyed'[u].at = keyed[u].at /\ keyed'[u].key = keyed[u].key
        /\ \A v : OnWait(v)' <=> OnWait(v) /\ v # u
        /\ \A v : OnRelease(v)' <=> OnRelease(v) /\ v # u
    BY <1>1, <1>3, <1>5, <2>1, MeetEffect
  <2>3. pc[u] = "Signalled" /\ loc[u].entry = t /\ ThreadOK(u)
    BY <2>1 DEF IInv, ThreadOK, CallOf
  <2>4. /\ seen' \in Seen /\ seen'.list = seen.list /\ seen'.asleep = seen.asleep
        /\ seen'.woken = seen.woken \cup {t}
    <3>1. Partner(releaseList, t) # {}
      BY <1>5
    <3>2. seen' = [seen EXCEPT !.woken = @ \cup {t}]
      BY <3>1 DEF Sleep
    <3> QED BY <1>1, <3>2, WokenMore
  <2>5. Types'
    BY <1>1, <1>2, <1>4, <2>4 DEF Types
  <2>6. NoneReturns
    BY <2>2 DEF NoneReturns
  <2>7. Lock'
    <3>1. \A v \in Threads : pc'[v] \in Holding <=> pc[v] \in Holding
      BY <1>1, <1>4 DEF Holding
    <3> QED BY <1>1, <1>2, <3>1 DEF Lock, Newest
  <2>8. PICK p \in 1 .. Len(seen.list) : Place(u, p)
    BY <2>3 DEF ThreadOK, LocalsOf, Waking
  <2>9. Contains(seen.list, t)
    <3>1. seen.list[p] = t /\ seen.list \in Seq(Threads)
      BY <1>1, <2>3, <2>8 DEF Place, Loop, Types, Seen
    <3> QED BY <3>1 DEF Contains
  <2>10. Watched'
    <3>1. pc'[u] \in Waking
      BY <1>4, <2>1, <2>2, <2>3 DEF Waking
    <3>2. \A x \in seen.asleep : x \in Threads /\ pc'[x] \notin Entering
      BY <1>1, <1>4 DEF Watched, Types, Seen, Entering
    <3> QED BY <1>1, <2>1, <2>4, <2>9, <3>1, <3>2 DEF Watched
  <2>11. ASSUME NEW v \in Threads PROVE ThreadOK(v)'
    <3>1. CASE v \notin {t, u}
      <4>1. pc[v] \notin Waking
        BY <1>1, <2>1, <2>3, <3>1, WakerHolds DEF Waking
      <4>2. Same(v)
        BY <1>2, <1>4, <2>2, <3>1 DEF Same, Apart
      <4> QED BY <1>2, <4>1, <4>2, Bystander
    <3>2. CASE v = u
      <4>1. pc'[u] = pc[u] /\ ~OnWait(u)' /\ ~OnRelease(u)'
        BY <1>4, <2>1, <2>2
      <4>2. CallOf(u)'
        BY <1>2, <2>3, <2>4, <4>1 DEF CallOf
      <4>3. pc[u] \in Waking /\ pc[u] # "WakeUnlock"
            /\ (\A x \in seen'.woken : x \in seen.woken \/ (pc[u] # "WakeUnlock" /\ x = loc[u].entry))
        BY <2>3, <2>4 DEF Waking
      <4>4. ListedOf(u)' /\ LocalsOf(u)'
        BY <1>2, <2>1, <2>4, <2>5, <2>6, <4>1, <4>3, WakerKeeps
      <4> QED BY <3>2, <4>2, <4>4 DEF ThreadOK
    <3>3. CASE v = t
      <4>1. ~OnWait(t)' /\ ~OnRelease(t)'
        BY <1>1, <1>3, <2>2, NoCallFacts
      <4> QED BY <1>2, <1>3, <1>4, <3>3, <4>1
              DEF ThreadOK, CallOf, ListedOf, LocalsOf, Sleeping, Waking
    <3> QED BY <3>1, <3>2, <3>3
  <2> QED BY <2>2, <2>5, <2>7, <2>10, <2>11 DEF IInv
<1>6. ASSUME NEW b \in BOOLEAN, Partner(releaseList, t) = {}, Enlist(t, t, b),
             waitList' = Append(waitList, t), UNCHANGED releaseList
      PROVE  IInv'
  <2>1. /\ Paired' /\ Apart({t}) /\ keyed'[t].key = t
        /\ \A v : OnWait(v)' <=> OnWait(v) \/ v = t
        /\ \A v : OnRelease(v)' <=> OnRelease(v)
    BY <1>1, <1>3, <1>6, CondVarAssumption, WaitEnlists
  <2>2. seen' = seen
    BY <1>6 DEF Sleep
  <2>3. Types'
    BY <1>1, <1>2, <1>4, <2>2 DEF Types
  <2>4. \A u \in Threads \ {t} : Same(u)
    BY <1>2, <1>4, <2>1 DEF Same, Apart
  <2>5. ~OnRelease(t)'
    BY <1>1, <1>3, <2>1, NoCallFacts
  <2>6. /\ pc[t] \notin Holding /\ pc'[t] \notin Holding /\ pc[t] \in Entering
        /\ Linked(t) <=> pc'[t] \in Sleeping /\ ~handled'[t]
        /\ handled'[t] => handled[t] /\ pc'[t] \in Sleeping \cup {"Reacquire"}
        /\ pc'[t] = "Asleep" /\ loc'[t] = loc[t]
    BY <1>1, <1>2, <1>3, <1>4 DEF Holding, Entering, Sleeping
  <2> QED BY <1>1, <1>2, <1>3, <2>1, <2>2, <2>3, <2>4, <2>5, <2>6, QuietStep
<1> QED BY <1>5, <1>6 DEF Sleep, WaitForKeyedEvent

(* A call in the keyed event goes on: a sleeper's, or the waker's.          *)
LEMMA KeyedSteps ==
    ASSUME IInv, NEW t \in Threads, Keyed(t)
    PROVE  IInv'
<1>1. Paired /\ Types /\ Lock /\ Watched /\ ThreadOK(t)
  BY DEF IInv
<1>2. UNCHANGED <<word, list, loc, handled, callerLock, pc, seen>> /\ KeyedStep(t)
  BY DEF Keyed, condVars
<1>3. /\ Paired' /\ Apart({t}) /\ keyed[t].at \in {"Waiting", "TimedOut"}
      /\ OnWait(t)' \/ OnRelease(t)' => keyed'[t].key = keyed[t].key
      /\ \A v : /\ OnWait(v)' => OnWait(v)
                /\ OnRelease(v)' => OnRelease(v)
                /\ v # t => (OnWait(v)' <=> OnWait(v)) /\ (OnRelease(v)' <=> OnRelease(v))
  BY <1>1, <1>2, KeyedStepEffect
<1>4. pc[t] \in {"Asleep", "Signalled"}
  <2>1. keyed[t] # NoCall
    BY <1>3 DEF NoCall
  <2> QED BY <1>1, <2>1 DEF ThreadOK, CallOf
<1>5. Types'
  BY <1>1, <1>2 DEF Types
<1>6. \A u \in Threads \ {t} : Same(u)
  BY <1>2, <1>3 DEF Same, Apart
<1>7. CASE pc[t] = "Asleep"
  <2>1. /\ pc[t] \notin Holding /\ pc'[t] \notin Holding /\ loc'[t] = loc[t]
        /\ pc'[t] \notin Entering /\ pc'[t] = "Asleep"
    BY <1>2, <1>7 DEF Holding, Entering
  <2>2. /\ Linked(t) <=> pc'[t] \in Sleeping /\ ~handled'[t]
        /\ handled'[t] => handled[t] /\ pc'[t] \in Sleeping \cup {"Reacquire"}
    BY <1>1, <1>2 DEF ThreadOK, ListedOf
  <2>3. /\ OnWait(t)' => OnWait(t) /\ keyed'[t].key = t
        /\ ~OnRelease(t)'
    BY <1>1, <1>3, <1>7 DEF ThreadOK, CallOf
  <2> QED BY <1>2, <1>3, <1>5, <1>6, <2>1, <2>2, <2>3, QuietStep
<1>8. CASE pc[t] = "Signalled"
  <2>1. NoneReturns
    BY <1>3 DEF NoneReturns
  <2>2. Lock'
    BY <1>1, <1>2 DEF Lock, Newest
  <2>4. Watched'
    BY <1>1, <1>2 DEF Watched
  <2>5. ASSUME NEW u \in Threads PROVE ThreadOK(u)'
    <3>1. CASE u # t
      <4>1. pc[u] \notin Waking
        BY <1>1, <1>8, <3>1, WakerHolds DEF Waking
      <4> QED BY <1>2, <1>6, <3>1, <4>1, Bystander DEF Linked
    <3>2. CASE u = t
      <4>1. CallOf(t)'
        BY <1>1, <1>2, <1>3, <1>8 DEF ThreadOK, CallOf
      <4>2. pc[t] \in Waking
        BY <1>8 DEF Waking
      <4>3. ListedOf(t)' /\ LocalsOf(t)'
        BY <1>2, <1>3, <1>5, <2>1, <4>2, WakerKeeps
      <4> QED BY <3>2, <4>1, <4>3 DEF ThreadOK
    <3> QED BY <3>1, <3>2
  <2> QED BY <1>3, <1>5, <2>2, <2>4, <2>5 DEF IInv
<1> QED BY <1>4, <1>7, <1>8

(* While the list is not locked nobody is in the loop.                      *)
LEMMA NotLocked ==
    ASSUME IInv, ~word.locked
    PROVE  /\ \A u \in Threads : pc[u] \notin Holding /\ pc[u] \notin Waking
           /\ seen = NotSeen /\ word.head = Newest
<1>1. \A u \in Threads : pc[u] \notin Holding /\ pc[u] \notin Waking
  BY WakerHolds DEF IInv
<1> QED BY <1>1 DEF IInv, Lock, Watched

(* A thread locks the list.                                                 *)
LEMMA LockTaken ==
    ASSUME IInv, ~word.locked, NEW t \in Threads, word'.locked,
           pc'[t] \in Holding, \A u \in Threads \ {t} : pc'[u] = pc[u]
    PROVE  Lock'
<1>1. \A u \in Threads : pc[u] \notin Holding
  BY NotLocked
<1>2. \A u \in Threads : pc'[u] \in Holding <=> u = t
  BY <1>1
<1> QED BY <1>2 DEF Lock

(* InternalSleep links the entry.                                           *)
LEMMA InsertStep ==
    ASSUME IInv, NEW t \in Threads, Insert(t)
    PROVE  IInv'
<1>1. Paired /\ Types /\ Lock /\ Watched /\ ThreadOK(t) /\ pc[t] = "Insert" /\ ~word.locked
  BY DEF IInv, Insert
<1>2. /\ UNCHANGED <<loc, handled, callerLock, seen, keyedVars>> /\ list' = Cons(t, list)
      /\ word' = [head |-> t, locked |-> TRUE]
  BY DEF Insert
<1>3. /\ Paired' /\ keyed' = keyed
      /\ \A v : (OnWait(v)' <=> OnWait(v)) /\ (OnRelease(v)' <=> OnRelease(v))
  BY <1>1, <1>2, NoKeyedStep DEF keyedVars
<1>4. pc' \in [Threads -> PCs] /\ pc'[t] = "Inserted" /\ \A u \in Threads \ {t} : pc'[u] = pc[u]
  <2>1. "Inserted" \in PCs /\ Goto(t, "Inserted")
    BY DEF PCs, Sleeping, Insert
  <2> QED BY <1>1, <2>1, Goes
<1>5. ~Linked(t) /\ ~handled[t] /\ loc[t] = NoLocals /\ keyed[t] = NoCall
      /\ ~OnWait(t) /\ ~OnRelease(t)
  BY <1>1 DEF ThreadOK, ListedOf, LocalsOf, CallOf, Sleeping, Waking
<1>6. /\ list' \in Seq(Threads) /\ IsInjective(list')
      /\ \A u : Linked(u)' <=> Linked(u) \/ u = t
  <2>1. list \in Seq(Threads) /\ IsInjective(list) /\ ~Contains(list, t)
    BY <1>1, <1>5 DEF Types, Linked
  <2> QED BY <1>2, <2>1, Consed DEF Linked
<1>7. Types'
  <2>1. word' \in Word
    BY <1>2 DEF Word, Entries
  <2> QED BY <1>1, <1>2, <1>4, <1>6, <2>1 DEF Types
<1>8. Lock'
  BY <1>1, <1>2, <1>4, LockTaken DEF Holding
<1>9. seen = NotSeen /\ \A u \in Threads : pc[u] \notin Waking
  BY <1>1, NotLocked
<1>10. Watched'
  BY <1>2, <1>9, Names DEF Watched
<1>11. ASSUME NEW u \in Threads PROVE ThreadOK(u)'
  <2>1. CASE u # t
    <3>1. Same(u) /\ (Linked(u)' <=> Linked(u))
      BY <1>2, <1>3, <1>4, <1>6, <2>1 DEF Same
    <3> QED BY <1>9, <3>1, Bystander
  <2>2. CASE u = t
    BY <1>2, <1>3, <1>4, <1>5, <1>6, <2>2
       DEF ThreadOK, CallOf, ListedOf, LocalsOf, Sleeping, Waking
  <2> QED BY <2>1, <2>2
<1> QED BY <1>3, <1>7, <1>8, <1>10, <1>11 DEF IInv

(* A thread whose sleep is over looks for its entry.                        *)
LEMMA SelfLockStep ==
    ASSUME IInv, NEW t \in Threads, SelfLock(t)
    PROVE  IInv'
<1>1. Paired /\ Types /\ Lock /\ Watched /\ ThreadOK(t) /\ pc[t] = "SelfLock"
  BY DEF IInv, SelfLock
<1>2. UNCHANGED <<list, handled, callerLock, seen, keyedVars>>
  BY DEF SelfLock
<1>3. /\ handled \in [Threads -> BOOLEAN] /\ callerLock \subseteq Threads
      /\ Linked(t) <=> ~handled[t]
      /\ ~OnWait(t) /\ ~OnRelease(t) /\ keyed[t] = NoCall /\ loc[t] = NoLocals
  BY <1>1 DEF Types, ThreadOK, ListedOf, LocalsOf, CallOf, Sleeping, Waking
<1>4. "Spin" \in PCs /\ "Reacquire" \in PCs /\ "SelfUnlock" \in PCs
  BY DEF PCs, Sleeping
<1>5. CASE word.locked
  <2>1. Goto(t, "Spin") /\ UNCHANGED <<word, loc>>
    BY <1>5 DEF SelfLock
  <2> QED BY <1>1, <1>2, <1>3, <1>4, <2>1, StepAside DEF Sleeping, Holding, Entering
<1>6. CASE ~word.locked /\ word.head = NoEntry
  <2>1. Goto(t, "Reacquire") /\ UNCHANGED <<word, loc>>
    BY <1>6 DEF SelfLock
  <2>2. list = <<>>
    <3>1. Newest = NoEntry /\ list \in Seq(Threads)
      BY <1>1, <1>6, NotLocked DEF Types
    <3>2. list # <<>> => Head(list) \in Threads
      BY <3>1
    <3> QED BY <3>1, <3>2, CondVarAssumption DEF Newest
  <2>3. ~Linked(t)
    BY <2>2 DEF Linked, Contains
  <2> QED BY <1>1, <1>2, <1>3, <1>4, <2>1, <2>3, StepAside DEF Sleeping, Holding, Entering
<1>7. CASE ~word.locked /\ word.head # NoEntry
  <2> DEFINE r == [loc[t] EXCEPT !.remove = IF handled[t] THEN NoEntry ELSE t]
  <2>1. word' = [word EXCEPT !.locked = TRUE] /\ Set(t, r) /\ Goto(t, "SelfUnlock")
    BY <1>7 DEF SelfLock
  <2>2. /\ r \in LocalVars /\ r.entry = NoEntry /\ r.next = NoEntry
        /\ r.remove = IF handled[t] THEN NoEntry ELSE t
    <3>1. loc[t] \in LocalVars /\ loc[t].entry = NoEntry /\ loc[t].next = NoEntry
      BY <1>3, Names DEF NoLocals
    <3> QED BY <3>1 DEF LocalVars, Entries
  <2> HIDE DEF r
  <2>3. pc' \in [Threads -> PCs] /\ pc'[t] = "SelfUnlock" /\ \A u \in Threads \ {t} : pc'[u] = pc[u]
    BY <1>1, <1>4, <2>1, Goes
  <2>4. loc' \in [Threads -> LocalVars] /\ loc'[t] = r /\ \A u \in Threads \ {t} : loc'[u] = loc[u]
    BY <1>1, <2>1, <2>2, Sets
  <2>5. word' \in Word /\ word'.locked
    BY <1>1, <2>1 DEF Types, Word
  <2>6. Types'
    BY <1>1, <1>2, <2>3, <2>4, <2>5 DEF Types
  <2>7. Lock'
    BY <1>7, <2>3, <2>5, LockTaken DEF Holding
  <2>8. seen = NotSeen /\ \A u \in Threads : pc[u] \notin Waking
    BY <1>7, NotLocked
  <2>9. Watched'
    BY <1>2, <2>8, Names DEF Watched
  <2>10. /\ Paired' /\ keyed' = keyed
         /\ \A v : (OnWait(v)' <=> OnWait(v)) /\ (OnRelease(v)' <=> OnRelease(v))
    BY <1>1, <1>2, NoKeyedStep DEF keyedVars
  <2>11. ASSUME NEW u \in Threads PROVE ThreadOK(u)'
    <3>1. Linked(u)' <=> Linked(u)
      BY <1>2 DEF Linked
    <3>2. CASE u # t
      <4>1. Same(u)
        BY <1>2, <2>3, <2>4, <2>10, <3>2 DEF Same
      <4> QED BY <2>8, <3>1, <4>1, Bystander
    <3>3. CASE u = t
      BY <1>2, <1>3, <2>2, <2>3, <2>4, <2>10, <3>1, <3>3
         DEF ThreadOK, CallOf, ListedOf, LocalsOf, Entering, Sleeping, Waking
    <3> QED BY <3>2, <3>3
  <2> QED BY <2>6, <2>7, <2>9, <2>10, <2>11 DEF IInv
<1> QED BY <1>5, <1>6, <1>7

(* InternalWake locks the list, and the loop starts with the oldest entry.  *)
LEMMA WakeStep ==
    ASSUME IInv, NEW t \in Threads, NEW all \in BOOLEAN, Wake(t, all)
    PROVE  IInv'
<1>1. Paired /\ Types /\ Lock /\ Watched /\ ThreadOK(t) /\ pc[t] = "Wake" /\ ~word.locked
  BY DEF IInv, Wake
<1>2. UNCHANGED <<list, handled, callerLock, keyedVars>>
  BY DEF Wake
<1>3. /\ handled \in [Threads -> BOOLEAN] /\ callerLock \subseteq Threads
      /\ ~Linked(t) /\ ~handled[t]
      /\ ~OnWait(t) /\ ~OnRelease(t) /\ keyed[t] = NoCall
  BY <1>1 DEF Types, ThreadOK, ListedOf, CallOf, Sleeping
<1>4. "Idle" \in PCs /\ "Signal" \in PCs
  BY DEF PCs, Holding
<1>5. seen = NotSeen /\ word.head = Newest /\ \A u \in Threads : pc[u] \notin Waking
  BY <1>1, NotLocked
<1>6. CASE word.head = NoEntry
  <2>1. Goto(t, "Idle") /\ UNCHANGED <<word, loc, seen>>
    BY <1>6 DEF Wake
  <2> QED BY <1>1, <1>2, <1>3, <1>4, <2>1, StepAside DEF Sleeping, Holding, Entering
<1>7. CASE word.head # NoEntry
  <2> DEFINE n == Len(list)
             r == [NoLocals EXCEPT !.all = all, !.entry = StartAtLast]
             asleep == {u \in Threads : Contains(waitList, u)}
  <2>1. /\ word' = [word EXCEPT !.locked = TRUE] /\ Set(t, r) /\ Goto(t, "Signal")
        /\ seen' = [list |-> list, woken |-> {}, asleep |-> asleep]
    BY <1>7 DEF Wake
  <2>2. n \in Nat /\ n >= 1 /\ list[n] \in Threads /\ StartAtLast = list[n]
        /\ list \in Seq(Threads) /\ DOMAIN list = 1 .. n
    <3>1. list \in Seq(Threads) /\ list # <<>>
      BY <1>1, <1>5, <1>7 DEF Types, Newest
    <3>2. n \in Nat /\ n >= 1 /\ DOMAIN list = 1 .. n
      BY <3>1
    <3>3. list[n] \in Threads
      BY <3>1, <3>2
    <3> QED BY <3>1, <3>2, <3>3 DEF StartAtLast, Last
  <2>3. /\ r \in LocalVars /\ r.entry = list[n] /\ r.next = NoEntry /\ r.remove = NoEntry
    <3>1. NoLocals \in LocalVars /\ NoLocals.next = NoEntry /\ NoLocals.remove = NoEntry
      BY Names DEF NoLocals
    <3>2. StartAtLast \in Entries /\ StartAtLast = list[n]
      BY <2>2 DEF Entries
    <3>3. \A c \in LocalVars, e \in Entries :
             /\ [c EXCEPT !.all = all, !.entry = e] \in LocalVars
             /\ [c EXCEPT !.all = all, !.entry = e].entry = e
             /\ [c EXCEPT !.all = all, !.entry = e].next = c.next
             /\ [c EXCEPT !.all = all, !.entry = e].remove = c.remove
      BY DEF LocalVars
    <3> QED BY <3>1, <3>2, <3>3
  <2> HIDE DEF r
  <2>4. pc' \in [Threads -> PCs] /\ pc'[t] = "Signal" /\ \A u \in Threads \ {t} : pc'[u] = pc[u]
    BY <1>1, <1>4, <2>1, Goes
  <2>5. loc' \in [Threads -> LocalVars] /\ loc'[t] = r /\ \A u \in Threads \ {t} : loc'[u] = loc[u]
    BY <1>1, <2>1, <2>3, Sets
  <2>6. /\ seen' \in Seen /\ seen'.list = list /\ seen'.woken = {}
        /\ seen'.asleep = {u \in Threads : OnWait(u)}
    BY <2>1, <2>2 DEF Seen, OnWait
  <2>7. word' \in Word /\ word'.locked
    BY <1>1, <2>1 DEF Types, Word
  <2>8. Types'
    BY <1>1, <1>2, <2>4, <2>5, <2>6, <2>7 DEF Types
  <2>9. Lock'
    BY <1>1, <2>4, <2>7, LockTaken DEF Holding
  <2>10. /\ Paired' /\ keyed' = keyed
         /\ \A v : (OnWait(v)' <=> OnWait(v)) /\ (OnRelease(v)' <=> OnRelease(v))
    BY <1>1, <1>2, NoKeyedStep DEF keyedVars
  <2>11. Watched'
    <3>1. ASSUME NEW u \in Threads, OnWait(u) PROVE u # t /\ pc[u] = "Asleep"
      <4>1. ThreadOK(u)
        BY DEF IInv
      <4> QED BY <1>3, <3>1, <4>1 DEF ThreadOK, CallOf
    <3>2. \A u \in seen'.asleep : pc'[u] \notin Entering
      BY <2>4, <2>6, <3>1 DEF Entering
    <3>3. pc'[t] \in Waking
      BY <2>4 DEF Waking
    <3> QED BY <2>6, <3>2, <3>3 DEF Watched
  <2>12. ASSUME NEW u \in Threads PROVE ThreadOK(u)'
    <3>1. Linked(u)' <=> Linked(u)
      BY <1>2 DEF Linked
    <3>2. CASE u # t
      <4>1. Same(u)
        BY <1>2, <2>4, <2>5, <2>10, <3>2 DEF Same
      <4> QED BY <1>5, <3>1, <4>1, Bystander
    <3>3. CASE u = t
      <4>0. PICK m \in Nat : m = n
        BY <2>2
      <4>1. Loop(t, m)'
        BY <1>2, <2>2, <2>3, <2>4, <2>5, <2>6, <4>0 DEF Loop
      <4>2. m \in 1 .. Len(seen'.list) /\ Past(t, m)'
        BY <2>2, <2>4, <2>6, <4>0 DEF Past
      <4>3. LocalsOf(t)'
        BY <2>3, <2>4, <2>5, <4>1, <4>2 DEF LocalsOf, Place, Waking
      <4> QED BY <1>2, <1>3, <2>4, <2>10, <3>1, <3>3, <4>3
              DEF ThreadOK, CallOf, ListedOf, Sleeping
    <3> QED BY <3>2, <3>3
  <2> QED BY <2>8, <2>9, <2>10, <2>11, <2>12 DEF IInv
<1> QED BY <1>6, <1>7

(* The entry to remove is unlinked, and its owner told.                     *)
LEMMA UnlinkStep ==
    ASSUME IInv, NEW t \in Threads, Unlink(t)
    PROVE  IInv'
<1> DEFINE e == loc[t].remove
           r == [loc[t] EXCEPT !.remove = NoEntry]
<1>1. /\ Paired /\ Types /\ Lock /\ Watched /\ ThreadOK(t)
      /\ pc[t] \in {"SelfUnlock", "WakeUnlock"} /\ e # NoEntry
  BY DEF IInv, Unlink
<1>2. /\ UNCHANGED <<word, callerLock, pc, seen, keyedVars>> /\ list' = RemoveFirst(list, e)
      /\ handled' = [handled EXCEPT ![e] = TRUE] /\ Set(t, r)
  BY DEF Unlink
<1>3. loc[t] \in LocalVars /\ e \in Threads
  BY <1>1 DEF Types, LocalVars, Entries
<1>4. /\ r \in LocalVars /\ r.entry = loc[t].entry /\ r.next = loc[t].next
      /\ r.remove = NoEntry /\ r.all = loc[t].all
  BY <1>3 DEF LocalVars, Entries
<1> HIDE DEF r
<1>5. loc' \in [Threads -> LocalVars] /\ loc'[t] = r /\ \A u \in Threads \ {t} : loc'[u] = loc[u]
  BY <1>1, <1>2, <1>4, Sets
<1>6. /\ handled' \in [Threads -> BOOLEAN] /\ handled'[e]
      /\ \A u \in Threads \ {e} : handled'[u] = handled[u]
  BY <1>1, <1>2, <1>3 DEF Types
<1>7. Linked(e) /\ pc[e] \in Sleeping /\ ThreadOK(e)
  <2>1. CASE pc[t] = "SelfUnlock"
    <3>1. e = t /\ ~handled[t]
      BY <1>1, <2>1 DEF ThreadOK, LocalsOf
    <3> QED BY <1>1, <2>1, <3>1 DEF ThreadOK, ListedOf, Sleeping
  <2>2. CASE pc[t] = "WakeUnlock"
    <3>1. Linked(e)
      BY <1>1, <2>2 DEF ThreadOK, LocalsOf
    <3>2. ThreadOK(e)
      BY <1>3 DEF IInv
    <3> QED BY <1>1, <3>1, <3>2 DEF ThreadOK, ListedOf
  <2> QED BY <1>1, <2>1, <2>2
<1>8. /\ list' \in Seq(Threads) /\ IsInjective(list')
      /\ \A u : Linked(u)' <=> Linked(u) /\ u # e
  BY <1>1, <1>2, Removed DEF Types, Linked
<1>9. /\ Paired' /\ keyed' = keyed
      /\ \A v : (OnWait(v)' <=> OnWait(v)) /\ (OnRelease(v)' <=> OnRelease(v))
  BY <1>1, <1>2, NoKeyedStep DEF keyedVars
<1>10. Types'
  BY <1>1, <1>2, <1>5, <1>6, <1>8 DEF Types
<1>11. word.locked
  BY <1>1 DEF Lock, Holding
<1>12. Lock'
  BY <1>1, <1>2, <1>11 DEF Lock
<1>13. Watched'
  BY <1>1, <1>2 DEF Watched
<1>14. ASSUME NEW u \in Threads PROVE ThreadOK(u)'
  <2>0. ThreadOK(u)
    BY DEF IInv
  <2>1. CASE u \notin {t, e}
    <3>1. pc[u] \notin Waking
      BY <1>1, <2>1, WakerHolds DEF Holding
    <3>2. Same(u) /\ (Linked(u)' <=> Linked(u))
      BY <1>2, <1>5, <1>6, <1>8, <1>9, <2>1 DEF Same
    <3> QED BY <3>1, <3>2, Bystander
  <2>2. CASE u = e /\ u # t
    <3>1. pc[u] \notin Holding /\ loc'[u] = loc[u] /\ pc'[u] = pc[u] /\ handled'[u]
      BY <1>1, <1>2, <1>3, <1>5, <1>6, <2>2 DEF Lock, Holding
    <3>2. pc[u] \notin Waking \cup {"SelfUnlock"}
      BY <3>1 DEF Holding, Waking
    <3>3. CallOf(u)'
      BY <2>0, <1>9, <3>1, <3>2 DEF ThreadOK, CallOf, Waking
    <3>4. ~Linked(u)' /\ pc[u] \in Sleeping
      BY <1>7, <1>8, <2>2
    <3>5. ListedOf(u)'
      BY <1>9, <3>1, <3>4 DEF ListedOf
    <3>6. LocalsOf(u)'
      BY <2>0, <3>1, <3>2 DEF ThreadOK, LocalsOf, Waking
    <3> QED BY <3>3, <3>5, <3>6 DEF ThreadOK
  <2>3. CASE u = t
    <3>1. CallOf(t)'
      BY <1>1, <1>2, <1>9 DEF ThreadOK, CallOf
    <3>3. CASE pc[t] = "SelfUnlock"
      <4>1. e = t
        BY <1>1, <3>3 DEF ThreadOK, LocalsOf
      <4>2. ListedOf(t)'
        BY <1>2, <1>6, <1>7, <1>8, <1>9, <4>1 DEF ListedOf
      <4>3. LocalsOf(t)'
        BY <1>1, <1>2, <1>4, <1>5, <1>6, <3>3, <4>1 DEF ThreadOK, LocalsOf, Waking
      <4> QED BY <2>3, <3>1, <4>2, <4>3 DEF ThreadOK
    <3>4. CASE pc[t] = "WakeUnlock"
      <4>1. e # t
        BY <1>7, <3>4 DEF Sleeping
      <4>2. ListedOf(t)'
        BY <1>1, <1>2, <1>6, <1>8, <1>9, <4>1 DEF ThreadOK, ListedOf
      <4>3. PICK p \in 1 .. Len(seen.list) : Place(t, p)
        BY <1>1, <3>4 DEF ThreadOK, LocalsOf, Waking
      <4>4. /\ p = 1 /\ Len(list) = 1 /\ e = seen.list[1] /\ list[1] = e
            /\ ~loc[t].all => p = Len(seen.list)
        <5>1. /\ p = 1 /\ Len(list) = 1 /\ e = seen.list[1]
              /\ ~loc[t].all => p = Len(seen.list)
              /\ \A i \in 1 .. Len(list) : list[i] = seen.list[i]
          BY <1>1, <3>4, <4>3 DEF Place, Loop
        <5>2. 1 \in 1 .. Len(list)
          BY <5>1
        <5> QED BY <5>1, <5>2
      <4>5. Len(list') = 0
        <5>1. list \in Seq(Threads) /\ IsInjective(list) /\ 1 \in 1 .. Len(list)
          BY <1>1, <4>4 DEF Types
        <5>2. Len(RemoveFirst(list, list[1])) = Len(list) - 1
          BY <5>1, Removed
        <5> QED BY <1>2, <4>4, <5>2
      <4>6. Loop(t, p)'
        BY <1>2, <1>4, <1>5, <3>4, <4>4, <4>5 DEF Loop
      <4>7. Past(t, p)'
        BY <1>2, <1>9, <4>3 DEF Place, Past, OnWait, keyedVars
      <4>8. LocalsOf(t)'
        BY <1>1, <1>2, <1>4, <1>5, <3>4, <4>6, <4>7 DEF ThreadOK, LocalsOf, Place, Waking
      <4> QED BY <2>3, <3>1, <4>2, <4>8 DEF ThreadOK
    <3> QED BY <1>1, <3>3, <3>4
  <2> QED BY <2>1, <2>2, <2>3
<1> QED BY <1>9, <1>10, <1>12, <1>13, <1>14 DEF IInv

(* The list is unlocked.                                                    *)
LEMMA UnlockStep ==
    ASSUME IInv, NEW t \in Threads, Unlock(t)
    PROVE  IInv'
<1>1. /\ Paired /\ Types /\ Lock /\ Watched /\ ThreadOK(t)
      /\ pc[t] \in {"Inserted", "SelfUnlock", "WakeUnlock"} /\ loc[t].remove = NoEntry
  BY DEF IInv, Unlock, AfterUnlock
<1>2. /\ UNCHANGED <<list, callerLock, handled, keyedVars>> /\ seen' = NotSeen
      /\ word' = [head |-> Newest, locked |-> FALSE]
      /\ Goto(t, AfterUnlock[pc[t]]) /\ Set(t, NoLocals)
  BY DEF Unlock
<1> DEFINE l == IF pc[t] = "Inserted" THEN "Drop"
                ELSE IF pc[t] = "SelfUnlock" THEN "Reacquire" ELSE "Idle"
<1>3. AfterUnlock[pc[t]] = l /\ l \in PCs
  BY <1>1 DEF AfterUnlock, PCs, Sleeping
<1>4. pc' \in [Threads -> PCs] /\ pc'[t] = l /\ \A u \in Threads \ {t} : pc'[u] = pc[u]
  BY <1>1, <1>2, <1>3, Goes
<1>5. loc' \in [Threads -> LocalVars] /\ loc'[t] = NoLocals
      /\ \A u \in Threads \ {t} : loc'[u] = loc[u]
  BY <1>1, <1>2, Names, Sets
<1>6. /\ Paired' /\ keyed' = keyed
      /\ \A v : (OnWait(v)' <=> OnWait(v)) /\ (OnRelease(v)' <=> OnRelease(v))
  BY <1>1, <1>2, NoKeyedStep DEF keyedVars
<1>7. Types'
  <2>1. Newest \in Entries
    BY <1>1 DEF Types, Newest, Entries
  <2>2. word' \in Word
    BY <1>2, <2>1 DEF Word
  <2> QED BY <1>1, <1>2, <1>4, <1>5, <2>2, Names DEF Types
<1>8. \A u \in Threads \ {t} : pc[u] \notin Holding
  BY <1>1 DEF Lock, Holding
<1>9. \A u \in Threads : pc'[u] \notin Holding
  BY <1>4, <1>8 DEF Holding
<1>10. Lock'
  BY <1>2, <1>9 DEF Lock, Newest
<1>11. Watched'
  BY <1>2, Names DEF Watched
<1>12. ASSUME NEW u \in Threads PROVE ThreadOK(u)'
  <2>1. Linked(u)' <=> Linked(u)
    BY <1>2 DEF Linked
  <2>2. CASE u # t
    <3>1. Same(u) /\ pc[u] \notin Waking
      BY <1>2, <1>4, <1>5, <1>6, <1>8, <2>2, WakerHolds DEF Same
    <3> QED BY <2>1, <3>1, Bystander
  <2>3. CASE u = t
    <3>1. pc[t] = "SelfUnlock" => handled[t]
      BY <1>1, CondVarAssumption DEF ThreadOK, LocalsOf
    <3>2. ListedOf(t)'
      BY <1>1, <1>2, <1>4, <1>6, <2>1, <2>3, <3>1
         DEF ThreadOK, ListedOf, Sleeping
    <3> QED BY <1>1, <1>2, <1>4, <1>5, <1>6, <2>3, <3>2
            DEF ThreadOK, CallOf, LocalsOf, Waking
  <2> QED BY <2>2, <2>3
<1> QED BY <1>6, <1>7, <1>10, <1>11, <1>12 DEF IInv

(* The entry before the one at an index.                                    *)
LEMMA BeforeIs ==
    ASSUME Types, NEW p \in 1 .. Len(list)
    PROVE  Before(list[p]) = IF p = 1 THEN NoEntry ELSE list[p - 1]
<1>1. IsInjective(list) /\ DOMAIN list = 1 .. Len(list)
  BY DEF Types
<1>2. p \in DOMAIN list /\ \A i \in DOMAIN list : list[i] = list[p] => i = p
  BY <1>1 DEF IsInjective
<1> DEFINE c == CHOOSE i \in DOMAIN list : list[i] = list[p]
<1>3. c = p
  BY <1>2, Zenon
<1>4. Before(list[p]) = IF c = 1 THEN NoEntry ELSE list[c - 1]
  BY DEF Before
<1> HIDE DEF c
<1> QED BY <1>3, <1>4

(* The waker releases the key of an entry: whoever waits for it is woken.   *)
LEMMA SignalStep ==
    ASSUME IInv, NEW t \in Threads, Signal(t)
    PROVE  IInv'
<1>1. /\ Paired /\ Types /\ Lock /\ Watched /\ ThreadOK(t) /\ pc[t] = "Signal"
  BY DEF IInv, Signal
<1>2. UNCHANGED <<word, list, handled, callerLock>> /\ \A u : Linked(u)' <=> Linked(u)
  BY DEF Signal, condVars, Linked
<1>3. PICK p \in 1 .. Len(seen.list) : Place(t, p)
  BY <1>1 DEF ThreadOK, LocalsOf, Waking
<1>4. PICK e \in Threads : /\ e = loc[t].entry /\ e = list[p] /\ e = seen.list[p] /\ Linked(e)
                           /\ Len(list) = p /\ p \in 1 .. Len(list)
  <2>1. /\ list \in Seq(Threads) /\ Len(list) = p /\ loc[t].entry = seen.list[p]
        /\ \A i \in 1 .. Len(list) : list[i] = seen.list[i]
    BY <1>1, <1>3 DEF Types, Place, Loop
  <2>2. p \in 1 .. Len(list) /\ DOMAIN list = 1 .. Len(list)
    BY <2>1
  <2>3. list[p] \in Threads /\ Contains(list, list[p]) /\ list[p] = seen.list[p]
    BY <2>1, <2>2 DEF Contains
  <2> QED BY <2>1, <2>2, <2>3 DEF Linked
<1> DEFINE r == [loc[t] EXCEPT !.next = Before(loc[t].entry)]
<1>5. /\ r \in LocalVars /\ r.entry = e /\ r.remove = NoEntry /\ r.all = loc[t].all
      /\ r.next = IF p = 1 THEN NoEntry ELSE list[p - 1]
  <2>1. Before(loc[t].entry) = IF p = 1 THEN NoEntry ELSE list[p - 1]
    BY <1>1, <1>4, BeforeIs
  <2>2. p # 1 => list[p - 1] \in Threads
    BY <1>1, <1>4 DEF Types
  <2>3. Before(loc[t].entry) \in Entries
    BY <2>1, <2>2 DEF Entries
  <2>4. loc[t] \in LocalVars /\ loc[t].remove = NoEntry
    BY <1>1 DEF Types, ThreadOK, LocalsOf
  <2>5. \A c \in LocalVars, x \in Entries :
           /\ [c EXCEPT !.next = x] \in LocalVars /\ [c EXCEPT !.next = x].next = x
           /\ [c EXCEPT !.next = x].entry = c.entry /\ [c EXCEPT !.next = x].remove = c.remove
           /\ [c EXCEPT !.next = x].all = c.all
    BY DEF LocalVars
  <2> QED BY <1>4, <2>1, <2>3, <2>4, <2>5
<1>6. loc' \in [Threads -> LocalVars] /\ loc'[t] = r /\ \A u \in Threads \ {t} : loc'[u] = loc[u]
  <2>1. Set(t, r)
    BY DEF Signal
  <2> HIDE DEF r
  <2> QED BY <1>1, <1>5, <2>1, Sets
<1> HIDE DEF r
<1>7. pc' \in [Threads -> PCs] /\ pc'[t] = "Signalled" /\ \A u \in Threads \ {t} : pc'[u] = pc[u]
  <2>1. "Signalled" \in PCs /\ Goto(t, "Signalled")
    BY DEF PCs, Holding, Signal
  <2> QED BY <1>1, <2>1, Goes
<1>8. Lock'
  <2>1. \A u \in Threads : pc'[u] \in Holding <=> pc[u] \in Holding
    BY <1>1, <1>7 DEF Holding
  <2> QED BY <1>1, <1>2, <2>1 DEF Lock, Newest
<1>9. \A u \in Threads \ {t} : pc[u] \notin Waking
  BY <1>1, WakerHolds DEF Waking
<1>10. keyed[t] = NoCall /\ ~OnWait(t) /\ ~OnRelease(t) /\ ~handled[t] /\ ~Linked(t) /\ e # t
  BY <1>1, <1>4 DEF ThreadOK, CallOf, ListedOf, Sleeping
<1>11. ASSUME Paired', seen' \in Seen, seen'.list = seen.list, seen'.asleep = seen.asleep,
              \A x \in seen'.woken : x \in seen.woken \/ x = e,
              \A v : OnWait(v)' <=> OnWait(v) /\ v # e,
              \A v : OnRelease(v)' => OnRelease(v) \/ v = t,
              \A v \in Threads \ {t, e} : keyed'[v] = keyed[v],
              \A v \in Threads \ {t} : OnRelease(v)' <=> OnRelease(v),
              OnWait(e) \/ keyed'[e] = keyed[e],
              OnRelease(t)' => keyed'[t].key = e
       PROVE  IInv'
  <2>1. Types'
    BY <1>1, <1>2, <1>6, <1>7, <1>11 DEF Types
  <2>2. NoneReturns
    BY <1>11 DEF NoneReturns
  <2>3. Contains(seen.list, e)
    <3>1. seen.list \in Seq(Threads)
      BY <1>1 DEF Types, Seen
    <3> QED BY <1>4, <3>1 DEF Contains
  <2>4. Watched'
    <3>1. pc'[t] \in Waking
      BY <1>7 DEF Waking
    <3>2. \A x \in seen.asleep : x \in Threads /\ pc'[x] \notin Entering
      BY <1>1, <1>7 DEF Watched, Types, Seen, Entering
    <3> QED BY <1>1, <1>11, <2>3, <3>1, <3>2 DEF Watched
  <2>5. Place(t, p)'
    <3>1. Loop(t, p) /\ Past(t, p)
      BY <1>3 DEF Place
    <3>2. /\ seen.list \in Seq(Threads) /\ IsInjective(seen.list)
          /\ DOMAIN seen.list = 1 .. Len(seen.list)
      BY <1>1 DEF Types, Seen
    <3>3. ASSUME NEW j \in 1 .. Len(seen.list), seen.list[j] \in seen'.woken PROVE j >= p
      <4>1. CASE seen.list[j] \in seen.woken
        BY <3>1, <4>1 DEF Past
      <4>2. CASE seen.list[j] = e
        <5>1. j = p
          BY <1>4, <3>2, <4>2 DEF IsInjective
        <5> QED BY <5>1
      <4> QED BY <1>11, <3>3, <4>1, <4>2
    <3>4. ASSUME NEW j \in 1 .. Len(seen.list), j >= p, seen.list[j] \in seen.asleep
          PROVE  ~OnWait(seen.list[j])'
      <4>1. CASE j = p
        BY <1>4, <1>11, <4>1 DEF OnWait
      <4>2. CASE j > p
        <5>1. ~OnWait(seen.list[j])
          BY <3>1, <3>4, <4>2 DEF Past
        <5> QED BY <1>11, <5>1 DEF OnWait
      <4> QED BY <3>4, <4>1, <4>2
    <3>5. \A j \in 1 .. Len(seen.list) : j > p \/ j = p => j >= p
      OBVIOUS
    <3>6. Past(t, p)'
      BY <1>11, <3>3, <3>4, <3>5 DEF Past, OnWait
    <3>7. loc'[t].entry = seen.list[p] /\ loc'[t].all = loc[t].all
          /\ loc'[t].next = IF p = 1 THEN NoEntry ELSE seen.list[p - 1]
      <4>1. p # 1 => list[p - 1] = seen.list[p - 1]
        BY <1>4, <3>1 DEF Loop
      <4> QED BY <1>4, <1>5, <1>6, <4>1
    <3>8. Loop(t, p)'
      BY <1>1, <1>2, <1>7, <1>11, <3>1, <3>7 DEF Loop
    <3> QED BY <3>6, <3>8 DEF Place
  <2>6. ASSUME NEW u \in Threads PROVE ThreadOK(u)'
    <3>0. ThreadOK(u)
      BY DEF IInv
    <3>1. CASE u \notin {t, e}
      <4>1. Same(u)
        BY <1>2, <1>6, <1>7, <1>11, <3>1 DEF Same
      <4> QED BY <1>2, <1>9, <3>1, <4>1, Bystander
    <3>2. CASE u = e /\ OnWait(e)
      <4>1. /\ pc[u] = "Asleep" /\ pc'[u] = pc[u] /\ loc'[u] = loc[u] /\ handled'[u] = handled[u]
            /\ ~OnWait(u)' /\ ~OnRelease(u)'
        BY <1>2, <1>6, <1>7, <1>10, <1>11, <3>0, <3>2 DEF ThreadOK, CallOf
      <4> QED BY <1>2, <3>0, <4>1
              DEF ThreadOK, CallOf, ListedOf, LocalsOf, Entering, Waking
    <3>3. CASE u = e /\ ~OnWait(e)
      <4>1. Same(u)
        BY <1>2, <1>6, <1>7, <1>10, <1>11, <3>3 DEF Same
      <4> QED BY <1>2, <1>9, <1>10, <3>3, <4>1, Bystander
    <3>4. CASE u = t
      <4>1. CallOf(t)'
        BY <1>5, <1>6, <1>7, <1>10, <1>11 DEF CallOf
      <4>2. LocalsOf(t)'
        BY <1>2, <1>5, <1>6, <1>7, <1>11, <2>5 DEF LocalsOf, Waking
      <4>3. ListedOf(t)'
        BY <1>2, <1>7, <1>10 DEF ListedOf, Sleeping
      <4> QED BY <3>4, <4>1, <4>2, <4>3 DEF ThreadOK
    <3> QED BY <3>1, <3>2, <3>3, <3>4
  <2> QED BY <1>8, <1>11, <2>1, <2>4, <2>6 DEF IInv
<1>12. ASSUME NEW u \in Partner(waitList, e), Meet(t, u) PROVE IInv'
  <2>1. u \in Threads /\ OnWait(u) /\ keyed[u].key = e
    BY <1>1, PartnerIs DEF Paired, OnWait
  <2>2. u = e /\ pc[e] = "Asleep" /\ ~OnRelease(e)
    BY <2>1 DEF IInv, ThreadOK, CallOf
  <2>3. /\ Paired' /\ Apart({t, e}) /\ keyed'[t].semaphore = 0
        /\ \A v : OnWait(v)' <=> OnWait(v) /\ v # e
        /\ \A v : OnRelease(v)' <=> OnRelease(v) /\ v # e
    <3>1. Meet(t, e) /\ keyed[t] = NoCall /\ Paired /\ OnWait(e)
      BY <1>1, <1>10, <1>12, <2>1, <2>2
    <3> QED BY <3>1, MeetEffect
  <2>4. /\ seen' \in Seen /\ seen'.list = seen.list /\ seen'.asleep = seen.asleep
        /\ seen'.woken = seen.woken \cup {e}
    <3>1. Partner(waitList, e) # {}
      BY <1>12
    <3>2. seen' = [seen EXCEPT !.woken = @ \cup {e}]
      BY <1>4, <3>1 DEF Signal
    <3> QED BY <1>1, <3>2, WokenMore
  <2> QED BY <1>10, <1>11, <2>1, <2>2, <2>3, <2>4 DEF Apart, Entering
<1>13. ASSUME Partner(waitList, e) = {}, Enlist(t, e, TRUE),
              releaseList' = Append(releaseList, t), UNCHANGED waitList
       PROVE  IInv'
  <2>1. /\ Paired' /\ Apart({t})
        /\ keyed'[t].at = "Waiting" /\ keyed'[t].key = e /\ keyed'[t].semaphore = 0
        /\ \A v : OnWait(v)' <=> OnWait(v)
        /\ \A v : OnRelease(v)' <=> OnRelease(v) \/ v = t
    BY <1>1, <1>10, <1>13, CondVarAssumption, ReleaseEnlists
  <2>2. seen' = seen
    BY <1>4, <1>13 DEF Signal
  <2>3. ~OnWait(e)
    <3>1. OnWait(e) => keyed[e].key # e
      BY <1>1, <1>13, PartnerIs DEF Paired, OnWait
    <3> QED BY <3>1 DEF IInv, ThreadOK, CallOf
  <2>4. seen' \in Seen
    BY <1>1, <2>2 DEF Types
  <2> QED BY <1>10, <1>11, <2>1, <2>2, <2>3, <2>4 DEF Apart
<1> QED BY <1>4, <1>12, <1>13 DEF Signal, ReleaseKeyedEvent

(* The release has returned: the entry is removed, and the loop goes on or  *)
(* ends.                                                                    *)
LEMMA SignalReturnsStep ==
    ASSUME IInv, NEW t \in Threads, SignalReturns(t)
    PROVE  IInv'
<1>1. /\ Paired /\ Types /\ Lock /\ Watched /\ ThreadOK(t) /\ pc[t] = "Signalled"
      /\ loc[t] \in LocalVars /\ list \in Seq(Threads) /\ seen.list \in Seq(Threads)
  BY DEF IInv, SignalReturns, Types, Seen
<1>2. UNCHANGED <<word, callerLock, seen, waitList, releaseList>>
  BY DEF SignalReturns
<1>3. PICK p \in 1 .. Len(seen.list) : Place(t, p)
  BY <1>1 DEF ThreadOK, LocalsOf, Waking
<1>4. PICK e \in Threads : /\ e = loc[t].entry /\ e = list[p] /\ e = seen.list[p] /\ Linked(e)
                           /\ Len(list) = p /\ p \in 1 .. Len(list)
  <2>1. /\ Len(list) = p /\ loc[t].entry = seen.list[p]
        /\ \A i \in 1 .. Len(list) : list[i] = seen.list[i]
    BY <1>1, <1>3 DEF Place, Loop
  <2>2. p \in 1 .. Len(list) /\ DOMAIN list = 1 .. Len(list)
    BY <1>1, <2>1
  <2>3. list[p] \in Threads /\ Contains(list, list[p]) /\ list[p] = seen.list[p]
    BY <1>1, <2>1, <2>2 DEF Contains
  <2> QED BY <2>1, <2>2, <2>3 DEF Linked
<1>5. /\ p \in Nat /\ p >= 1 /\ p <= Len(seen.list) /\ Len(seen.list) \in Nat
      /\ \A i \in 1 .. p : list[i] = seen.list[i]
      /\ ~loc[t].all => p = Len(seen.list)
  BY <1>1, <1>3, <1>4 DEF Place, Loop
<1>6. /\ Paired' /\ Apart({t}) /\ keyed'[t] = NoCall /\ ~OnWait(t) /\ ~OnRelease(t)
      /\ \A v : (OnWait(v)' <=> OnWait(v)) /\ (OnRelease(v)' <=> OnRelease(v))
  BY <1>1, ReturnEffect DEF SignalReturns
<1>7. /\ loc[t].next = (IF p = 1 THEN NoEntry ELSE seen.list[p - 1])
      /\ loc[t].remove = NoEntry /\ (p # 1 => seen.list[p - 1] \in Threads)
      /\ loc[t].next = NoEntry <=> p = 1
  <2>1. loc[t].next = (IF p = 1 THEN NoEntry ELSE seen.list[p - 1]) /\ loc[t].remove = NoEntry
    BY <1>1, <1>3 DEF Place, Loop, ThreadOK, LocalsOf
  <2>2. p # 1 => seen.list[p - 1] \in Threads
    BY <1>1, <1>5
  <2> QED BY <2>1, <2>2, CondVarAssumption
<1>8. /\ e # t /\ ThreadOK(e) /\ ~Linked(t) /\ ~handled[t]
      /\ \A u \in Threads \ {t} : pc[u] \notin Holding /\ pc[u] \notin Waking
  <2>1. ~Linked(t) /\ ~handled[t]
    BY <1>1 DEF ThreadOK, ListedOf, Sleeping
  <2>2. \A u \in Threads \ {t} : pc[u] \notin Holding
    BY <1>1 DEF Lock, Holding
  <2> QED BY <1>4, <2>1, <2>2, WakerHolds DEF IInv
<1> DEFINE removed == p # 1
<1>9. pc[e] \in Sleeping
  BY <1>4, <1>8 DEF ThreadOK, ListedOf
<1>10. /\ list' = IF removed THEN RemoveFirst(list, e) ELSE list
       /\ handled' = IF removed THEN [handled EXCEPT ![e] = TRUE] ELSE handled
  BY <1>4, <1>7 DEF SignalReturns
<1>11. /\ list' \in Seq(Threads) /\ IsInjective(list')
       /\ \A u : Linked(u)' <=> Linked(u) /\ ~(removed /\ u = e)
       /\ Len(list') = IF removed THEN p - 1 ELSE p
       /\ \A i \in 1 .. Len(list') : list'[i] = seen.list[i]
  <2>1. CASE removed
    <3>1. list' = RemoveFirst(list, e)
      BY <1>10, <2>1
    <3>2. /\ list' \in Seq(Threads) /\ IsInjective(list')
          /\ \A u : Contains(list', u) <=> Contains(list, u) /\ u # e
          /\ Len(list') = Len(list) - 1
          /\ \A k \in 1 .. p - 1 : list'[k] = list[k]
      <4>1. IsInjective(list) /\ p \in 1 .. Len(list) /\ list[p] = e
        BY <1>1, <1>4 DEF Types
      <4> QED BY <1>1, <3>1, <4>1, Removed
    <3>3. Len(list') = p - 1 /\ \A k \in 1 .. p - 1 : k \in 1 .. p
      BY <1>4, <1>5, <3>2
    <3> QED BY <1>5, <2>1, <3>2, <3>3 DEF Linked
  <2>2. CASE ~removed
    <3>1. list' = list
      BY <1>10, <2>2
    <3> QED BY <1>1, <1>4, <1>5, <2>2, <3>1 DEF Types, Linked
  <2> QED BY <2>1, <2>2
<1>12. /\ handled' \in [Threads -> BOOLEAN]
       /\ \A u \in Threads : handled'[u] <=> handled[u] \/ (removed /\ u = e)
  BY <1>1, <1>10 DEF Types
<1>13. ASSUME NEW l \in {"Signal", "WakeUnlock"}, NEW r \in LocalVars, Goto(t, l), Set(t, r),
              (pc'[t] = l /\ loc'[t] = r) => LocalsOf(t)'
       PROVE  IInv'
  <2>1. pc' \in [Threads -> PCs] /\ pc'[t] = l /\ \A u \in Threads \ {t} : pc'[u] = pc[u]
    <3>1. l \in PCs
      BY DEF PCs, Holding
    <3> QED BY <1>1, <1>13, <3>1, Goes
  <2>2. loc' \in [Threads -> LocalVars] /\ loc'[t] = r
        /\ \A u \in Threads \ {t} : loc'[u] = loc[u]
    BY <1>1, <1>13, Sets
  <2>3. Types'
    BY <1>1, <1>2, <1>11, <1>12, <2>1, <2>2 DEF Types
  <2>4. pc'[t] \in Holding /\ pc'[t] \in Waking /\ pc[t] \in Holding
    BY <1>1, <1>13, <2>1 DEF Holding, Waking
  <2>5. Lock'
    <3>1. \A u \in Threads : pc'[u] \in Holding <=> pc[u] \in Holding
      BY <2>1, <2>4
    <3>2. word.locked
      BY <1>1, <2>4 DEF Lock
    <3> QED BY <1>1, <1>2, <3>1, <3>2 DEF Lock
  <2>6. Watched'
    <3>1. \A u \in Threads : pc[u] \notin Entering => pc'[u] \notin Entering
      BY <1>13, <2>1 DEF Entering
    <3>2. \A u \in seen.asleep : u \in Threads
      BY <1>1 DEF Types, Seen
    <3> QED BY <1>1, <1>2, <2>4, <3>1, <3>2 DEF Watched
  <2>7. ASSUME NEW u \in Threads PROVE ThreadOK(u)'
    <3>0. ThreadOK(u)
      BY DEF IInv
    <3>1. CASE u # t /\ ~(removed /\ u = e)
      <4>1. Same(u) /\ (Linked(u)' <=> Linked(u))
        <5>1. handled'[u] = handled[u]
          BY <1>1, <1>12, <3>1 DEF Types
        <5> QED BY <1>6, <1>11, <2>1, <2>2, <3>1, <5>1 DEF Same, Apart
      <4> QED BY <1>8, <3>1, <4>1, Bystander
    <3>2. CASE u # t /\ removed /\ u = e
      <4>1. /\ pc[u] \notin Holding /\ pc[u] \notin Waking \cup {"SelfUnlock"}
            /\ loc'[u] = loc[u] /\ pc'[u] = pc[u] /\ handled'[u] /\ keyed'[u] = keyed[u]
        BY <1>6, <1>8, <1>12, <2>1, <2>2, <3>2 DEF Holding, Apart
      <4>2. CallOf(u)'
        BY <3>0, <1>6, <4>1 DEF ThreadOK, CallOf, Waking
      <4>3. ~Linked(u)' /\ pc[u] \in Sleeping
        BY <1>9, <1>11, <3>2
      <4>4. ListedOf(u)'
        BY <1>6, <4>1, <4>3 DEF ListedOf
      <4>5. LocalsOf(u)'
        BY <3>0, <4>1 DEF ThreadOK, LocalsOf, Waking
      <4> QED BY <4>2, <4>4, <4>5 DEF ThreadOK
    <3>3. CASE u = t
      <4>1. CallOf(t)'
        BY <1>6, <1>13, <2>1 DEF CallOf
      <4>2. ListedOf(t)'
        BY <1>8, <1>11, <1>12, <1>13, <2>1 DEF ListedOf, Sleeping
      <4> QED BY <1>13, <2>1, <2>2, <3>3, <4>1, <4>2 DEF ThreadOK
    <3> QED BY <3>1, <3>2, <3>3
  <2> QED BY <1>6, <2>3, <2>5, <2>6, <2>7 DEF IInv
<1>14. \A j \in 1 .. Len(seen.list) :
          /\ seen.list[j] \in seen.woken => j >= p
          /\ j >= p /\ seen.list[j] \in seen.asleep => ~OnWait(seen.list[j])'
  <2> SUFFICES ASSUME NEW j \in 1 .. Len(seen.list)
               PROVE  /\ seen.list[j] \in seen.woken => j >= p
                      /\ j >= p /\ seen.list[j] \in seen.asleep => ~OnWait(seen.list[j])'
    OBVIOUS
  <2>1. j >= p <=> j > p \/ j = p
    BY <1>5
  <2>2. /\ seen.list[j] \in seen.woken => j >= p
        /\ (j > p \/ j = p) /\ seen.list[j] \in seen.asleep => ~OnWait(seen.list[j])
    BY <1>1, <1>3 DEF Place, Past
  <2> QED BY <1>2, <2>1, <2>2 DEF OnWait
<1>15. CASE p = 1
  <2> DEFINE r == [loc[t] EXCEPT !.entry = NoEntry, !.next = NoEntry, !.remove = e]
  <2>1. Set(t, r) /\ Goto(t, "WakeUnlock")
    BY <1>4, <1>7, <1>15 DEF SignalReturns, LoopEnds
  <2>2. e \in Entries /\ NoEntry \in Entries
    BY DEF Entries
  <2>3. /\ r \in LocalVars /\ r.entry = NoEntry /\ r.next = NoEntry /\ r.remove = e
        /\ r.all = loc[t].all
    BY <1>1, <2>2 DEF LocalVars
  <2> HIDE DEF r
  <2>4. ASSUME pc'[t] = "WakeUnlock", loc'[t] = r PROVE LocalsOf(t)'
    <3>1. Linked(e)' /\ e # NoEntry
      BY <1>4, <1>11, <1>15, CondVarAssumption
    <3>2. loc'[t].remove = e /\ Contains(list', e)
      BY <2>3, <2>4, <3>1 DEF Linked
    <3>3. Loop(t, p)'
      BY <1>2, <1>4, <1>5, <1>11, <1>15, <2>3, <2>4, <3>1 DEF Loop
    <3>4. Past(t, p)'
      BY <1>2, <1>5, <1>14, <2>4 DEF Past, OnWait
    <3> QED BY <1>2, <2>3, <2>4, <3>2, <3>3, <3>4 DEF LocalsOf, Place, Waking, Linked
  <2> QED BY <1>13, <2>1, <2>3, <2>4
<1>16. CASE p # 1 /\ ~loc[t].all
  <2> DEFINE r == [loc[t] EXCEPT !.entry = NoEntry, !.next = NoEntry, !.remove = NoEntry]
  <2>1. Set(t, r) /\ Goto(t, "WakeUnlock")
    BY <1>7, <1>16 DEF SignalReturns, LoopEnds
  <2>2. /\ r \in LocalVars /\ r.entry = NoEntry /\ r.next = NoEntry /\ r.remove = NoEntry
        /\ r.all = loc[t].all
    BY <1>1 DEF LocalVars, Entries
  <2> HIDE DEF r
  <2>3. ASSUME pc'[t] = "WakeUnlock", loc'[t] = r PROVE LocalsOf(t)'
    <3>1. Loop(t, p)'
      BY <1>2, <1>5, <1>11, <1>16, <2>2, <2>3 DEF Loop
    <3>2. Past(t, p)'
      BY <1>2, <1>5, <1>14, <2>3 DEF Past, OnWait
    <3> QED BY <1>2, <2>2, <2>3, <3>1, <3>2 DEF LocalsOf, Place, Waking
  <2> QED BY <1>13, <2>1, <2>2, <2>3
<1>17. CASE p # 1 /\ loc[t].all
  <2> DEFINE r == [loc[t] EXCEPT !.entry = loc[t].next, !.next = NoEntry]
  <2>1. Set(t, r) /\ Goto(t, "Signal")
    BY <1>7, <1>17 DEF SignalReturns, NextRound
  <2>2. /\ r \in LocalVars /\ r.entry = seen.list[p - 1] /\ r.next = NoEntry
        /\ r.remove = NoEntry /\ r.all = loc[t].all
    <3>1. PICK x \in Entries : x = loc[t].next
      BY <1>1 DEF LocalVars
    <3>2. NoEntry \in Entries /\ r = [loc[t] EXCEPT !.entry = x, !.next = NoEntry]
      BY <3>1 DEF Entries
    <3>3. /\ r \in LocalVars /\ r.entry = x /\ r.next = NoEntry /\ r.remove = loc[t].remove
          /\ r.all = loc[t].all
      <4> HIDE DEF r
      <4> QED BY <1>1, <3>2 DEF LocalVars
    <3> HIDE DEF r
    <3> QED BY <1>7, <1>17, <3>1, <3>3
  <2> HIDE DEF r
  <2>3. PICK q \in Nat : q = p - 1 /\ q >= 1
    BY <1>5, <1>17
  <2>4. ASSUME pc'[t] = "Signal", loc'[t] = r PROVE LocalsOf(t)'
    <3>1. q \in 1 .. Len(seen.list) /\ Len(list') = q /\ q <= Len(seen.list)
      BY <1>5, <1>11, <1>17, <2>3
    <3>2. Loop(t, q)'
      BY <1>2, <1>11, <1>17, <2>2, <2>3, <2>4, <3>1 DEF Loop
    <3>3. ASSUME NEW j \in 1 .. Len(seen.list)
          PROVE  /\ seen.list[j] \in seen.woken => j >= q
                 /\ j > q /\ seen.list[j] \in seen.asleep => ~OnWait(seen.list[j])'
      <4>1. (j >= p => j >= q) /\ (j > q => j >= p)
        BY <1>5, <2>3
      <4> QED BY <1>14, <4>1
    <3>4. Past(t, q)'
      BY <1>2, <2>4, <3>3 DEF Past, OnWait
    <3> QED BY <1>2, <2>2, <2>4, <3>1, <3>2, <3>4 DEF LocalsOf, Place, Waking
  <2> QED BY <1>13, <2>1, <2>2, <2>4
<1> QED BY <1>15, <1>16, <1>17

-----------------------------------------------------------------------------
(* Spec => []IInv: the lists of the keyed event and of the variable, and    *)
(* what every thread relies on (condvar.c, keyedevt.c).                     *)
THEOREM Invariance == Spec => []IInv
<1>1. Init => IInv
  BY InitOK
<1>2. ASSUME IInv, Next PROVE IInv'
  <2>1. PICK t \in Threads : Caller(t) \/ Step(t)
    BY <1>2 DEF Next
  <2>2. CASE \E all \in BOOLEAN : Wake(t, all)
    BY <1>2, <2>2, WakeStep
  <2>3. CASE Insert(t) \/ Unlink(t) \/ Unlock(t) \/ SelfLock(t)
    BY <1>2, <2>3, InsertStep, UnlinkStep, UnlockStep, SelfLockStep
  <2>4. CASE Sleep(t) \/ Awake(t) \/ Keyed(t)
    BY <1>2, <2>4, SleepStep, AwakeStep, KeyedSteps
  <2>5. CASE Signal(t) \/ SignalReturns(t)
    BY <1>2, <2>5, SignalStep, SignalReturnsStep
  <2>6. CASE Caller(t) \/ Drop(t) \/ Spin(t) \/ Reacquire(t)
    BY <1>2, <2>6, CallerSteps
  <2> QED BY <2>1, <2>2, <2>3, <2>4, <2>5, <2>6 DEF Step
<1>3. ASSUME IInv, UNCHANGED vars PROVE IInv'
  <2>1. /\ word' = word /\ list' = list /\ handled' = handled /\ callerLock' = callerLock
        /\ pc' = pc /\ loc' = loc /\ seen' = seen
        /\ waitList' = waitList /\ releaseList' = releaseList /\ keyed' = keyed
    BY <1>3 DEF vars, condVars, keyedVars
  <2>2. Paired'
    BY <1>3, <2>1 DEF IInv, Paired, OnWait, OnRelease
  <2>3. Types' /\ Lock' /\ Watched'
    BY <1>3, <2>1 DEF IInv, Types, Lock, Newest, Watched, OnWait
  <2>4. \A t \in Threads : ThreadOK(t)'
    BY <1>3, <2>1 DEF IInv, ThreadOK, CallOf, ListedOf, LocalsOf, Place, Loop, Past,
                      Linked, OnWait, OnRelease
  <2> QED BY <2>2, <2>3, <2>4 DEF IInv
<1> QED BY <1>1, <1>2, <1>3, PTL DEF Spec

(* A wait and a release of one key never both wait; a thread is listed      *)
(* until it is found, and found once (ex/keyedevt.c, lines 152-225).        *)
THEOREM KeyedEventPairs == Spec => []RendezvousPaired
<1>1. IInv => RendezvousPaired
  BY PairedMeans DEF IInv
<1> QED BY <1>1, Invariance, PTL

(* No entry that is linked, named by the word or still to be touched is     *)
(* that of a thread that has left InternalSleep (condvar.c, lines 188-348). *)
THEOREM EntriesAlive == Spec => []NoDanglingEntry
<1>1. ASSUME IInv PROVE NoDanglingEntry
  <2>1. Types /\ Lock /\ IsInjective(list) /\ list \in Seq(Threads)
    BY <1>1 DEF IInv, Types
  <2>2. TypeOK
    BY <2>1 DEF Types, TypeOK, Word, Entries, LocalVars, PCs
  <2>3. ASSUME NEW t \in Threads PROVE Contains(list, t) <=> pc[t] \in Sleeping /\ ~handled[t]
    BY <1>1 DEF IInv, ThreadOK, ListedOf, Linked
  <2>4. ASSUME NEW t \in Threads, NEW e \in InUse(t) PROVE Contains(list, e)
    <3>1. LocalsOf(t) /\ ListedOf(t) /\ e # NoEntry
          /\ (e = loc[t].entry \/ e = loc[t].next \/ e = loc[t].remove)
      BY <1>1, <2>4 DEF IInv, ThreadOK, InUse
    <3>2. CASE pc[t] \notin {"SelfUnlock"} \cup Waking
      BY <3>1, <3>2 DEF LocalsOf, NoLocals
    <3>3. CASE pc[t] = "SelfUnlock"
      BY <3>1, <3>3 DEF LocalsOf, ListedOf, Linked, Sleeping
    <3>4. CASE pc[t] = "WakeUnlock"
      BY <3>1, <3>4 DEF LocalsOf, Linked
    <3>5. CASE pc[t] \in {"Signal", "Signalled"}
      <4>1. PICK p \in 1 .. Len(seen.list) : Place(t, p)
        BY <3>1, <3>5 DEF LocalsOf, Waking
      <4>2. Len(list) \in Nat /\ p \in Nat /\ p >= 1 /\ p = Len(list)
        BY <2>1, <3>5, <4>1 DEF Place, Loop
      <4>3. \A i \in 1 .. Len(list) : Contains(list, list[i])
        BY <2>1 DEF Contains
      <4>4. /\ loc[t].entry = seen.list[p] /\ (e # loc[t].entry => p # 1 /\ e = seen.list[p - 1])
            /\ \A i \in 1 .. Len(list) : list[i] = seen.list[i]
        BY <3>1, <3>5, <4>1 DEF LocalsOf, Place, Loop
      <4>5. p \in 1 .. Len(list) /\ (p # 1 => p - 1 \in 1 .. Len(list))
        BY <4>2
      <4> QED BY <4>3, <4>4, <4>5
    <3> QED BY <3>2, <3>3, <3>4, <3>5 DEF Waking
  <2>5. ~word.locked => word.head = Newest
    BY <2>1 DEF Lock
  <2> DEFINE holders == {t \in Threads : pc[t] \in Holding}
  <2>6. IF word.locked THEN Cardinality(holders) = 1 ELSE holders = {}
    <3>1. CASE ~word.locked
      BY <2>1, <3>1 DEF Lock
    <3>2. CASE word.locked
      <4>1. PICK t \in Threads : pc[t] \in Holding
        BY <2>1, <3>2 DEF Lock
      <4>2. holders = {t}
        BY <2>1, <4>1 DEF Lock
      <4> QED BY <3>2, <4>2, FS_Singleton
    <3> QED BY <3>1, <3>2
  <2> HIDE DEF holders
  <2> QED BY <2>1, <2>2, <2>3, <2>4, <2>5, <2>6 DEF NoDanglingEntry, holders
<1> QED BY <1>1, Invariance, PTL

(* A wake takes the oldest entry it found off the list, or all of them, and *)
(* no other; of these nobody still sleeps who slept when it locked the      *)
(* list, and it has woken nobody else (condvar.c, lines 255-348).           *)
THEOREM OldestTaken == Spec => []WakeTakesOldest
<1>1. ASSUME IInv PROVE WakeTakesOldest
  <2> SUFFICES ASSUME NEW t \in Threads, pc[t] = "WakeUnlock"
               PROVE  LET n == Len(seen.list)
                          taken == {i \in 1 .. n : \/ seen.list[i] = loc[t].remove
                                                   \/ ~Contains(list, seen.list[i])}
                      IN  /\ taken = IF loc[t].all THEN 1 .. n ELSE {n}
                          /\ \A i \in taken : seen.list[i] \in seen.asleep =>
                                                  ~Contains(waitList, seen.list[i])
                          /\ \A u \in seen.woken : \E i \in taken : seen.list[i] = u
    BY DEF WakeTakesOldest
  <2> DEFINE n == Len(seen.list)
             taken == {i \in 1 .. n : \/ seen.list[i] = loc[t].remove
                                      \/ ~Contains(list, seen.list[i])}
  <2>1. PICK p \in 1 .. n : Place(t, p)
    BY <1>1 DEF IInv, ThreadOK, LocalsOf, Waking
  <2>2. /\ n \in Nat /\ seen.list \in Seq(Threads) /\ IsInjective(seen.list)
        /\ DOMAIN seen.list = 1 .. n /\ list \in Seq(Threads) /\ DOMAIN list = 1 .. Len(list)
        /\ \A i \in 1 .. n : seen.list[i] \in Threads
    BY <1>1 DEF IInv, Types, Seen
  <2>3. /\ Len(list) <= n /\ \A i \in 1 .. Len(list) : list[i] = seen.list[i]
        /\ p = IF loc[t].all THEN 1 ELSE n
        /\ IF loc[t].remove = NoEntry THEN Len(list) = p - 1
           ELSE p = 1 /\ Len(list) = 1 /\ loc[t].remove = seen.list[1]
    BY <2>1 DEF Place, Loop
  <2>4. \A i \in 1 .. n : Contains(list, seen.list[i]) <=> i <= Len(list)
    <3> SUFFICES ASSUME NEW i \in 1 .. n
                 PROVE  Contains(list, seen.list[i]) <=> i <= Len(list)
      OBVIOUS
    <3>1. ASSUME NEW k \in 1 .. Len(list), list[k] = seen.list[i] PROVE i <= Len(list)
      <4>1. k \in 1 .. n /\ seen.list[k] = seen.list[i]
        BY <2>2, <2>3, <3>1
      <4>2. k = i
        BY <2>2, <4>1 DEF IsInjective
      <4> QED BY <4>2
    <3>2. ASSUME i <= Len(list) PROVE Contains(list, seen.list[i])
      BY <2>2, <2>3, <3>2 DEF Contains
    <3> QED BY <2>2, <3>1, <3>2 DEF Contains
  <2>5. ASSUME NEW i \in 1 .. n PROVE i \in taken <=> i >= p
    <3>1. i \in taken <=> seen.list[i] = loc[t].remove \/ ~(i <= Len(list))
      BY <2>4
    <3>2. CASE loc[t].remove = NoEntry
      <4>1. seen.list[i] # loc[t].remove /\ Len(list) = p - 1
        BY <2>2, <2>3, <3>2, CondVarAssumption
      <4>2. ~(i <= p - 1) <=> i >= p
        BY <2>2
      <4> QED BY <3>1, <4>1, <4>2
    <3>3. CASE loc[t].remove # NoEntry
      <4>1. p = 1 /\ Len(list) = 1 /\ loc[t].remove = seen.list[1]
        BY <2>3, <3>3
      <4>2. i >= p /\ (i = 1 \/ ~(i <= 1))
        BY <2>2, <4>1
      <4> QED BY <3>1, <4>1, <4>2
    <3> QED BY <3>2, <3>3
  <2>6. taken \subseteq 1 .. n
    OBVIOUS
  <2> HIDE DEF taken
  <2>7. taken = IF loc[t].all THEN 1 .. n ELSE {n}
    <3>1. CASE loc[t].all
      <4>1. p = 1 /\ \A i \in 1 .. n : i >= 1
        BY <2>2, <2>3, <3>1
      <4>2. \A i \in 1 .. n : i \in taken
        BY <2>5, <4>1
      <4> QED BY <2>6, <3>1, <4>2
    <3>2. CASE ~loc[t].all
      <4>1. n \in 1 .. n /\ p = n
        BY <2>2, <2>3, <3>2
      <4>2. \A i \in 1 .. n : i \in taken <=> i = n
        BY <2>2, <2>5, <4>1
      <4> QED BY <2>6, <3>2, <4>1, <4>2
    <3> QED BY <3>1, <3>2
  <2>8. \A i \in taken : seen.list[i] \in seen.asleep => ~Contains(waitList, seen.list[i])
    <3> SUFFICES ASSUME NEW i \in taken, seen.list[i] \in seen.asleep
                 PROVE  ~OnWait(seen.list[i])
      BY DEF OnWait
    <3>1. i \in 1 .. n /\ (i > p \/ i = p)
      BY <2>2, <2>5, <2>6
    <3> QED BY <2>1, <3>1 DEF Place, Past
  <2>9. ASSUME NEW u \in seen.woken PROVE \E i \in taken : seen.list[i] = u
    <3>1. PICK i \in 1 .. n : seen.list[i] = u
      BY <1>1, <2>2 DEF IInv, Watched, Contains
    <3>2. i >= p
      BY <2>1, <3>1 DEF Place, Past
    <3> QED BY <2>5, <3>1, <3>2
  <2> QED BY <2>7, <2>8, <2>9 DEF taken
<1> QED BY <1>1, Invariance, PTL

(* A thread that sleeps although it was told that its entry is gone is      *)
(* woken by nobody (condvar.c, lines 287-334).                              *)
THEOREM RemovedStaysAsleep == Spec => RemovedNotWoken
<1>1. ASSUME IInv, [Next]_vars, NEW t \in Threads, handled[t], OnWait(t), ~OnWait(t)'
      PROVE  keyed[t].at = "TimedOut"
  <2>1. /\ Paired /\ ~Linked(t) /\ ~OnRelease(t) /\ pc[t] = "Asleep" /\ keyed[t].key = t
    BY <1>1 DEF IInv, ThreadOK, CallOf, ListedOf
  <2>2. waitList' # waitList
    BY <1>1 DEF OnWait
  <2>3. PICK u \in Threads : Sleep(u) \/ Signal(u) \/ Keyed(u)
    <3>1. Next
      BY <1>1, <2>2 DEF vars, keyedVars
    <3>2. PICK u \in Threads : Caller(u) \/ Step(u)
      BY <3>1 DEF Next
    <3> QED BY <2>2, <3>2 DEF Caller, Acquire, Release, SleepCall, WakeCall, Step, Insert,
               Unlink, Unlock, Drop, Awake, SelfLock, Spin, Reacquire, Wake, SignalReturns,
               keyedVars
  <2>4. CASE Sleep(u)
    <3>1. keyed[u] = NoCall
      BY <1>1, <2>4 DEF IInv, ThreadOK, CallOf, Sleep
    <3>2. ASSUME NEW v \in Partner(releaseList, u), Meet(u, v) PROVE FALSE
      <4>1. v \in Threads /\ OnRelease(v)
        BY <2>1, PartnerIs DEF Paired, OnRelease
      <4>2. OnWait(t)' <=> OnWait(t) /\ t # v
        BY <2>1, <3>1, <3>2, <4>1, MeetEffect
      <4> QED BY <1>1, <2>1, <4>1, <4>2
    <3>3. ASSUME waitList' = Append(waitList, u) PROVE FALSE
      BY <1>1, <2>1, <3>3, Appended DEF Paired, OnWait
    <3> QED BY <2>4, <3>2, <3>3 DEF Sleep, WaitForKeyedEvent
  <2>5. CASE Signal(u)
    <3>1. keyed[u] = NoCall /\ pc[u] = "Signal" /\ ThreadOK(u) /\ Types
      BY <1>1, <2>5 DEF IInv, ThreadOK, CallOf, Signal
    <3>2. loc[u].entry # t
      <4>1. PICK p \in 1 .. Len(seen.list) : Place(u, p)
        BY <3>1 DEF ThreadOK, LocalsOf, Waking
      <4>2. /\ list \in Seq(Threads) /\ Len(list) = p /\ loc[u].entry = seen.list[p]
            /\ \A i \in 1 .. Len(list) : list[i] = seen.list[i]
        BY <3>1, <4>1 DEF Types, Place, Loop
      <4>3. p \in 1 .. Len(list) /\ DOMAIN list = 1 .. Len(list)
        BY <4>2
      <4> QED BY <2>1, <4>2, <4>3 DEF Linked, Contains
    <3>3. ASSUME NEW v \in Partner(waitList, loc[u].entry), Meet(u, v) PROVE FALSE
      <4>1. v \in Threads /\ OnWait(v) /\ keyed[v].key = loc[u].entry
        BY <2>1, PartnerIs DEF Paired, OnWait
      <4>2. OnWait(t)' <=> OnWait(t) /\ t # v
        BY <2>1, <3>1, <3>3, <4>1, MeetEffect
      <4> QED BY <1>1, <2>1, <3>2, <4>1, <4>2
    <3> QED BY <2>2, <2>5, <3>3 DEF Signal, ReleaseKeyedEvent
  <2>6. CASE Keyed(u)
    <3>1. u = t
      BY <1>1, <2>1, <2>6, KeyedStepEffect DEF Keyed
    <3> QED BY <2>2, <2>6, <3>1 DEF Keyed, KeyedStep, Signalled, TimeOut, Unlist
  <2> QED BY <2>3, <2>4, <2>5, <2>6
<1>2. IInv /\ [Next]_vars =>
        [\A t \in Threads : handled[t] /\ Contains(waitList, t) /\ ~Contains(waitList, t)'
                              => keyed[t].at = "TimedOut"]_vars
  BY <1>1 DEF OnWait
<1> QED BY <1>2, Invariance, PTL DEF Spec, RemovedNotWoken
=============================================================================
