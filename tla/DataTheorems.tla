---------------------------- MODULE DataTheorems ----------------------------
(***************************************************************************)
(* Facts about the data the models are built from: induction over the      *)
(* natural numbers, linked lists, and sums.  The induction principles are stated *)
(* with a set in the place of a predicate.                                 *)
(***************************************************************************)
EXTENDS Integers, Sequences, FiniteSets, Functions, FiniteSetTheorems, TLAPS

-----------------------------------------------------------------------------
(* A set of natural numbers has a least one.                                *)
LEMMA LeastNumber ==
    ASSUME NEW T \in SUBSET Nat, T # {}
    PROVE  \E x \in T : \A y \in T : x <= y
<1> DEFINE F == {0 .. k : k \in T}
<1>1. F # {}
  OBVIOUS
<1>2. F \subseteq FiniteSubsetsOf(Nat)
  <2> SUFFICES ASSUME NEW k \in T PROVE 0 .. k \in FiniteSubsetsOf(Nat)
    OBVIOUS
  <2> QED BY FS_Interval DEF FiniteSubsetsOf
<1>3. IsWellFoundedOn(StrictSubsetOrdering(Nat), FiniteSubsetsOf(Nat))
  BY FS_StrictSubsetOrderingWellFounded
<1> HIDE DEF F
<1>4. PICK I \in F : \A J \in F : ~(<<J, I>> \in StrictSubsetOrdering(Nat))
  BY <1>1, <1>2, <1>3, WFMin
<1>5. PICK x \in T : I = 0 .. x
  BY DEF F
<1>6. ASSUME NEW y \in T, y < x PROVE FALSE
  <2>1. 0 .. y \in F
    BY DEF F
  <2>2. 0 .. y \subseteq 0 .. x /\ 0 .. y # 0 .. x
    BY <1>6
  <2>3. <<0 .. y, 0 .. x>> \in StrictSubsetOrdering(Nat)
    BY <2>2 DEF StrictSubsetOrdering
  <2> QED BY <1>4, <1>5, <2>1, <2>3
<1> QED BY <1>6

(* A set that has 0, and with every number up to n the next one, has them   *)
(* all.                                                                     *)
LEMMA Induction ==
    ASSUME NEW n \in Nat, NEW T, 0 \in T, \A k \in 0 .. n - 1 : k \in T => k + 1 \in T
    PROVE  0 .. n \subseteq T
<1> SUFFICES ASSUME (0 .. n) \ T # {} PROVE FALSE
  OBVIOUS
<1>1. PICK x \in (0 .. n) \ T : \A y \in (0 .. n) \ T : x <= y
  <2>1. (0 .. n) \ T \in SUBSET Nat
    OBVIOUS
  <2> QED BY <2>1, LeastNumber
<1>2. x - 1 \in T /\ x - 1 \in 0 .. n - 1
  BY <1>1
<1> QED BY <1>1, <1>2

-----------------------------------------------------------------------------
(* s is the list that begins at b: next is the link from each element to    *)
(* the one behind it, and null where there is none.                         *)
Members(s) == {s[i] : i \in 1 .. Len(s)}

IsList(D, next, null, b, s) ==
    /\ s \in Seq(D)
    /\ \A i, j \in 1 .. Len(s) : s[i] = s[j] => i = j
    /\ b = IF Len(s) = 0 THEN null ELSE s[1]
    /\ \A i \in 1 .. Len(s) : next[s[i]] = IF i = Len(s) THEN null ELSE s[i + 1]

(* A null pointer is the empty list, and nothing else is.                   *)
LEMMA NullList ==
    ASSUME NEW D, NEW next, NEW null, null \notin D
    PROVE  /\ IsList(D, next, null, null, <<>>)
           /\ \A s : IsList(D, next, null, null, s) => s = <<>>
           /\ Members(<<>>) = {}
<1>1. ASSUME NEW s, IsList(D, next, null, null, s) PROVE s = <<>>
  BY <1>1 DEF IsList
<1> QED BY <1>1 DEF IsList, Members

(* The members are elements; the first one is a member.                     *)
LEMMA ListMembers ==
    ASSUME NEW D, NEW next, NEW null, null \notin D, NEW b, NEW s,
           IsList(D, next, null, b, s)
    PROVE  /\ Members(s) \subseteq D
           /\ b # null => b \in Members(s) /\ s # <<>>
           /\ b \in D \cup {null}
  BY DEF IsList, Members

(* Links of other elements do not matter.                                   *)
LEMMA ListFrame ==
    ASSUME NEW D, NEW next, NEW next2, NEW null, NEW b, NEW s,
           IsList(D, next, null, b, s),
           \A x \in Members(s) : next2[x] = next[x]
    PROVE  IsList(D, next2, null, b, s)
<1>1. \A i \in 1 .. Len(s) : s[i] \in Members(s)
  BY DEF Members
<1> QED BY <1>1 DEF IsList

(* An element that is linked to the first one becomes the first.            *)
LEMMA ListPush ==
    ASSUME NEW D, NEW next, NEW null, null \notin D, NEW b, NEW s,
           IsList(D, next, null, b, s),
           NEW x \in D, x \notin Members(s), next[x] = b
    PROVE  /\ IsList(D, next, null, x, <<x>> \o s)
           /\ Members(<<x>> \o s) = Members(s) \cup {x}
<1> DEFINE p == <<x>> \o s
<1>1. s \in Seq(D) /\ p \in Seq(D) /\ Len(p) = Len(s) + 1 /\ Len(s) \in Nat
  BY DEF IsList
<1>2. p[1] = x /\ \A i \in 1 .. Len(s) : p[i + 1] = s[i]
  BY <1>1
<1>3. \A i \in 2 .. Len(p) : p[i] = s[i - 1] /\ i - 1 \in 1 .. Len(s)
  BY <1>1, <1>2
<1>4. \A i \in 1 .. Len(s) : s[i] # x
  BY DEF Members
<1> HIDE DEF p
<1>5. Members(p) = Members(s) \cup {x}
  <2>1. ASSUME NEW y \in Members(p) PROVE y \in Members(s) \cup {x}
    <3>1. PICK i \in 1 .. Len(p) : y = p[i]
      BY DEF Members
    <3>2. CASE i = 1
      BY <3>1, <3>2, <1>2
    <3>3. CASE i # 1
      BY <3>1, <3>3, <1>1, <1>3 DEF Members
    <3> QED BY <3>2, <3>3
  <2>2. x \in Members(p)
    BY <1>1, <1>2 DEF Members
  <2>3. ASSUME NEW i \in 1 .. Len(s) PROVE s[i] \in Members(p)
    <3>1. i + 1 \in 1 .. Len(p) /\ p[i + 1] = s[i]
      BY <1>1, <1>2
    <3> QED BY <3>1 DEF Members
  <2> QED BY <2>1, <2>2, <2>3 DEF Members
<1>6. IsList(D, next, null, x, p)
  <2>1. ASSUME NEW i \in 1 .. Len(p), NEW j \in 1 .. Len(p), p[i] = p[j]
        PROVE  i = j
    <3>1. CASE i = 1 /\ j # 1
      BY <2>1, <3>1, <1>1, <1>2, <1>3, <1>4
    <3>2. CASE i # 1 /\ j = 1
      BY <2>1, <3>2, <1>1, <1>2, <1>3, <1>4
    <3>3. CASE i # 1 /\ j # 1
      <4>1. i \in 2 .. Len(p) /\ j \in 2 .. Len(p)
        BY <3>3, <1>1
      <4>2. s[i - 1] = s[j - 1] /\ i - 1 \in 1 .. Len(s) /\ j - 1 \in 1 .. Len(s)
        BY <2>1, <4>1, <1>3
      <4>3. i - 1 = j - 1
        BY <4>2 DEF IsList
      <4> QED BY <4>1, <4>3
    <3> QED BY <3>1, <3>2, <3>3
  <2>2. ASSUME NEW i \in 1 .. Len(p)
        PROVE  next[p[i]] = IF i = Len(p) THEN null ELSE p[i + 1]
    <3>1. CASE i = 1 /\ Len(s) = 0
      BY <3>1, <1>1, <1>2 DEF IsList
    <3>2. CASE i = 1 /\ Len(s) # 0
      BY <3>2, <1>1, <1>2 DEF IsList
    <3>3. CASE i # 1
      <4>1. next[s[i-1]] = IF i - 1 = Len(s) THEN null ELSE s[i]
        BY <3>3, <1>3, <1>1 DEF IsList
      <4> QED BY <4>1, <3>3, <1>3, <1>1, <1>2
    <3> QED BY <3>1, <3>2, <3>3
  <2> QED BY <1>1, <1>2, <2>1, <2>2 DEF IsList
<1> QED BY <1>5, <1>6 DEF p

(* The list behind the first one, which is not a member of it.              *)
LEMMA ListPop ==
    ASSUME NEW D, NEW next, NEW null, null \notin D, NEW b \in D, NEW s,
           IsList(D, next, null, b, s)
    PROVE  /\ IsList(D, next, null, next[b], Tail(s))
           /\ Members(Tail(s)) = Members(s) \ {b}
           /\ b \in Members(s)
<1> DEFINE p == Tail(s)
<1>1. s \in Seq(D) /\ Len(s) # 0 /\ p \in Seq(D) /\ Len(p) = Len(s) - 1 /\ Len(p) \in Nat
  BY DEF IsList
<1>2. b = s[1] /\ \A i \in 1 .. Len(p) : p[i] = s[i + 1] /\ i + 1 \in 1 .. Len(s)
  <2>1. b = s[1]
    BY <1>1 DEF IsList
  <2>2. \A i \in 1 .. Len(p) : i + 1 \in 1 .. Len(s)
    BY <1>1
  <2>3. \A i \in 1 .. Len(p) : p[i] = s[i + 1]
    BY <1>1
  <2> QED BY <2>1, <2>2, <2>3
<1>3. \A i, j \in 1 .. Len(s) : s[i] = s[j] => i = j
  BY DEF IsList
<1> HIDE DEF p
<1>4. Members(p) = Members(s) \ {b}
  <2>1. ASSUME NEW i \in 1 .. Len(p) PROVE p[i] \in Members(s) /\ p[i] # b
    <3>1. 1 \in 1 .. Len(s) /\ i + 1 # 1
      BY <1>1
    <3> QED BY <3>1, <1>1, <1>2, <1>3 DEF Members
  <2>2. ASSUME NEW i \in 1 .. Len(s), s[i] # b PROVE s[i] \in Members(p)
    <3>1. i - 1 \in 1 .. Len(p) /\ p[i - 1] = s[i]
      BY <2>2, <1>1, <1>2
    <3> QED BY <3>1 DEF Members
  <2> QED BY <2>1, <2>2 DEF Members
<1>5. IsList(D, next, null, next[b], p)
  <2>1. \A i, j \in 1 .. Len(p) : p[i] = p[j] => i = j
    BY <1>1, <1>2, <1>3
  <2>2. next[b] = IF Len(p) = 0 THEN null ELSE p[1]
    BY <1>1, <1>2 DEF IsList
  <2>3. ASSUME NEW i \in 1 .. Len(p)
        PROVE  next[p[i]] = IF i = Len(p) THEN null ELSE p[i + 1]
    <3>1. next[s[i+1]] = IF i + 1 = Len(s) THEN null ELSE s[i + 2]
      BY <1>1, <1>2 DEF IsList
    <3> QED BY <3>1, <1>1, <1>2
  <2> QED BY <1>1, <2>1, <2>2, <2>3 DEF IsList
<1>6. b \in Members(s)
  BY <1>1, <1>2 DEF Members
<1> QED BY <1>4, <1>5, <1>6 DEF p

(* A list is no longer than there are elements.                             *)
LEMMA ListLength ==
    ASSUME NEW D, IsFiniteSet(D), NEW next, NEW null, NEW b, NEW s,
           IsList(D, next, null, b, s)
    PROVE  Len(s) \in Nat /\ Len(s) <= Cardinality(D) /\ Cardinality(D) \in Nat
<1>1. Len(s) \in Nat /\ s \in [1 .. Len(s) -> D]
  BY DEF IsList
<1>2. s \in Injection(1 .. Len(s), D)
  BY <1>1 DEF IsList, Injection, IsInjective
<1>3. Cardinality(1 .. Len(s)) = Len(s)
  BY <1>1, FS_Interval
<1>4. Cardinality(1 .. Len(s)) <= Cardinality(D)
  BY <1>2, FS_Injection
<1> QED BY <1>1, <1>3, <1>4, FS_CardinalityType

(* c is what comes after k steps along the links, and null from the end on. *)
(* It is the list.                                                          *)
Follows(D, next, null, b, c, n) ==
    /\ c[0] = b
    /\ \A k \in 1 .. n : /\ c[k - 1] = null => c[k] = null
                         /\ c[k - 1] \in D => c[k] = next[c[k - 1]]

(* The members of s one after the other, and null from the end on.          *)
Visits(c, s, null, n) ==
    \A k \in 0 .. n : c[k] = IF k < Len(s) THEN s[k + 1] ELSE null

(* Following the links of a list visits its members in turn, and then null. *)
LEMMA ListFollowed ==
    ASSUME NEW D, IsFiniteSet(D), NEW next, NEW null, null \notin D, NEW b, NEW s,
           IsList(D, next, null, b, s),
           NEW c, Follows(D, next, null, b, c, Cardinality(D))
    PROVE  Visits(c, s, null, Cardinality(D))
<1> DEFINE N == Cardinality(D)
           T == {k \in 0 .. N : c[k] = IF k < Len(s) THEN s[k + 1] ELSE null}
<1>1. Len(s) \in Nat /\ Len(s) <= N /\ N \in Nat
  BY ListLength
<1>2. 0 \in T
  BY <1>1 DEF IsList, Follows
<1>3. ASSUME NEW k \in 0 .. N - 1, k \in T PROVE k + 1 \in T
  <2>1. k + 1 \in 1 .. N /\ c[k] = IF k < Len(s) THEN s[k + 1] ELSE null
    BY <1>1, <1>3
  <2>2. CASE k < Len(s)
    <3>1. k + 1 \in 1 .. Len(s) /\ s[k + 1] \in D
      BY <2>2, <1>1 DEF IsList
    <3>2. c[k + 1] = next[s[k + 1]]
      BY <2>1, <2>2, <3>1, <1>1 DEF Follows
    <3>3. next[s[k + 1]] = IF k + 1 = Len(s) THEN null ELSE s[k + 2]
      BY <3>1 DEF IsList
    <3> QED BY <3>2, <3>3, <1>1, <2>1, <2>2
  <2>3. CASE ~(k < Len(s))
    <3>1. c[k + 1] = null
      BY <2>1, <2>3, <1>1 DEF Follows
    <3> QED BY <3>1, <1>1, <2>1, <2>3
  <2> QED BY <2>2, <2>3
<1> HIDE DEF T
<1>4. 0 .. N \subseteq T
  BY <1>1, <1>2, <1>3, Induction
<1> QED BY <1>4 DEF T, Visits

-----------------------------------------------------------------------------
(***************************************************************************)
(* SumFunctionOnSet adds up the values of f over a finite set, one element *)
(* after the other: g has the sums over all subsets.                       *)
(***************************************************************************)
Pick(s) == CHOOSE x \in s : TRUE
Sums(f, S, g) ==
    g = [s \in SUBSET S |-> IF s = {} THEN 0 ELSE f[Pick(s)] + g[s \ {Pick(s)}]]

(* The element taken out of a set is one of it.                             *)
LEMMA PickIn == \A s : s # {} => Pick(s) \in s
  BY DEF Pick

(* There is such a g: up to any size there is one that has the sums over    *)
(* the subsets up to that size.                                             *)
Body(f, g, s) == IF s = {} THEN 0 ELSE f[Pick(s)] + g[s \ {Pick(s)}]
SumsUpTo(f, S, k, g) ==
    \A s \in SUBSET S : Cardinality(s) <= k => g[s] = Body(f, g, s)

(* The sums over the subsets of a finite set exist.                         *)
LEMMA SumsExist ==
    ASSUME NEW S, IsFiniteSet(S), NEW f
    PROVE  \E g : Sums(f, S, g)
<1> DEFINE N == Cardinality(S)
           T == {k \in 0 .. N : \E g : SumsUpTo(f, S, k, g)}
<1>1. N \in Nat /\ \A s \in SUBSET S : IsFiniteSet(s) /\ Cardinality(s) \in 0 .. N
  BY FS_CardinalityType, FS_Subset
<1>2. ASSUME NEW s \in SUBSET S, s # {}
      PROVE  /\ s \ {Pick(s)} \in SUBSET S
             /\ Cardinality(s \ {Pick(s)}) = Cardinality(s) - 1
  BY <1>1, <1>2, PickIn, FS_RemoveElement
<1>3. 0 \in T
  <2> DEFINE g == [s \in SUBSET S |-> 0]
  <2>1. ASSUME NEW s \in SUBSET S, Cardinality(s) <= 0 PROVE g[s] = Body(f, g, s)
    <3>1. Cardinality(s) = 0 /\ IsFiniteSet(s)
      BY <2>1, <1>1
    <3>2. s = {}
      BY <3>1, FS_EmptySet
    <3> QED BY <3>2 DEF Body
  <2>2. SumsUpTo(f, S, 0, g)
    BY <2>1 DEF SumsUpTo
  <2> QED BY <2>2, <1>1
<1>4. ASSUME NEW k \in 0 .. N - 1, k \in T PROVE k + 1 \in T
  <2>1. PICK g : SumsUpTo(f, S, k, g)
    BY <1>4
  <2> DEFINE h == [s \in SUBSET S |-> IF Cardinality(s) <= k THEN g[s] ELSE Body(f, g, s)]
  <2>2. ASSUME NEW s \in SUBSET S, Cardinality(s) <= k + 1 PROVE h[s] = Body(f, h, s)
    <3>1. h[s] = Body(f, g, s)
      BY <2>1 DEF SumsUpTo
    <3>2. CASE s = {}
      BY <3>1, <3>2 DEF Body
    <3>3. CASE s # {}
      <4>0. Cardinality(s) \in Nat
        BY <1>1
      <4>1. s \ {Pick(s)} \in SUBSET S /\ Cardinality(s \ {Pick(s)}) <= k
        BY <3>3, <2>2, <4>0, <1>2
      <4>2. h[s \ {Pick(s)}] = g[s \ {Pick(s)}]
        BY <4>1
      <4> QED BY <3>1, <3>3, <4>2 DEF Body
    <3> QED BY <3>2, <3>3
  <2> HIDE DEF h
  <2>3. SumsUpTo(f, S, k + 1, h)
    BY <2>2 DEF SumsUpTo
  <2>4. k + 1 \in 0 .. N
    BY <1>1
  <2> QED BY <2>3, <2>4
<1> HIDE DEF T
<1>5. N \in T
  BY <1>1, <1>3, <1>4, Induction
<1>6. PICK g : SumsUpTo(f, S, N, g)
  BY <1>5 DEF T
<1> DEFINE h == [s \in SUBSET S |-> g[s]]
<1>7. ASSUME NEW s \in SUBSET S PROVE h[s] = Body(f, h, s)
  <2>1. h[s] = Body(f, g, s)
    BY <1>1, <1>6 DEF SumsUpTo
  <2>2. s # {} => h[s \ {Pick(s)}] = g[s \ {Pick(s)}]
    BY <1>2
  <2> QED BY <2>1, <2>2 DEF Body
<1>8. Sums(f, S, h)
  BY <1>7 DEF Sums, Body
<1> QED BY <1>8

(* The sums are integers, and any element can be taken out first.           *)
LEMMA SumsStep ==
    ASSUME NEW S, IsFiniteSet(S), NEW f, \A x \in S : f[x] \in Int, NEW g, Sums(f, S, g)
    PROVE  \A s \in SUBSET S : /\ g[s] \in Int
                               /\ s = {} => g[s] = 0
                               /\ \A x \in s : g[s] = f[x] + g[s \ {x}]
<1> DEFINE N == Cardinality(S)
           Good(s) == /\ g[s] \in Int
                      /\ \A x \in s : g[s] = f[x] + g[s \ {x}]
           GoodUpTo(k) == \A s \in SUBSET S : Cardinality(s) <= k => Good(s)
           T == {k \in 0 .. N : GoodUpTo(k)}
<1>0. \A s \in SUBSET S : g[s] = IF s = {} THEN 0 ELSE f[Pick(s)] + g[s \ {Pick(s)}]
  BY DEF Sums
<1>1. N \in Nat /\ \A s \in SUBSET S : IsFiniteSet(s) /\ Cardinality(s) \in 0 .. N
  BY FS_CardinalityType, FS_Subset
<1>2. \A s \in SUBSET S : \A x \in s :
         s \ {x} \in SUBSET S /\ Cardinality(s \ {x}) = Cardinality(s) - 1
  BY <1>1, FS_RemoveElement
<1>3. 0 \in T
  <2>1. ASSUME NEW s \in SUBSET S, Cardinality(s) <= 0 PROVE Good(s)
    <3>0. Cardinality(s) = 0 /\ IsFiniteSet(s)
      BY <2>1, <1>1
    <3>1. s = {}
      BY <3>0, FS_EmptySet, Zenon
    <3>2. g[s] = 0
      BY <3>1, <1>0
    <3> QED BY <3>1, <3>2
  <2> QED BY <2>1, <1>1
<1>4. ASSUME NEW k \in 0 .. N - 1, k \in T PROVE k + 1 \in T
  <2>0. \A s \in SUBSET S : Cardinality(s) <= k => Good(s)
    BY <1>4
  <2> HIDE DEF Good
  <2>1. ASSUME NEW s \in SUBSET S, Cardinality(s) <= k + 1, s # {} PROVE Good(s)
    <3> DEFINE p == Pick(s)
    <3>1. p \in s
      BY <2>1, PickIn
    <3>2. g[s] = f[p] + g[s \ {p}]
      BY <2>1, <1>0
    <3> HIDE DEF p
    <3>3. \A x \in s : Good(s \ {x}) /\ f[x] \in Int
      BY <2>0, <2>1, <1>1, <1>2
    <3>4. \A x \in s : g[s \ {x}] \in Int
      BY <3>3 DEF Good
    <3>5. ASSUME NEW x \in s PROVE g[s] = f[x] + g[s \ {x}]
      <4>1. CASE x = p
        BY <3>2, <4>1
      <4>2. CASE x # p
        <5>1. g[s \ {p}] = f[x] + g[(s \ {p}) \ {x}]
          BY <3>1, <3>3, <4>2 DEF Good
        <5>2. g[s \ {x}] = f[p] + g[(s \ {x}) \ {p}]
          BY <3>1, <3>3, <4>2 DEF Good
        <5>3. (s \ {p}) \ {x} = (s \ {x}) \ {p}
          OBVIOUS
        <5>4. g[(s \ {x}) \ {p}] \in Int
          <6>0. Cardinality(s) \in Nat
            BY <1>1
          <6>1. s \ {x} \in SUBSET S /\ Cardinality(s \ {x}) = Cardinality(s) - 1
            BY <1>2
          <6>2. p \in s \ {x}
            BY <3>1, <4>2
          <6>3. /\ (s \ {x}) \ {p} \in SUBSET S
                /\ Cardinality((s \ {x}) \ {p}) = Cardinality(s \ {x}) - 1
            BY <6>1, <6>2, <1>2
          <6>4. Cardinality((s \ {x}) \ {p}) <= k
            BY <6>0, <6>1, <6>3, <2>1
          <6>5. Good((s \ {x}) \ {p})
            BY <6>3, <6>4, <2>0
          <6> QED BY <6>5 DEF Good
        <5>5. f[p] \in Int /\ f[x] \in Int
          BY <3>1, <3>3
        <5>6. g[s \ {p}] = f[x] + g[(s \ {x}) \ {p}]
          BY <5>1, <5>3
        <5>7. f[p] + (f[x] + g[(s \ {x}) \ {p}]) = f[x] + (f[p] + g[(s \ {x}) \ {p}])
          BY <5>4, <5>5
        <5> QED BY <3>2, <5>2, <5>6, <5>7
      <4> QED BY <4>1, <4>2
    <3> QED BY <3>1, <3>2, <3>3, <3>4, <3>5 DEF Good
  <2>2. Good({})
    BY <2>0, FS_EmptySet
  <2>3. \A s \in SUBSET S : Cardinality(s) <= k + 1 => Good(s)
    BY <2>1, <2>2
  <2> QED BY <2>3, <1>1
<1> HIDE DEF T
<1>5. N \in T
  BY <1>1, <1>3, <1>4, Induction
<1> HIDE DEF Good
<1>6. \A s \in SUBSET S : Good(s)
  <2>1. GoodUpTo(N)
    BY <1>5 DEF T
  <2> QED BY <1>1, <2>1
<1> QED BY <1>0, <1>6 DEF Good

(* Sums of functions that agree are the same.                               *)
LEMMA SumsAgree ==
    ASSUME NEW S, IsFiniteSet(S), NEW f, \A x \in S : f[x] \in Int, NEW g, Sums(f, S, g),
           NEW S2, IsFiniteSet(S2), NEW f2, NEW g2, Sums(f2, S2, g2),
           \A x \in S2 : f2[x] \in Int,
           NEW R \in SUBSET (S \cap S2), \A x \in R : f[x] = f2[x]
    PROVE  g[R] = g2[R]
<1> DEFINE N == Cardinality(R)
           AgreeUpTo(k) == \A s \in SUBSET R : Cardinality(s) <= k => g[s] = g2[s]
           T == {k \in 0 .. N : AgreeUpTo(k)}
<1>0. /\ \A s \in SUBSET S : s = {} => g[s] = 0
      /\ \A s \in SUBSET S : \A x \in s : g[s] = f[x] + g[s \ {x}]
      /\ \A s \in SUBSET S2 : s = {} => g2[s] = 0
      /\ \A s \in SUBSET S2 : \A x \in s : g2[s] = f2[x] + g2[s \ {x}]
  BY SumsStep
<1>1. IsFiniteSet(R) /\ N \in Nat /\ \A s \in SUBSET R : IsFiniteSet(s) /\ Cardinality(s) \in 0 .. N
  <2>1. IsFiniteSet(R)
    BY FS_Subset
  <2> QED BY <2>1, FS_CardinalityType, FS_Subset
<1>2. 0 \in T
  <2>1. ASSUME NEW s \in SUBSET R, Cardinality(s) <= 0 PROVE g[s] = g2[s]
    <3>0. Cardinality(s) = 0 /\ IsFiniteSet(s)
      BY <2>1, <1>1
    <3>1. s = {}
      BY <3>0, FS_EmptySet, Zenon
    <3> QED BY <3>1, <1>0
  <2> QED BY <2>1, <1>1
<1>3. ASSUME NEW k \in 0 .. N - 1, k \in T PROVE k + 1 \in T
  <2>0. AgreeUpTo(k)
    BY <1>3
  <2>1. ASSUME NEW s \in SUBSET R, Cardinality(s) <= k + 1 PROVE g[s] = g2[s]
    <3>1. CASE s = {}
      BY <3>1, <1>0
    <3>2. CASE s # {}
      <4>1. PICK x \in s : TRUE
        BY <3>2
      <4>2. Cardinality(s \ {x}) = Cardinality(s) - 1 /\ Cardinality(s) \in Nat
        BY <1>1, FS_RemoveElement
      <4>3. g[s \ {x}] = g2[s \ {x}]
        BY <2>0, <2>1, <4>2
      <4>4. g[s] = f[x] + g[s \ {x}] /\ g2[s] = f2[x] + g2[s \ {x}] /\ f[x] = f2[x]
        BY <1>0
      <4> QED BY <4>3, <4>4
    <3> QED BY <3>1, <3>2
  <2>2. AgreeUpTo(k + 1) /\ k + 1 \in 0 .. N
    BY <2>1, <1>1
  <2> QED BY <2>2
<1> HIDE DEF T
<1>4. N \in T
  BY <1>1, <1>2, <1>3, Induction
<1>5. AgreeUpTo(N)
  BY <1>4 DEF T
<1> QED BY <1>1, <1>5

(* So the sum is one of them.                                               *)
LEMMA SumIs ==
    ASSUME NEW S, IsFiniteSet(S), NEW f
    PROVE  \E g : Sums(f, S, g) /\ SumFunctionOnSet(f, S) = g[S]
<1> DEFINE g == CHOOSE h : Sums(f, S, h)
<1>1. Sums(f, S, g)
  BY SumsExist
<1>2. SumFunctionOnSet(f, S) = g[S]
  BY DEF SumFunctionOnSet, FoldFunctionOnSet, MapThenFoldSet, Sums, Pick
<1> QED BY <1>1, <1>2

(* The sum over nothing is 0; sums are integers.                            *)
LEMMA SumEmpty ==
    ASSUME NEW f
    PROVE  SumFunctionOnSet(f, {}) = 0
<1>1. PICK g : Sums(f, {}, g) /\ SumFunctionOnSet(f, {}) = g[{}]
  BY SumIs, FS_EmptySet
<1> QED BY <1>1 DEF Sums

(* A sum of integers is an integer.                                         *)
LEMMA SumType ==
    ASSUME NEW S, IsFiniteSet(S), NEW f, \A x \in S : f[x] \in Int
    PROVE  SumFunctionOnSet(f, S) \in Int
<1>1. PICK g : Sums(f, S, g) /\ SumFunctionOnSet(f, S) = g[S]
  BY SumIs
<1> QED BY <1>1, SumsStep

(* Functions that agree on a set have the same sum over it.                 *)
LEMMA SumSame ==
    ASSUME NEW S, IsFiniteSet(S), NEW f, NEW f2, \A x \in S : f[x] \in Int /\ f2[x] = f[x]
    PROVE  SumFunctionOnSet(f2, S) = SumFunctionOnSet(f, S)
<1>1. PICK g : Sums(f, S, g) /\ SumFunctionOnSet(f, S) = g[S]
  BY SumIs
<1>2. PICK g2 : Sums(f2, S, g2) /\ SumFunctionOnSet(f2, S) = g2[S]
  BY SumIs
<1>3. \A x \in S : f2[x] \in Int
  OBVIOUS
<1>4. S \in SUBSET (S \cap S)
  OBVIOUS
<1>5. g[S] = g2[S]
  BY <1>1, <1>2, <1>3, <1>4, SumsAgree
<1> QED BY <1>1, <1>2, <1>5

(* Any element can be taken out of the sum ...                              *)
LEMMA SumRemove ==
    ASSUME NEW S, IsFiniteSet(S), NEW f, \A x \in S : f[x] \in Int, NEW x \in S
    PROVE  SumFunctionOnSet(f, S) = f[x] + SumFunctionOnSet(f, S \ {x})
<1> DEFINE R == S \ {x}
<1>1. PICK g : Sums(f, S, g) /\ SumFunctionOnSet(f, S) = g[S]
  BY SumIs
<1>2. IsFiniteSet(R) /\ \A y \in R : f[y] \in Int
  BY FS_RemoveElement
<1>3. PICK g2 : Sums(f, R, g2) /\ SumFunctionOnSet(f, R) = g2[R]
  BY <1>2, SumIs
<1>4. g[S] = f[x] + g[R]
  BY <1>1, SumsStep
<1>5. R \in SUBSET (S \cap R)
  OBVIOUS
<1>6. g[R] = g2[R]
  BY <1>1, <1>2, <1>3, <1>5, SumsAgree
<1> QED BY <1>1, <1>3, <1>4, <1>6

(* ... or put into it, and the value of one element can change.             *)
LEMMA SumAdd ==
    ASSUME NEW S, IsFiniteSet(S), NEW f, \A y \in S : f[y] \in Int, NEW x, x \notin S, f[x] \in Int
    PROVE  SumFunctionOnSet(f, S \cup {x}) = f[x] + SumFunctionOnSet(f, S)
<1> DEFINE R == S \cup {x}
<1>1. IsFiniteSet(R) /\ x \in R /\ \A y \in R : f[y] \in Int
  BY FS_AddElement
<1>2. R \ {x} = S
  OBVIOUS
<1> HIDE DEF R
<1>3. SumFunctionOnSet(f, R) = f[x] + SumFunctionOnSet(f, R \ {x})
  BY <1>1, SumRemove
<1> QED BY <1>2, <1>3 DEF R

(* One term of a sum changes.                                               *)
LEMMA SumChange ==
    ASSUME NEW S, IsFiniteSet(S), NEW f, NEW f2, NEW x \in S,
           \A y \in S : f[y] \in Int /\ f2[y] \in Int,
           \A y \in S \ {x} : f2[y] = f[y]
    PROVE  SumFunctionOnSet(f2, S) = SumFunctionOnSet(f, S) - f[x] + f2[x]
<1> DEFINE R == S \ {x}
<1>1. IsFiniteSet(R) /\ \A y \in R : f[y] \in Int /\ f2[y] = f[y]
  BY FS_RemoveElement
<1>2. SumFunctionOnSet(f, R) \in Int /\ SumFunctionOnSet(f2, R) = SumFunctionOnSet(f, R)
  BY <1>1, SumType, SumSame
<1>3. SumFunctionOnSet(f, S) = f[x] + SumFunctionOnSet(f, R)
  BY SumRemove
<1>4. SumFunctionOnSet(f2, S) = f2[x] + SumFunctionOnSet(f2, R)
  BY SumRemove
<1>5. f[x] \in Int /\ f2[x] \in Int
  OBVIOUS
<1> HIDE DEF R
<1> QED BY <1>2, <1>3, <1>4, <1>5

(* A sum of zeros is zero.                                                  *)
LEMMA SumZero ==
    ASSUME NEW S, IsFiniteSet(S), NEW f, \A x \in S : f[x] = 0
    PROVE  SumFunctionOnSet(f, S) = 0
<1> DEFINE h == [s \in SUBSET S |-> 0]
<1>1. PICK g : Sums(f, S, g) /\ SumFunctionOnSet(f, S) = g[S]
  BY SumIs
<1>2. Sums(f, S, h)
  <2>1. \A s \in SUBSET S : s # {} => f[Pick(s)] + h[s \ {Pick(s)}] = 0
    <3> SUFFICES ASSUME NEW s \in SUBSET S, s # {} PROVE f[Pick(s)] + h[s \ {Pick(s)}] = 0
      OBVIOUS
    <3>1. Pick(s) \in S /\ s \ {Pick(s)} \in SUBSET S
      BY PickIn
    <3> QED BY <3>1
  <2> QED BY <2>1 DEF Sums
<1>3. S \in SUBSET (S \cap S) /\ \A x \in S : f[x] \in Int
  OBVIOUS
<1> HIDE DEF h
<1>4. g[S] = h[S]
  BY <1>1, <1>2, <1>3, SumsAgree
<1> QED BY <1>1, <1>4 DEF h

(* A sum of natural numbers is one, and at least each of them.              *)
LEMMA SumNat ==
    ASSUME NEW S, IsFiniteSet(S), NEW f, \A x \in S : f[x] \in Nat
    PROVE  /\ SumFunctionOnSet(f, S) \in Nat
           /\ \A x \in S : f[x] <= SumFunctionOnSet(f, S)
<1> DEFINE N == Cardinality(S)
           NatUpTo(k) == \A s \in SUBSET S : Cardinality(s) <= k => SumFunctionOnSet(f, s) \in Nat
           T == {k \in 0 .. N : NatUpTo(k)}
<1>1. N \in Nat /\ \A s \in SUBSET S : IsFiniteSet(s) /\ Cardinality(s) \in 0 .. N
  BY FS_CardinalityType, FS_Subset
<1>2. 0 \in T
  <2>1. ASSUME NEW s \in SUBSET S, Cardinality(s) <= 0 PROVE SumFunctionOnSet(f, s) \in Nat
    <3>0. Cardinality(s) = 0 /\ IsFiniteSet(s)
      BY <2>1, <1>1
    <3>1. s = {}
      BY <3>0, FS_EmptySet, Zenon
    <3> QED BY <3>1, SumEmpty
  <2> QED BY <2>1, <1>1
<1>3. ASSUME NEW k \in 0 .. N - 1, k \in T PROVE k + 1 \in T
  <2>0. NatUpTo(k)
    BY <1>3
  <2>1. ASSUME NEW s \in SUBSET S, Cardinality(s) <= k + 1 PROVE SumFunctionOnSet(f, s) \in Nat
    <3>1. CASE s = {}
      BY <3>1, SumEmpty
    <3>2. CASE s # {}
      <4>1. PICK x \in s : TRUE
        BY <3>2
      <4>2. Cardinality(s \ {x}) = Cardinality(s) - 1 /\ Cardinality(s) \in Nat /\ IsFiniteSet(s)
        BY <1>1, FS_RemoveElement
      <4>3. SumFunctionOnSet(f, s \ {x}) \in Nat
        BY <2>0, <2>1, <4>2
      <4>4. \A y \in s : f[y] \in Int
        OBVIOUS
      <4>5. SumFunctionOnSet(f, s) = f[x] + SumFunctionOnSet(f, s \ {x})
        BY <4>2, <4>4, SumRemove
      <4> QED BY <4>3, <4>5
    <3> QED BY <3>1, <3>2
  <2>2. NatUpTo(k + 1) /\ k + 1 \in 0 .. N
    BY <2>1, <1>1
  <2> QED BY <2>2
<1> HIDE DEF T
<1>4. N \in T
  BY <1>1, <1>2, <1>3, Induction
<1>5. \A s \in SUBSET S : SumFunctionOnSet(f, s) \in Nat
  BY <1>1, <1>4 DEF T
<1>6. ASSUME NEW x \in S PROVE f[x] <= SumFunctionOnSet(f, S)
  <2>1. \A y \in S : f[y] \in Int
    OBVIOUS
  <2>2. SumFunctionOnSet(f, S) = f[x] + SumFunctionOnSet(f, S \ {x})
    BY <2>1, SumRemove
  <2>3. SumFunctionOnSet(f, S \ {x}) \in Nat /\ f[x] \in Nat
    BY <1>5
  <2> QED BY <2>2, <2>3
<1> QED BY <1>5, <1>6
=============================================================================
