------------------------------- MODULE Lemmas -------------------------------
(***************************************************************************)
(* What several proofs need: induction over the natural numbers in a form  *)
(* without operator parameters (to show P(n) for every n, take the least n *)
(* without P; to show P(T) for every finite set T, a least T without it),  *)
(* what selection from a sequence does, and what a sum is.                 *)
(***************************************************************************)
EXTENDS Selections, Totals, SequenceTheorems, FiniteSetTheorems,
        WellFoundedInduction, TLAPS

\* A set of natural numbers that is not empty has a least element.
LEMMA LeastElement ==
  ASSUME NEW T, T \subseteq Nat, T # {}
  PROVE  \E x \in T : \A y \in T : x <= y
<1>1. PICK x \in T : \A y \in T : ~(<<y, x>> \in OpToRel(<, Nat))
  BY NatLessThanWellFounded, WFMin
<1>2. \A y \in T : ~(y < x)
  BY <1>1 DEF OpToRel
<1> QED BY <1>2

-----------------------------------------------------------------------------
(***************************************************************************)
(* Selection                                                               *)
(***************************************************************************)
\* What element n of s adds to the selection
Part(s, S, n) == IF s[n] \in S THEN <<s[n]>> ELSE <<>>

\* f[k] is the selection from the first k of n elements of s.
Selects(f, s, S, n) ==
  f = [k \in 0 .. n |-> IF k = 0 THEN <<>> ELSE f[k - 1] \o Part(s, S, k)]

\* Two sequences with the same first n elements
Agree(s, t, n) == \A k \in 1 .. n : t[k] = s[k]

\* f starts empty and takes in one element of s after the other.
Steps(f, s, S, n) == f[0] = <<>> /\ \A k \in 1 .. n : f[k] = f[k - 1] \o Part(s, S, k)

\* The same, element by element.
LEMMA SelectsAt ==
  ASSUME NEW n \in Nat, NEW s, NEW S, NEW f
  PROVE  Selects(f, s, S, n) <=>
           /\ f = [k \in 0 .. n |-> f[k]]
           /\ Steps(f, s, S, n)
<1> DEFINE g == [k \in 0 .. n |-> IF k = 0 THEN <<>> ELSE f[k - 1] \o Part(s, S, k)]
<1>1. /\ g = [k \in 0 .. n |-> g[k]] /\ g[0] = <<>>
      /\ \A k \in 1 .. n : g[k] = f[k - 1] \o Part(s, S, k)
  OBVIOUS
<1>2. ASSUME f = [k \in 0 .. n |-> f[k]], f[0] = <<>>,
             \A k \in 1 .. n : f[k] = f[k - 1] \o Part(s, S, k)
      PROVE  f = g
  <2>1. ASSUME NEW k \in 0 .. n PROVE f[k] = g[k]
    <3>1. k = 0 \/ k \in 1 .. n
      OBVIOUS
    <3> HIDE DEF g
    <3> QED BY <1>1, <1>2, <3>1
  <2>2. [k \in 0 .. n |-> f[k]] = [k \in 0 .. n |-> g[k]]
    BY <2>1
  <2> HIDE DEF g
  <2> QED BY <1>1, <1>2, <2>2, Zenon
<1>3. Selects(f, s, S, n) <=> f = g
  BY DEF Selects
<1> HIDE DEF g
<1> QED BY <1>1, <1>2, <1>3 DEF Steps

\* There is one selection, and only one.
LEMMA SelectionUnique ==
  ASSUME NEW n \in Nat, NEW s, NEW S, NEW f, NEW g,
         Selects(f, s, S, n), Selects(g, s, S, n)
  PROVE  f[n] = g[n]
<1> DEFINE T == {k \in 0 .. n : f[k] # g[k]}
<1>1. SUFFICES ASSUME T # {} PROVE FALSE
  OBVIOUS
<1>2. T \subseteq Nat
  OBVIOUS
<1>3. PICK k \in T : \A j \in T : k <= j
  <2> HIDE DEF T
  <2> QED BY <1>1, <1>2, LeastElement
<1>4. k \in 1 .. n /\ k - 1 \notin T
  <2>1. k # 0
    BY SelectsAt DEF Steps
  <2> QED BY <1>3, <2>1
<1>5. f[k - 1] = g[k - 1]
  BY <1>4
<1>6. f[k] = f[k - 1] \o Part(s, S, k) /\ g[k] = g[k - 1] \o Part(s, S, k)
  <2>1. Steps(f, s, S, n)
    BY SelectsAt, Zenon
  <2>2. Steps(g, s, S, n)
    BY SelectsAt, Zenon
  <2> QED BY <1>4, <2>1, <2>2, Zenon DEF Steps
<1>7. f[k] # g[k]
  BY <1>3
<1> HIDE DEF T
<1> QED BY <1>5, <1>6, <1>7, Zenon

\* A selection can be prolonged by one element.
LEMMA SelectionGrows ==
  ASSUME NEW n \in Nat, NEW s, NEW S, NEW f, Selects(f, s, S, n),
         NEW t, Agree(s, t, n)
  PROVE  \E g : /\ Selects(g, t, S, n + 1)
                /\ g[n + 1] = f[n] \o Part(t, S, n + 1)
<1> DEFINE g == [k \in 0 .. n + 1 |-> IF k = n + 1 THEN f[n] \o Part(t, S, n + 1) ELSE f[k]]
<1>1. g[n + 1] = f[n] \o Part(t, S, n + 1) /\ \A k \in 0 .. n : g[k] = f[k]
  OBVIOUS
<1>2. f[0] = <<>> /\ \A k \in 1 .. n : f[k] = f[k - 1] \o Part(s, S, k)
  BY SelectsAt DEF Steps
<1>3. g = [k \in 0 .. n + 1 |-> g[k]]
  OBVIOUS
<1> HIDE DEF g
<1>4. ASSUME NEW k \in 1 .. n + 1 PROVE g[k] = g[k - 1] \o Part(t, S, k)
  <2>1. CASE k = n + 1
    <3>1. k - 1 = n /\ n \in 0 .. n
      BY <2>1
    <3>2. g[k - 1] = f[n]
      BY <1>1, <3>1
    <3> QED BY <1>1, <2>1, <3>2, Zenon
  <2>2. CASE k # n + 1
    <3>1. k \in 1 .. n /\ k \in 0 .. n /\ k - 1 \in 0 .. n
      BY <2>2
    <3>2. Part(t, S, k) = Part(s, S, k)
      BY <3>1 DEF Part, Agree
    <3>3. g[k] = f[k] /\ g[k - 1] = f[k - 1] /\ f[k] = f[k - 1] \o Part(s, S, k)
      BY <1>1, <1>2, <3>1, Zenon
    <3> QED BY <3>2, <3>3, Zenon
  <2> QED BY <2>1, <2>2
<1>5. n + 1 \in Nat /\ g[0] = <<>>
  BY <1>1, <1>2
<1>6. Selects(g, t, S, n + 1)
  BY <1>3, <1>4, <1>5, SelectsAt DEF Steps
<1> QED BY <1>1, <1>6

\* There is a selection from every sequence.
LEMMA SelectionExists ==
  ASSUME NEW n \in Nat, NEW s, NEW S
  PROVE  \E f : Selects(f, s, S, n)
<1> DEFINE T == {k \in Nat : ~ \E f : Selects(f, s, S, k)}
<1>1. SUFFICES ASSUME T # {} PROVE FALSE
  OBVIOUS
<1>2. T \subseteq Nat
  OBVIOUS
<1>3. PICK k \in T : \A j \in T : k <= j
  <2> HIDE DEF T
  <2> QED BY <1>1, <1>2, LeastElement
<1>4. k # 0
  <2> DEFINE e == [j \in 0 .. 0 |-> <<>>]
  <2>1. Selects(e, s, S, 0)
    BY DEF Selects
  <2> QED BY <1>3, <2>1
<1>5. k - 1 \in Nat /\ k - 1 \notin T
  BY <1>3, <1>4
<1>6. PICK f : Selects(f, s, S, k - 1)
  BY <1>5
<1>7. \E g : Selects(g, s, S, (k - 1) + 1)
  BY <1>5, <1>6, SelectionGrows DEF Agree
<1> QED BY <1>3, <1>7

\* Only is what every selection from s ends in.
LEMMA OnlyIs ==
  ASSUME NEW s, Len(s) \in Nat, NEW S, NEW f, Selects(f, s, S, Len(s))
  PROVE  Only(s, S) = f[Len(s)]
<1> DEFINE F == CHOOSE g : Selects(g, s, S, Len(s))
<1>1. Selects(F, s, S, Len(s))
  OBVIOUS
<1>2. F[Len(s)] = f[Len(s)]
  BY <1>1, SelectionUnique
<1>3. Only(s, S) = F[Len(s)]
  BY DEF Only, Selects, Part
<1> QED BY <1>2, <1>3

\* A selection is a sequence of elements.
LEMMA OnlyType ==
  ASSUME NEW A, NEW s \in Seq(A), NEW S
  PROVE  Only(s, S) \in Seq(A)
<1> DEFINE n == Len(s)
<1>1. n \in Nat /\ \A k \in 1 .. n : Part(s, S, k) \in Seq(A)
  BY DEF Part
<1>2. PICK f : Selects(f, s, S, n)
  BY <1>1, SelectionExists
<1>3. Only(s, S) = f[n]
  BY <1>1, <1>2, OnlyIs
<1> HIDE DEF n
<1>4. Steps(f, s, S, n)
  BY <1>1, <1>2, SelectsAt, Zenon
<1> DEFINE T == {k \in 0 .. n : f[k] \notin Seq(A)}
<1>5. SUFFICES ASSUME T # {} PROVE FALSE
  BY <1>1, <1>3
<1>6. T \subseteq Nat
  OBVIOUS
<1>7. PICK k \in T : \A j \in T : k <= j
  <2> HIDE DEF T
  <2> QED BY <1>5, <1>6, LeastElement
<1>8. k # 0
  <2>1. f[0] = <<>> /\ <<>> \in Seq(A)
    BY <1>4 DEF Steps
  <2>2. f[k] \notin Seq(A)
    BY <1>7
  <2> QED BY <2>1, <2>2, Zenon
<1>9. k \in 1 .. n /\ k - 1 \in 0 .. n /\ k - 1 < k
  BY <1>1, <1>7, <1>8
<1>10. f[k - 1] \in Seq(A)
  BY <1>7, <1>9
<1>11. f[k] = f[k - 1] \o Part(s, S, k) /\ Part(s, S, k) \in Seq(A)
  BY <1>1, <1>4, <1>9, Zenon DEF Steps
<1>12. \A q, r \in Seq(A) : q \o r \in Seq(A)
  BY ConcatProperties
<1>13. f[k] \notin Seq(A)
  BY <1>7
<1> QED BY <1>10, <1>11, <1>12, <1>13, Zenon

\* An appended element is selected or not.
LEMMA OnlyAppend ==
  ASSUME NEW A, NEW s \in Seq(A), NEW e \in A, NEW S
  PROVE  Only(Append(s, e), S) = Only(s, S) \o (IF e \in S THEN <<e>> ELSE <<>>)
<1> DEFINE n == Len(s)
           t == Append(s, e)
<1>1. n \in Nat /\ Len(t) = n + 1 /\ t[n + 1] = e /\ \A k \in 1 .. n : t[k] = s[k]
  OBVIOUS
<1>2. PICK f : Selects(f, s, S, n)
  BY <1>1, SelectionExists
<1> HIDE DEF n, t
<1>3. PICK g : Selects(g, t, S, n + 1) /\ g[n + 1] = f[n] \o Part(t, S, n + 1)
  <2>1. n \in Nat /\ Agree(s, t, n)
    BY <1>1 DEF Agree
  <2>2. \E g : Selects(g, t, S, n + 1) /\ g[n + 1] = f[n] \o Part(t, S, n + 1)
    BY <1>2, <2>1, SelectionGrows, ZenonT(60)
  <2> QED BY <2>2
<1>4. Only(t, S) = g[n + 1]
  <2>1. Len(t) \in Nat /\ Selects(g, t, S, Len(t))
    BY <1>1, <1>3
  <2> QED BY <1>1, <2>1, OnlyIs
<1>5. Only(s, S) = f[n]
  BY <1>1, <1>2, OnlyIs DEF n
<1>6. Part(t, S, n + 1) = IF e \in S THEN <<e>> ELSE <<>>
  BY <1>1 DEF Part
<1> QED BY <1>3, <1>4, <1>5, <1>6 DEF t

\* An appended element that is not selected changes nothing.
LEMMA OnlySkips ==
  ASSUME NEW A, NEW s \in Seq(A), NEW e \in A, NEW S, e \notin S
  PROVE  Only(Append(s, e), S) = Only(s, S)
<1>1. Only(s, S) \in Seq(A)
  BY OnlyType
<1>2. Only(Append(s, e), S) = Only(s, S) \o <<>>
  BY OnlyAppend
<1>3. \A q \in Seq(A) : q \o <<>> = q
  OBVIOUS
<1> QED BY <1>1, <1>2, <1>3, Zenon

\* The empty sequence
LEMMA OnlyEmpty == ASSUME NEW S PROVE Only(<<>>, S) = <<>>
<1>1. PICK f : Selects(f, <<>>, S, 0)
  BY SelectionExists
<1>2. Only(<<>>, S) = f[0]
  BY <1>1, OnlyIs
<1> QED BY <1>1, <1>2, SelectsAt DEF Steps

(***************************************************************************)
(* r is what is in S of the first n elements of s, in their order: element *)
(* k of r is element p[k] of s.                                            *)
(***************************************************************************)
Picks(p, r, s, S, n) ==
  /\ p \in [1 .. Len(r) -> 1 .. n]
  /\ \A k \in 1 .. Len(r) : r[k] = s[p[k]] /\ s[p[k]] \in S
  /\ \A k, l \in 1 .. Len(r) : k < l => p[k] < p[l]
  /\ \A i \in 1 .. n : s[i] \in S => \E k \in 1 .. Len(r) : p[k] = i

\* One more element of s is one more of r, or none.
LEMMA PicksStep ==
  ASSUME NEW A, NEW n \in Nat, NEW r \in Seq(A), NEW s, s[n + 1] \in A, NEW S,
         NEW p, Picks(p, r, s, S, n)
  PROVE  \E q : Picks(q, r \o Part(s, S, n + 1), s, S, n + 1)
<1>1. /\ p \in [1 .. Len(r) -> 1 .. n] /\ Len(r) \in Nat
      /\ \A k \in 1 .. Len(r) : r[k] = s[p[k]] /\ s[p[k]] \in S
      /\ \A k, l \in 1 .. Len(r) : k < l => p[k] < p[l]
      /\ \A i \in 1 .. n : s[i] \in S => \E k \in 1 .. Len(r) : p[k] = i
  BY DEF Picks
<1>2. CASE s[n + 1] \notin S
  <2>1. r \o Part(s, S, n + 1) = r
    <3>1. Part(s, S, n + 1) = <<>>
      BY <1>2 DEF Part
    <3> QED BY <3>1, ConcatEmptySeq
  <2>2. \A i \in 1 .. n + 1 : i \in 1 .. n \/ i = n + 1
    OBVIOUS
  <2>3. Picks(p, r, s, S, n + 1)
    <3>1. p \in [1 .. Len(r) -> 1 .. n + 1]
      BY <1>1
    <3>2. ASSUME NEW i \in 1 .. n + 1, s[i] \in S
          PROVE  \E k \in 1 .. Len(r) : p[k] = i
      BY <1>1, <1>2, <2>2, <3>2
    <3> QED BY <1>1, <3>1, <3>2, Zenon DEF Picks
  <2> QED BY <2>1, <2>3
<1>3. CASE s[n + 1] \in S
  <2>1. PICK e : e = s[n + 1] /\ e \in A /\ e \in S
    BY <1>3
  <2>2. PICK m \in Nat : m = Len(r)
    BY <1>1
  <2>3. PICK t : t = r \o <<e>>
    OBVIOUS
  <2>4. t = r \o Part(s, S, n + 1)
    BY <1>3, <2>1, <2>3 DEF Part
  <2>5. Len(t) = m + 1 /\ t[m + 1] = e /\ \A k \in 1 .. m : t[k] = r[k]
    BY <2>1, <2>2, <2>3
  <2> DEFINE q == [k \in 1 .. m + 1 |-> IF k = m + 1 THEN n + 1 ELSE p[k]]
  <2>6. q[m + 1] = n + 1 /\ \A k \in 1 .. m : q[k] = p[k] /\ p[k] \in 1 .. n
    BY <1>1, <2>2, SMTT(40)
  <2>7. q \in [1 .. m + 1 -> 1 .. n + 1]
    BY <1>1, <2>2
  <2> HIDE DEF q
  <2>8. \A k \in 1 .. m + 1 : k \in 1 .. m \/ k = m + 1
    OBVIOUS
  <2>9. ASSUME NEW k \in 1 .. m + 1 PROVE t[k] = s[q[k]] /\ s[q[k]] \in S
    BY <1>1, <2>1, <2>2, <2>5, <2>6, <2>8
  <2>10. ASSUME NEW k \in 1 .. m + 1, NEW l \in 1 .. m + 1, k < l PROVE q[k] < q[l]
    <3>1. k \in 1 .. m
      BY <2>10
    <3>2. CASE l \in 1 .. m
      BY <1>1, <2>2, <2>6, <2>10, <3>1, <3>2
    <3>3. CASE l = m + 1
      BY <2>6, <3>1, <3>3
    <3> QED BY <2>8, <3>2, <3>3
  <2>11. ASSUME NEW i \in 1 .. n + 1, s[i] \in S PROVE \E k \in 1 .. m + 1 : q[k] = i
    <3>1. CASE i = n + 1
      BY <2>6, <3>1
    <3>2. CASE i \in 1 .. n
      <4>1. PICK k \in 1 .. m : p[k] = i
        BY <1>1, <2>2, <2>11, <3>2
      <4>2. k \in 1 .. m + 1 /\ q[k] = i
        BY <2>6, <4>1
      <4> QED BY <4>2
    <3>3. i \in 1 .. n \/ i = n + 1
      OBVIOUS
    <3> QED BY <3>1, <3>2, <3>3
  <2>12. Picks(q, t, s, S, n + 1)
    BY <2>5, <2>7, <2>9, <2>10, <2>11, Zenon DEF Picks
  <2> QED BY <2>4, <2>12
<1> QED BY <1>2, <1>3

\* Only selects all elements that are in the set, and no others, in order.
LEMMA OnlyPicks ==
  ASSUME NEW A, NEW s \in Seq(A), NEW S
  PROVE  \E p : Picks(p, Only(s, S), s, S, Len(s))
<1> DEFINE n == Len(s)
<1>1. n \in Nat /\ \A k \in 1 .. n : s[k] \in A /\ Part(s, S, k) \in Seq(A)
  BY DEF Part
<1>2. PICK f : Selects(f, s, S, n)
  BY <1>1, SelectionExists
<1>3. Only(s, S) = f[n]
  BY <1>1, <1>2, OnlyIs
<1> HIDE DEF n
<1>4. Steps(f, s, S, n)
  BY <1>1, <1>2, SelectsAt, Zenon
<1> DEFINE Good(k) == f[k] \in Seq(A) /\ \E p : Picks(p, f[k], s, S, k)
           T == {k \in 0 .. n : ~Good(k)}
<1>5. Good(0)
  <2>1. f[0] = <<>> /\ <<>> \in Seq(A) /\ Len(<<>>) = 0
    BY <1>4 DEF Steps
  <2>2. <<>> \in [1 .. 0 -> 1 .. 0]
    OBVIOUS
  <2>3. \A k : k \notin 1 .. 0
    OBVIOUS
  <2>4. Picks(<<>>, <<>>, s, S, 0)
    BY <2>1, <2>2, <2>3 DEF Picks
  <2> QED BY <2>1, <2>4
<1>6. ASSUME NEW k \in 1 .. n, Good(k - 1) PROVE Good(k)
  <2>1. f[k] = f[k - 1] \o Part(s, S, k) /\ Part(s, S, k) \in Seq(A) /\ s[k] \in A
    BY <1>1, <1>4, <1>6, Zenon DEF Steps
  <2>2. PICK j \in Nat, r \in Seq(A) : j + 1 = k /\ j = k - 1 /\ r = f[k - 1]
    BY <1>1, <1>6
  <2>3. \E q : Picks(q, r \o Part(s, S, j + 1), s, S, j + 1)
    <3>1. PICK p : Picks(p, r, s, S, j)
      BY <1>6, <2>2
    <3>2. s[j + 1] \in A
      BY <2>1, <2>2
    <3> QED BY <3>1, <3>2, PicksStep
  <2>4. r \o Part(s, S, k) \in Seq(A)
    BY <2>1, ConcatProperties
  <2>5. f[k] = r \o Part(s, S, k)
    BY <2>1, <2>2
  <2> QED BY <2>2, <2>3, <2>4, <2>5, Zenon
<1>7. T = {}
  <2>1. SUFFICES ASSUME T # {} PROVE FALSE
    OBVIOUS
  <2>2. T \subseteq Nat
    OBVIOUS
  <2>3. PICK k \in T : \A j \in T : k <= j
    <3> HIDE DEF T
    <3> QED BY <2>1, <2>2, LeastElement
  <2>4. k \in 1 .. n /\ k - 1 \in 0 .. n /\ ~(k <= k - 1)
    <3> HIDE DEF Good
    <3>1. k \in 0 .. n /\ k # 0
      BY <1>5, <2>3
    <3> QED BY <1>1, <3>1
  <2> HIDE DEF Good
  <2>5. Good(k - 1)
    BY <2>3, <2>4
  <2> QED BY <1>6, <2>3, <2>4, <2>5
<1>8. Good(n)
  <2> HIDE DEF Good
  <2>1. n \in 0 .. n
    BY <1>1
  <2> QED BY <1>7, <2>1
<1> QED BY <1>3, <1>8 DEF n

-----------------------------------------------------------------------------
(***************************************************************************)
(* Finite sets and sums                                                    *)
(***************************************************************************)
\* A family of subsets of a finite set has a member that loses its membership
\* with any of its elements: to show something of every finite set, take the
\* family of those of which it fails.
LEMMA LeastSet ==
  ASSUME NEW S, IsFiniteSet(S), NEW B, B \subseteq SUBSET S, B # {}
  PROVE  \E T \in B : \A x \in T : T \ {x} \notin B
<1> DEFINE W == {Cardinality(T) : T \in B}
<1>1. \A T \in B : IsFiniteSet(T) /\ Cardinality(T) \in Nat
  BY FS_Subset, FS_CardinalityType
<1>2. W \subseteq Nat /\ W # {}
  BY <1>1
<1>3. PICK n \in W : \A k \in W : n <= k
  <2> HIDE DEF W
  <2> QED BY <1>2, LeastElement
<1>4. PICK T \in B : n = Cardinality(T)
  BY <1>3
<1>5. ASSUME NEW x \in T, T \ {x} \in B PROVE FALSE
  <2>1. Cardinality(T \ {x}) = n - 1
    BY <1>1, <1>4, FS_RemoveElement
  <2>2. n <= Cardinality(T \ {x}) /\ n \in Nat
    BY <1>2, <1>3, <1>5
  <2> QED BY <2>1, <2>2
<1> QED BY <1>5

\* The element that a sum takes next, and the sums over all subsets of S
Pick(T) == CHOOSE x \in T : TRUE
SumAt(F, m, T) == F[T] = IF T = {} THEN 0 ELSE m[Pick(T)] + F[T \ {Pick(T)}]
Sums(F, m, S) ==
  F = [T \in SUBSET S |-> IF T = {} THEN 0 ELSE m[Pick(T)] + F[T \ {Pick(T)}]]

\* The sums over the subsets of a finite set exist.
LEMMA SumsExist ==
  ASSUME NEW S, IsFiniteSet(S), NEW m
  PROVE  \E F : Sums(F, m, S)
<1> DEFINE Small(n) == {T \in SUBSET S : Cardinality(T) <= n}
           W == {n \in Nat : ~ \E F : \A T \in Small(n) : SumAt(F, m, T)}
<1>1. \A T \in SUBSET S : /\ IsFiniteSet(T) /\ Cardinality(T) \in Nat
                          /\ Cardinality(T) <= Cardinality(S)
                          /\ (Cardinality(T) = 0 <=> T = {})
  BY FS_Subset, FS_CardinalityType, FS_EmptySet
<1>2. \A T \in SUBSET S : T # {} => Cardinality(T \ {Pick(T)}) = Cardinality(T) - 1
  BY <1>1, FS_RemoveElement DEF Pick
<1>3. W = {}
  <2>1. SUFFICES ASSUME W # {} PROVE FALSE
    OBVIOUS
  <2>2. W \subseteq Nat
    OBVIOUS
  <2>3. PICK n \in W : \A k \in W : n <= k
    <3> HIDE DEF W
    <3> QED BY <2>1, <2>2, LeastElement
  <2>4. n # 0
    <3> DEFINE Z == [T \in SUBSET S |-> 0]
    <3>1. \A T \in Small(0) : T = {} /\ Z[T] = 0
      BY <1>1
    <3>2. \A T \in Small(0) : SumAt(Z, m, T)
      BY <3>1 DEF SumAt
    <3> QED BY <2>3, <3>2
  <2>5. n - 1 \in Nat /\ n - 1 \notin W
    BY <2>3, <2>4
  <2>6. PICK F : \A T \in Small(n - 1) : SumAt(F, m, T)
    BY <2>5
  <2> DEFINE G == [T \in SUBSET S |-> IF Cardinality(T) = n
                                      THEN m[Pick(T)] + F[T \ {Pick(T)}] ELSE F[T]]
  <2>7. ASSUME NEW T \in Small(n) PROVE SumAt(G, m, T)
    <3>1. T \in SUBSET S /\ Cardinality(T) <= n /\ Cardinality(T) \in Nat
      BY <1>1
    <3>2. CASE T = {}
      <4>1. T \in Small(n - 1) /\ Cardinality(T) # n
        BY <1>1, <2>4, <2>5, <3>1, <3>2
      <4>2. G[T] = F[T]
        BY <3>1, <4>1
      <4> QED BY <2>6, <3>2, <4>1, <4>2 DEF SumAt
    <3>3. CASE T # {}
      <4> DEFINE U == T \ {Pick(T)}
      <4>1. Cardinality(U) = Cardinality(T) - 1 /\ U \in SUBSET S
        BY <1>2, <3>1, <3>3
      <4>2. G[U] = F[U]
        BY <2>3, <3>1, <4>1
      <4>3. G[T] = m[Pick(T)] + F[U]
        <5>1. CASE Cardinality(T) = n
          BY <3>1, <5>1
        <5>2. CASE Cardinality(T) # n
          <6>1. T \in Small(n - 1) /\ G[T] = F[T]
            BY <2>5, <3>1, <5>2
          <6> QED BY <2>6, <3>3, <6>1 DEF SumAt
        <5> QED BY <5>1, <5>2
      <4> HIDE DEF G
      <4> QED BY <3>3, <4>2, <4>3 DEF SumAt
    <3> QED BY <3>2, <3>3
  <2> HIDE DEF G
  <2> QED BY <2>3, <2>7
<1>4. PICK F : \A T \in Small(Cardinality(S)) : SumAt(F, m, T)
  BY <1>1, <1>3, FS_CardinalityType
<1> DEFINE G == [T \in SUBSET S |-> F[T]]
<1>5. ASSUME NEW T \in SUBSET S
      PROVE  G[T] = IF T = {} THEN 0 ELSE m[Pick(T)] + G[T \ {Pick(T)}]
  <2>1. SumAt(F, m, T)
    BY <1>1, <1>4
  <2>2. T \ {Pick(T)} \in SUBSET S
    OBVIOUS
  <2> QED BY <2>1, <2>2 DEF SumAt
<1>6. Sums(G, m, S)
  <2>1. G = [T \in SUBSET S |-> G[T]]
    OBVIOUS
  <2> HIDE DEF G
  <2> QED BY <1>5, <2>1 DEF Sums
<1> QED BY <1>6

\* The same, subset by subset.
LEMMA SumsAt ==
  ASSUME NEW S, NEW m, NEW F, Sums(F, m, S), NEW T \in SUBSET S
  PROVE  SumAt(F, m, T)
<1>1. F = [U \in SUBSET S |-> IF U = {} THEN 0 ELSE m[Pick(U)] + F[U \ {Pick(U)}]]
  BY DEF Sums
<1>2. [U \in SUBSET S |-> IF U = {} THEN 0 ELSE m[Pick(U)] + F[U \ {Pick(U)}]][T]
        = IF T = {} THEN 0 ELSE m[Pick(T)] + F[T \ {Pick(T)}]
  OBVIOUS
<1> QED BY <1>1, <1>2, Zenon DEF SumAt

\* Maps that agree on a finite set have the same sum over it.
LEMMA SumsAgree ==
  ASSUME NEW S, NEW m, NEW F, Sums(F, m, S),
         NEW R, NEW k, NEW G, Sums(G, k, R),
         NEW T, T \in SUBSET S, T \in SUBSET R, IsFiniteSet(T), \A x \in T : m[x] = k[x]
  PROVE  F[T] = G[T]
<1> DEFINE B == {U \in SUBSET T : F[U] # G[U]}
<1>1. SUFFICES ASSUME B # {} PROVE FALSE
  OBVIOUS
<1>2. B \subseteq SUBSET T
  OBVIOUS
<1>3. PICK U \in B : \A x \in U : U \ {x} \notin B
  <2> HIDE DEF B
  <2> QED BY <1>1, <1>2, LeastSet
<1>4. U \in SUBSET T /\ U \in SUBSET S /\ U \in SUBSET R /\ F[U] # G[U]
  BY <1>3
<1>5. SumAt(F, m, U) /\ SumAt(G, k, U)
  BY <1>4, SumsAt
<1>6. U # {}
  BY <1>4, <1>5 DEF SumAt
<1>7. Pick(U) \in U
  BY <1>6 DEF Pick
<1>8. F[U \ {Pick(U)}] = G[U \ {Pick(U)}] /\ m[Pick(U)] = k[Pick(U)]
  BY <1>3, <1>4, <1>7
<1>9. F[U] = G[U]
  BY <1>5, <1>6, <1>8 DEF SumAt
<1> QED BY <1>4, <1>9

\* A sum of integers is an integer.
LEMMA SumsType ==
  ASSUME NEW S, IsFiniteSet(S), NEW m, \A x \in S : m[x] \in Int, NEW F, Sums(F, m, S)
  PROVE  \A T \in SUBSET S : F[T] \in Int
<1> DEFINE B == {T \in SUBSET S : F[T] \notin Int}
<1>1. SUFFICES ASSUME B # {} PROVE FALSE
  OBVIOUS
<1>2. B \subseteq SUBSET S
  OBVIOUS
<1>3. PICK T \in B : \A x \in T : T \ {x} \notin B
  <2> HIDE DEF B
  <2> QED BY <1>1, <1>2, LeastSet
<1>4. T \in SUBSET S /\ F[T] \notin Int /\ \A x \in T : F[T \ {x}] \in Int
  BY <1>3
<1>5. SumAt(F, m, T)
  BY <1>4, SumsAt
<1>6. CASE T = {}
  BY <1>4, <1>5, <1>6 DEF SumAt
<1>7. CASE T # {}
  <2>1. Pick(T) \in T
    BY <1>7 DEF Pick
  <2>2. m[Pick(T)] \in Int /\ F[T \ {Pick(T)}] \in Int
    BY <1>4, <2>1
  <2>3. F[T] = m[Pick(T)] + F[T \ {Pick(T)}]
    BY <1>5, <1>7 DEF SumAt
  <2> QED BY <1>4, <2>2, <2>3
<1> QED BY <1>6, <1>7

\* Any element of a set can be the first that its sum takes.
LEMMA SumsSplit ==
  ASSUME NEW S, IsFiniteSet(S), NEW m, \A x \in S : m[x] \in Int, NEW F, Sums(F, m, S)
  PROVE  \A T \in SUBSET S : \A x \in T : F[T] = m[x] + F[T \ {x}]
<1> DEFINE Good(T) == \A x \in T : F[T] = m[x] + F[T \ {x}]
           B == {T \in SUBSET S : ~Good(T)}
<1>1. SUFFICES ASSUME B # {} PROVE FALSE
  OBVIOUS
<1>2. B \subseteq SUBSET S
  OBVIOUS
<1>3. PICK T \in B : \A x \in T : T \ {x} \notin B
  <2> HIDE DEF B
  <2> QED BY <1>1, <1>2, LeastSet
<1>4. T \in SUBSET S /\ ~Good(T) /\ \A x \in T : Good(T \ {x})
  BY <1>3
<1>5. SumAt(F, m, T)
  BY <1>4, SumsAt
<1>6. T # {}
  BY <1>4
<1> DEFINE c == Pick(T)
<1>7. c \in T /\ c \in S /\ F[T] = m[c] + F[T \ {c}]
  BY <1>4, <1>5, <1>6 DEF SumAt, Pick
<1> HIDE DEF c
<1>8. ASSUME NEW x \in T PROVE F[T] = m[x] + F[T \ {x}]
  <2>1. CASE x = c
    BY <1>7, <2>1
  <2>2. CASE x # c
    <3> DEFINE U == T \ {c, x}
    <3>1. (T \ {c}) \ {x} = U /\ (T \ {x}) \ {c} = U /\ U \in SUBSET S
      BY <1>4
    <3>2. Good(T \ {c}) /\ Good(T \ {x}) /\ x \in T \ {c} /\ c \in T \ {x}
      BY <1>4, <1>7, <2>2
    <3>3. F[T \ {c}] = m[x] + F[U] /\ F[T \ {x}] = m[c] + F[U]
      BY <3>1, <3>2
    <3>4. F[U] \in Int /\ m[x] \in Int /\ m[c] \in Int
      BY <1>4, <1>7, <3>1, SumsType
    <3> HIDE DEF U
    <3> QED BY <1>7, <3>3, <3>4
  <2> QED BY <2>1, <2>2
<1> QED BY <1>4, <1>8

\* Total is what the sums over the subsets of its keys end in.
LEMMA TotalIs ==
  ASSUME NEW m, IsFiniteSet(DOMAIN m)
  PROVE  \E F : Sums(F, m, DOMAIN m) /\ Total(m) = F[DOMAIN m]
<1> DEFINE F == CHOOSE G : Sums(G, m, DOMAIN m)
<1>1. Sums(F, m, DOMAIN m)
  BY SumsExist
<1>2. Total(m) = F[DOMAIN m]
  BY DEF Total, MapThenSumSet, MapThenFoldSet, Sums, Pick
<1> QED BY <1>1, <1>2

\* Maps of the same keys and values have the same sum; nothing sums to 0.
LEMMA TotalEmpty ==
  ASSUME NEW m, DOMAIN m = {}
  PROVE  Total(m) = 0
<1>1. PICK F : Sums(F, m, DOMAIN m) /\ Total(m) = F[DOMAIN m]
  BY TotalIs, FS_EmptySet
<1>2. SumAt(F, m, DOMAIN m)
  BY <1>1, SumsAt
<1> QED BY <1>1, <1>2 DEF SumAt

\* The sum of a map with a key less, and its type
LEMMA TotalRemove ==
  ASSUME NEW m, IsFiniteSet(DOMAIN m), \A k \in DOMAIN m : m[k] \in Int
  PROVE  /\ Total(m) \in Int
         /\ \A x \in DOMAIN m :
              Total(m) = m[x] + Total([k \in DOMAIN m \ {x} |-> m[k]])
<1>1. PICK F : Sums(F, m, DOMAIN m) /\ Total(m) = F[DOMAIN m]
  BY TotalIs
<1>2. Total(m) \in Int
  BY <1>1, SumsType
<1>3. ASSUME NEW x \in DOMAIN m
      PROVE  Total(m) = m[x] + Total([k \in DOMAIN m \ {x} |-> m[k]])
  <2> DEFINE R == DOMAIN m \ {x}
             r == [k \in R |-> m[k]]
  <2>1. DOMAIN r = R /\ IsFiniteSet(R) /\ R \in SUBSET DOMAIN m /\ \A k \in R : m[k] = r[k]
    BY FS_Subset
  <2> HIDE DEF r
  <2>2. PICK G : Sums(G, r, R) /\ Total(r) = G[R]
    BY <2>1, TotalIs
  <2>3. F[R] = G[R]
    BY <1>1, <2>1, <2>2, SumsAgree
  <2>4. F[DOMAIN m] = m[x] + F[R]
    BY <1>1, SumsSplit
  <2> QED BY <1>1, <2>2, <2>3, <2>4 DEF r
<1> QED BY <1>2, <1>3

\* One key more
LEMMA TotalWith ==
  ASSUME NEW S, IsFiniteSet(S), NEW x, x \notin S, NEW e, \A k \in S \cup {x} : e[k] \in Int
  PROVE  Total([k \in S \cup {x} |-> e[k]]) = e[x] + Total([k \in S |-> e[k]])
<1> DEFINE m == [k \in S \cup {x} |-> e[k]]
<1>1. DOMAIN m = S \cup {x} /\ IsFiniteSet(S \cup {x}) /\ (\A k \in DOMAIN m : m[k] = e[k])
  BY FS_AddElement
<1>2. (DOMAIN m) \ {x} = S
  BY <1>1
<1>3. [k \in S |-> m[k]] = [k \in S |-> e[k]]
  OBVIOUS
<1> HIDE DEF m
<1>4. \A k \in DOMAIN m : m[k] \in Int
  BY <1>1
<1>5. Total(m) = m[x] + Total([k \in DOMAIN m \ {x} |-> m[k]])
  BY <1>1, <1>4, TotalRemove
<1>6. m[x] = e[x]
  BY <1>1
<1> QED BY <1>2, <1>3, <1>5, <1>6 DEF m

\* The same between operators: easier to cite
IntegerOn(S, e) == \A k \in S : e[k] \in Int
Splits(S, x, e) ==
  Total([k \in S \cup {x} |-> e[k]]) = e[x] + Total([k \in S |-> e[k]])

\* An element more adds its value to the sum.
LEMMA TotalSplits ==
  ASSUME NEW S, IsFiniteSet(S), NEW x, x \notin S, NEW e, IntegerOn(S \cup {x}, e)
  PROVE  Splits(S, x, e)
  BY TotalWith DEF IntegerOn, Splits

\* The sum over a finite set is an integer.
LEMMA TotalType ==
  ASSUME NEW S, IsFiniteSet(S), NEW e, \A k \in S : e[k] \in Int
  PROVE  Total([k \in S |-> e[k]]) \in Int
<1> DEFINE m == [k \in S |-> e[k]]
<1>1. IsFiniteSet(DOMAIN m) /\ \A k \in DOMAIN m : m[k] \in Int
  OBVIOUS
<1> HIDE DEF m
<1>2. Total(m) \in Int
  BY <1>1, TotalRemove
<1> QED BY <1>2 DEF m

\* A sum of numbers none of which is negative is not negative.
LEMMA TotalNotNegative ==
  ASSUME NEW S, IsFiniteSet(S), NEW e, \A k \in S : e[k] \in Nat
  PROVE  Total([k \in S |-> e[k]]) \in Nat
<1> DEFINE B == {T \in SUBSET S : Total([k \in T |-> e[k]]) \notin Nat}
<1>1. SUFFICES ASSUME B # {} PROVE FALSE
  OBVIOUS
<1>2. B \subseteq SUBSET S
  OBVIOUS
<1>3. PICK T \in B : \A x \in T : T \ {x} \notin B
  <2> HIDE DEF B
  <2> QED BY <1>1, <1>2, LeastSet
<1>4. /\ T \in SUBSET S /\ Total([k \in T |-> e[k]]) \notin Nat
      /\ \A x \in T : Total([k \in T \ {x} |-> e[k]]) \in Nat
  BY <1>3
<1>5. T # {}
  <2>1. T = {} => DOMAIN [k \in T |-> e[k]] = {}
    OBVIOUS
  <2> QED BY <1>4, <2>1, TotalEmpty
<1>6. PICK x \in T : TRUE
  BY <1>5
<1> DEFINE U == T \ {x}
<1>7. U \cup {x} = T /\ IsFiniteSet(U) /\ x \notin U /\ \A k \in T : e[k] \in Nat
  BY <1>4, FS_Subset
<1>8. Total([k \in U |-> e[k]]) \in Nat
  BY <1>4
<1> HIDE DEF U
<1>9. Total([k \in U \cup {x} |-> e[k]]) = e[x] + Total([k \in U |-> e[k]])
  BY <1>7, TotalWith
<1>10. e[x] \in Nat
  BY <1>7
<1> QED BY <1>4, <1>7, <1>8, <1>9, <1>10

\* A sum of numbers all of which are negative is negative.
LEMMA TotalNegative ==
  ASSUME NEW S, IsFiniteSet(S), S # {}, NEW e, \A k \in S : e[k] \in Int /\ e[k] < 0
  PROVE  Total([k \in S |-> e[k]]) < 0
<1> DEFINE B == {T \in SUBSET S : T # {} /\ ~(Total([k \in T |-> e[k]]) < 0)}
<1>1. SUFFICES ASSUME B # {} PROVE FALSE
  OBVIOUS
<1>2. B \subseteq SUBSET S
  OBVIOUS
<1>3. PICK T \in B : \A x \in T : T \ {x} \notin B
  <2> HIDE DEF B
  <2> QED BY <1>1, <1>2, LeastSet
<1>4. T \in SUBSET S /\ T # {} /\ ~(Total([k \in T |-> e[k]]) < 0)
  BY <1>3
<1>5. PICK x \in T : TRUE
  BY <1>4
<1> DEFINE U == T \ {x}
<1>6. U \cup {x} = T /\ IsFiniteSet(U) /\ x \notin U /\ \A k \in T : e[k] \in Int /\ e[k] < 0
  BY <1>4, FS_Subset
<1>7. U = {} \/ Total([k \in U |-> e[k]]) < 0
  BY <1>3, <1>4
<1>8. Total([k \in U |-> e[k]]) <= 0
  <2>1. U = {} => DOMAIN [k \in U |-> e[k]] = {}
    OBVIOUS
  <2>2. U = {} => Total([k \in U |-> e[k]]) = 0
    BY <2>1, TotalEmpty
  <2>3. Total([k \in U |-> e[k]]) \in Int
    BY <1>6, TotalType
  <2> QED BY <1>7, <2>2, <2>3
<1> HIDE DEF U
<1>9. Total([k \in U \cup {x} |-> e[k]]) = e[x] + Total([k \in U |-> e[k]])
  BY <1>6, TotalWith
<1>10. e[x] \in Int /\ e[x] < 0 /\ Total([k \in U |-> e[k]]) \in Int
  BY <1>6, TotalType
<1> QED BY <1>4, <1>6, <1>8, <1>9, <1>10

\* A finite set of integers that is not empty has a greatest and a least element.
LEMMA GreatestElement ==
  ASSUME NEW S, IsFiniteSet(S), S \subseteq Int, S # {}
  PROVE  Max(S) \in S /\ \A y \in S : y <= Max(S)
<1> DEFINE B == {T \in SUBSET S : T # {} /\ ~ \E x \in T : \A y \in T : x >= y}
<1>1. SUFFICES B = {}
  <2>1. S \notin B => \E x \in S : \A y \in S : x >= y
    OBVIOUS
  <2> QED BY <2>1 DEF Max
<1>2. SUFFICES ASSUME B # {} PROVE FALSE
  OBVIOUS
<1>3. B \subseteq SUBSET S
  OBVIOUS
<1>4. PICK T \in B : \A x \in T : T \ {x} \notin B
  <2> HIDE DEF B
  <2> QED BY <1>2, <1>3, LeastSet
<1>5. PICK x \in T : TRUE
  BY <1>4
<1>6. T \ {x} # {}
  BY <1>4, <1>5
<1>7. PICK y \in T \ {x} : \A z \in T \ {x} : y >= z
  BY <1>4, <1>5, <1>6
<1>8. x \in Int /\ y \in Int /\ T \subseteq Int
  BY <1>4, <1>5, <1>7
<1>9. CASE x >= y
  BY <1>4, <1>5, <1>7, <1>8, <1>9
<1>10. CASE y >= x
  BY <1>4, <1>5, <1>7, <1>8, <1>10
<1> QED BY <1>8, <1>9, <1>10

\* A finite set of integers has a least element, which Min returns.
LEMMA LeastOfAll ==
  ASSUME NEW S, IsFiniteSet(S), S \subseteq Int, S # {}
  PROVE  Min(S) \in S /\ \A y \in S : Min(S) <= y
<1> DEFINE B == {T \in SUBSET S : T # {} /\ ~ \E x \in T : \A y \in T : x <= y}
<1>1. SUFFICES B = {}
  <2>1. S \notin B => \E x \in S : \A y \in S : x <= y
    OBVIOUS
  <2> QED BY <2>1 DEF Min
<1>2. SUFFICES ASSUME B # {} PROVE FALSE
  OBVIOUS
<1>3. B \subseteq SUBSET S
  OBVIOUS
<1>4. PICK T \in B : \A x \in T : T \ {x} \notin B
  <2> HIDE DEF B
  <2> QED BY <1>2, <1>3, LeastSet
<1>5. PICK x \in T : TRUE
  BY <1>4
<1>6. T \ {x} # {}
  BY <1>4, <1>5
<1>7. PICK y \in T \ {x} : \A z \in T \ {x} : y <= z
  BY <1>4, <1>5, <1>6
<1>8. x \in Int /\ y \in Int /\ T \subseteq Int
  BY <1>4, <1>5, <1>7
<1>9. CASE x <= y
  BY <1>4, <1>5, <1>7, <1>8, <1>9
<1>10. CASE y <= x
  BY <1>4, <1>5, <1>7, <1>8, <1>10
<1> QED BY <1>8, <1>9, <1>10

\* The image of a finite set under a function is finite.
LEMMA FiniteImage ==
  ASSUME NEW S, IsFiniteSet(S), NEW f
  PROVE  IsFiniteSet({f[x] : x \in S})
<1> DEFINE T == {f[x] : x \in S}
           g == [x \in S |-> f[x]]
<1>1. g \in Surjection(S, T)
  BY DEF Surjection
<1> QED BY <1>1, FS_Surjection

\* An Option has at most one element.
LEMMA AtMostOne ==
  ASSUME NEW S, S = {} \/ \E x : S = {x}
  PROVE  Cardinality(S) <= 1
<1>1. S = {} => Cardinality(S) = 0
  BY FS_EmptySet
<1>2. (\E x : S = {x}) => Cardinality(S) = 1
  BY FS_Singleton
<1>3. Cardinality(S) \in {0, 1}
  BY <1>1, <1>2, Zenon
<1> QED BY <1>3

-----------------------------------------------------------------------------
(***************************************************************************)
(* Sums over sets, and sums by kind                                        *)
(***************************************************************************)
\* The sum of the values of e over the set S
SumOver(S, e) == Total([k \in S |-> e[k]])

\* One element more, one element less, none, and the type of a sum
LEMMA SumOverFacts ==
  ASSUME NEW S, IsFiniteSet(S), NEW e, IntegerOn(S, e)
  PROVE  /\ SumOver(S, e) \in Int
         /\ \A x \in S : SumOver(S, e) = e[x] + SumOver(S \ {x}, e)
         /\ S = {} => SumOver(S, e) = 0
<1>1. SumOver(S, e) \in Int
  BY TotalType DEF IntegerOn, SumOver
<1>2. ASSUME NEW x \in S PROVE SumOver(S, e) = e[x] + SumOver(S \ {x}, e)
  <2>1. PICK R : R = S \ {x}
    OBVIOUS
  <2>2. IsFiniteSet(R) /\ x \notin R /\ R \cup {x} = S
    BY <2>1, FS_Subset
  <2>3. IntegerOn(R \cup {x}, e)
    BY <2>2
  <2>4. Splits(R, x, e)
    BY <2>2, <2>3, TotalSplits
  <2> QED BY <2>1, <2>2, <2>4 DEF Splits, SumOver
<1>3. S = {} => SumOver(S, e) = 0
  <2>1. S = {} => DOMAIN [k \in S |-> e[k]] = {}
    OBVIOUS
  <2> QED BY <2>1, TotalEmpty DEF SumOver
<1> QED BY <1>1, <1>2, <1>3

\* A sum reads its values only.
LEMMA SumOverSame ==
  ASSUME NEW S, NEW e, NEW f, \A k \in S : e[k] = f[k]
  PROVE  SumOver(S, e) = SumOver(S, f)
<1>1. [k \in S |-> e[k]] = [k \in S |-> f[k]]
  OBVIOUS
<1> QED BY <1>1 DEF SumOver

\* Zeros sum to zero.
LEMMA SumOfZeros ==
  ASSUME NEW S, IsFiniteSet(S), NEW e, \A k \in S : e[k] = 0
  PROVE  SumOver(S, e) = 0
<1> DEFINE B == {T \in SUBSET S : SumOver(T, e) # 0}
<1>1. SUFFICES ASSUME B # {} PROVE FALSE
  OBVIOUS
<1>2. B \subseteq SUBSET S
  OBVIOUS
<1>3. PICK T \in B : \A x \in T : T \ {x} \notin B
  <2> HIDE DEF B
  <2> QED BY <1>1, <1>2, LeastSet
<1>4. /\ T \subseteq S /\ IsFiniteSet(T) /\ SumOver(T, e) # 0
      /\ \A x \in T : SumOver(T \ {x}, e) = 0
  BY <1>3, FS_Subset
<1>5. IntegerOn(T, e)
  BY <1>4 DEF IntegerOn
<1>6. /\ \A x \in T : SumOver(T, e) = e[x] + SumOver(T \ {x}, e)
      /\ T = {} => SumOver(T, e) = 0
  BY <1>4, <1>5, SumOverFacts
<1>7. PICK x \in T : TRUE
  BY <1>4, <1>6
<1>8. SumOver(T, e) = e[x] + SumOver(T \ {x}, e) /\ SumOver(T \ {x}, e) = 0 /\ e[x] = 0
  BY <1>4, <1>6, <1>7
<1> QED BY <1>4, <1>8

\* p takes the elements of S to those of p[S], each to another.
OneToOne(p, S) == \A x, y \in S : p[x] = p[y] => x = y
ImageOf(p, S) == {p[x] : x \in S}

(***************************************************************************)
(* A sum does not depend on how its terms are numbered.                    *)
(***************************************************************************)
LEMMA SumRenumbered ==
  ASSUME NEW S, IsFiniteSet(S), NEW p, OneToOne(p, S), NEW e, IntegerOn(ImageOf(p, S), e),
         NEW f, \A x \in S : f[x] = e[p[x]]
  PROVE  SumOver(S, f) = SumOver(ImageOf(p, S), e)
<1> DEFINE B == {T \in SUBSET S : SumOver(T, f) # SumOver(ImageOf(p, T), e)}
<1>1. SUFFICES ASSUME B # {} PROVE FALSE
  OBVIOUS
<1>2. B \subseteq SUBSET S
  OBVIOUS
<1>3. PICK T \in B : \A x \in T : T \ {x} \notin B
  <2> HIDE DEF B
  <2> QED BY <1>1, <1>2, LeastSet
<1>4. /\ T \subseteq S /\ IsFiniteSet(T) /\ SumOver(T, f) # SumOver(ImageOf(p, T), e)
      /\ \A x \in T : SumOver(T \ {x}, f) = SumOver(ImageOf(p, T \ {x}), e)
  BY <1>3, FS_Subset
<1>5. IntegerOn(T, f) /\ IntegerOn(ImageOf(p, T), e)
  BY <1>4 DEF IntegerOn, ImageOf
<1>6. IsFiniteSet(ImageOf(p, T))
  BY <1>4, FiniteImage DEF ImageOf
<1>7. /\ \A x \in T : SumOver(T, f) = f[x] + SumOver(T \ {x}, f)
      /\ T = {} => SumOver(T, f) = 0
  BY <1>4, <1>5, SumOverFacts
<1>8. PICK U : U = ImageOf(p, T)
  OBVIOUS
<1>9. /\ \A y \in U : SumOver(U, e) = e[y] + SumOver(U \ {y}, e)
      /\ U = {} => SumOver(U, e) = 0
  BY <1>5, <1>6, <1>8, SumOverFacts
<1>10. T # {}
  <2>1. T = {} => U = {}
    BY <1>8 DEF ImageOf
  <2> QED BY <1>4, <1>7, <1>8, <1>9, <2>1
<1>11. PICK x \in T : TRUE
  BY <1>10
<1>12. U \ {p[x]} = ImageOf(p, T \ {x}) /\ p[x] \in U
  BY <1>4, <1>8, <1>11 DEF ImageOf, OneToOne
<1>13. SumOver(T, f) = f[x] + SumOver(T \ {x}, f)
  BY <1>7, <1>11
<1>14. SumOver(U, e) = e[p[x]] + SumOver(U \ {p[x]}, e)
  BY <1>9, <1>12
<1>15. SumOver(T \ {x}, f) = SumOver(U \ {p[x]}, e)
  BY <1>4, <1>11, <1>12
<1>16. f[x] = e[p[x]]
  BY <1>4, <1>11
<1> QED BY <1>4, <1>8, <1>13, <1>14, <1>15, <1>16

\* The elements of S of kind g, and the sums by kind
OfKind(S, c, g) == {x \in S : c[x] = g}
ByKind(S, c, e, K) == [g \in K |-> SumOver(OfKind(S, c, g), e)]

\* One more element adds its value to the sum of its kind.
LEMMA KindGrows ==
  ASSUME NEW T, IsFiniteSet(T), NEW c, NEW K, IsFiniteSet(K), \A x \in T : c[x] \in K,
         NEW e, IntegerOn(T, e), NEW x \in T
  PROVE  Total(ByKind(T, c, e, K)) = e[x] + Total(ByKind(T \ {x}, c, e, K))
<1>1. PICK R : R = T \ {x}
  OBVIOUS
<1>2. PICK a, b : a = ByKind(T, c, e, K) /\ b = ByKind(R, c, e, K)
  OBVIOUS
<1>3. PICK g \in K : g = c[x]
  OBVIOUS
<1>4. ASSUME NEW Q, Q \subseteq T, NEW k \in K
      PROVE  SumOver(OfKind(Q, c, k), e) \in Int
  <2>1. PICK Z : Z = OfKind(Q, c, k)
    OBVIOUS
  <2>2. Z \subseteq T
    BY <1>4, <2>1 DEF OfKind
  <2>3. IsFiniteSet(Z) /\ IntegerOn(Z, e)
    BY <2>2, FS_Subset DEF IntegerOn
  <2> QED BY <2>1, <2>3, SumOverFacts
<1>5. /\ IntegerOn(K, a) /\ IntegerOn(K, b)
      /\ a = [k \in K |-> a[k]] /\ b = [k \in K |-> b[k]]
  BY <1>1, <1>2, <1>4 DEF ByKind, IntegerOn
<1>6. /\ SumOver(K, a) = a[g] + SumOver(K \ {g}, a)
      /\ SumOver(K, b) = b[g] + SumOver(K \ {g}, b)
      /\ SumOver(K, a) \in Int /\ SumOver(K, b) \in Int
  BY <1>5, SumOverFacts
<1>7. SumOver(K \ {g}, a) = SumOver(K \ {g}, b)
  <2>1. ASSUME NEW k \in K \ {g} PROVE a[k] = b[k]
    <3>1. OfKind(T, c, k) = OfKind(R, c, k)
      BY <1>1, <1>3, <2>1 DEF OfKind
    <3> QED BY <1>2, <2>1, <3>1 DEF ByKind
  <2> QED BY <2>1, SumOverSame
<1>8. a[g] = e[x] + b[g]
  <2>1. PICK Z : Z = OfKind(T, c, g)
    OBVIOUS
  <2>2. Z \subseteq T /\ x \in Z /\ Z \ {x} = OfKind(R, c, g)
    BY <1>1, <1>3, <2>1 DEF OfKind
  <2>3. IsFiniteSet(Z) /\ IntegerOn(Z, e)
    BY <2>2, FS_Subset DEF IntegerOn
  <2>4. SumOver(Z, e) = e[x] + SumOver(Z \ {x}, e)
    BY <2>2, <2>3, SumOverFacts
  <2> QED BY <1>2, <2>1, <2>2, <2>4 DEF ByKind
<1>9. Total(a) = SumOver(K, a) /\ Total(b) = SumOver(K, b)
  BY <1>5 DEF SumOver
<1>10. e[x] \in Int /\ a[g] \in Int /\ b[g] \in Int
  BY <1>5 DEF IntegerOn
<1>11. PICK s \in Int : s = SumOver(K \ {g}, a)
  <2>1. IsFiniteSet(K \ {g}) /\ IntegerOn(K \ {g}, a)
    BY <1>5, FS_Subset DEF IntegerOn
  <2>2. SumOver(K \ {g}, a) \in Int
    BY <2>1, SumOverFacts
  <2> QED BY <2>2
<1> QED BY <1>1, <1>2, <1>6, <1>7, <1>8, <1>9, <1>10, <1>11

(***************************************************************************)
(* The sums by kind share out the sum.                                     *)
(***************************************************************************)
LEMMA SumByKind ==
  ASSUME NEW S, IsFiniteSet(S), NEW c, NEW K, IsFiniteSet(K), \A x \in S : c[x] \in K,
         NEW e, IntegerOn(S, e)
  PROVE  SumOver(S, e) = Total(ByKind(S, c, e, K))
<1> DEFINE B == {T \in SUBSET S : SumOver(T, e) # Total(ByKind(T, c, e, K))}
<1>1. SUFFICES ASSUME B # {} PROVE FALSE
  OBVIOUS
<1>2. B \subseteq SUBSET S
  OBVIOUS
<1>3. PICK T \in B : \A x \in T : T \ {x} \notin B
  <2> HIDE DEF B
  <2> QED BY <1>1, <1>2, LeastSet
<1>4. /\ T \subseteq S /\ IsFiniteSet(T) /\ SumOver(T, e) # Total(ByKind(T, c, e, K))
      /\ \A x \in T : SumOver(T \ {x}, e) = Total(ByKind(T \ {x}, c, e, K))
  BY <1>3, FS_Subset
<1>5. IntegerOn(T, e) /\ \A x \in T : c[x] \in K
  BY <1>4 DEF IntegerOn
<1>6. /\ \A x \in T : SumOver(T, e) = e[x] + SumOver(T \ {x}, e)
      /\ T = {} => SumOver(T, e) = 0
  BY <1>4, <1>5, SumOverFacts
<1>7. T # {}
  <2>1. ASSUME T = {} PROVE Total(ByKind(T, c, e, K)) = 0
    <3>1. PICK a : a = ByKind(T, c, e, K)
      OBVIOUS
    <3>2. ASSUME NEW g \in K PROVE a[g] = 0
      <4>1. PICK Z : Z = OfKind(T, c, g)
        OBVIOUS
      <4>2. Z = {} /\ IsFiniteSet(Z) /\ IntegerOn(Z, e)
        BY <2>1, <4>1, FS_EmptySet DEF OfKind, IntegerOn
      <4>3. SumOver(Z, e) = 0
        BY <4>2, SumOverFacts
      <4> QED BY <3>1, <4>1, <4>3 DEF ByKind
    <3>3. a = [g \in K |-> a[g]]
      BY <3>1 DEF ByKind
    <3>4. SumOver(K, a) = 0
      BY <3>2, SumOfZeros
    <3> QED BY <3>1, <3>3, <3>4 DEF SumOver
  <2> QED BY <1>4, <1>6, <2>1
<1>8. PICK x \in T : TRUE
  BY <1>7
<1>9. Total(ByKind(T, c, e, K)) = e[x] + Total(ByKind(T \ {x}, c, e, K))
  BY <1>4, <1>5, <1>8, KindGrows
<1>10. SumOver(T, e) = e[x] + SumOver(T \ {x}, e)
  BY <1>6, <1>8
<1> QED BY <1>4, <1>8, <1>9, <1>10
=============================================================================
