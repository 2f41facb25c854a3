----------------------------- MODULE Induction ------------------------------
(***************************************************************************)
(* Induction for the proofs of this project: a set of naturals that is not *)
(* empty has a smallest element, so that a claim about all naturals is     *)
(* proved by refuting the smallest counterexample.  With it, what the fold *)
(* of the library makes of + : a sum, in whatever order it is taken; and   *)
(* what FlattenSeq makes of a sequence of sequences, block by block.       *)
(***************************************************************************)
EXTENDS Integers, SequencesExt, FiniteSetTheorems, WellFoundedInduction, TLAPS

\* The natural numbers are well ordered.
LEMMA SmallestNat ==
  ASSUME NEW T, T \subseteq Nat, T # {}
  PROVE  \E n \in T : \A m \in T : n <= m
<1> DEFINE R == OpToRel(<, Nat)
<1>1. IsWellFoundedOn(R, Nat)
  BY NatLessThanWellFounded
<1>2. \E n \in T : \A m \in T : ~ (<<m, n>> \in R)
  <2> HIDE DEF R
  <2> QED
    BY <1>1, WFMin
<1>3. \A m \in Nat, n \in Nat : m < n => <<m, n>> \in R
  BY DEF OpToRel
<1> HIDE DEF R
<1>4. PICK n \in T : \A m \in T : ~ (<<m, n>> \in R)
  BY <1>2
<1>5. \A m \in T : ~ (m < n)
  BY <1>3, <1>4
<1> QED
  BY ONLY <1>5, T \subseteq Nat, n \in T

\* Induction on the set of the naturals that satisfy a claim.
LEMMA SetInduction ==
  ASSUME NEW T, 0 \in T, \A n \in Nat : n \in T => n + 1 \in T
  PROVE  Nat \subseteq T
<1> DEFINE C == Nat \ T
<1>1. ASSUME C # {} PROVE FALSE
  <2>1. PICK n \in C : \A m \in C : n <= m
    BY <1>1, SmallestNat
  <2>2. n # 0 /\ n - 1 \in Nat
    BY <2>1
  <2>3. n - 1 \in T
    BY <2>1, <2>2
  <2> QED
    BY <2>1, <2>2, <2>3
<1> QED
  BY <1>1

\* Induction on finite sets, removing an element at a time: T is the set of
\* the subsets of S that satisfy a claim.
LEMMA SubsetInduction ==
  ASSUME NEW S, IsFiniteSet(S), NEW T, {} \in T,
         \A s \in SUBSET S : s # {} /\ (\A x \in s : s \ {x} \in T) => s \in T
  PROVE  SUBSET S \subseteq T
<1> DEFINE N == {n \in Nat : \A s \in SUBSET S : Cardinality(s) = n => s \in T}
<1>1. 0 \in N
  BY FS_Subset, FS_EmptySet
<1>2. ASSUME NEW n \in Nat, n \in N PROVE n + 1 \in N
  <2>1. SUFFICES ASSUME NEW s \in SUBSET S, Cardinality(s) = n + 1 PROVE s \in T
    OBVIOUS
  <2>2. IsFiniteSet(s)
    BY FS_Subset
  <2>3. s # {}
    <3>1. Cardinality({}) = 0
      BY FS_EmptySet
    <3>2. n + 1 # 0
      OBVIOUS
    <3> QED
      BY ONLY <2>1, <3>1, <3>2
  <2>4. ASSUME NEW x \in s PROVE Cardinality(s \ {x}) = n
    <3>1. Cardinality(s \ {x}) = Cardinality(s) - 1
      BY <2>2, FS_RemoveElement
    <3> QED
      BY ONLY <2>1, <3>1, n \in Nat
  <2>5. \A x \in s : s \ {x} \in T
    BY <1>2, <2>4
  <2> QED
    BY <2>3, <2>5
<1>3. Nat \subseteq N
  <2> HIDE DEF N
  <2> QED
    BY <1>1, <1>2, SetInduction
<1>4. \A s \in SUBSET S : Cardinality(s) \in Nat
  BY FS_Subset, FS_CardinalityType
<1> QED
  BY <1>3, <1>4

-----------------------------------------------------------------------------
(* Sums: FoldFunctionOnSet(+, 0, f, S). *)

\* The element the fold takes next, and the function it is defined by.
Some(s) == CHOOSE x \in s : TRUE
Adds(h, f, S) ==
  h = [s \in SUBSET S |-> IF s = {} THEN 0 ELSE f[Some(s)] + h[s \ {Some(s)}]]

SumOver(f, S) == FoldFunctionOnSet(+, 0, f, S)

LEMMA SumByAdds ==
  ASSUME NEW f, NEW S
  PROVE  SumOver(f, S) = (CHOOSE h : Adds(h, f, S))[S]
BY SMT DEF SumOver, FoldFunctionOnSet, MapThenFoldSet, Adds, Some

LEMMA SomeIn ==
  ASSUME NEW s, s # {}
  PROVE  Some(s) \in s
BY DEF Some

\* Such a function says of a set what any other says of it.
LEMMA AddsUnique ==
  ASSUME NEW f, NEW A, IsFiniteSet(A), NEW B, NEW g, NEW h, Adds(g, f, A), Adds(h, f, B)
  PROVE  \A s \in SUBSET (A \cap B) : g[s] = h[s]
<1> DEFINE C == A \cap B
           T == {s \in SUBSET C : g[s] = h[s]}
<1>1. IsFiniteSet(C)
  BY FS_Subset
<1>2. \A s \in SUBSET C :
        /\ g[s] = IF s = {} THEN 0 ELSE f[Some(s)] + g[s \ {Some(s)}]
        /\ h[s] = IF s = {} THEN 0 ELSE f[Some(s)] + h[s \ {Some(s)}]
  <2>1. \A s \in SUBSET A : g[s] = IF s = {} THEN 0 ELSE f[Some(s)] + g[s \ {Some(s)}]
    BY DEF Adds
  <2>2. \A s \in SUBSET B : h[s] = IF s = {} THEN 0 ELSE f[Some(s)] + h[s \ {Some(s)}]
    BY DEF Adds
  <2> QED
    BY <2>1, <2>2
<1>3. {} \in T
  BY <1>2
<1>4. ASSUME NEW s \in SUBSET C, s # {}, \A x \in s : s \ {x} \in T PROVE s \in T
  <2>1. s \ {Some(s)} \in T
    BY <1>4, SomeIn
  <2> QED
    BY <1>2, <1>4, <2>1
<1>5. SUBSET C \subseteq T
  <2> HIDE DEF T, C
  <2> QED
    BY <1>1, <1>3, <1>4, SubsetInduction
<1> QED
  BY <1>5

\* There is one for every finite set.
LEMMA AddsExists ==
  ASSUME NEW f, NEW S, IsFiniteSet(S)
  PROVE  \A s \in SUBSET S : \E h : Adds(h, f, s)
<1> DEFINE T == {s \in SUBSET S : \E h : Adds(h, f, s)}
           V(s) == (CHOOSE h : Adds(h, f, s))[s]
<1>1. {} \in T
  <2> DEFINE h == [s \in SUBSET {} |-> 0]
  <2>1. Adds(h, f, {})
    BY DEF Adds
  <2> QED
    BY <2>1
<1>2. ASSUME NEW s \in SUBSET S, s # {}, \A x \in s : s \ {x} \in T PROVE s \in T
  <2> DEFINE W(t) == IF t = {} THEN 0 ELSE f[Some(t)] + V(t \ {Some(t)})
             h == [t \in SUBSET s |-> W(t)]
  <2>1. ASSUME NEW x \in s, NEW t \in SUBSET (s \ {x}) PROVE V(t) = W(t)
    <3>1. PICK g : Adds(g, f, s \ {x})
      BY <1>2
    <3>2. ASSUME NEW u \in SUBSET t PROVE V(u) = g[u]
      <4> DEFINE r == [v \in SUBSET u |-> g[v]]
      <4>1. Adds(r, f, u)
        <5>1. \A v \in SUBSET u : v \in SUBSET (s \ {x}) /\ v \ {Some(v)} \in SUBSET u
          BY <2>1
        <5>2. \A v \in SUBSET u : g[v] = IF v = {} THEN 0 ELSE f[Some(v)] + g[v \ {Some(v)}]
          BY <3>1, <5>1 DEF Adds
        <5> QED
          BY <5>1, <5>2 DEF Adds
      <4>2. Adds(CHOOSE k : Adds(k, f, u), f, u)
        BY <4>1
      <4>3. IsFiniteSet(u)
        BY FS_Subset
      <4>4. u \in SUBSET (u \cap (s \ {x}))
        OBVIOUS
      <4> HIDE DEF r
      <4> QED
        BY <3>1, <4>2, <4>3, <4>4, AddsUnique
    <3>3. t \in SUBSET t /\ t \ {Some(t)} \in SUBSET t
      OBVIOUS
    <3>4. g[t] = IF t = {} THEN 0 ELSE f[Some(t)] + g[t \ {Some(t)}]
      BY <3>1 DEF Adds
    <3> HIDE DEF V
    <3> QED
      BY <3>2, <3>3, <3>4
  <2>2. ASSUME NEW t \in SUBSET s, t # {} PROVE h[t \ {Some(t)}] = V(t \ {Some(t)})
    <3>1. Some(t) \in s
      BY <2>2, SomeIn
    <3>2. t \ {Some(t)} \in SUBSET (s \ {Some(t)})
      BY <2>2
    <3> HIDE DEF V
    <3> QED
      BY <2>1, <3>1, <3>2
  <2>3. Adds(h, f, s)
    <3> HIDE DEF V
    <3> QED
      BY <2>2 DEF Adds
  <2> QED
    BY <2>3
<1>3. SUBSET S \subseteq T
  <2> HIDE DEF T
  <2> QED
    BY <1>1, <1>2, SubsetInduction
<1> QED
  BY <1>3

\* So the fold of a finite set is that of the others and one of its elements.
LEMMA SumNone ==
  ASSUME NEW f
  PROVE  SumOver(f, {}) = 0
<1>1. PICK h : Adds(h, f, {})
  BY AddsExists, FS_EmptySet
<1>2. Adds(CHOOSE k : Adds(k, f, {}), f, {})
  BY <1>1
<1> QED
  BY <1>2, SumByAdds DEF Adds

LEMMA SumSome ==
  ASSUME NEW f, NEW S, IsFiniteSet(S), S # {}
  PROVE  SumOver(f, S) = f[Some(S)] + SumOver(f, S \ {Some(S)})
<1> DEFINE R == S \ {Some(S)}
           h == CHOOSE k : Adds(k, f, S)
           g == CHOOSE k : Adds(k, f, R)
<1>1. Adds(h, f, S)
  BY AddsExists
<1>2. Adds(g, f, R)
  BY AddsExists
<1>3. h[S] = f[Some(S)] + h[R]
  BY <1>1 DEF Adds
<1>4. h[R] = g[R]
  <2>1. R \in SUBSET (S \cap R)
    OBVIOUS
  <2> HIDE DEF R, g, h
  <2> QED
    BY <1>1, <1>2, <2>1, AddsUnique
<1>5. SumOver(f, S) = h[S] /\ SumOver(f, R) = g[R]
  BY SumByAdds
<1> QED
  BY <1>3, <1>4, <1>5

LEMMA SumType ==
  ASSUME NEW f, NEW S, IsFiniteSet(S), \A x \in S : f[x] \in Int
  PROVE  \A s \in SUBSET S : SumOver(f, s) \in Int
<1> DEFINE T == {s \in SUBSET S : SumOver(f, s) \in Int}
<1>1. {} \in T
  BY SumNone
<1>2. ASSUME NEW s \in SUBSET S, s # {}, \A x \in s : s \ {x} \in T PROVE s \in T
  <2>1. Some(s) \in s
    BY <1>2, SomeIn
  <2>2. IsFiniteSet(s)
    BY FS_Subset
  <2>3. SumOver(f, s) = f[Some(s)] + SumOver(f, s \ {Some(s)})
    BY <1>2, <2>2, SumSome
  <2>4. f[Some(s)] \in Int /\ SumOver(f, s \ {Some(s)}) \in Int
    BY <1>2, <2>1
  <2> QED
    BY <2>3, <2>4
<1>3. SUBSET S \subseteq T
  <2> HIDE DEF T
  <2> QED
    BY <1>1, <1>2, SubsetInduction
<1> QED
  BY <1>3

\* Whichever element is taken first: addition does not mind the order.
LEMMA SumTakes ==
  ASSUME NEW f, NEW S, IsFiniteSet(S), \A x \in S : f[x] \in Int
  PROVE  \A s \in SUBSET S : \A x \in s : SumOver(f, s) = f[x] + SumOver(f, s \ {x})
<1> DEFINE T == {s \in SUBSET S : \A x \in s : SumOver(f, s) = f[x] + SumOver(f, s \ {x})}
<1>1. {} \in T
  OBVIOUS
<1>2. ASSUME NEW s \in SUBSET S, s # {}, \A x \in s : s \ {x} \in T PROVE s \in T
  <2> DEFINE y == Some(s)
  <2>1. y \in s
    BY <1>2, SomeIn
  <2>2. IsFiniteSet(s)
    BY FS_Subset
  <2>3. SumOver(f, s) = f[y] + SumOver(f, s \ {y})
    BY <1>2, <2>2, SumSome
  <2> HIDE DEF y
  <2>4. ASSUME NEW x \in s, x # y PROVE SumOver(f, s) = f[x] + SumOver(f, s \ {x})
    <3> DEFINE both == (s \ {x}) \ {y}
    <3>1. both = (s \ {y}) \ {x}
      OBVIOUS
    <3>2. SumOver(f, s \ {y}) = f[x] + SumOver(f, both)
      BY <1>2, <2>1, <2>4, <3>1
    <3>3. SumOver(f, s \ {x}) = f[y] + SumOver(f, both)
      BY <1>2, <2>1, <2>4
    <3>4. SumOver(f, both) \in Int /\ f[x] \in Int /\ f[y] \in Int
      BY <2>1, SumType
    <3> QED
      BY ONLY <2>3, <3>2, <3>3, <3>4
  <2> QED
    BY <2>3, <2>4
<1>3. SUBSET S \subseteq T
  <2> HIDE DEF T
  <2> QED
    BY <1>1, <1>2, SubsetInduction
<1> QED
  BY <1>3

\* A sum says no more of f than its values on the set.
LEMMA SumSame ==
  ASSUME NEW f, NEW g, NEW S, IsFiniteSet(S), \A x \in S : f[x] = g[x]
  PROVE  \A s \in SUBSET S : SumOver(f, s) = SumOver(g, s)
<1> DEFINE T == {s \in SUBSET S : SumOver(f, s) = SumOver(g, s)}
<1>1. {} \in T
  BY SumNone
<1>2. ASSUME NEW s \in SUBSET S, s # {}, \A x \in s : s \ {x} \in T PROVE s \in T
  <2>1. Some(s) \in s
    BY <1>2, SomeIn
  <2>2. IsFiniteSet(s)
    BY FS_Subset
  <2>3. SumOver(f, s) = f[Some(s)] + SumOver(f, s \ {Some(s)})
    BY <1>2, <2>2, SumSome
  <2>4. SumOver(g, s) = g[Some(s)] + SumOver(g, s \ {Some(s)})
    BY <1>2, <2>2, SumSome
  <2>5. f[Some(s)] = g[Some(s)] /\ SumOver(f, s \ {Some(s)}) = SumOver(g, s \ {Some(s)})
    BY <1>2, <2>1
  <2> QED
    BY <2>3, <2>4, <2>5
<1>3. SUBSET S \subseteq T
  <2> HIDE DEF T
  <2> QED
    BY <1>1, <1>2, SubsetInduction
<1> QED
  BY <1>3

\* The sum of a sequence of integers with another at its end.
LEMMA SumAppends ==
  ASSUME NEW n \in Nat, NEW f \in [1..n -> Int], NEW g \in [1..n + 1 -> Int],
         \A k \in 1..n : g[k] = f[k]
  PROVE  SumOver(g, 1..n + 1) = SumOver(f, 1..n) + g[n + 1]
<1>1. IsFiniteSet(1..n) /\ IsFiniteSet(1..n + 1)
  BY FS_Interval
<1>2. SumOver(g, 1..n + 1) = g[n + 1] + SumOver(g, (1..n + 1) \ {n + 1})
  BY <1>1, SumTakes
<1>3. (1..n + 1) \ {n + 1} = 1..n
  OBVIOUS
<1>4. SumOver(g, 1..n) = SumOver(f, 1..n)
  BY <1>1, SumSame
<1>5. SumOver(f, 1..n) \in Int
  BY <1>1, SumType
<1>6. g[n + 1] \in Int
  OBVIOUS
<1>7. SumOver(g, 1..n + 1) = g[n + 1] + SumOver(f, 1..n)
  BY <1>2, <1>3, <1>4
<1> QED
  BY ONLY <1>5, <1>6, <1>7

-----------------------------------------------------------------------------
(* Concatenation, block by block. *)

Flattens(f, s, n) == f = [k \in 1..n |-> IF k = 1 THEN s[k] ELSE f[k - 1] \o s[k]]

LEMMA FlattenExists ==
  ASSUME NEW s
  PROVE  \A n \in Nat : \E f : Flattens(f, s, n)
<1> DEFINE T == {n \in Nat : \E f : Flattens(f, s, n)}
<1>1. 0 \in T
  <2> DEFINE f == [k \in 1..0 |-> 0]
  <2>1. Flattens(f, s, 0)
    BY DEF Flattens
  <2> QED
    BY <2>1
<1>2. ASSUME NEW n \in Nat, n \in T PROVE n + 1 \in T
  <2>1. PICK f : Flattens(f, s, n)
    BY <1>2
  <2> DEFINE g == [k \in 1..n + 1 |->
                     IF k <= n THEN f[k] ELSE IF k = 1 THEN s[k] ELSE f[n] \o s[k]]
  <2>2. ASSUME NEW k \in 1..n + 1
        PROVE  g[k] = IF k = 1 THEN s[k] ELSE g[k - 1] \o s[k]
    <3>1. CASE k <= n
      <4>1. k \in 1..n /\ (k # 1 => k - 1 \in 1..n /\ k - 1 \in 1..n + 1 /\ k - 1 <= n)
        BY <3>1
      <4>2. f[k] = IF k = 1 THEN s[k] ELSE f[k - 1] \o s[k]
        BY <2>1, <4>1 DEF Flattens
      <4> QED
        BY <3>1, <4>1, <4>2
    <3>2. CASE ~(k <= n)
      <4>1. k = n + 1 /\ k - 1 = n /\ (k # 1 => n \in 1..n + 1 /\ n <= n)
        BY <3>2
      <4> QED
        BY <3>2, <4>1
    <3> QED
      BY <3>1, <3>2
  <2>3. Flattens(g, s, n + 1)
    BY <2>2 DEF Flattens
  <2> QED
    BY <2>3
<1>3. Nat \subseteq T
  <2> HIDE DEF T
  <2> QED
    BY <1>1, <1>2, SetInduction
<1> QED
  BY <1>3

\* The sequence after each of its blocks.
LEMMA Blocks ==
  ASSUME NEW S, NEW s \in Seq(Seq(S))
  PROVE  \E p \in [0..Len(s) -> Seq(S)] :
           /\ p[0] = <<>>
           /\ \A c \in 1..Len(s) : p[c] = p[c - 1] \o s[c]
           /\ FlattenSeq(s) = p[Len(s)]
<1> DEFINE n == Len(s)
           f == CHOOSE g : Flattens(g, s, n)
           p == [c \in 0..n |-> IF c = 0 THEN <<>> ELSE f[c]]
<1>1. n \in Nat /\ \A c \in 1..n : s[c] \in Seq(S)
  OBVIOUS
<1>2. Flattens(f, s, n)
  BY <1>1, FlattenExists
<1>3. FlattenSeq(s) = IF n = 0 THEN s ELSE f[n]
  BY DEF FlattenSeq, Flattens
<1>4. n = 0 => s = <<>>
  OBVIOUS
<1> HIDE DEF n, f
<1>5. \A c \in 1..n : f[c] = IF c = 1 THEN s[c] ELSE f[c - 1] \o s[c]
  BY <1>2 DEF Flattens
<1> DEFINE T == {c \in Nat : c \in 0..n => p[c] \in Seq(S)}
<1>6. 0 \in T
  OBVIOUS
<1>7. ASSUME NEW c \in 1..n, p[c - 1] \in Seq(S)
      PROVE  p[c] = p[c - 1] \o s[c] /\ p[c] \in Seq(S)
  <2>1. c # 0 /\ (c - 1 = 0 <=> c = 1) /\ c \in 0..n /\ c - 1 \in 0..n
    BY <1>1
  <2>2. p[c] = f[c] /\ p[c - 1] = IF c = 1 THEN <<>> ELSE f[c - 1]
    BY <2>1
  <2>3. s[c] \in Seq(S)
    BY <1>1
  <2>4. p[c] = p[c - 1] \o s[c]
    <3> HIDE DEF p
    <3>1. CASE c = 1
      BY <1>5, <2>2, <2>3, <3>1
    <3>2. CASE c # 1
      <4>1. f[c] = f[c - 1] \o s[c]
        BY <1>5, <3>2
      <4> QED
        BY <2>2, <3>2, <4>1
    <3> QED
      BY <3>1, <3>2
  <2> HIDE DEF p
  <2> QED
    BY <1>7, <2>3, <2>4
<1>8. ASSUME NEW c \in Nat, c \in T PROVE c + 1 \in T
  <2> SUFFICES ASSUME c + 1 \in 0..n PROVE p[c + 1] \in Seq(S)
    OBVIOUS
  <2>1. c + 1 \in 1..n /\ (c + 1) - 1 = c /\ c \in 0..n
    BY <1>1
  <2> HIDE DEF p
  <2> QED
    BY <1>7, <1>8, <2>1
<1>9. Nat \subseteq T
  <2> HIDE DEF T
  <2> QED
    BY <1>6, <1>8, SetInduction
<1>10. ASSUME NEW c \in 0..n PROVE p[c] \in Seq(S)
  <2> HIDE DEF p
  <2>1. c \in T
    BY <1>1, <1>9
  <2> QED
    BY <2>1
<1>11. p \in [0..n -> Seq(S)]
  BY <1>10
<1>12. p[0] = <<>> /\ \A c \in 1..n : p[c] = p[c - 1] \o s[c]
  <2>1. \A c \in 1..n : c - 1 \in 0..n
    BY <1>1
  <2>2. p[0] = <<>>
    BY <1>1
  <2> HIDE DEF p
  <2> QED
    BY <1>7, <1>10, <2>1, <2>2
<1>13. FlattenSeq(s) = p[n]
  BY <1>1, <1>3, <1>4
<1> HIDE DEF p
<1> QED
  BY <1>11, <1>12, <1>13 DEF n

=============================================================================
