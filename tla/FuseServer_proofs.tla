------------------------- MODULE FuseServer_proofs --------------------------
(***************************************************************************)
(* The handlers serve the promised tree, for all files, paths and handles: *)
(* however a client spells a path, ResolvePath finds its components, and   *)
(* what the loop makes of them is what they name in a tree of two levels.  *)
(***************************************************************************)
EXTENDS FuseServer, Induction, SequenceTheorems

-----------------------------------------------------------------------------
(* The loop of ResolvePath. *)

\* What the loop has after each of the first n components.
Walks(w, root, comps, n) ==
  w = [k \in 1..n |->
         IF k = 1 THEN Resolved("OK", root, comps[1]) ELSE Descend(w[k - 1], comps[k])]

LEMMA WalkExists ==
  ASSUME NEW root, NEW comps
  PROVE  \A n \in Nat : \E w : Walks(w, root, comps, n)
<1> DEFINE T == {n \in Nat : \E w : Walks(w, root, comps, n)}
<1>1. 0 \in T
  <2> DEFINE w == [k \in 1..0 |-> 0]
  <2>1. Walks(w, root, comps, 0)
    BY DEF Walks
  <2> QED
    BY <2>1
<1>2. ASSUME NEW n \in Nat, n \in T PROVE n + 1 \in T
  <2>1. PICK w : Walks(w, root, comps, n)
    BY <1>2
  <2> DEFINE v == [k \in 1..n + 1 |->
                     IF k <= n THEN w[k]
                     ELSE IF k = 1 THEN Resolved("OK", root, comps[1]) ELSE Descend(w[n], comps[k])]
  <2>2. ASSUME NEW k \in 1..n + 1
        PROVE  v[k] = IF k = 1 THEN Resolved("OK", root, comps[1]) ELSE Descend(v[k - 1], comps[k])
    <3>1. CASE k <= n
      <4>1. k \in 1..n /\ (k # 1 => k - 1 \in 1..n /\ k - 1 \in 1..n + 1 /\ k - 1 <= n)
        BY <3>1
      <4>2. w[k] = IF k = 1 THEN Resolved("OK", root, comps[1]) ELSE Descend(w[k - 1], comps[k])
        BY <2>1, <4>1 DEF Walks
      <4> QED
        BY <3>1, <4>1, <4>2
    <3>2. CASE ~(k <= n)
      <4>1. k = n + 1 /\ k - 1 = n /\ (k # 1 => n \in 1..n + 1 /\ n <= n)
        BY <3>2
      <4> QED
        BY <3>2, <4>1
    <3> QED
      BY <3>1, <3>2
  <2>3. Walks(v, root, comps, n + 1)
    BY <2>2 DEF Walks
  <2> QED
    BY <2>3
<1>3. Nat \subseteq T
  <2> HIDE DEF T
  <2> QED
    BY <1>1, <1>2, SetInduction
<1> QED
  BY <1>3

LEMMA WalkSteps ==
  ASSUME NEW root, NEW comps, Len(comps) \in Nat, NEW k \in 1..Len(comps)
  PROVE  Walk(root, comps)[k] =
           IF k = 1 THEN Resolved("OK", root, comps[1])
           ELSE Descend(Walk(root, comps)[k - 1], comps[k])
<1> DEFINE w == CHOOSE v : Walks(v, root, comps, Len(comps))
<1>1. Walks(w, root, comps, Len(comps))
  BY WalkExists
<1>2. Walk(root, comps) = w
  BY DEF Walk, Walks
<1> HIDE DEF w
<1>3. w[k] = IF k = 1 THEN Resolved("OK", root, comps[1]) ELSE Descend(w[k - 1], comps[k])
  BY <1>1 DEF Walks
<1> QED
  BY <1>2, <1>3

-----------------------------------------------------------------------------
(* Splitting a path into its components. *)

LEMMA Increasing ==
  ASSUME NEW n \in Nat, NEW f \in [1..n + 1 -> Nat], \A c \in 1..n : f[c] < f[c + 1]
  PROVE  \A c, d \in 1..n + 1 : c < d => f[c] < f[d]
<1> DEFINE T == {k \in Nat : \A c \in 1..n + 1 : c + (k + 1) \in 1..n + 1 => f[c] < f[c + (k + 1)]}
<1>1. 0 \in T
  <2> SUFFICES ASSUME NEW c \in 1..n + 1, c + (0 + 1) \in 1..n + 1 PROVE f[c] < f[c + (0 + 1)]
    OBVIOUS
  <2>1. c \in 1..n /\ c + (0 + 1) = c + 1
    OBVIOUS
  <2> QED
    BY <2>1
<1>2. ASSUME NEW k \in Nat, k \in T PROVE k + 1 \in T
  <2> SUFFICES ASSUME NEW c \in 1..n + 1, c + ((k + 1) + 1) \in 1..n + 1
               PROVE  f[c] < f[c + ((k + 1) + 1)]
    OBVIOUS
  <2> DEFINE e == c + (k + 1)
  <2>1. e \in 1..n /\ e \in 1..n + 1 /\ c + ((k + 1) + 1) = e + 1 /\ e + 1 \in 1..n + 1
    OBVIOUS
  <2>2. f[c] < f[e]
    BY <1>2, <2>1
  <2> HIDE DEF e
  <2>3. f[e] < f[e + 1]
    BY <2>1
  <2>4. f[c] \in Nat /\ f[e] \in Nat /\ f[e + 1] \in Nat
    BY <2>1
  <2> QED
    BY ONLY <2>1, <2>2, <2>3, <2>4
<1>3. Nat \subseteq T
  <2> HIDE DEF T
  <2> QED
    BY <1>1, <1>2, SetInduction
<1> SUFFICES ASSUME NEW c \in 1..n + 1, NEW d \in 1..n + 1, c < d PROVE f[c] < f[d]
  OBVIOUS
<1> DEFINE k == d - c - 1
<1>4. k \in Nat /\ c + (k + 1) = d
  OBVIOUS
<1> HIDE DEF k
<1>5. k \in T
  BY <1>3, <1>4
<1> QED
  BY <1>4, <1>5

\* Component c of a path starts at position at[c]; separators are in front of
\* the first, after each but the last, and maybe after the last.
Spells(p, comps, at) ==
  LET n == Len(comps) IN
  /\ p \in Seq(Tokens) /\ comps \in Seq(Seq(Tokens)) /\ at \in [1..n + 1 -> Nat]
  /\ at[1] > 1 /\ at[n + 1] = Len(p) + 1
  /\ \A k \in 1..at[1] - 1 : IsSep(p, k)
  /\ \A c \in 1..n :
       /\ Len(comps[c]) > 0
       /\ at[c] + Len(comps[c]) <= at[c + 1]
       /\ c < n => at[c] + Len(comps[c]) < at[c + 1]
       /\ \A t \in 1..Len(comps[c]) : p[at[c] + (t - 1)] = comps[c][t] /\ comps[c][t] # "/"
       /\ \A k \in at[c] + Len(comps[c])..at[c + 1] - 1 : IsSep(p, k)

LEMMA SpelledAt ==
  ASSUME NEW p, NEW comps, NEW at, Spells(p, comps, at)
  PROVE  /\ Len(comps) \in Nat /\ Len(p) \in Nat
         /\ \A c \in 1..Len(comps) + 1 : at[c] \in Nat /\ at[c] > 1 /\ at[c] <= Len(p) + 1
         /\ \A c \in 1..Len(comps) :
              /\ Len(comps[c]) \in Nat \ {0}
              /\ at[c] < at[c + 1] /\ at[c] <= Len(p)
              /\ c \in 1..Len(comps) + 1 /\ c + 1 \in 1..Len(comps) + 1
         /\ \A c, d \in 1..Len(comps) + 1 : c < d => at[c] < at[d]
<1> DEFINE n == Len(comps)
<1>1. /\ p \in Seq(Tokens) /\ comps \in Seq(Seq(Tokens)) /\ at \in [1..n + 1 -> Nat]
      /\ at[1] > 1 /\ at[n + 1] = Len(p) + 1
      /\ \A c \in 1..n : Len(comps[c]) > 0 /\ at[c] + Len(comps[c]) <= at[c + 1]
  BY DEF Spells
<1>2. n \in Nat /\ Len(p) \in Nat /\ \A c \in 1..n : Len(comps[c]) \in Nat
  BY <1>1
<1> HIDE DEF n
<1>3. \A c \in 1..n + 1 : at[c] \in Nat
  BY ONLY <1>1
<1>4. \A c \in 1..n : c \in 1..n + 1 /\ c + 1 \in 1..n + 1
  BY <1>2
<1>5. ASSUME NEW c \in 1..n PROVE at[c] < at[c + 1] /\ Len(comps[c]) \in Nat \ {0}
  <2>1. at[c] \in Nat /\ at[c + 1] \in Nat
    BY <1>3, <1>4
  <2>2. Len(comps[c]) > 0 /\ Len(comps[c]) \in Nat /\ at[c] + Len(comps[c]) <= at[c + 1]
    BY <1>1, <1>2
  <2> QED
    BY ONLY <2>1, <2>2
<1>6. \A c, d \in 1..n + 1 : c < d => at[c] < at[d]
  BY <1>1, <1>2, <1>5, Increasing
<1>7. ASSUME NEW c \in 1..n + 1 PROVE at[c] > 1 /\ at[c] <= Len(p) + 1
  <2>1. 1 \in 1..n + 1 /\ n + 1 \in 1..n + 1 /\ (c = 1 \/ 1 < c) /\ (c = n + 1 \/ c < n + 1)
    BY <1>2
  <2>2. (1 < c => at[1] < at[c]) /\ (c < n + 1 => at[c] < at[n + 1])
    BY <1>6, <2>1
  <2>3. at[c] \in Nat /\ at[1] \in Nat /\ at[n + 1] \in Nat
    BY <1>3, <2>1
  <2>4. at[1] > 1 /\ at[n + 1] = Len(p) + 1
    BY <1>1
  <2>5. at[c] > 1
    BY ONLY <2>1, <2>2, <2>3, <2>4
  <2>6. at[c] <= at[n + 1]
    BY ONLY <2>1, <2>2, <2>3
  <2> QED
    BY ONLY <2>4, <2>5, <2>6
<1>8. ASSUME NEW c \in 1..n PROVE at[c] <= Len(p)
  <2>1. c \in 1..n + 1 /\ c + 1 \in 1..n + 1 /\ at[c] < at[c + 1]
    BY <1>4, <1>5
  <2>2. at[c + 1] <= Len(p) + 1 /\ at[c] \in Nat /\ at[c + 1] \in Nat
    BY <1>3, <1>7, <2>1
  <2> QED
    BY <1>2, <2>1, <2>2
<1> QED
  BY <1>2, <1>3, <1>4, <1>5, <1>6, <1>7, <1>8 DEF n

\* Every position is in front of the first component, or from one to the next.
LEMMA PositionIn ==
  ASSUME NEW p, NEW comps, NEW at, Spells(p, comps, at), NEW k \in 1..Len(p)
  PROVE  k < at[1] \/ \E c \in 1..Len(comps) : at[c] <= k /\ k < at[c + 1]
<1> DEFINE n == Len(comps)
           T == {c \in 1..n + 1 : k < at[c]}
<1>1. n \in Nat /\ \A c \in 1..n + 1 : at[c] \in Nat
  BY SpelledAt
<1>2. n + 1 \in T
  <2>1. at[n + 1] = Len(p) + 1 /\ Len(p) \in Nat
    BY SpelledAt DEF Spells
  <2> QED
    BY <1>1, <2>1
<1>3. T \subseteq Nat /\ T # {}
  BY <1>1, <1>2
<1> HIDE DEF T
<1>4. PICK c \in T : \A d \in T : c <= d
  BY <1>3, SmallestNat
<1>5. c \in 1..n + 1 /\ k < at[c]
  BY <1>4 DEF T
<1>6. CASE c = 1
  BY <1>5, <1>6
<1>7. CASE c # 1
  <2>1. c - 1 \in 1..n /\ (c - 1) + 1 = c /\ c - 1 \in 1..n + 1 /\ ~(c <= c - 1)
    BY <1>1, <1>5, <1>7
  <2>2. c - 1 \notin T
    BY <1>4, <2>1
  <2>3. at[c - 1] <= k
    BY <1>1, <2>1, <2>2 DEF T
  <2> HIDE DEF n
  <2>4. \E d \in 1..n : at[d] <= k /\ k < at[d + 1]
    BY ONLY <1>5, <2>1, <2>3
  <2> QED
    BY <2>4 DEF n
<1> QED
  BY <1>6, <1>7

\* A component starts where its first character is.
LEMMA StartsAre ==
  ASSUME NEW p, NEW comps, NEW at, Spells(p, comps, at)
  PROVE  Starts(p) = {at[c] : c \in 1..Len(comps)}
<1> DEFINE n == Len(comps)
<1>1. /\ n \in Nat /\ Len(p) \in Nat
      /\ \A c \in 1..n : /\ at[c] \in Nat /\ at[c + 1] \in Nat /\ Len(comps[c]) \in Nat \ {0}
                          /\ at[c] > 1 /\ at[c] <= Len(p)
      /\ at[1] \in Nat
  BY SpelledAt
<1>2. \A k \in 1..at[1] - 1 : IsSep(p, k)
  BY DEF Spells
<1>3. \A c \in 1..n :
        /\ \A t \in 1..Len(comps[c]) : p[at[c] + (t - 1)] = comps[c][t] /\ comps[c][t] # "/"
        /\ \A k \in at[c] + Len(comps[c])..at[c + 1] - 1 : IsSep(p, k)
        /\ at[c] + Len(comps[c]) <= at[c + 1]
        /\ c < n => at[c] + Len(comps[c]) < at[c + 1]
  BY DEF Spells
<1> HIDE DEF n
<1>4. ASSUME NEW c \in 1..n, NEW k \in Nat, at[c] <= k, k < at[c] + Len(comps[c])
      PROVE  ~IsSep(p, k)
  <2> DEFINE t == k - at[c] + 1
  <2>1. t \in 1..Len(comps[c]) /\ at[c] + (t - 1) = k
    <3>1. at[c] \in Nat /\ Len(comps[c]) \in Nat
      BY <1>1
    <3> QED
      BY ONLY <1>4, <3>1, k \in Nat
  <2> HIDE DEF t
  <2>2. p[at[c] + (t - 1)] # "/"
    BY <1>3, <2>1
  <2> QED
    BY <2>1, <2>2 DEF IsSep
<1>5. ASSUME NEW c \in 1..n PROVE at[c] \in Starts(p)
  <2>1. at[c] \in 1..Len(p) /\ at[c] # 1 /\ at[c] < at[c] + Len(comps[c])
    BY <1>1
  <2>2. ~IsSep(p, at[c])
    BY <1>1, <1>4, <2>1
  <2>3. IsSep(p, at[c] - 1)
    <3>1. CASE c = 1
      <4>1. at[c] - 1 \in 1..at[1] - 1
        BY <1>1, <3>1
      <4> QED
        BY <1>2, <4>1
    <3>2. CASE c # 1
      <4> DEFINE d == c - 1
      <4>1. d \in 1..n /\ d < n /\ d + 1 = c
        BY <1>1, <3>2
      <4> HIDE DEF d
      <4>2. at[d] \in Nat /\ Len(comps[d]) \in Nat /\ at[d] + Len(comps[d]) < at[d + 1]
            /\ at[d + 1] \in Nat
        BY <1>1, <1>3, <4>1
      <4>3. at[d + 1] - 1 \in at[d] + Len(comps[d])..at[d + 1] - 1
        BY ONLY <4>2
      <4>4. IsSep(p, at[d + 1] - 1)
        BY <1>3, <4>1, <4>3
      <4> QED
        BY <4>1, <4>4
    <3> QED
      BY <3>1, <3>2
  <2> QED
    BY <2>1, <2>2, <2>3 DEF Starts
<1>6. ASSUME NEW k \in Starts(p) PROVE \E c \in 1..n : k = at[c]
  <2>1. k \in 1..Len(p) /\ ~IsSep(p, k) /\ (k = 1 \/ IsSep(p, k - 1))
    BY DEF Starts
  <2>2. ~(k < at[1])
    <3>1. k < at[1] => k \in 1..at[1] - 1
      BY <1>1, <2>1
    <3> QED
      BY <1>2, <2>1, <3>1
  <2>3. PICK c \in 1..n : at[c] <= k /\ k < at[c + 1]
    BY <2>1, <2>2, PositionIn DEF n
  <2>4. k < at[c] + Len(comps[c])
    <3>1. ASSUME ~(k < at[c] + Len(comps[c])) PROVE FALSE
      <4>1. at[c] \in Nat /\ at[c + 1] \in Nat /\ Len(comps[c]) \in Nat /\ k \in Nat
        BY <1>1, <2>1
      <4>2. k \in at[c] + Len(comps[c])..at[c + 1] - 1
        BY ONLY <2>3, <3>1, <4>1
      <4> QED
        BY <1>3, <2>1, <4>2
    <3> QED
      BY <3>1
  <2>5. k = at[c]
    <3>1. ASSUME at[c] < k PROVE FALSE
      <4>1. at[c] \in Nat /\ Len(comps[c]) \in Nat /\ k \in Nat /\ at[c] > 1
        BY <1>1, <2>1
      <4>2. k - 1 \in Nat /\ at[c] <= k - 1 /\ k - 1 < at[c] + Len(comps[c]) /\ k # 1
        BY ONLY <2>4, <3>1, <4>1
      <4> QED
        BY <1>4, <2>1, <4>2
    <3>2. at[c] \in Nat /\ k \in Nat
      BY <1>1, <2>1
    <3> QED
      BY <2>3, <3>1, <3>2
  <2> QED
    BY <2>5
<1>7. Starts(p) = {at[c] : c \in 1..n}
  BY <1>5, <1>6
<1> QED
  BY <1>7 DEF n

\* It ends before the next separator, or with the path.
LEMMA EndsAre ==
  ASSUME NEW p, NEW comps, NEW at, Spells(p, comps, at), NEW c \in 1..Len(comps)
  PROVE  EndFrom(p, at[c]) = at[c] + Len(comps[c]) - 1
<1> DEFINE n == Len(comps)
           a == at[c]
           b == at[c + 1]
           l == Len(comps[c])
           e == a + l - 1
           m == Len(p)
<1>1. /\ n \in Nat /\ m \in Nat /\ a \in Nat /\ b \in Nat /\ l \in Nat \ {0}
      /\ a > 1 /\ a <= m /\ b <= m + 1
  BY SpelledAt
<1>2. /\ \A t \in 1..l : p[a + (t - 1)] = comps[c][t] /\ comps[c][t] # "/"
      /\ \A k \in a + l..b - 1 : IsSep(p, k)
      /\ a + l <= b
      /\ c < n => a + l < b
      /\ at[n + 1] = m + 1
  BY DEF Spells
<1>3. c = n \/ c < n
  BY <1>1
<1>4. c = n => b = m + 1
  BY <1>2
<1> HIDE DEF n, a, b, l, m
<1>5. ASSUME NEW k \in a..e PROVE ~IsSep(p, k)
  <2> DEFINE t == k - a + 1
  <2>1. t \in 1..l /\ a + (t - 1) = k
    BY <1>1
  <2> HIDE DEF t
  <2>2. p[a + (t - 1)] # "/"
    BY <1>2, <2>1
  <2> QED
    BY <2>1, <2>2 DEF IsSep
<1>6. e \in a..m /\ (e = m \/ IsSep(p, e + 1))
  <2>1. e \in a..m
    BY <1>1, <1>2
  <2>2. e + 1 = b => e = m
    <3>1. e + 1 = b => c = n
      BY <1>1, <1>2, <1>3
    <3> QED
      BY <1>1, <1>4, <3>1
  <2>3. e + 1 # b => e + 1 \in a + l..b - 1
    BY <1>1, <1>2
  <2> QED
    BY <1>2, <2>1, <2>2, <2>3
<1> HIDE DEF e
<1>7. ASSUME NEW k \in a..m, \A j \in a..k : ~IsSep(p, j), k = m \/ IsSep(p, k + 1)
      PROVE  k = e
  <2>1. ASSUME k < e PROVE FALSE
    <3>1. k # m /\ k + 1 \in a..e
      BY <1>1, <1>6, <2>1
    <3> QED
      BY <1>5, <1>7, <3>1
  <2>2. ASSUME e < k PROVE FALSE
    <3>1. e # m /\ e + 1 \in a..k
      BY <1>1, <1>6, <2>2
    <3> QED
      BY <1>6, <1>7, <3>1
  <2> QED
    BY <1>1, <1>6, <2>1, <2>2
<1>8. EndFrom(p, a) = e
  <2>1. EndFrom(p, a) = CHOOSE k \in a..m : /\ \A j \in a..k : ~IsSep(p, j)
                                            /\ k = m \/ IsSep(p, k + 1)
    BY DEF EndFrom, m
  <2> QED
    BY <1>5, <1>6, <1>7, <2>1
<1> QED
  BY <1>8 DEF e, a, l

\* The starts up to the c-th are c.
LEMMA StartsCount ==
  ASSUME NEW p, NEW comps, NEW at, Spells(p, comps, at), NEW c \in 0..Len(comps)
  PROVE  Cardinality({at[d] : d \in 1..c}) = c
<1> DEFINE S == {at[d] : d \in 1..c}
           f == [d \in 1..c |-> at[d]]
<1>1. /\ \A d \in 1..c : d \in 1..Len(comps) + 1
      /\ \A d, e \in 1..Len(comps) + 1 : d < e => at[d] < at[e]
      /\ \A d \in 1..Len(comps) + 1 : at[d] \in Nat
      /\ Len(comps) \in Nat
  BY SpelledAt
<1>2. f \in Bijection(1..c, S)
  <2>1. ASSUME NEW d \in 1..c, NEW e \in 1..c, f[d] = f[e] PROVE d = e
    <3>1. d \in 1..Len(comps) + 1 /\ e \in 1..Len(comps) + 1 /\ at[d] = at[e] /\ at[d] \in Nat
      BY <1>1, <2>1
    <3>2. ~(d < e) /\ ~(e < d)
      BY <1>1, <3>1
    <3> QED
      BY <3>2
  <2>2. f \in [1..c -> S] /\ \A x \in S : \E d \in 1..c : f[d] = x
    OBVIOUS
  <2> HIDE DEF f, S
  <2> QED
    BY <2>1, <2>2 DEF Bijection, Injection, Surjection, IsInjective
<1>3. ExistsBijection(1..c, S)
  BY <1>2 DEF ExistsBijection
<1> HIDE DEF S
<1>4. Cardinality(S) = c
  BY <1>1, <1>3, FS_CountingElements
<1> QED
  BY <1>4 DEF S

\* ResolvePath finds the components that the path spells.
LEMMA ComponentsAre ==
  ASSUME NEW p, NEW comps, NEW at, Spells(p, comps, at)
  PROVE  Components(p) = comps
<1> DEFINE n == Len(comps)
           start(c) == CHOOSE k \in Starts(p) : Cardinality({j \in Starts(p) : j <= k}) = c
<1>1. /\ n \in Nat
      /\ \A c \in 1..n : at[c] \in Nat /\ Len(comps[c]) \in Nat \ {0} /\ at[c] > 1
                          /\ c \in 1..n + 1
      /\ \A c, d \in 1..n + 1 : c < d => at[c] < at[d]
      /\ comps \in Seq(Seq(Tokens)) /\ p \in Seq(Tokens) /\ Len(p) \in Nat
  BY SpelledAt DEF Spells
<1>2. Starts(p) = {at[c] : c \in 1..n}
  BY StartsAre
<1>3. Cardinality(Starts(p)) = n
  <2>1. n \in 0..Len(comps)
    BY <1>1
  <2> HIDE DEF n
  <2> QED
    BY <1>2, <2>1, StartsCount
<1>4. ASSUME NEW c \in 1..n PROVE Cardinality({j \in Starts(p) : j <= at[c]}) = c
  <2>1. \A d \in 1..n : at[d] <= at[c] <=> d <= c
    <3> SUFFICES ASSUME NEW d \in 1..n PROVE at[d] <= at[c] <=> d <= c
      OBVIOUS
    <3>1. at[d] \in Nat /\ at[c] \in Nat /\ d \in 1..n + 1 /\ c \in 1..n + 1
      BY <1>1
    <3>2. (c < d => at[c] < at[d]) /\ (d < c => at[d] < at[c])
      BY <1>1, <3>1
    <3>3. d < c \/ d = c \/ c < d
      OBVIOUS
    <3> QED
      BY <3>1, <3>2, <3>3
  <2>2. {j \in Starts(p) : j <= at[c]} = {at[d] : d \in 1..c}
    <3>1. \A d \in 1..n : d <= c <=> d \in 1..c
      OBVIOUS
    <3>2. \A d \in 1..c : d \in 1..n
      BY <1>1
    <3> QED
      BY <1>2, <2>1, <3>1, <3>2
  <2>3. c \in 0..Len(comps)
    BY <1>1
  <2> QED
    BY <2>2, <2>3, StartsCount
<1>5. ASSUME NEW c \in 1..n PROVE start(c) = at[c]
  <2>1. at[c] \in Starts(p) /\ Cardinality({j \in Starts(p) : j <= at[c]}) = c
    BY <1>2, <1>4
  <2>2. ASSUME NEW k \in Starts(p), Cardinality({j \in Starts(p) : j <= k}) = c PROVE k = at[c]
    <3>1. PICK d \in 1..n : k = at[d]
      BY <1>2
    <3>2. d = c
      BY <1>4, <2>2, <3>1
    <3> QED
      BY <3>1, <3>2
  <2> QED
    BY <2>1, <2>2
<1>6. ASSUME NEW c \in 1..n PROVE SubSeq(p, at[c], EndFrom(p, at[c])) = comps[c]
  <2> DEFINE a == at[c]
             l == Len(comps[c])
  <2>1. EndFrom(p, a) = a + l - 1
    BY EndsAre
  <2>2. \A t \in 1..l : p[a + (t - 1)] = comps[c][t]
    BY DEF Spells
  <2>3. a \in Nat /\ a > 1 /\ l \in Nat \ {0} /\ comps[c] \in Seq(Tokens)
    BY <1>1
  <2> HIDE DEF a
  <2>4. SubSeq(p, a, a + l - 1) = [t \in 1..l |-> p[a + (t - 1)]]
    <3>1. a + l <= Len(p) + 1 /\ p \in Seq(Tokens) /\ Len(p) \in Nat
      <4>1. a + l <= at[c + 1] /\ at[c + 1] \in Nat /\ at[c + 1] <= Len(p) + 1 /\ Len(p) \in Nat
            /\ p \in Seq(Tokens)
        BY SpelledAt DEF Spells, a
      <4> QED
        BY ONLY <2>3, <4>1
    <3> HIDE DEF l
    <3> DEFINE e == a + l - 1
    <3>2. a \in 1..Len(p) + 1 /\ e \in a - 1..Len(p) /\ e - a + 1 = l
      BY ONLY <2>3, <3>1
    <3> HIDE DEF e
    <3>3. /\ SubSeq(p, a, e) \in Seq(Tokens)
          /\ Len(SubSeq(p, a, e)) = e - a + 1
          /\ \A t \in 1..e - a + 1 : SubSeq(p, a, e)[t] = p[a + t - 1]
      BY ONLY <3>1, <3>2, SubSeqProperties
    <3>4. \A t \in 1..l : a + t - 1 = a + (t - 1)
      BY ONLY <2>3
    <3>5. SubSeq(p, a, e) = [t \in 1..l |-> SubSeq(p, a, e)[t]]
      BY ONLY <3>2, <3>3
    <3> QED
      BY ONLY <3>2, <3>3, <3>4, <3>5 DEF e
  <2>5. comps[c] = [t \in 1..l |-> comps[c][t]]
    BY <2>3
  <2> HIDE DEF l
  <2> QED
    BY <2>1, <2>2, <2>4, <2>5 DEF a
<1>7. Components(p) = [c \in 1..n |-> SubSeq(p, start(c), EndFrom(p, start(c)))]
  BY <1>3 DEF Components
<1> HIDE DEF start
<1>8. Components(p) = [c \in 1..n |-> comps[c]]
  BY <1>5, <1>6, <1>7
<1> QED
  BY <1>1, <1>8

-----------------------------------------------------------------------------
(* The path of a request. *)

\* The sequence p[c] is there after the blocks s[1] to s[c].
Grows(S, n, p, s) ==
  /\ n \in Nat /\ p \in [0..n -> Seq(S)] /\ s \in [1..n -> Seq(S)]
  /\ \A c \in 1..n : p[c] = p[c - 1] \o s[c]

\* What is there after a block stays as blocks follow.
LEMMA PrefixKept ==
  ASSUME NEW S, NEW n, NEW p, NEW s, Grows(S, n, p, s)
  PROVE  \A c, d \in 0..n : c <= d => /\ Len(p[c]) <= Len(p[d])
                                     /\ \A j \in 1..Len(p[c]) : p[d][j] = p[c][j]
<1> USE DEF Grows
<1> DEFINE Keeps(c, d) == Len(p[c]) <= Len(p[d]) /\ \A j \in 1..Len(p[c]) : p[d][j] = p[c][j]
           T == {k \in Nat : \A c \in 0..n : c + k \in 0..n => Keeps(c, c + k)}
<1>1. 0 \in T
  <2> SUFFICES ASSUME NEW c \in 0..n PROVE Keeps(c, c + 0)
    OBVIOUS
  <2>1. c + 0 = c /\ p[c] \in Seq(S)
    OBVIOUS
  <2>2. Len(p[c]) <= Len(p[c])
    BY <2>1
  <2> QED
    BY <2>1, <2>2
<1>2. ASSUME NEW k \in Nat, k \in T PROVE k + 1 \in T
  <2> SUFFICES ASSUME NEW c \in 0..n, c + (k + 1) \in 0..n PROVE Keeps(c, c + (k + 1))
    OBVIOUS
  <2> DEFINE d == c + k
  <2>1. d \in 0..n /\ d + 1 \in 1..n /\ (d + 1) - 1 = d /\ c + (k + 1) = d + 1
    OBVIOUS
  <2>2. Keeps(c, d)
    BY <1>2, <2>1
  <2> HIDE DEF d
  <2>3. p[d + 1] = p[d] \o s[d + 1] /\ p[d] \in Seq(S) /\ s[d + 1] \in Seq(S) /\ p[c] \in Seq(S)
    BY <2>1
  <2>4. /\ Len(p[d]) <= Len(p[d + 1])
        /\ \A j \in 1..Len(p[d]) : p[d + 1][j] = p[d][j]
    <3> DEFINE x == p[d]
               y == s[d + 1]
    <3>1. x \in Seq(S) /\ y \in Seq(S) /\ p[d + 1] = x \o y
      BY <2>3
    <3> HIDE DEF x, y
    <3>2. Len(x) <= Len(x \o y) /\ \A j \in 1..Len(x) : (x \o y)[j] = x[j]
      BY ONLY <3>1
    <3> QED
      BY <3>1, <3>2 DEF x
  <2>5. Len(p[c]) \in Nat /\ Len(p[d]) \in Nat /\ Len(p[d + 1]) \in Nat
    BY <2>1, <2>3
  <2>6. Len(p[c]) <= Len(p[d + 1])
    BY ONLY <2>2, <2>4, <2>5
  <2>7. \A j \in 1..Len(p[c]) : j \in 1..Len(p[d])
    BY ONLY <2>2, <2>5
  <2> QED
    BY ONLY <2>1, <2>2, <2>4, <2>6, <2>7
<1>3. Nat \subseteq T
  <2> HIDE DEF T
  <2> QED
    BY <1>1, <1>2, SetInduction
<1> SUFFICES ASSUME NEW c \in 0..n, NEW d \in 0..n, c <= d PROVE Keeps(c, d)
  OBVIOUS
<1> DEFINE k == d - c
<1>4. k \in Nat /\ c + k = d
  OBVIOUS
<1> HIDE DEF k, Keeps
<1>5. k \in T
  BY <1>3, <1>4
<1> QED
  BY <1>4, <1>5

\* A block is found where those in front of it end.
LEMMA BlockAt ==
  ASSUME NEW S, NEW n, NEW p, NEW s, Grows(S, n, p, s), NEW c \in 1..n
  PROVE  /\ Len(p[c]) = Len(p[c - 1]) + Len(s[c])
         /\ \A j \in 1..Len(s[c]) : p[n][Len(p[c - 1]) + j] = s[c][j]
         /\ c - 1 \in 0..n /\ Len(p[c - 1]) \in Nat /\ Len(s[c]) \in Nat
<1> DEFINE x == p[c - 1]
           y == s[c]
<1>1. /\ x \in Seq(S) /\ y \in Seq(S) /\ p[c] = x \o y
      /\ c \in 0..n /\ n \in 0..n /\ c <= n /\ c - 1 \in 0..n
  BY DEF Grows
<1>2. \A j \in 1..Len(p[c]) : p[n][j] = p[c][j]
  <2>1. \A a, b \in 0..n : a <= b => /\ Len(p[a]) <= Len(p[b])
                                     /\ \A j \in 1..Len(p[a]) : p[b][j] = p[a][j]
    BY ONLY PrefixKept, Grows(S, n, p, s)
  <2> QED
    BY ONLY <1>1, <2>1
<1> HIDE DEF x, y
<1>3. /\ Len(x \o y) = Len(x) + Len(y) /\ Len(x) \in Nat /\ Len(y) \in Nat
      /\ \A j \in 1..Len(y) : (x \o y)[Len(x) + j] = y[j]
  BY ONLY <1>1
<1>4. \A j \in 1..Len(y) : Len(x) + j \in 1..Len(p[c])
  BY <1>1, <1>3
<1> QED
  BY <1>1, <1>2, <1>3, <1>4 DEF x, y

Seps(n) == [k \in 1..n |-> "/"]
Block(q, c) == q.comps[c] \o Seps(IF c < Len(q.comps) THEN q.gap ELSE q.trail)

LEMMA PathBlocks ==
  ASSUME NEW q
  PROVE  Path(q) = Seps(q.lead) \o FlattenSeq([c \in 1..Len(q.comps) |-> Block(q, c)])
BY DEF Path, Block, Seps

LEMMA SepsType ==
  ASSUME NEW n \in Nat
  PROVE  /\ Seps(n) \in Seq(Tokens) /\ Len(Seps(n)) = n
         /\ \A k \in 1..n : Seps(n)[k] = "/"
<1> DEFINE s == [k \in 1..n |-> "/"]
<1>1. \A k \in 1..n : s[k] = "/" /\ s[k] \in Tokens
  BY TokensAssumption
<1>2. s \in Seq(Tokens) /\ Len(s) = n
  BY TokensAssumption
<1> QED
  BY <1>1, <1>2 DEF Seps

\* A block is a name and then separators, at least one if a name follows.
LEMMA BlockIs ==
  ASSUME NEW q \in Paths, Spelled(q), NEW c \in 1..Len(q.comps)
  PROVE  LET b == Block(q, c)
             l == Len(q.comps[c])
         IN  /\ b \in Seq(Tokens) /\ Len(b) \in Nat /\ l \in Nat \ {0} /\ l <= Len(b)
             /\ c < Len(q.comps) => l < Len(b)
             /\ \A t \in 1..l : b[t] = q.comps[c][t] /\ q.comps[c][t] # "/"
             /\ \A t \in l + 1..Len(b) : b[t] = "/"
<1> DEFINE x == q.comps[c]
           g == IF c < Len(q.comps) THEN q.gap ELSE q.trail
           y == Seps(g)
<1>1. x \in Seq(Tokens) /\ x # <<>> /\ \A t \in 1..Len(x) : x[t] # "/"
  BY RequestsAssumption DEF Spelled
<1>2. g \in Nat /\ (c < Len(q.comps) => g > 0)
  BY RequestsAssumption DEF Spelled
<1>3. Block(q, c) = x \o y
  BY DEF Block
<1> HIDE DEF x, g
<1>4. y \in Seq(Tokens) /\ Len(y) = g /\ \A k \in 1..g : y[k] = "/"
  BY <1>2, SepsType
<1> HIDE DEF y
<1>5. /\ x \o y \in Seq(Tokens) /\ Len(x \o y) = Len(x) + Len(y) /\ Len(x) \in Nat \ {0}
      /\ \A t \in 1..Len(x) : (x \o y)[t] = x[t]
      /\ \A t \in Len(x) + 1..Len(x) + Len(y) : (x \o y)[t] = y[t - Len(x)]
  <2>1. x \in Seq(Tokens) /\ y \in Seq(Tokens)
    BY <1>1, <1>4
  <2>2. Len(x) \in Nat \ {0}
    BY ONLY <1>1
  <2>3. x \o y \in Seq(Tokens) /\ Len(x \o y) = Len(x) + Len(y)
    BY ONLY <2>1
  <2>4. \A t \in 1..Len(x) : (x \o y)[t] = x[t]
    BY ONLY <2>1
  <2>5. \A t \in Len(x) + 1..Len(x) + Len(y) : (x \o y)[t] = y[t - Len(x)]
    BY ONLY <2>1
  <2> QED
    BY ONLY <2>2, <2>3, <2>4, <2>5
<1>6. \A t \in Len(x) + 1..Len(x) + g : t - Len(x) \in 1..g
  BY <1>2, <1>5
<1> QED
  BY <1>1, <1>2, <1>3, <1>4, <1>5, <1>6 DEF x

LEMMA BlockType ==
  ASSUME NEW q \in Paths, NEW c \in 1..Len(q.comps)
  PROVE  Block(q, c) \in Seq(Tokens)
<1> DEFINE x == q.comps[c]
           g == IF c < Len(q.comps) THEN q.gap ELSE q.trail
           y == Seps(g)
<1>1. x \in Seq(Tokens) /\ g \in Nat
  BY RequestsAssumption
<1>2. Block(q, c) = x \o y
  BY DEF Block
<1> HIDE DEF x, g
<1>3. y \in Seq(Tokens)
  BY <1>1, SepsType
<1> HIDE DEF y
<1> QED
  BY <1>1, <1>2, <1>3

\* The path after each of its blocks.
LEMMA PathGrows ==
  ASSUME NEW q \in Paths
  PROVE  \E n, s, p : /\ n = Len(q.comps) /\ \A c \in 1..n : s[c] = Block(q, c)
                      /\ Grows(Tokens, n, p, s) /\ p[0] = <<>>
                      /\ Path(q) = Seps(q.lead) \o p[n]
<1> DEFINE n == Len(q.comps)
           s == [c \in 1..n |-> Block(q, c)]
<1>1. n \in Nat /\ \A c \in 1..n : Block(q, c) \in Seq(Tokens)
  <2>1. n \in Nat
    BY RequestsAssumption
  <2>2. \A c \in 1..n : Block(q, c) \in Seq(Tokens)
    BY BlockType
  <2> QED
    BY <2>1, <2>2
<1>2. Path(q) = Seps(q.lead) \o FlattenSeq(s)
  BY PathBlocks
<1> HIDE DEF n
<1>3. s \in [1..n -> Seq(Tokens)] /\ s \in Seq(Seq(Tokens)) /\ Len(s) = n
  BY ONLY <1>1
<1>4. \A c \in 1..n : s[c] = Block(q, c)
  OBVIOUS
<1> HIDE DEF s
<1>5. PICK p \in [0..n -> Seq(Tokens)] :
        /\ p[0] = <<>>
        /\ \A c \in 1..n : p[c] = p[c - 1] \o s[c]
        /\ FlattenSeq(s) = p[n]
  BY ONLY <1>3, Blocks
<1>6. Grows(Tokens, n, p, s)
  BY <1>1, <1>3, <1>5 DEF Grows
<1> QED
  BY <1>2, <1>4, <1>5, <1>6 DEF n

LEMMA PathSpells ==
  ASSUME NEW q \in Paths, Spelled(q), q.lead > 0
  PROVE  \E at : Spells(Path(q), q.comps, at)
<1>1. PICK n, s, p : /\ n = Len(q.comps) /\ \A c \in 1..n : s[c] = Block(q, c)
                     /\ Grows(Tokens, n, p, s) /\ p[0] = <<>>
                     /\ Path(q) = Seps(q.lead) \o p[n]
  BY PathGrows
<1>2. /\ q.comps \in Seq(Seq(Tokens)) /\ n \in Nat /\ q.lead \in Nat
      /\ p \in [0..n -> Seq(Tokens)] /\ s \in [1..n -> Seq(Tokens)]
  BY <1>1, RequestsAssumption DEF Grows
<1> DEFINE l(c) == Len(q.comps[c])
<1>3. \A c \in 1..n :
        /\ s[c] \in Seq(Tokens) /\ Len(s[c]) \in Nat /\ l(c) \in Nat \ {0} /\ l(c) <= Len(s[c])
        /\ c < n => l(c) < Len(s[c])
        /\ \A t \in 1..l(c) : s[c][t] = q.comps[c][t] /\ q.comps[c][t] # "/"
        /\ \A t \in l(c) + 1..Len(s[c]) : s[c][t] = "/"
  BY <1>1, BlockIs
<1> HIDE DEF l
<1> DEFINE lead == q.lead
           path == Seps(lead) \o p[n]
           at == [c \in 1..n + 1 |-> lead + Len(p[c - 1]) + 1]
<1>6. /\ path \in Seq(Tokens) /\ Len(path) = lead + Len(p[n]) /\ Len(p[n]) \in Nat
      /\ \A k \in 1..lead : path[k] = "/"
      /\ \A j \in 1..Len(p[n]) : path[lead + j] = p[n][j]
  <2> DEFINE x == Seps(lead)
             y == p[n]
  <2>1. x \in Seq(Tokens) /\ Len(x) = lead /\ lead \in Nat /\ \A k \in 1..lead : x[k] = "/"
    BY <1>2, SepsType
  <2>2. y \in Seq(Tokens)
    BY <1>2
  <2> HIDE DEF x, y, lead
  <2>3. x \o y \in Seq(Tokens) /\ Len(x \o y) = lead + Len(y) /\ Len(y) \in Nat
    BY ONLY <2>1, <2>2
  <2>4. \A k \in 1..lead : (x \o y)[k] = x[k]
    BY ONLY <2>1, <2>2
  <2>5. \A j \in 1..Len(y) : (x \o y)[lead + j] = y[j]
    BY ONLY <2>1, <2>2
  <2> QED
    BY <2>1, <2>3, <2>4, <2>5 DEF x, y
<1> HIDE DEF path
<1> DEFINE e(c) == Len(p[c])
           m(c) == Len(s[c])
<1>7. ASSUME NEW c \in 1..n
      PROVE  /\ e(c) = e(c - 1) + m(c) /\ e(c - 1) \in Nat /\ m(c) \in Nat
             /\ \A j \in 1..m(c) : p[n][e(c - 1) + j] = s[c][j]
             /\ e(c) <= e(n) /\ e(c) \in Nat /\ e(n) \in Nat
  <2>1. Grows(Tokens, n, p, s)
    BY <1>1
  <2>2. /\ Len(p[c]) = Len(p[c - 1]) + Len(s[c])
        /\ \A j \in 1..Len(s[c]) : p[n][Len(p[c - 1]) + j] = s[c][j]
        /\ c - 1 \in 0..n /\ Len(p[c - 1]) \in Nat /\ Len(s[c]) \in Nat
    BY ONLY <2>1, BlockAt, c \in 1..n
  <2>3. \A a, b \in 0..n : a <= b => /\ Len(p[a]) <= Len(p[b])
                                     /\ \A j \in 1..Len(p[a]) : p[b][j] = p[a][j]
    BY ONLY <2>1, PrefixKept
  <2>4. c \in 0..n /\ n \in 0..n /\ c <= n
    BY <1>2
  <2>5. \A d \in 0..n : Len(p[d]) \in Nat
    BY <1>2
  <2> QED
    BY ONLY <2>2, <2>3, <2>4, <2>5
<1>8. \A c \in 1..n : at[c] = lead + e(c - 1) + 1 /\ at[c + 1] = lead + e(c) + 1
  <2>1. \A c \in 1..n : c \in 1..n + 1 /\ c + 1 \in 1..n + 1 /\ (c + 1) - 1 = c
    BY <1>2
  <2> QED
    BY <2>1
<1>9. at \in [1..n + 1 -> Nat] /\ at[1] = lead + 1 /\ at[n + 1] = Len(path) + 1
  <2>1. \A c \in 1..n + 1 : c - 1 \in 0..n
    BY <1>2
  <2>2. \A c \in 0..n : e(c) \in Nat
    BY <1>2
  <2>3. lead \in Nat /\ 1 \in 1..n + 1 /\ n + 1 \in 1..n + 1 /\ (n + 1) - 1 = n /\ 1 - 1 = 0
    BY <1>2
  <2>4. at \in [1..n + 1 -> Nat]
    BY <2>1, <2>2, <2>3
  <2>5. at[1] = lead + e(0) + 1 /\ at[n + 1] = lead + e(n) + 1
    BY <2>3
  <2>6. e(0) = 0 /\ Len(path) = lead + e(n) /\ e(n) \in Nat
    BY <1>1, <1>6
  <2> HIDE DEF at, lead, e
  <2> QED
    BY ONLY <2>3, <2>4, <2>5, <2>6
<1>10. lead \in Nat /\ lead > 0
  BY <1>2
<1>11. \A j \in 1..e(n) : path[lead + j] = p[n][j]
  BY <1>6
<1> HIDE DEF at, lead, e, m
<1>12. ASSUME NEW c \in 1..n
       PROVE  /\ at[c + 1] = at[c] + m(c) /\ at[c] \in Nat
              /\ \A j \in 1..m(c) : path[at[c] + (j - 1)] = s[c][j]
  <2> DEFINE a == at[c]
             b == at[c + 1]
             x == e(c - 1)
             y == e(c)
             z == m(c)
             w == e(n)
  <2>1. /\ y = x + z /\ x \in Nat /\ z \in Nat /\ y <= w /\ w \in Nat
        /\ a = lead + x + 1 /\ b = lead + y + 1
    BY <1>7, <1>8
  <2>2. \A j \in 1..z : p[n][x + j] = s[c][j]
    BY <1>7
  <2>3. \A j \in 1..w : path[lead + j] = p[n][j]
    BY <1>11
  <2> HIDE DEF a, b, x, y, z, w
  <2>4. b = a + z /\ a \in Nat
    BY ONLY <1>10, <2>1
  <2>5. \A j \in 1..z : x + j \in 1..w /\ a + (j - 1) = lead + (x + j)
    BY ONLY <1>10, <2>1
  <2>6. \A j \in 1..z : path[a + (j - 1)] = s[c][j]
    BY ONLY <2>2, <2>3, <2>5
  <2> QED
    BY <2>4, <2>6 DEF a, b, z
<1>13. ASSUME NEW c \in 1..n
       PROVE  /\ at[c] + l(c) <= at[c + 1]
              /\ c < n => at[c] + l(c) < at[c + 1]
              /\ \A t \in 1..l(c) : path[at[c] + (t - 1)] = q.comps[c][t]
              /\ \A k \in at[c] + l(c)..at[c + 1] - 1 : path[k] = "/"
  <2> DEFINE a == at[c]
             b == at[c + 1]
             z == m(c)
             v == l(c)
  <2>1. /\ b = a + z /\ a \in Nat /\ z \in Nat /\ v \in Nat \ {0} /\ v <= z
        /\ c < n => v < z
    BY <1>3, <1>7, <1>12 DEF m
  <2>2. \A j \in 1..z : path[a + (j - 1)] = s[c][j]
    BY <1>12
  <2>3. (\A t \in 1..v : s[c][t] = q.comps[c][t]) /\ \A t \in v + 1..z : s[c][t] = "/"
    BY <1>3 DEF m
  <2> HIDE DEF a, b, z, v
  <2>4. a + v <= b /\ (c < n => a + v < b)
    BY ONLY <2>1
  <2>5. \A t \in 1..v : t \in 1..z
    BY ONLY <2>1
  <2>6. ASSUME NEW k \in a + v..b - 1 PROVE path[k] = "/"
    <3> DEFINE t == (k - a) + 1
    <3>1. t \in v + 1..z /\ t \in 1..z /\ a + (t - 1) = k
      BY ONLY <2>1, k \in a + v..b - 1
    <3> HIDE DEF t
    <3>2. s[c][t] = "/" /\ path[a + (t - 1)] = s[c][t]
      BY ONLY <2>2, <2>3, <3>1
    <3> QED
      BY ONLY <3>1, <3>2
  <2>7. \A t \in 1..v : path[a + (t - 1)] = q.comps[c][t]
    BY ONLY <2>2, <2>3, <2>5
  <2> QED
    BY <2>4, <2>6, <2>7 DEF a, b, v
<1>14. \A k \in 1..at[1] - 1 : path[k] = "/"
  BY <1>6, <1>9, <1>10
<1>15. at[1] > 1
  BY <1>9, <1>10
<1>16. Spells(path, q.comps, at)
  <2>1. \A c \in 1..n : /\ l(c) > 0
                         /\ \A t \in 1..l(c) : q.comps[c][t] # "/"
    <3>1. \A c \in 1..n : l(c) \in Nat \ {0} => l(c) > 0
      OBVIOUS
    <3> QED
      BY ONLY <1>3, <3>1
  <2>2. \A c \in 1..n :
          /\ l(c) > 0
          /\ at[c] + l(c) <= at[c + 1]
          /\ c < n => at[c] + l(c) < at[c + 1]
          /\ \A t \in 1..l(c) : path[at[c] + (t - 1)] = q.comps[c][t] /\ q.comps[c][t] # "/"
          /\ \A k \in at[c] + l(c)..at[c + 1] - 1 : path[k] = "/"
    BY ONLY <1>13, <2>1
  <2>3. path \in Seq(Tokens) /\ q.comps \in Seq(Seq(Tokens)) /\ at \in [1..n + 1 -> Nat]
        /\ at[1] > 1 /\ at[n + 1] = Len(path) + 1
    BY ONLY <1>2, <1>6, <1>9, <1>15
  <2> QED
    BY ONLY <1>1, <1>14, <2>2, <2>3 DEF Spells, IsSep, l
<1> QED
  BY <1>1, <1>16 DEF path, lead

LEMMA PathType ==
  ASSUME NEW q \in Paths
  PROVE  Path(q) \in Seq(Tokens)
<1>1. PICK n, s, p : Grows(Tokens, n, p, s) /\ Path(q) = Seps(q.lead) \o p[n]
  BY PathGrows
<1> DEFINE x == Seps(q.lead)
           y == p[n]
<1>2. x \in Seq(Tokens)
  BY RequestsAssumption, SepsType
<1>3. y \in Seq(Tokens)
  BY <1>1 DEF Grows
<1> HIDE DEF x, y
<1>4. x \o y \in Seq(Tokens)
  BY <1>2, <1>3
<1> QED
  BY <1>1, <1>4 DEF x, y

\* However separators are repeated, ResolvePath finds the names.
LEMMA PathComponents ==
  ASSUME NEW q \in Paths, Spelled(q), q.lead > 0
  PROVE  Components(Path(q)) = q.comps /\ Path(q) # <<>> /\ Head(Path(q)) = "/"
<1>1. PICK at : Spells(Path(q), q.comps, at)
  BY PathSpells
<1>2. Components(Path(q)) = q.comps
  BY <1>1, ComponentsAre
<1> DEFINE p == Path(q)
<1>3. Len(q.comps) \in Nat /\ at[1] \in Nat /\ at[1] > 1 /\ at[1] <= Len(p) + 1 /\ Len(p) \in Nat
  <2>1. 1 \in 1..Len(q.comps) + 1
    BY RequestsAssumption
  <2> HIDE DEF p
  <2> QED
    BY <1>1, <2>1, SpelledAt DEF p
<1>4. \A k \in 1..at[1] - 1 : p[k] = "/"
  BY <1>1 DEF Spells, IsSep
<1>5. p \in Seq(Tokens)
  BY PathType
<1> HIDE DEF p
<1>6. p[1] = "/" /\ Len(p) > 0
  BY <1>3, <1>4
<1>7. p # <<>> /\ Head(p) = p[1]
  BY <1>5, <1>6
<1> QED
  BY <1>2, <1>6, <1>7 DEF p

\* A path that does not start with a separator is relative, or empty.
LEMMA PathRelative ==
  ASSUME NEW q \in Paths, Spelled(q), q.lead = 0
  PROVE  Path(q) = <<>> \/ Head(Path(q)) # "/"
<1>1. PICK n, s, p : /\ n = Len(q.comps) /\ \A c \in 1..n : s[c] = Block(q, c)
                     /\ Grows(Tokens, n, p, s) /\ p[0] = <<>>
                     /\ Path(q) = Seps(q.lead) \o p[n]
  BY PathGrows
<1>2. n \in Nat /\ p \in [0..n -> Seq(Tokens)] /\ p[n] \in Seq(Tokens)
  <2>1. n \in Nat /\ p \in [0..n -> Seq(Tokens)]
    BY <1>1 DEF Grows
  <2>2. n \in 0..n
    BY <2>1
  <2> QED
    BY <2>1, <2>2
<1>3. Path(q) = p[n]
  <2> DEFINE x == Seps(0)
             y == p[n]
  <2>1. x \in Seq(Tokens) /\ Len(x) = 0
    BY SepsType
  <2>2. y \in Seq(Tokens) /\ Path(q) = x \o y
    BY <1>1, <1>2
  <2> HIDE DEF x, y
  <2>3. x = <<>>
    BY <2>1
  <2>4. <<>> \o y = y
    BY <2>2
  <2> QED
    BY <2>2, <2>3, <2>4 DEF y
<1>4. CASE n = 0
  BY <1>1, <1>3, <1>4
<1>5. CASE n # 0
  <2>1. 1 \in 1..n /\ 1 - 1 = 0
    BY <1>2, <1>5
  <2>2. /\ \A j \in 1..Len(s[1]) : p[n][Len(p[1 - 1]) + j] = s[1][j]
        /\ Len(p[1]) = Len(p[1 - 1]) + Len(s[1])
    <3>1. ASSUME NEW c \in 1..n
          PROVE  /\ Len(p[c]) = Len(p[c - 1]) + Len(s[c])
                 /\ \A j \in 1..Len(s[c]) : p[n][Len(p[c - 1]) + j] = s[c][j]
                 /\ c - 1 \in 0..n /\ Len(p[c - 1]) \in Nat /\ Len(s[c]) \in Nat
      <4>1. Grows(Tokens, n, p, s)
        BY <1>1
      <4> QED
        BY ONLY <4>1, BlockAt, c \in 1..n
    <3> QED
      BY <2>1, <3>1
  <2>3. Len(s[1]) \in Nat \ {0} /\ s[1][1] # "/"
    <3> DEFINE l == Len(q.comps[1])
    <3>1. /\ Len(s[1]) \in Nat /\ l \in Nat \ {0} /\ l <= Len(s[1])
          /\ \A t \in 1..l : s[1][t] = q.comps[1][t] /\ q.comps[1][t] # "/"
      BY <1>1, <2>1, BlockIs
    <3> HIDE DEF l
    <3>2. 1 \in 1..l /\ Len(s[1]) # 0
      BY ONLY <3>1
    <3> QED
      BY <3>1, <3>2
  <2>4. Len(p[1 - 1]) + 1 = 1
    BY <1>1
  <2>5. p[n][1] # "/"
    <3>1. 1 \in 1..Len(s[1])
      BY <2>3
    <3> QED
      BY <2>2, <2>3, <2>4, <3>1
  <2>6. p[n] = <<>> \/ Head(p[n]) = p[n][1]
    BY <1>2
  <2> QED
    BY <1>3, <2>5, <2>6
<1> QED
  BY <1>4, <1>5

-----------------------------------------------------------------------------
(* The tree. *)

\* The tree has two levels, and files on the second.
Tree(root) ==
  /\ root.is_root
  /\ \A x \in DOMAIN root.entries :
       /\ ~root.entries[x].is_root
       /\ \A y \in DOMAIN root.entries[x].entries : root.entries[x].entries[y] \in FileType

\* Among arrays of one name there is a last one.
LEMMA LastOfName ==
  ASSUME NEW arrays, Len(arrays) \in Nat, NEW k \in 1..Len(arrays)
  PROVE  \E l \in 1..Len(arrays) : /\ arrays[l].name = arrays[k].name
                                    /\ \A j \in l + 1..Len(arrays) : arrays[j].name # arrays[l].name
<1> DEFINE n == Len(arrays)
           T == {i \in Nat : i < n /\ arrays[n - i].name = arrays[k].name}
<1>1. n - k \in T
  <2>1. n - k \in Nat /\ n - k < n /\ n - (n - k) = k
    OBVIOUS
  <2> QED
    BY <2>1
<1>2. PICK i \in T : \A j \in T : i <= j
  <2>1. T \subseteq Nat /\ T # {}
    BY <1>1
  <2> HIDE DEF T
  <2> QED
    BY <2>1, SmallestNat
<1> DEFINE l == n - i
<1>3. l \in 1..n /\ arrays[l].name = arrays[k].name
  BY <1>2
<1>4. ASSUME NEW j \in l + 1..n, arrays[j].name = arrays[l].name PROVE FALSE
  <2>1. n - j \in Nat /\ n - j < n /\ n - (n - j) = j /\ n - j < i
    BY <1>2
  <2>2. n - j \in T
    BY <1>3, <1>4, <2>1
  <2> QED
    BY <1>2, <2>1, <2>2
<1> QED
  BY <1>3, <1>4

LEMMA GroupType ==
  ASSUME NEW arrays \in Seq(ArrayType), NEW name \in DOMAIN ArrayGroup(arrays)
  PROVE  ArrayGroup(arrays)[name] \in FileType
<1> DEFINE IsLast(k) == /\ arrays[k].name \o <<".parquet">> = name
                      /\ \A j \in k + 1..Len(arrays) : arrays[j].name # arrays[k].name
           last == CHOOSE k \in 1..Len(arrays) : IsLast(k)
<1>1. PICK i \in 1..Len(arrays) : name = arrays[i].name \o <<".parquet">>
  BY DEF ArrayGroup
<1>2. \E k \in 1..Len(arrays) : IsLast(k)
  <2>1. Len(arrays) \in Nat
    OBVIOUS
  <2>2. PICK l \in 1..Len(arrays) :
          /\ arrays[l].name = arrays[i].name
          /\ \A j \in l + 1..Len(arrays) : arrays[j].name # arrays[l].name
    BY <2>1, LastOfName
  <2> QED
    BY <1>1, <2>2
<1>3. last \in 1..Len(arrays)
  <2> HIDE DEF IsLast
  <2> QED
    BY <1>2
<1>4. ArrayGroup(arrays)[name] = File("array", arrays[last].id, arrays[last].size)
  BY DEF ArrayGroup
<1> HIDE DEF last
<1>5. arrays[last] \in ArrayType
  BY <1>3
<1> QED
  BY <1>4, <1>5 DEF ArrayType, FileType, File

LEMMA AttrsType ==
  ASSUME NEW v \in VtkFiles, NEW name \in DOMAIN RootAttrs(v)
  PROVE  RootAttrs(v)[name] \in FileType
<1> DEFINE size == IF name \in DOMAIN v.mesh THEN v.mesh[name] ELSE v.root[name]
           id == <<"METADATA">> \o name
<1>1. name \in DOMAIN v.root \cup DOMAIN v.mesh
  BY DEF RootAttrs
<1>2. name \in Seq(Tokens) /\ size \in Nat
  BY <1>1, VtkFilesAssumption
<1>3. id \in Seq(Tokens)
  BY <1>2, TokensAssumption
<1>4. RootAttrs(v)[name] = File("value", id, size)
  BY DEF RootAttrs
<1> HIDE DEF size, id
<1> QED
  BY <1>2, <1>3, <1>4 DEF File, FileType

LEMMA SectionsAre ==
  ASSUME NEW v, NEW s \in Sections(v.ext)
  PROVE  s # "METADATA"
BY DEF Sections

\* What the tree has on its first level.
LEMMA TopIs ==
  ASSUME NEW v
  PROVE  LET root == ParseVtkFile(v) IN
         /\ root.is_root
         /\ DOMAIN root.entries = {<<s>> : s \in Sections(v.ext) \cup {"METADATA"}}
         /\ \A s \in Sections(v.ext) :
              root.entries[<<s>>] = Dir(FALSE, ArrayGroup(v.arrays[s]))
         /\ root.entries[<<"METADATA">>] = Dir(FALSE, RootAttrs(v))
<1> DEFINE root == ParseVtkFile(v)
           top == {<<s>> : s \in Sections(v.ext) \cup {"METADATA"}}
           sub(x) == IF x = <<"METADATA">> THEN RootAttrs(v) ELSE ArrayGroup(v.arrays[x[1]])
<1>1. root.is_root = TRUE /\ root.entries = [x \in top |-> Dir(FALSE, sub(x))]
  BY DEF ParseVtkFile, Dir
<1>2. ASSUME NEW s \in Sections(v.ext) PROVE <<s>> \in top /\ sub(<<s>>) = ArrayGroup(v.arrays[s])
  <2>1. <<s>> # <<"METADATA">> /\ <<s>>[1] = s
    BY SectionsAre
  <2> QED
    BY <2>1
<1>3. <<"METADATA">> \in top /\ sub(<<"METADATA">>) = RootAttrs(v)
  OBVIOUS
<1> HIDE DEF sub, root
<1> QED
  BY <1>1, <1>2, <1>3 DEF root

LEMMA TreeIs ==
  ASSUME NEW v \in VtkFiles
  PROVE  Tree(ParseVtkFile(v))
<1> DEFINE root == ParseVtkFile(v)
<1>1. /\ root.is_root
      /\ DOMAIN root.entries = {<<s>> : s \in Sections(v.ext) \cup {"METADATA"}}
      /\ \A s \in Sections(v.ext) : root.entries[<<s>>] = Dir(FALSE, ArrayGroup(v.arrays[s]))
      /\ root.entries[<<"METADATA">>] = Dir(FALSE, RootAttrs(v))
  BY TopIs
<1> HIDE DEF root
<1>2. ASSUME NEW x \in DOMAIN root.entries
      PROVE  /\ ~root.entries[x].is_root
             /\ \A y \in DOMAIN root.entries[x].entries : root.entries[x].entries[y] \in FileType
  <2>1. PICK s \in Sections(v.ext) \cup {"METADATA"} : x = <<s>>
    BY <1>1
  <2>2. CASE s = "METADATA"
    <3>1. root.entries[x] = Dir(FALSE, RootAttrs(v))
      BY <1>1, <2>1, <2>2
    <3> QED
      BY <3>1, AttrsType DEF Dir
  <2>3. CASE s \in Sections(v.ext)
    <3>1. root.entries[x] = Dir(FALSE, ArrayGroup(v.arrays[s])) /\ v.arrays[s] \in Seq(ArrayType)
      BY <1>1, <2>1, <2>3, VtkFilesAssumption
    <3> QED
      BY <3>1, GroupType DEF Dir
  <2> QED
    BY <2>1, <2>2, <2>3
<1> QED
  BY <1>1, <1>2 DEF Tree, root

-----------------------------------------------------------------------------
(* The types of the state. *)

\* What ResolvePath returns: a directory of the tree to look in, or an error.
Found(root, r) ==
  /\ r.err \in {"OK", "EINVAL", "ENOTDIR", "ENOENT"}
  /\ r.err = "OK" => r.parent = root \/ \E x \in DOMAIN root.entries : r.parent = root.entries[x]

LEMMA DescendFinds ==
  ASSUME NEW root, Tree(root), NEW r, Found(root, r), NEW next
  PROVE  Found(root, Descend(r, next))
<1>1. CASE r.err # "OK"
  BY <1>1 DEF Descend
<1>2. CASE r.err = "OK" /\ Lookup(r.parent, r.name) = "DIR"
  <2>1. r.name \in DOMAIN r.parent.entries /\ r.parent.is_root
    BY <1>2 DEF Lookup
  <2>2. r.parent = root
    BY <1>2, <2>1 DEF Found, Tree
  <2>3. Descend(r, next) = Resolved("OK", root.entries[r.name], next)
    BY <1>2, <2>2 DEF Descend
  <2> QED
    BY <2>1, <2>2, <2>3 DEF Found, Resolved
<1>3. CASE r.err = "OK" /\ Lookup(r.parent, r.name) # "DIR"
  <2>1. \/ Descend(r, next) = Resolved("ENOTDIR", r.parent, r.name)
        \/ Descend(r, next) = Resolved("ENOENT", r.parent, r.name)
    BY <1>3 DEF Descend, Lookup
  <2> QED
    BY <2>1 DEF Found, Resolved
<1> QED
  BY <1>1, <1>2, <1>3

LEMMA WalkFinds ==
  ASSUME NEW root, Tree(root), NEW comps, Len(comps) \in Nat
  PROVE  \A k \in 1..Len(comps) : Found(root, Walk(root, comps)[k])
<1> DEFINE n == Len(comps)
           w == Walk(root, comps)
           T == {k \in Nat : k + 1 \in 1..n => Found(root, w[k + 1])}
<1> HIDE DEF w
<1>1. \A k \in 1..n : w[k] = IF k = 1 THEN Resolved("OK", root, comps[1])
                             ELSE Descend(w[k - 1], comps[k])
  BY WalkSteps DEF w
<1>2. 0 \in T
  <2> SUFFICES ASSUME 0 + 1 \in 1..n PROVE Found(root, w[0 + 1])
    OBVIOUS
  <2>1. w[1] = Resolved("OK", root, comps[1])
    BY <1>1
  <2> QED
    BY <2>1 DEF Found, Resolved
<1>3. ASSUME NEW k \in Nat, k \in T PROVE k + 1 \in T
  <2> SUFFICES ASSUME (k + 1) + 1 \in 1..n PROVE Found(root, w[(k + 1) + 1])
    OBVIOUS
  <2>1. k + 1 \in 1..n /\ (k + 1) + 1 # 1 /\ ((k + 1) + 1) - 1 = k + 1
    OBVIOUS
  <2>2. Found(root, w[k + 1])
    BY <1>3, <2>1
  <2>3. w[(k + 1) + 1] = Descend(w[k + 1], comps[(k + 1) + 1])
    BY <1>1, <2>1
  <2> QED
    BY <2>2, <2>3, DescendFinds
<1>4. Nat \subseteq T
  <2> HIDE DEF T
  <2> QED
    BY <1>2, <1>3, SetInduction
<1>5. ASSUME NEW k \in 1..n PROVE Found(root, w[k])
  <2>1. k - 1 \in Nat /\ (k - 1) + 1 = k
    OBVIOUS
  <2>2. k - 1 \in T
    BY <1>4, <2>1
  <2> QED
    BY <2>1, <2>2
<1> QED
  BY <1>5 DEF w

LEMMA ResolveFinds ==
  ASSUME NEW root, Tree(root), NEW q \in Paths
  PROVE  Found(root, ResolvePath(root, Path(q)))
<1> DEFINE path == Path(q)
           comps == Components(path)
<1>1. Len(comps) \in Nat /\ (comps # <<>> => Len(comps) \in 1..Len(comps))
  <2> DEFINE n == Cardinality(Starts(path))
  <2>1. Len(path) \in Nat
    BY PathType
  <2> HIDE DEF path
  <2>2. Starts(path) \subseteq 1..Len(path) /\ IsFiniteSet(1..Len(path))
    BY <2>1, FS_Interval DEF Starts
  <2>3. n \in Nat
    BY <2>2, FS_Subset, FS_CardinalityType
  <2> HIDE DEF n
  <2>4. PICK f : comps = [c \in 1..n |-> f[c]]
    <3> DEFINE start(c) == CHOOSE k \in Starts(path) : Cardinality({j \in Starts(path) : j <= k}) = c
               g(c) == SubSeq(path, start(c), EndFrom(path, start(c)))
               f == [c \in 1..n |-> g(c)]
    <3>1. comps = f
      BY DEF Components, n
    <3> HIDE DEF g, comps
    <3>2. f = [c \in 1..n |-> f[c]]
      OBVIOUS
    <3> HIDE DEF f
    <3> QED
      BY <3>1, <3>2
  <2> HIDE DEF comps
  <2>5. Len(comps) = n
    BY <2>3, <2>4
  <2>6. n = 0 => comps = <<>>
    BY <2>4
  <2> QED
    BY <2>3, <2>5, <2>6
<1> HIDE DEF path, comps
<1>2. CASE path = <<>> \/ Head(path) # "/"
  <2>1. ResolvePath(root, path) = Resolved("EINVAL", root, <<>>)
    BY <1>2 DEF ResolvePath
  <2> QED
    BY <2>1 DEF Found, Resolved, path
<1>3. CASE ~(path = <<>> \/ Head(path) # "/") /\ comps = <<>>
  <2>1. ResolvePath(root, path) = Resolved("OK", root, <<>>)
    BY <1>3 DEF ResolvePath, comps
  <2> QED
    BY <2>1 DEF Found, Resolved, path
<1>4. CASE ~(path = <<>> \/ Head(path) # "/") /\ comps # <<>>
  <2>1. ResolvePath(root, path) = Walk(root, comps)[Len(comps)]
    BY <1>4 DEF ResolvePath, comps
  <2> QED
    BY <1>1, <1>4, <2>1, WalkFinds DEF path
<1> QED
  BY <1>2, <1>3, <1>4

\* A request names a path, or a handle.
LEMMA RequestIs ==
  ASSUME NEW r \in Requests
  PROVE  /\ r.op \in {"getattr", "readdir", "open"} => r.path \in Paths
         /\ r.op \in {"read", "flush", "release"} => r.fh \in Handles /\ "fh" \in DOMAIN r
         /\ r.op = "read" => r.offset \in Nat /\ r.size \in Nat
BY RequestsAssumption DEF Requests

\* The tree that is served is the file's; the handle of a pending read is open.
IInv ==
  /\ TypeOK
  /\ handles \in [Handles -> FileType \cup {NoFile}]
  /\ phase = "serving" => Parses(vtk) /\ tree = ParseVtkFile(vtk)
  /\ reply = NoReply /\ req.op = "read" => handles[req.fh] \in FileType

\* What the handlers use of it.
LEMMA Serves ==
  ASSUME IInv, phase = "serving"
  PROVE  /\ vtk \in VtkFiles /\ Parses(vtk) /\ tree = ParseVtkFile(vtk) /\ Tree(tree)
         /\ req \in Requests /\ tree # NoTree
BY TreeIs DEF IInv, TypeOK

LEMMA Types ==
  ASSUME IInv, [Next]_vars
  PROVE  IInv'
<1> USE DEF IInv, TypeOK
<1>1. CASE InitTree
  <2>1. tree' # NoTree
    BY <1>1, VtkFilesAssumption DEF InitTree
  <2> QED
    BY <1>1, <2>1 DEF InitTree
<1>2. CASE InitTreeFails
  BY <1>2 DEF InitTreeFails
<1>3. CASE Destroy
  BY <1>3 DEF Destroy
<1>4. CASE Ask
  <2>1. req'.op = "read" => req'.fh \in Handles /\ "fh" \in DOMAIN req'
    BY <1>4, RequestIs DEF Ask
  <2>2. /\ reply' = NoReply /\ req' \in Requests
        /\ vtk' = vtk /\ phase' = phase /\ tree' = tree /\ handles' = handles
        /\ "fh" \in DOMAIN req' => handles[req'.fh] # NoFile
    BY <1>4 DEF Ask
  <2>3. req'.op = "read" => handles'[req'.fh] \in FileType
    <3> SUFFICES ASSUME req'.op = "read" PROVE handles[req'.fh] \in FileType
      BY <2>2
    <3>1. handles[req'.fh] # NoFile /\ req'.fh \in Handles
      BY <2>1, <2>2
    <3> QED
      BY <3>1
  <2>4. TypeOK'
    BY <2>2
  <2> QED
    BY <2>2, <2>3, <2>4
<1>5. CASE Getattr
  <2>1. req.path \in Paths /\ Tree(tree)
    BY <1>5, RequestIs, Serves DEF Getattr, Asked
  <2>2. Found(tree, Resolve)
    BY <2>1, ResolveFinds DEF Resolve
  <2>3. GetattrReply(Resolve).err \in {"OK", "EINVAL", "ENOTDIR", "ENOENT"}
    BY <2>2 DEF Found, GetattrReply, Lookup, Fail
  <2> QED
    BY <1>5, <2>3 DEF Getattr, Asked
<1>6. CASE Readdir
  <2>1. req.path \in Paths /\ Tree(tree)
    BY <1>6, RequestIs, Serves DEF Readdir, Asked
  <2>2. Found(tree, Resolve)
    BY <2>1, ResolveFinds DEF Resolve
  <2>3. ReaddirReply(Resolve).err \in {"OK", "EINVAL", "ENOTDIR", "ENOENT"}
    BY <2>2 DEF Found, ReaddirReply, Lookup, Fail
  <2> QED
    BY <1>6, <2>3 DEF Readdir, Asked
<1>7. CASE OpenRefused
  <2>1. req.path \in Paths /\ Tree(tree)
    BY <1>7, RequestIs, Serves DEF OpenRefused, Asked
  <2>2. Found(tree, Resolve)
    BY <2>1, ResolveFinds DEF Resolve
  <2>3. OpenErrno(Resolve) \in {"OK", "EINVAL", "ENOTDIR", "ENOENT", "EISDIR"}
    BY <2>2 DEF Found, OpenErrno, Lookup
  <2>4. reply'.err \in {"OK", "EINVAL", "ENOTDIR", "ENOENT", "EISDIR", "EPERM"}
    BY <1>7, <2>3 DEF OpenRefused, Fail
  <2> QED
    BY <1>7, <2>4 DEF OpenRefused, Asked
<1>8. ASSUME NEW h \in Handles, Open(h) PROVE IInv'
  <2> DEFINE r == Resolve
             f == r.parent.entries[r.name]
  <2>1. req.path \in Paths /\ Tree(tree)
    BY <1>8, RequestIs, Serves DEF Open, Asked
  <2>2. Found(tree, r)
    BY <2>1, ResolveFinds DEF Resolve
  <2> HIDE DEF r
  <2>3. OpenErrno(r) = "OK"
    BY <1>8 DEF Open, r
  <2>4. r.err = "OK" /\ Lookup(r.parent, r.name) = "FILE"
    BY <2>2, <2>3 DEF Found, OpenErrno, Lookup
  <2>5. r.name \in DOMAIN r.parent.entries /\ ~r.parent.is_root
    BY <2>4 DEF Lookup
  <2>6. f \in FileType
    BY <2>1, <2>2, <2>4, <2>5 DEF Found, Tree
  <2>7. handles' = [handles EXCEPT ![h] = f] /\ reply'.err = "OK"
    BY <1>8 DEF Open, r
  <2> HIDE DEF f
  <2>8. handles' \in [Handles -> FileType \cup {NoFile}]
    BY <2>6, <2>7
  <2>9. req'.op # "read"
    BY <1>8 DEF Open, Asked
  <2> QED
    BY <1>8, <2>7, <2>8, <2>9 DEF Open, Asked
<1>9. CASE Read
  BY <1>9 DEF Read, Asked
<1>10. CASE ReadFails
  BY <1>10 DEF ReadFails, Asked, Fail
<1>11. CASE Flush
  BY <1>11 DEF Flush, Asked, Done
<1>12. CASE Release
  <2>1. handles' \in [Handles -> FileType \cup {NoFile}]
    BY <1>12 DEF Release
  <2>2. req'.op # "read"
    BY <1>12 DEF Release, Asked
  <2> QED
    BY <1>12, <2>1, <2>2 DEF Release, Asked, Done
<1>13. CASE UNCHANGED vars
  BY <1>13 DEF vars
<1> QED
  BY <1>1, <1>2, <1>3, <1>4, <1>5, <1>6, <1>7, <1>8, <1>9, <1>10, <1>11, <1>12, <1>13 DEF Next

LEMMA InitTypes == Init => IInv
<1> SUFFICES ASSUME Init PROVE IInv
  OBVIOUS
<1>1. \E q \in Requests : q.op = "getattr"
  <2>1. PICK p \in Paths : TRUE
    BY RequestsAssumption
  <2> DEFINE q == [op |-> "getattr", path |-> p]
  <2>2. q \in Requests /\ q.op = "getattr"
    BY DEF Requests
  <2> QED
    BY <2>2
<1>2. req \in Requests /\ req.op = "getattr"
  BY <1>1 DEF Init
<1> QED
  BY <1>2 DEF Init, IInv, TypeOK, Done

LEMMA Invariance == Spec => []IInv
<1>1. IInv /\ [Next]_vars => IInv'
  BY Types
<1> QED
  BY <1>1, InitTypes, PTL DEF Spec

\* There is a tree exactly while the server serves, handles are open on files
\* of it, and every reply is one of the handlers'.
THEOREM TypeCorrect == Spec => []TypeOK
<1>1. IInv => TypeOK
  BY DEF IInv
<1> QED
  BY <1>1, Invariance, PTL

-----------------------------------------------------------------------------
(* What a path names. *)

LEMMA ResolveIs ==
  ASSUME NEW root, NEW q \in Paths, Spelled(q)
  PROVE  ResolvePath(root, Path(q)) =
           IF q.lead = 0 THEN Resolved("EINVAL", root, <<>>)
           ELSE IF q.comps = <<>> THEN Resolved("OK", root, <<>>)
           ELSE Walk(root, q.comps)[Len(q.comps)]
<1>1. CASE q.lead = 0
  BY <1>1, PathRelative DEF ResolvePath
<1>2. CASE q.lead # 0
  <2>1. q.lead > 0
    BY <1>2, RequestsAssumption
  <2>2. Components(Path(q)) = q.comps /\ Path(q) # <<>> /\ Head(Path(q)) = "/"
    BY <2>1, PathComponents
  <2> QED
    BY <1>2, <2>2 DEF ResolvePath
<1> QED
  BY <1>1, <1>2

\* An error stays.
LEMMA WalkStops ==
  ASSUME NEW root, NEW comps, Len(comps) \in Nat, NEW k \in 1..Len(comps),
         Walk(root, comps)[k].err # "OK"
  PROVE  Walk(root, comps)[Len(comps)] = Walk(root, comps)[k]
<1> DEFINE n == Len(comps)
           w == Walk(root, comps)
           T == {i \in Nat : k + i \in 1..n => w[k + i] = w[k]}
<1> HIDE DEF w
<1>1. ASSUME NEW j \in 1..n, j + 1 \in 1..n, w[j] = w[k] PROVE w[j + 1] = w[k]
  <2>1. w[j + 1] = IF j + 1 = 1 THEN Resolved("OK", root, comps[1])
                   ELSE Descend(w[(j + 1) - 1], comps[j + 1])
    BY <1>1, WalkSteps DEF w
  <2>2. j + 1 # 1 /\ (j + 1) - 1 = j
    OBVIOUS
  <2>3. w[k].err # "OK"
    BY DEF w
  <2> QED
    BY <1>1, <2>1, <2>2, <2>3 DEF Descend
<1>2. 0 \in T
  OBVIOUS
<1>3. ASSUME NEW i \in Nat, i \in T PROVE i + 1 \in T
  <2> SUFFICES ASSUME k + (i + 1) \in 1..n PROVE w[k + (i + 1)] = w[k]
    OBVIOUS
  <2>1. k + i \in 1..n /\ k + (i + 1) = (k + i) + 1
    OBVIOUS
  <2>2. w[k + i] = w[k]
    BY <1>3, <2>1
  <2> QED
    BY <1>1, <2>1, <2>2
<1>4. Nat \subseteq T
  <2> HIDE DEF T
  <2> QED
    BY <1>2, <1>3, SetInduction
<1>5. n - k \in Nat /\ k + (n - k) = n /\ n \in 1..n
  OBVIOUS
<1>6. w[n] = w[k]
  BY <1>4, <1>5
<1> QED
  BY <1>6 DEF w

\* The ways the loop can go in a tree of two levels.
LEMMA WalkIs ==
  ASSUME NEW root, Tree(root), NEW comps, Len(comps) \in Nat \ {0}
  PROVE  LET r   == Walk(root, comps)[Len(comps)]
             dir == root.entries[comps[1]]
         IN  /\ Len(comps) = 1 => r = Resolved("OK", root, comps[1])
             /\ Len(comps) > 1 /\ comps[1] \notin DOMAIN root.entries => r.err = "ENOENT"
             /\ Len(comps) = 2 /\ comps[1] \in DOMAIN root.entries =>
                  r = Resolved("OK", dir, comps[2])
             /\ Len(comps) > 2 /\ comps[1] \in DOMAIN root.entries =>
                  r.err = IF comps[2] \in DOMAIN dir.entries THEN "ENOTDIR" ELSE "ENOENT"
<1> DEFINE n == Len(comps)
           w == Walk(root, comps)
           dir == root.entries[comps[1]]
<1> HIDE DEF w
<1>1. w[1] = Resolved("OK", root, comps[1])
  <2>1. 1 \in 1..n
    OBVIOUS
  <2> QED
    BY <2>1, WalkSteps DEF w
<1>2. n > 1 => w[2] = Descend(w[1], comps[2])
  <2> SUFFICES ASSUME n > 1 PROVE w[2] = Descend(w[1], comps[2])
    OBVIOUS
  <2>1. 2 \in 1..n /\ 2 # 1 /\ 2 - 1 = 1
    OBVIOUS
  <2>2. w[2] = IF 2 = 1 THEN Resolved("OK", root, comps[1]) ELSE Descend(w[2 - 1], comps[2])
    BY <2>1, WalkSteps DEF w
  <2> QED
    BY <2>1, <2>2
<1>3. n > 2 => w[3] = Descend(w[2], comps[3])
  <2> SUFFICES ASSUME n > 2 PROVE w[3] = Descend(w[2], comps[3])
    OBVIOUS
  <2>1. 3 \in 1..n /\ 3 # 1 /\ 3 - 1 = 2
    OBVIOUS
  <2>2. w[3] = IF 3 = 1 THEN Resolved("OK", root, comps[1]) ELSE Descend(w[3 - 1], comps[3])
    BY <2>1, WalkSteps DEF w
  <2> QED
    BY <2>1, <2>2
<1>4. \A k \in 1..n : w[k].err # "OK" => w[n] = w[k]
  BY WalkStops DEF w
<1>5. ASSUME n > 1, comps[1] \notin DOMAIN root.entries PROVE w[n].err = "ENOENT"
  <2>1. w[2].err = "ENOENT"
    BY <1>1, <1>2, <1>5 DEF Descend, Resolved, Lookup
  <2>2. 2 \in 1..n
    BY <1>5
  <2> QED
    BY <1>4, <2>1, <2>2
<1>6. ASSUME n > 1, comps[1] \in DOMAIN root.entries PROVE w[2] = Resolved("OK", dir, comps[2])
  BY <1>1, <1>2, <1>6 DEF Descend, Resolved, Lookup, Tree
<1>7. ASSUME n > 2, comps[1] \in DOMAIN root.entries
      PROVE  w[n].err = IF comps[2] \in DOMAIN dir.entries THEN "ENOTDIR" ELSE "ENOENT"
  <2>1. w[2] = Resolved("OK", dir, comps[2])
    BY <1>6, <1>7
  <2>2. ~dir.is_root
    BY <1>7 DEF Tree
  <2> HIDE DEF dir
  <2>3. w[3].err = IF comps[2] \in DOMAIN dir.entries THEN "ENOTDIR" ELSE "ENOENT"
    BY <1>3, <1>7, <2>1, <2>2 DEF Descend, Resolved, Lookup
  <2>4. 3 \in 1..n
    BY <1>7
  <2> QED
    BY <1>4, <2>3, <2>4
<1> HIDE DEF dir
<1>8. /\ n = 1 => w[n] = Resolved("OK", root, comps[1])
      /\ n = 2 /\ comps[1] \in DOMAIN root.entries => w[n] = Resolved("OK", dir, comps[2])
  <2>1. n = 1 => w[n] = Resolved("OK", root, comps[1])
    BY <1>1
  <2>2. ASSUME n = 2, comps[1] \in DOMAIN root.entries PROVE w[2] = Resolved("OK", dir, comps[2])
    <3>1. n > 1
      BY <2>2
    <3> QED
      BY <1>6, <2>2, <3>1
  <2> QED
    BY <2>1, <2>2
<1> QED
  BY <1>5, <1>7, <1>8 DEF w, dir

\* The nodes of a tree of a file.
NodesOf(t, v) ==
  LET readers == {m[1] : m \in BaseMode(v)}
      top == DOMAIN t.entries
      leaves == UNION {{<<s, n>> : n \in DOMAIN t.entries[s].entries} : s \in top}
  IN  [c \in {<<>>} \cup {<<s>> : s \in top} \cup leaves |->
         [file |-> IF c \in leaves THEN t.entries[c[1]].entries[c[2]] ELSE NoFile,
          readers |-> readers]]

LEMMA NodesAre ==
  Nodes = IF tree = NoTree THEN <<>> ELSE NodesOf(tree, vtk)
BY DEF Nodes, NodesOf

LEMMA NodesDomain ==
  ASSUME NEW t, NEW v, NEW c
  PROVE  c \in DOMAIN NodesOf(t, v) <=>
           \/ c = <<>>
           \/ \E s \in DOMAIN t.entries : c = <<s>>
           \/ \E s \in DOMAIN t.entries : \E n \in DOMAIN t.entries[s].entries : c = <<s, n>>
BY DEF NodesOf

LEMMA NodeIs ==
  ASSUME NEW t, NEW v, NEW c \in DOMAIN NodesOf(t, v)
  PROVE  /\ NodesOf(t, v)[c].readers = {m[1] : m \in BaseMode(v)}
         /\ c = <<>> => NodesOf(t, v)[c].file = NoFile
         /\ \A s \in DOMAIN t.entries :
              /\ c = <<s>> => NodesOf(t, v)[c].file = NoFile
              /\ \A n \in DOMAIN t.entries[s].entries :
                   c = <<s, n>> => NodesOf(t, v)[c].file = t.entries[s].entries[n]
<1> DEFINE top == DOMAIN t.entries
           leaves == UNION {{<<s, n>> : n \in DOMAIN t.entries[s].entries} : s \in top}
<1>1. NodesOf(t, v)[c] = [file |-> IF c \in leaves THEN t.entries[c[1]].entries[c[2]] ELSE NoFile,
                          readers |-> {m[1] : m \in BaseMode(v)}]
  BY DEF NodesOf
<1>2. \A x \in leaves : \E s \in top : \E n \in DOMAIN t.entries[s].entries : x = <<s, n>>
  OBVIOUS
<1>3. \A s \in top : \A n \in DOMAIN t.entries[s].entries : <<s, n>> \in leaves
  OBVIOUS
<1> HIDE DEF leaves
<1>4. c = <<>> => c \notin leaves
  BY <1>2
<1>5. \A s \in top : c = <<s>> => c \notin leaves
  BY <1>2
<1> QED
  BY <1>1, <1>3, <1>4, <1>5

LEMMA NameOfFile ==
  ASSUME NEW S, NEW x \in Seq(S), NEW y \in Seq(S), NEW e \in S, x \o <<e>> = y \o <<e>>
  PROVE  x = y
<1>1. Len(x) \in Nat /\ Len(y) \in Nat
  OBVIOUS
<1>2. Len(x \o <<e>>) = Len(x) + 1 /\ Len(y \o <<e>>) = Len(y) + 1
  OBVIOUS
<1>3. Len(x) = Len(y)
  BY ONLY <1>1, <1>2, x \o <<e>> = y \o <<e>>
<1>4. ASSUME NEW k \in 1..Len(x) PROVE x[k] = y[k]
  <2>1. (x \o <<e>>)[k] = x[k]
    OBVIOUS
  <2>2. (y \o <<e>>)[k] = y[k]
    BY <1>3
  <2> QED
    BY <2>1, <2>2
<1>5. x = [k \in 1..Len(x) |-> x[k]] /\ y = [k \in 1..Len(y) |-> y[k]]
  OBVIOUS
<1> QED
  BY <1>3, <1>4, <1>5

\* An array's file is made of it if no other array has its name.
LEMMA GroupIs ==
  ASSUME NEW arrays \in Seq(ArrayType),
         \A i, j \in 1..Len(arrays) : arrays[i].name = arrays[j].name => i = j,
         NEW k \in 1..Len(arrays)
  PROVE  ArrayGroup(arrays)[arrays[k].name \o <<".parquet">>] =
           File("array", arrays[k].id, arrays[k].size)
<1> DEFINE name == arrays[k].name \o <<".parquet">>
           IsLast(i) == /\ arrays[i].name \o <<".parquet">> = name
                      /\ \A j \in i + 1..Len(arrays) : arrays[j].name # arrays[i].name
           last == CHOOSE i \in 1..Len(arrays) : IsLast(i)
<1>1. ArrayGroup(arrays)[name] = File("array", arrays[last].id, arrays[last].size)
  BY DEF ArrayGroup
<1>2. IsLast(k)
  BY Len(arrays) \in Nat
<1>3. ASSUME NEW i \in 1..Len(arrays), IsLast(i) PROVE i = k
  <2>1. \A j \in 1..Len(arrays) : arrays[j].name \in Seq(Tokens)
    <3>1. \A j \in 1..Len(arrays) : arrays[j] \in ArrayType
      OBVIOUS
    <3> QED
      BY ONLY <3>1 DEF ArrayType
  <2>2. ".parquet" \in Tokens
    BY TokensAssumption
  <2>3. arrays[i].name = arrays[k].name
    BY <1>3, <2>1, <2>2, NameOfFile
  <2> QED
    BY <2>3
<1> HIDE DEF IsLast, name
<1>4. last = k
  BY <1>2, <1>3
<1> HIDE DEF last
<1> QED
  BY <1>1, <1>4 DEF name

\* The tree that is built is the one that is promised.
LEMMA NodesPromised ==
  ASSUME NEW v \in VtkFiles, NamesDiffer(v)
  PROVE  NodesOf(ParseVtkFile(v), v) = Promised(v)
<1> DEFINE t == ParseVtkFile(v)
           N == NodesOf(t, v)
           secs == Sections(v.ext)
           arrays == UNION {{<<s, v.arrays[s][k]>> : k \in 1..Len(v.arrays[s])} : s \in secs}
           attrs == DOMAIN v.root \cup DOMAIN v.mesh
           ofArray(x) == [at |-> << <<x[1]>>, x[2].name \o <<".parquet">> >>,
                          file |-> File("array", x[2].id, x[2].size)]
           ofAttr(k) == [at |-> << <<"METADATA">>, k>>, file |-> RootAttrs(v)[k]]
           ofDir(at) == [at |-> at, file |-> NoFile]
           files == {ofArray(x) : x \in arrays} \cup {ofAttr(k) : k \in attrs}
           ats == {<<>>} \cup {<< <<s>> >> : s \in secs \cup {"METADATA"}}
           dirs == {ofDir(at) : at \in ats}
           all == files \cup dirs
           readers == {m[1] : m \in BaseMode(v)}
<1>1. Promised(v) = [c \in {f.at : f \in all} |->
                       [file |-> (CHOOSE f \in all : f.at = c).file, readers |-> readers]]
  BY DEF Promised
<1>2. /\ DOMAIN t.entries = {<<s>> : s \in secs \cup {"METADATA"}}
      /\ \A s \in secs : t.entries[<<s>>].entries = ArrayGroup(v.arrays[s])
      /\ t.entries[<<"METADATA">>].entries = RootAttrs(v)
  <2>1. /\ DOMAIN t.entries = {<<s>> : s \in secs \cup {"METADATA"}}
        /\ \A s \in secs : t.entries[<<s>>] = Dir(FALSE, ArrayGroup(v.arrays[s]))
        /\ t.entries[<<"METADATA">>] = Dir(FALSE, RootAttrs(v))
    BY TopIs
  <2>2. \A x, y : Dir(x, y).entries = y
    BY DEF Dir
  <2> HIDE DEF t, secs
  <2> QED
    BY ONLY <2>1, <2>2
<1>3. DOMAIN RootAttrs(v) = attrs
  BY DEF RootAttrs
<1>4. \A s \in secs : DOMAIN ArrayGroup(v.arrays[s]) =
                        {v.arrays[s][k].name \o <<".parquet">> : k \in 1..Len(v.arrays[s])}
  BY DEF ArrayGroup
<1>5. ASSUME NEW s \in secs, NEW k \in 1..Len(v.arrays[s])
      PROVE  ArrayGroup(v.arrays[s])[v.arrays[s][k].name \o <<".parquet">>] =
               File("array", v.arrays[s][k].id, v.arrays[s][k].size)
  <2> DEFINE a == v.arrays[s]
  <2>1. a \in Seq(ArrayType)
    BY VtkFilesAssumption
  <2>2. \A i, j \in 1..Len(a) : a[i].name = a[j].name => i = j
    BY DEF NamesDiffer
  <2>3. k \in 1..Len(a)
    OBVIOUS
  <2> HIDE DEF a
  <2>4. ArrayGroup(a)[a[k].name \o <<".parquet">>] = File("array", a[k].id, a[k].size)
    BY <2>1, <2>2, <2>3, GroupIs
  <2> QED
    BY <2>4 DEF a
<1> HIDE DEF t
<1>6. \A c : c \in DOMAIN N <=>
               \/ c = <<>>
               \/ \E s \in DOMAIN t.entries : c = <<s>>
               \/ \E s \in DOMAIN t.entries : \E n \in DOMAIN t.entries[s].entries : c = <<s, n>>
  BY NodesDomain
<1>7. \A c \in DOMAIN N :
        /\ c = <<>> => N[c].file = NoFile
        /\ \A s \in DOMAIN t.entries :
             /\ c = <<s>> => N[c].file = NoFile
             /\ \A n \in DOMAIN t.entries[s].entries : c = <<s, n>> => N[c].file = t.entries[s].entries[n]
  BY NodeIs
<1>8. \A c \in DOMAIN N : N[c] = [file |-> N[c].file, readers |-> readers]
  BY DEF NodesOf
<1>9. N = [c \in DOMAIN N |-> N[c]]
  BY DEF NodesOf
<1> HIDE DEF N
<1>10. ASSUME NEW s \in secs, NEW k \in 1..Len(v.arrays[s])
       PROVE  LET f == ofArray(<<s, v.arrays[s][k]>>)
              IN  f.at \in DOMAIN N /\ N[f.at].file = f.file
  <2> DEFINE a == v.arrays[s][k]
             name == a.name \o <<".parquet">>
             c == << <<s>>, name>>
  <2>1. <<s>> \in DOMAIN t.entries /\ name \in DOMAIN t.entries[<<s>>].entries
    BY <1>2, <1>4
  <2>2. t.entries[<<s>>].entries[name] = File("array", a.id, a.size)
    BY <1>2, <1>5
  <2>3. ofArray(<<s, a>>).at = c /\ ofArray(<<s, a>>).file = File("array", a.id, a.size)
    OBVIOUS
  <2> HIDE DEF name
  <2>4. c \in DOMAIN N /\ N[c].file = t.entries[<<s>>].entries[name]
    BY <1>6, <1>7, <2>1
  <2> HIDE DEF c, a, ofArray
  <2> QED
    BY <2>2, <2>3, <2>4 DEF a
<1>11. ASSUME NEW k \in attrs PROVE ofAttr(k).at \in DOMAIN N /\ N[ofAttr(k).at].file = ofAttr(k).file
  <2> DEFINE c == << <<"METADATA">>, k>>
  <2>1. <<"METADATA">> \in DOMAIN t.entries /\ k \in DOMAIN t.entries[<<"METADATA">>].entries
    BY <1>2, <1>3
  <2>2. c \in DOMAIN N /\ N[c].file = t.entries[<<"METADATA">>].entries[k]
    BY <1>6, <1>7, <2>1
  <2>3. ofAttr(k).at = c /\ ofAttr(k).file = RootAttrs(v)[k]
    OBVIOUS
  <2> HIDE DEF c, ofAttr
  <2> QED
    BY <1>2, <2>2, <2>3
<1>12. ASSUME NEW at \in ats PROVE ofDir(at).at \in DOMAIN N /\ N[ofDir(at).at].file = ofDir(at).file
  <2>1. at = <<>> \/ \E s \in DOMAIN t.entries : at = <<s>>
    BY <1>2
  <2>2. at \in DOMAIN N /\ N[at].file = NoFile
    BY <1>6, <1>7, <2>1
  <2>3. ofDir(at).at = at /\ ofDir(at).file = NoFile
    OBVIOUS
  <2> HIDE DEF ofDir
  <2> QED
    BY <2>2, <2>3
<1> HIDE DEF ofArray, ofAttr, ofDir
<1>13. ASSUME NEW f \in all PROVE f.at \in DOMAIN N /\ N[f.at].file = f.file
  <2>1. CASE \E x \in arrays : f = ofArray(x)
    BY <1>10, <2>1
  <2>2. CASE \E k \in attrs : f = ofAttr(k)
    BY <1>11, <2>2
  <2>3. CASE \E at \in ats : f = ofDir(at)
    BY <1>12, <2>3
  <2> QED
    BY <2>1, <2>2, <2>3
<1>14. ASSUME NEW c \in DOMAIN N PROVE \E f \in all : f.at = c
  <2>1. CASE c = <<>> \/ \E s \in DOMAIN t.entries : c = <<s>>
    <3>1. c \in ats
      BY <1>2, <2>1
    <3>2. ofDir(c) \in all /\ ofDir(c).at = c
      BY <3>1 DEF ofDir
    <3> QED
      BY <3>2
  <2>2. ASSUME NEW x \in DOMAIN t.entries, NEW n \in DOMAIN t.entries[x].entries, c = <<x, n>>
        PROVE  \E f \in all : f.at = c
    <3>1. PICK s \in secs \cup {"METADATA"} : x = <<s>>
      BY <1>2
    <3>2. CASE s = "METADATA"
      <4>1. n \in attrs
        BY <1>2, <1>3, <3>1, <3>2
      <4>2. ofAttr(n) \in all /\ ofAttr(n).at = c
        BY <2>2, <3>1, <3>2, <4>1 DEF ofAttr
      <4> QED
        BY <4>2
    <3>3. CASE s \in secs
      <4>1. PICK k \in 1..Len(v.arrays[s]) : n = v.arrays[s][k].name \o <<".parquet">>
        BY <1>2, <1>4, <3>1, <3>3
      <4> DEFINE y == <<s, v.arrays[s][k]>>
      <4>2. y \in arrays
        BY <3>3
      <4>3. ofArray(y).at = c
        BY <2>2, <3>1, <4>1 DEF ofArray
      <4> HIDE DEF y, arrays
      <4>4. ofArray(y) \in all
        BY <4>2
      <4> QED
        BY <4>3, <4>4
    <3> QED
      BY <3>1, <3>2, <3>3
  <2> QED
    BY <1>6, <2>1, <2>2
<1> HIDE DEF all, readers
<1>15. {f.at : f \in all} = DOMAIN N
  BY <1>13, <1>14
<1>16. ASSUME NEW c \in DOMAIN N
       PROVE  N[c] = [file |-> (CHOOSE f \in all : f.at = c).file, readers |-> readers]
  <2> DEFINE f == CHOOSE g \in all : g.at = c
  <2>1. f \in all /\ f.at = c
    BY <1>14
  <2>2. f.file = N[c].file
    <3> HIDE DEF f
    <3> QED
      BY <1>13, <2>1
  <2> QED
    BY <1>8, <2>2
<1> QED
  BY <1>1, <1>9, <1>15, <1>16 DEF N, t

-----------------------------------------------------------------------------
(* The node a path names, and what ResolvePath makes of the path. *)

LEMMA Tuples ==
  ASSUME NEW S, NEW x \in Seq(S)
  PROVE  /\ Len(x) = 0 <=> x = <<>>
         /\ \A a : x = <<a>> <=> Len(x) = 1 /\ a = x[1]
         /\ \A a, b : x = <<a, b>> <=> Len(x) = 2 /\ a = x[1] /\ b = x[2]
<1>1. x = [k \in 1..Len(x) |-> x[k]] /\ Len(x) \in Nat
  OBVIOUS
<1>2. Len(x) = 0 <=> x = <<>>
  OBVIOUS
<1>3. Len(x) = 1 => x = <<x[1]>>
  BY <1>1
<1>4. Len(x) = 2 => x = <<x[1], x[2]>>
  <2> SUFFICES ASSUME Len(x) = 2 PROVE x = <<x[1], x[2]>>
    OBVIOUS
  <2> DEFINE y == <<x[1], x[2]>>
  <2>1. y \in Seq(S) /\ Len(y) = 2 /\ y[1] = x[1] /\ y[2] = x[2]
    OBVIOUS
  <2>2. \A k \in 1..2 : k = 1 \/ k = 2
    OBVIOUS
  <2> HIDE DEF y
  <2>3. y = [k \in 1..2 |-> y[k]]
    BY <2>1
  <2>4. \A k \in 1..2 : y[k] = x[k]
    BY <2>1, <2>2
  <2> QED
    BY <1>1, <2>3, <2>4 DEF y
<1>5. \A a : Len(<<a>>) = 1 /\ <<a>>[1] = a
  OBVIOUS
<1>6. \A a, b : Len(<<a, b>>) = 2 /\ <<a, b>>[1] = a /\ <<a, b>>[2] = b
  OBVIOUS
<1> QED
  BY ONLY <1>2, <1>3, <1>4, <1>5, <1>6

LEMMA NodeNames ==
  ASSUME NEW S, NEW c \in Seq(S), NEW t, NEW v
  PROVE  /\ c \in DOMAIN NodesOf(t, v) <=>
              \/ Len(c) = 0
              \/ Len(c) = 1 /\ c[1] \in DOMAIN t.entries
              \/ Len(c) = 2 /\ c[1] \in DOMAIN t.entries /\ c[2] \in DOMAIN t.entries[c[1]].entries
         /\ c \in DOMAIN NodesOf(t, v) /\ Len(c) < 2 => NodesOf(t, v)[c].file = NoFile
         /\ c \in DOMAIN NodesOf(t, v) /\ Len(c) = 2 =>
              NodesOf(t, v)[c].file = t.entries[c[1]].entries[c[2]]
<1> DEFINE N == NodesOf(t, v)
           top == DOMAIN t.entries
<1>1. /\ Len(c) = 0 <=> c = <<>>
      /\ \A a : c = <<a>> <=> Len(c) = 1 /\ a = c[1]
      /\ \A a, b : c = <<a, b>> <=> Len(c) = 2 /\ a = c[1] /\ b = c[2]
  BY Tuples
<1>2. c \in DOMAIN N <=>
        \/ c = <<>>
        \/ \E s \in DOMAIN t.entries : c = <<s>>
        \/ \E s \in DOMAIN t.entries : \E n \in DOMAIN t.entries[s].entries : c = <<s, n>>
  BY NodesDomain
<1>3. c \in DOMAIN N =>
        /\ c = <<>> => N[c].file = NoFile
        /\ \A s \in DOMAIN t.entries :
             /\ c = <<s>> => N[c].file = NoFile
             /\ \A n \in DOMAIN t.entries[s].entries :
                  c = <<s, n>> => N[c].file = t.entries[s].entries[n]
  BY NodeIs
<1> HIDE DEF N
<1>4. c \in DOMAIN N <=>
        \/ Len(c) = 0
        \/ Len(c) = 1 /\ c[1] \in DOMAIN t.entries
        \/ Len(c) = 2 /\ c[1] \in DOMAIN t.entries /\ c[2] \in DOMAIN t.entries[c[1]].entries
  BY ONLY <1>1, <1>2
<1>5. Len(c) \in Nat
  OBVIOUS
<1>6. c \in DOMAIN N /\ Len(c) < 2 => N[c].file = NoFile
  <2> SUFFICES ASSUME c \in DOMAIN N, Len(c) < 2 PROVE N[c].file = NoFile
    OBVIOUS
  <2>1. Len(c) # 2
    <3>1. \A m \in Nat : m < 2 => m # 2
      OBVIOUS
    <3> QED
      BY ONLY <1>5, <3>1, Len(c) < 2
  <2> QED
    BY <1>1, <1>3, <1>4, <2>1
<1>7. c \in DOMAIN N /\ Len(c) = 2 => N[c].file = t.entries[c[1]].entries[c[2]]
  <2> SUFFICES ASSUME c \in DOMAIN N, Len(c) = 2 PROVE N[c].file = t.entries[c[1]].entries[c[2]]
    OBVIOUS
  <2>1. c = <<c[1], c[2]>> /\ c[1] \in DOMAIN t.entries /\ c[2] \in DOMAIN t.entries[c[1]].entries
    BY <1>1, <1>4
  <2> QED
    BY <1>3, <2>1
<1> QED
  BY <1>4, <1>6, <1>7 DEF N

\* A name on the way is a file's.
Through(N, c) ==
  \E k \in 1..Len(c) - 1 : SubSeq(c, 1, k) \in DOMAIN N /\ N[SubSeq(c, 1, k)].file # NoFile

LEMMA ThroughIs ==
  ASSUME NEW S, NEW c \in Seq(S), NEW t, Tree(t), NEW v
  PROVE  Through(NodesOf(t, v), c) <=>
           /\ Len(c) > 2
           /\ c[1] \in DOMAIN t.entries /\ c[2] \in DOMAIN t.entries[c[1]].entries
<1> DEFINE N == NodesOf(t, v)
<1>1. ASSUME NEW k \in 1..Len(c) - 1
      PROVE  /\ SubSeq(c, 1, k) \in Seq(S) /\ Len(SubSeq(c, 1, k)) = k
             /\ SubSeq(c, 1, k)[1] = c[1]
             /\ k > 1 => SubSeq(c, 1, k)[2] = c[2]
  <2>1. Len(c) \in Nat /\ 1 \in 1..Len(c) + 1 /\ k \in 1 - 1..Len(c)
    OBVIOUS
  <2>2. /\ SubSeq(c, 1, k) \in Seq(S)
        /\ Len(SubSeq(c, 1, k)) = k - 1 + 1
        /\ \A i \in 1..k - 1 + 1 : SubSeq(c, 1, k)[i] = c[1 + i - 1]
    BY ONLY <2>1, SubSeqProperties, c \in Seq(S)
  <2>3. k - 1 + 1 = k /\ 1 \in 1..k - 1 + 1 /\ (k > 1 => 2 \in 1..k - 1 + 1) /\ 1 + 1 - 1 = 1
        /\ 1 + 2 - 1 = 2
    OBVIOUS
  <2> QED
    BY <2>2, <2>3
<1>2. ASSUME NEW k \in 1..Len(c) - 1, SubSeq(c, 1, k) \in DOMAIN N, N[SubSeq(c, 1, k)].file # NoFile
      PROVE  /\ Len(c) > 2
             /\ c[1] \in DOMAIN t.entries /\ c[2] \in DOMAIN t.entries[c[1]].entries
  <2> DEFINE x == SubSeq(c, 1, k)
  <2>1. x \in Seq(S) /\ Len(x) = k /\ x[1] = c[1] /\ (k > 1 => x[2] = c[2])
    BY <1>1
  <2>2. x \in DOMAIN N /\ N[x].file # NoFile
    BY <1>2
  <2> HIDE DEF x
  <2>3. /\ x \in DOMAIN N <=>
              \/ Len(x) = 0
              \/ Len(x) = 1 /\ x[1] \in DOMAIN t.entries
              \/ Len(x) = 2 /\ x[1] \in DOMAIN t.entries /\ x[2] \in DOMAIN t.entries[x[1]].entries
        /\ x \in DOMAIN N /\ Len(x) < 2 => N[x].file = NoFile
        /\ x \in DOMAIN N /\ Len(x) = 2 => N[x].file = t.entries[x[1]].entries[x[2]]
    BY ONLY <2>1, NodeNames
  <2>4. Len(x) \in Nat /\ Len(c) \in Nat
    BY <2>1
  <2> HIDE DEF N
  <2>5. Len(x) = 2 /\ x[1] \in DOMAIN t.entries /\ x[2] \in DOMAIN t.entries[x[1]].entries
    BY ONLY <2>2, <2>3, <2>4
  <2>6. k = 2 /\ Len(c) > 2
    BY <2>1, <2>4, <2>5
  <2> QED
    BY <2>1, <2>5, <2>6
<1>3. ASSUME Len(c) > 2, c[1] \in DOMAIN t.entries, c[2] \in DOMAIN t.entries[c[1]].entries
      PROVE  Through(N, c)
  <2> DEFINE x == SubSeq(c, 1, 2)
  <2>1. 2 \in 1..Len(c) - 1
    BY <1>3
  <2>2. x \in Seq(S) /\ Len(x) = 2 /\ x[1] = c[1] /\ x[2] = c[2]
    BY <1>1, <2>1
  <2> HIDE DEF x
  <2>3. x \in DOMAIN N /\ N[x].file = t.entries[c[1]].entries[c[2]]
    BY <1>3, <2>2, NodeNames
  <2>4. t.entries[c[1]].entries[c[2]] \in FileType
    BY <1>3 DEF Tree
  <2> QED
    BY <2>1, <2>3, <2>4, NoFileAssumption DEF Through, x
<1> HIDE DEF N
<1> QED
  BY <1>2, <1>3 DEF Through, N

\* Why a path leads nowhere in the nodes N, as ReadOnlyFs says it.
ProblemOf(N, q) ==
  CASE q.lead = 0 -> "EINVAL"
    [] q.lead > 0 /\ q.comps \in DOMAIN N -> "OK"
    [] q.lead > 0 /\ ~(q.comps \in DOMAIN N) /\ Through(N, q.comps) -> "ENOTDIR"
    [] OTHER -> "ENOENT"

\* What ResolvePath returns is a problem, the root, or a place to look up a name.
Leads(N, t, q, r) ==
  \/ r.err # "OK" /\ ProblemOf(N, q) = r.err
  \/ /\ r = Resolved("OK", t, <<>>)
     /\ ProblemOf(N, q) = "OK" /\ q.comps = <<>> /\ N[q.comps].file = NoFile
  \/ /\ r = Resolved("OK", t, r.name) /\ r.name # <<>> /\ r.name \in DOMAIN t.entries
     /\ ProblemOf(N, q) = "OK" /\ q.comps = <<r.name>> /\ N[q.comps].file = NoFile
  \/ /\ r = Resolved("OK", r.parent, r.name) /\ r.name # <<>> /\ r.name \in DOMAIN r.parent.entries
     /\ ~r.parent.is_root
     /\ ProblemOf(N, q) = "OK" /\ N[q.comps].file = r.parent.entries[r.name]
     /\ r.parent.entries[r.name] \in FileType
  \/ /\ r = Resolved("OK", r.parent, r.name) /\ r.name # <<>> /\ r.name \notin DOMAIN r.parent.entries
     /\ ProblemOf(N, q) = "ENOENT"

LEMMA PathLeads ==
  ASSUME NEW t, Tree(t), NEW v, NEW q \in Paths, Spelled(q)
  PROVE  Leads(NodesOf(t, v), t, q, ResolvePath(t, Path(q)))
<1> DEFINE N == NodesOf(t, v)
           c == q.comps
           n == Len(c)
           r == ResolvePath(t, Path(q))
           top == DOMAIN t.entries
           dir == t.entries[c[1]]
<1>1. c \in Seq(Seq(Tokens)) /\ n \in Nat /\ q.lead \in Nat /\ (n = 0 <=> c = <<>>)
  BY RequestsAssumption
<1>2. \A k \in 1..n : c[k] # <<>>
  BY DEF Spelled
<1>3. r = IF q.lead = 0 THEN Resolved("EINVAL", t, <<>>)
          ELSE IF c = <<>> THEN Resolved("OK", t, <<>>) ELSE Walk(t, c)[n]
  BY ResolveIs
<1>4. /\ c \in DOMAIN N <=>
           \/ n = 0
           \/ n = 1 /\ c[1] \in top
           \/ n = 2 /\ c[1] \in top /\ c[2] \in DOMAIN dir.entries
      /\ c \in DOMAIN N /\ n < 2 => N[c].file = NoFile
      /\ c \in DOMAIN N /\ n = 2 => N[c].file = dir.entries[c[2]]
  BY ONLY <1>1, NodeNames
<1>5. Through(N, c) <=> n > 2 /\ c[1] \in top /\ c[2] \in DOMAIN dir.entries
  BY ONLY <1>1, ThroughIs, Tree(t)
<1>6. n # 0 =>
        /\ n = 1 => Walk(t, c)[n] = Resolved("OK", t, c[1])
        /\ n > 1 /\ c[1] \notin top => Walk(t, c)[n].err = "ENOENT"
        /\ n = 2 /\ c[1] \in top => Walk(t, c)[n] = Resolved("OK", dir, c[2])
        /\ n > 2 /\ c[1] \in top =>
             Walk(t, c)[n].err = IF c[2] \in DOMAIN dir.entries THEN "ENOTDIR" ELSE "ENOENT"
  BY <1>1, WalkIs
<1>7. ProblemOf(N, q) = CASE q.lead = 0 -> "EINVAL"
                          [] q.lead > 0 /\ c \in DOMAIN N -> "OK"
                          [] q.lead > 0 /\ ~(c \in DOMAIN N) /\ Through(N, c) -> "ENOTDIR"
                          [] OTHER -> "ENOENT"
  BY DEF ProblemOf
<1>8. c[1] \in top => /\ ~dir.is_root
                      /\ \A y \in DOMAIN dir.entries : dir.entries[y] \in FileType
  BY DEF Tree
<1> HIDE DEF N, c, n, r, top, dir
<1>9. CASE q.lead = 0
  BY <1>3, <1>7, <1>9 DEF Leads, Resolved, r, N
<1>10. CASE q.lead # 0 /\ n = 0
  <2>1. r = Resolved("OK", t, <<>>) /\ c = <<>> /\ ProblemOf(N, q) = "OK" /\ N[c].file = NoFile
    BY <1>1, <1>3, <1>4, <1>7, <1>10
  <2> QED
    BY <2>1 DEF Leads, r, N, c
<1>11. CASE q.lead # 0 /\ n = 1
  <2>1. r = Resolved("OK", t, c[1]) /\ c[1] # <<>> /\ c = <<c[1]>> /\ r.name = c[1] /\ r.parent = t
    <3>1. c = <<c[1]>>
      BY ONLY <1>1, <1>11, Tuples DEF n
    <3>2. r = Resolved("OK", t, c[1]) /\ c[1] # <<>>
      BY <1>1, <1>2, <1>3, <1>6, <1>11
    <3> QED
      BY <3>1, <3>2 DEF Resolved
  <2>2. CASE c[1] \in top
    <3>1. ProblemOf(N, q) = "OK" /\ N[c].file = NoFile
      BY <1>1, <1>4, <1>7, <1>11, <2>2
    <3> QED
      BY <2>1, <2>2, <3>1 DEF Leads, r, N, c, top
  <2>3. CASE c[1] \notin top
    <3>1. ProblemOf(N, q) = "ENOENT"
      BY <1>1, <1>4, <1>5, <1>7, <1>11, <2>3
    <3> QED
      BY <2>1, <2>3, <3>1 DEF Leads, r, N, c, top
  <2> QED
    BY <2>2, <2>3
<1>12. CASE q.lead # 0 /\ n = 2 /\ c[1] \in top
  <2>1. r = Resolved("OK", dir, c[2]) /\ c[2] # <<>> /\ r.name = c[2] /\ r.parent = dir
    <3>1. r = Resolved("OK", dir, c[2]) /\ c[2] # <<>>
      BY <1>1, <1>2, <1>3, <1>6, <1>12
    <3> QED
      BY <3>1 DEF Resolved
  <2>2. CASE c[2] \in DOMAIN dir.entries
    <3>1. ProblemOf(N, q) = "OK" /\ N[c].file = dir.entries[c[2]] /\ dir.entries[c[2]] \in FileType
          /\ ~dir.is_root
      BY <1>1, <1>4, <1>7, <1>8, <1>12, <2>2
    <3> QED
      BY <2>1, <2>2, <3>1 DEF Leads, r, N, c
  <2>3. CASE c[2] \notin DOMAIN dir.entries
    <3>1. ProblemOf(N, q) = "ENOENT"
      BY <1>1, <1>4, <1>5, <1>7, <1>12, <2>3
    <3> QED
      BY <2>1, <2>3, <3>1 DEF Leads, r, N, c
  <2> QED
    BY <2>2, <2>3
<1>13. CASE q.lead # 0 /\ n > 1 /\ c[1] \notin top
  <2>1. r.err = "ENOENT"
    BY <1>1, <1>3, <1>6, <1>13
  <2>2. ProblemOf(N, q) = "ENOENT"
    BY <1>1, <1>4, <1>5, <1>7, <1>13
  <2> QED
    BY <2>1, <2>2 DEF Leads, r, N
<1>14. CASE q.lead # 0 /\ n > 2 /\ c[1] \in top
  <2>1. r.err = IF c[2] \in DOMAIN dir.entries THEN "ENOTDIR" ELSE "ENOENT"
    BY <1>1, <1>3, <1>6, <1>14
  <2>2. ProblemOf(N, q) = IF c[2] \in DOMAIN dir.entries THEN "ENOTDIR" ELSE "ENOENT"
    BY <1>1, <1>4, <1>5, <1>7, <1>14
  <2> QED
    BY <2>1, <2>2 DEF Leads, r, N
<1>15. /\ n = 0 \/ n = 1 \/ n = 2 \/ n > 2
       /\ n = 2 \/ n > 2 => n > 1
  BY <1>1
<1> HIDE DEF Leads
<1> QED
  BY <1>9, <1>10, <1>11, <1>12, <1>13, <1>14, <1>15

-----------------------------------------------------------------------------
(* The handlers implement ReadOnlyFs. *)

ChildrenOf(N, c) ==
  {e[Len(e)] : e \in {d \in DOMAIN N : Len(d) = Len(c) + 1 /\ SubSeq(d, 1, Len(c)) = c}}

LEMMA PrefixesOf ==
  ASSUME NEW a, NEW b
  PROVE  SubSeq(<<a>>, 1, 0) = <<>> /\ SubSeq(<<a, b>>, 1, 1) = <<a>>
<1> DEFINE S == {a, b}
           x == <<a>>
           y == <<a, b>>
<1>1. /\ x \in Seq(S) /\ Len(x) = 1 /\ x[1] = a
      /\ y \in Seq(S) /\ Len(y) = 2 /\ y[1] = a
  OBVIOUS
<1> HIDE DEF S, x, y
<1>2. SubSeq(x, 1, 0) \in Seq(S) /\ Len(SubSeq(x, 1, 0)) = 0
  <2>1. 1 \in 1..Len(x) + 1 /\ 0 \in 1 - 1..Len(x) /\ 0 - 1 + 1 = 0
    BY <1>1
  <2> QED
    BY ONLY <1>1, <2>1, SubSeqProperties
<1>3. SubSeq(y, 1, 1) \in Seq(S) /\ Len(SubSeq(y, 1, 1)) = 1 /\ SubSeq(y, 1, 1)[1] = y[1]
  <2>1. 1 \in 1..Len(y) + 1 /\ 1 \in 1 - 1..Len(y) /\ 1 - 1 + 1 = 1 /\ 1 \in 1..1 /\ 1 + 1 - 1 = 1
    BY <1>1
  <2>2. /\ SubSeq(y, 1, 1) \in Seq(S) /\ Len(SubSeq(y, 1, 1)) = 1 - 1 + 1
        /\ \A i \in 1..1 - 1 + 1 : SubSeq(y, 1, 1)[i] = y[1 + i - 1]
    BY ONLY <1>1, <2>1, SubSeqProperties
  <2> QED
    BY ONLY <2>1, <2>2
<1>4. SubSeq(x, 1, 0) = <<>>
  BY ONLY <1>2, Tuples
<1>5. SubSeq(y, 1, 1) = <<y[1]>>
  BY ONLY <1>3, Tuples
<1>6. SubSeq(y, 1, 1) = <<a>>
  BY ONLY <1>1, <1>5
<1> QED
  BY ONLY <1>4, <1>6 DEF x, y

LEMMA ChildrenAre ==
  ASSUME NEW t, NEW v
  PROVE  /\ ChildrenOf(NodesOf(t, v), <<>>) = DOMAIN t.entries
         /\ \A s \in DOMAIN t.entries :
              ChildrenOf(NodesOf(t, v), <<s>>) = DOMAIN t.entries[s].entries
<1> DEFINE N == NodesOf(t, v)
           top == DOMAIN t.entries
           E(s) == DOMAIN t.entries[s].entries
           Under(c) == {d \in DOMAIN N : Len(d) = Len(c) + 1 /\ SubSeq(d, 1, Len(c)) = c}
<1>1. \A d : d \in DOMAIN N <=> \/ d = <<>>
                                \/ \E s \in top : d = <<s>>
                                \/ \E s \in top : \E n \in E(s) : d = <<s, n>>
  BY NodesDomain
<1> HIDE DEF N
<1>2. /\ Len(<<>>) = 0
      /\ \A a : Len(<<a>>) = 1 /\ <<a>>[1] = a
      /\ \A a, b : Len(<<a, b>>) = 2 /\ <<a, b>>[2] = b
      /\ \A a : SubSeq(<<a>>, 1, 0) = <<>>
      /\ \A a, b : SubSeq(<<a, b>>, 1, 1) = <<a>>
  <2>1. \A a, b : SubSeq(<<a>>, 1, 0) = <<>> /\ SubSeq(<<a, b>>, 1, 1) = <<a>>
    BY ONLY PrefixesOf
  <2>2. /\ Len(<<>>) = 0
        /\ \A a : Len(<<a>>) = 1 /\ <<a>>[1] = a
        /\ \A a, b : Len(<<a, b>>) = 2 /\ <<a, b>>[2] = b
    OBVIOUS
  <2> QED
    BY ONLY <2>1, <2>2
<1>3. Under(<<>>) = {<<s>> : s \in top}
  BY <1>1, <1>2
<1>4. ASSUME NEW s \in top PROVE Under(<<s>>) = {<<s, n>> : n \in E(s)}
  <2>1. ASSUME NEW d \in Under(<<s>>) PROVE \E n \in E(s) : d = <<s, n>>
    <3>1. Len(d) = 2 /\ SubSeq(d, 1, 1) = <<s>>
      BY <1>2
    <3>2. PICK a \in top : \E n \in E(a) : d = <<a, n>>
      BY <1>1, <1>2, <3>1
    <3>3. <<a>> = <<s>>
      BY <1>2, <3>1, <3>2
    <3>4. a = s
      BY <1>2, <3>3
    <3> QED
      BY <3>2, <3>4
  <2>2. ASSUME NEW n \in E(s) PROVE <<s, n>> \in Under(<<s>>)
    BY <1>1, <1>2
  <2> QED
    BY <2>1, <2>2
<1> HIDE DEF Under
<1> HIDE DEF E, top
<1>5. {e[Len(e)] : e \in Under(<<>>)} = top
  <2> DEFINE tip(e) == e[Len(e)]
  <2>1. \A s \in top : tip(<<s>>) = s
    BY <1>2
  <2> HIDE DEF tip
  <2>2. {tip(e) : e \in Under(<<>>)} = top
    <3>1. \A e \in Under(<<>>) : tip(e) \in top
      BY ONLY <1>3, <2>1
    <3>2. \A s \in top : \E e \in Under(<<>>) : s = tip(e)
      BY ONLY <1>3, <2>1
    <3> QED
      BY ONLY <3>1, <3>2
  <2> QED
    BY <2>2 DEF tip
<1>6. ASSUME NEW s \in top PROVE {e[Len(e)] : e \in Under(<<s>>)} = E(s)
  <2> DEFINE tip(e) == e[Len(e)]
  <2>1. \A n \in E(s) : tip(<<s, n>>) = n
    BY <1>2
  <2>2. Under(<<s>>) = {<<s, n>> : n \in E(s)}
    BY <1>4
  <2> HIDE DEF tip
  <2>3. {tip(e) : e \in Under(<<s>>)} = E(s)
    <3>1. \A e \in Under(<<s>>) : tip(e) \in E(s)
      BY ONLY <2>1, <2>2
    <3>2. \A n \in E(s) : \E e \in Under(<<s>>) : n = tip(e)
      BY ONLY <2>1, <2>2
    <3> QED
      BY ONLY <3>1, <3>2
  <2> QED
    BY <2>3 DEF tip
<1> QED
  BY <1>5, <1>6 DEF ChildrenOf, Under, N, E, top

\* Who may read the underlying file may read its files and search its directories.
LEMMA Modes ==
  ASSUME NEW v \in VtkFiles
  PROVE  LET readers == {m[1] : m \in BaseMode(v)}
         IN  /\ MakeDirMode(BaseMode(v)) = readers \X {"r", "x"}
             /\ BaseMode(v) = readers \X {"r"}
<1> DEFINE M == BaseMode(v)
           readers == {m[1] : m \in M}
<1>1. \A m \in M : m = <<m[1], m[2]>> /\ m[2] = "r"
  BY VtkFilesAssumption DEF BaseMode
<1> HIDE DEF M
<1>2. M = readers \X {"r"}
  BY <1>1
<1>3. MakeDirMode(M) = readers \X {"r", "x"}
  BY DEF MakeDirMode
<1> QED
  BY <1>2, <1>3 DEF M

\* The bytes of a read are the file's as far as it goes.
LEMMA Held ==
  ASSUME NEW offset \in Nat, NEW size \in Nat, NEW len \in Nat
  PROVE  0..(IF offset < len THEN Min({size, len - offset}) ELSE 0) - 1
           = {k \in 0..size - 1 : offset + k < len}
<1>1. CASE offset < len
  <2> DEFINE a == len - offset
             m == Min({size, a})
  <2>1. a \in Nat
    BY <1>1
  <2>2. m = IF size <= a THEN size ELSE a
    <3> HIDE DEF a
    <3>1. \E x \in {size, a} : \A y \in {size, a} : x <= y
      BY <2>1
    <3>2. m \in {size, a} /\ \A y \in {size, a} : m <= y
      BY <3>1 DEF Min
    <3> HIDE DEF m
    <3> QED
      BY <2>1, <3>2
  <2> HIDE DEF m
  <2>3. \A k \in Nat : k <= m - 1 <=> k <= size - 1 /\ offset + k < len
    BY <1>1, <2>2
  <2>4. m \in Nat
    BY <2>1, <2>2
  <2>5. 0..m - 1 = {k \in 0..size - 1 : offset + k < len}
    BY <2>3, <2>4
  <2> QED
    BY <1>1, <2>5 DEF m
<1>2. CASE ~(offset < len)
  BY <1>2
<1> QED
  BY <1>1, <1>2

LEMMA ServingNodes ==
  ASSUME IInv, phase = "serving"
  PROVE  /\ Nodes = NodesOf(tree, vtk) /\ Fs!Serving
         /\ \A c \in DOMAIN Nodes : Nodes[c].readers = {m[1] : m \in BaseMode(vtk)}
<1>1. Nodes = NodesOf(tree, vtk)
  BY Serves, NodesAre
<1>2. <<>> \in DOMAIN Nodes
  BY <1>1, NodesDomain
<1>3. Nodes # <<>>
  BY <1>2
<1> QED
  BY <1>1, <1>3, NodeIs DEF Fs!Serving

LEMMA Pending ==
  ASSUME IInv, phase = "serving", NamesAreNames, req.path \in Paths
  PROVE  /\ Leads(Nodes, tree, req.path, Resolve)
         /\ Fs!Problem = ProblemOf(Nodes, req.path)
         /\ ProblemOf(Nodes, req.path) = "OK" => req.path.comps \in DOMAIN Nodes
<1>1. Nodes = NodesOf(tree, vtk) /\ Tree(tree) /\ Spelled(req.path)
  BY ServingNodes, Serves DEF NamesAreNames
<1>2. Leads(Nodes, tree, req.path, Resolve)
  BY <1>1, PathLeads DEF Resolve
<1>3. Fs!Problem = ProblemOf(Nodes, req.path)
  BY DEF Fs!Problem, Fs!Exists, Fs!IsDir, ProblemOf, Through
<1>4. ProblemOf(Nodes, req.path) = "OK" => req.path.comps \in DOMAIN Nodes
  BY RequestsAssumption DEF ProblemOf
<1> QED
  BY <1>2, <1>3, <1>4

\* The cases of Leads, with what the handlers look at.
LEMMA Answer ==
  ASSUME IInv, phase = "serving", NamesAreNames, req.path \in Paths
  PROVE  LET r == Resolve
             c == req.path.comps
         IN  \/ r.err # "OK" /\ Fs!Problem = r.err
             \/ /\ r.err = "OK" /\ r.name = <<>> /\ r.parent = tree
                /\ Fs!Problem = "OK" /\ Fs!IsDir(c) /\ c = <<>>
             \/ /\ r.err = "OK" /\ r.name # <<>> /\ r.parent = tree /\ r.name \in DOMAIN tree.entries
                /\ Lookup(r.parent, r.name) = "DIR"
                /\ Fs!Problem = "OK" /\ Fs!IsDir(c) /\ c = <<r.name>>
             \/ /\ r.err = "OK" /\ r.name # <<>> /\ Lookup(r.parent, r.name) = "FILE"
                /\ Fs!Problem = "OK" /\ ~Fs!IsDir(c)
                /\ Nodes[c].file = r.parent.entries[r.name]
             \/ /\ r.err = "OK" /\ r.name # <<>> /\ Lookup(r.parent, r.name) = "NOTFOUND"
                /\ Fs!Problem = "ENOENT"
<1>1. Leads(Nodes, tree, req.path, Resolve) /\ Fs!Problem = ProblemOf(Nodes, req.path)
  BY Pending
<1>2. tree.is_root
  BY Serves DEF Tree
<1> DEFINE r == Resolve
           N == Nodes
<1>3. Leads(N, tree, req.path, r)
  BY <1>1
<1>4. Fs!IsDir(req.path.comps) <=> N[req.path.comps].file = NoFile
  BY DEF Fs!IsDir
<1> DEFINE p == Fs!Problem
           isdir == Fs!IsDir(req.path.comps)
<1>5. p = ProblemOf(N, req.path)
  BY <1>1
<1> HIDE DEF r, N, p, isdir
<1>6. CASE r.err # "OK" /\ ProblemOf(N, req.path) = r.err
  BY <1>5, <1>6 DEF r, p
<1>7. CASE /\ r = Resolved("OK", tree, <<>>)
           /\ ProblemOf(N, req.path) = "OK" /\ req.path.comps = <<>> /\ N[req.path.comps].file = NoFile
  <2>1. r.err = "OK" /\ r.name = <<>> /\ r.parent = tree
    BY <1>7 DEF Resolved
  <2> QED
    BY <1>4, <1>5, <1>7, <2>1 DEF r, p
<1>8. CASE /\ r = Resolved("OK", tree, r.name) /\ r.name # <<>> /\ r.name \in DOMAIN tree.entries
           /\ ProblemOf(N, req.path) = "OK" /\ req.path.comps = <<r.name>>
           /\ N[req.path.comps].file = NoFile
  <2>1. r.err = "OK" /\ r.parent = tree
    BY <1>8 DEF Resolved
  <2>2. Lookup(r.parent, r.name) = "DIR"
    BY <1>2, <1>8, <2>1 DEF Lookup
  <2> QED
    BY <1>4, <1>5, <1>8, <2>1, <2>2 DEF r, p
<1>9. CASE /\ r = Resolved("OK", r.parent, r.name) /\ r.name # <<>>
           /\ r.name \in DOMAIN r.parent.entries /\ ~r.parent.is_root
           /\ ProblemOf(N, req.path) = "OK" /\ N[req.path.comps].file = r.parent.entries[r.name]
           /\ r.parent.entries[r.name] \in FileType
  <2>1. r.err = "OK" /\ Lookup(r.parent, r.name) = "FILE"
    BY <1>9 DEF Resolved, Lookup
  <2>2. N[req.path.comps].file # NoFile
    BY <1>9, NoFileAssumption
  <2> QED
    BY <1>4, <1>5, <1>9, <2>1, <2>2 DEF r, p, N
<1>10. CASE /\ r = Resolved("OK", r.parent, r.name) /\ r.name # <<>>
            /\ r.name \notin DOMAIN r.parent.entries /\ ProblemOf(N, req.path) = "ENOENT"
  <2>1. r.err = "OK" /\ Lookup(r.parent, r.name) = "NOTFOUND"
    BY <1>10 DEF Resolved, Lookup
  <2> QED
    BY <1>5, <1>10, <2>1 DEF r, p
<1> QED
  BY <1>3, <1>6, <1>7, <1>8, <1>9, <1>10 DEF Leads

\* Nothing that is served changes in a handler.
LEMMA AskedOfFs ==
  ASSUME IInv, NEW op, Asked(op)
  PROVE  /\ phase = "serving" /\ reply = NoReply /\ req.op = op /\ req \in Requests
         /\ Fs!Asked(op)
<1>1. phase = "serving" /\ reply = NoReply /\ req.op = op /\ UNCHANGED <<vtk, phase, tree, req>>
  BY DEF Asked
<1>2. Fs!Serving /\ req \in Requests
  BY <1>1, ServingNodes, Serves
<1>3. UNCHANGED Nodes
  BY <1>1 DEF Nodes
<1> QED
  BY <1>1, <1>2, <1>3 DEF Fs!Asked

LEMMA GetattrServes ==
  ASSUME IInv, NamesAreNames, Getattr
  PROVE  Fs!Getattr
<1>1. Asked("getattr") /\ reply' = GetattrReply(Resolve) /\ UNCHANGED handles
  BY DEF Getattr
<1>2. phase = "serving" /\ Fs!Asked("getattr") /\ req.path \in Paths /\ vtk \in VtkFiles
  BY <1>1, AskedOfFs, RequestIs, Serves
<1> DEFINE r == Resolve
           c == req.path.comps
           p == Fs!Problem
           readers == {m[1] : m \in BaseMode(vtk)}
           isdir == Fs!IsDir(c)
           dirReply == [err |-> "OK", is_dir |-> TRUE, size |-> 0, mode |-> readers \X {"r", "x"}]
           fileReply == [err |-> "OK", is_dir |-> FALSE, size |-> Nodes[c].file.size,
                         mode |-> readers \X {"r"}]
<1>3. \/ r.err # "OK" /\ p = r.err
      \/ r.err = "OK" /\ r.name = <<>> /\ p = "OK" /\ isdir
      \/ r.err = "OK" /\ r.name # <<>> /\ Lookup(r.parent, r.name) = "DIR" /\ p = "OK" /\ isdir
      \/ /\ r.err = "OK" /\ r.name # <<>> /\ Lookup(r.parent, r.name) = "FILE" /\ p = "OK" /\ ~isdir
         /\ Nodes[c].file = r.parent.entries[r.name]
      \/ r.err = "OK" /\ r.name # <<>> /\ Lookup(r.parent, r.name) = "NOTFOUND" /\ p = "ENOENT"
  BY <1>2, Answer
<1>4. MakeDirMode(BaseMode(vtk)) = readers \X {"r", "x"} /\ BaseMode(vtk) = readers \X {"r"}
  BY <1>2, Modes
<1>5. p = "OK" => Nodes[c].readers = readers
  BY <1>2, Pending, ServingNodes
<1> HIDE DEF r, p, isdir, readers, c
<1>6. GetattrReply(r) = IF r.err # "OK" THEN Fail(r.err)
                        ELSE IF r.name = <<>> THEN dirReply
                        ELSE CASE Lookup(r.parent, r.name) = "NOTFOUND" -> Fail("ENOENT")
                               [] Lookup(r.parent, r.name) = "DIR" -> dirReply
                               [] Lookup(r.parent, r.name) = "FILE" ->
                                    [err |-> "OK", is_dir |-> FALSE,
                                     size |-> r.parent.entries[r.name].size, mode |-> readers \X {"r"}]
  BY <1>4 DEF GetattrReply
<1> HIDE DEF dirReply, fileReply
<1>7. GetattrReply(r) = IF p # "OK" THEN Fail(p) ELSE IF isdir THEN dirReply ELSE fileReply
  <2>1. CASE r.err # "OK" /\ p = r.err
    BY <1>6, <2>1
  <2>2. CASE r.err = "OK" /\ r.name = <<>> /\ p = "OK" /\ isdir
    BY <1>6, <2>2
  <2>3. CASE r.err = "OK" /\ r.name # <<>> /\ Lookup(r.parent, r.name) = "DIR" /\ p = "OK" /\ isdir
    BY <1>6, <2>3
  <2>4. CASE /\ r.err = "OK" /\ r.name # <<>> /\ Lookup(r.parent, r.name) = "FILE" /\ p = "OK" /\ ~isdir
             /\ Nodes[c].file = r.parent.entries[r.name]
    BY <1>6, <2>4 DEF fileReply
  <2>5. CASE r.err = "OK" /\ r.name # <<>> /\ Lookup(r.parent, r.name) = "NOTFOUND" /\ p = "ENOENT"
    BY <1>6, <2>5
  <2> QED
    BY <1>3, <2>1, <2>2, <2>3, <2>4, <2>5
<1> DEFINE n == Nodes[c]
           fsReply == [err |-> "OK", is_dir |-> isdir, size |-> IF isdir THEN 0 ELSE n.file.size,
                       mode |-> n.readers \X (IF isdir THEN {"r", "x"} ELSE {"r"})]
<1>8. ASSUME p = "OK" PROVE fsReply = IF isdir THEN dirReply ELSE fileReply
  <2>1. isdir \in BOOLEAN /\ n.readers = readers
    BY <1>5, <1>8 DEF isdir, Fs!IsDir
  <2>2. CASE isdir = TRUE
    BY <2>1, <2>2 DEF dirReply
  <2>3. CASE isdir = FALSE
    BY <2>1, <2>3 DEF fileReply
  <2> QED
    BY <2>1, <2>2, <2>3
<1>9. reply' = IF p # "OK" THEN Fail(p) ELSE fsReply
  BY <1>1, <1>7, <1>8 DEF r
<1> QED
  BY <1>1, <1>2, <1>9 DEF Fs!Getattr, Fail, Fs!Fail, p, isdir, c

LEMMA ReaddirServes ==
  ASSUME IInv, NamesAreNames, Readdir
  PROVE  Fs!Readdir
<1>1. Asked("readdir") /\ reply' = ReaddirReply(Resolve) /\ UNCHANGED handles
  BY DEF Readdir
<1>2. phase = "serving" /\ Fs!Asked("readdir") /\ req.path \in Paths
  BY <1>1, AskedOfFs, RequestIs
<1> DEFINE r == Resolve
           c == req.path.comps
           p == Fs!Problem
           isdir == Fs!IsDir(c)
           names == ChildrenOf(Nodes, c)
           listed == [err |-> "OK", names |-> names]
<1>3. \/ r.err # "OK" /\ p = r.err
      \/ r.err = "OK" /\ r.name = <<>> /\ r.parent = tree /\ p = "OK" /\ isdir /\ c = <<>>
      \/ /\ r.err = "OK" /\ r.name # <<>> /\ r.parent = tree /\ r.name \in DOMAIN tree.entries
         /\ Lookup(r.parent, r.name) = "DIR" /\ p = "OK" /\ isdir /\ c = <<r.name>>
      \/ r.err = "OK" /\ r.name # <<>> /\ Lookup(r.parent, r.name) = "FILE" /\ p = "OK" /\ ~isdir
      \/ r.err = "OK" /\ r.name # <<>> /\ Lookup(r.parent, r.name) = "NOTFOUND" /\ p = "ENOENT"
  BY <1>2, Answer
<1>4. /\ ChildrenOf(Nodes, <<>>) = DOMAIN tree.entries
      /\ \A s \in DOMAIN tree.entries : ChildrenOf(Nodes, <<s>>) = DOMAIN tree.entries[s].entries
  BY <1>2, ServingNodes, ChildrenAre
<1>5. ReaddirReply(r) = IF r.err # "OK" THEN Fail(r.err)
                        ELSE IF r.name = <<>> THEN [err |-> "OK", names |-> DOMAIN r.parent.entries]
                        ELSE CASE Lookup(r.parent, r.name) = "DIR" ->
                                    [err |-> "OK", names |-> DOMAIN r.parent.entries[r.name].entries]
                               [] Lookup(r.parent, r.name) = "FILE" -> Fail("ENOTDIR")
                               [] Lookup(r.parent, r.name) = "NOTFOUND" -> Fail("ENOENT")
  BY DEF ReaddirReply
<1> HIDE DEF r, p, isdir, c
<1>6. ReaddirReply(r) = CASE p # "OK" -> Fail(p)
                          [] p = "OK" /\ ~isdir -> Fail("ENOTDIR")
                          [] OTHER -> listed
  <2>1. CASE r.err # "OK" /\ p = r.err
    BY <1>5, <2>1
  <2>2. CASE r.err = "OK" /\ r.name = <<>> /\ r.parent = tree /\ p = "OK" /\ isdir /\ c = <<>>
    <3>1. names = DOMAIN r.parent.entries
      BY <1>4, <2>2
    <3> QED
      BY <1>5, <2>2, <3>1
  <2>3. CASE /\ r.err = "OK" /\ r.name # <<>> /\ r.parent = tree /\ r.name \in DOMAIN tree.entries
             /\ Lookup(r.parent, r.name) = "DIR" /\ p = "OK" /\ isdir /\ c = <<r.name>>
    <3>1. names = DOMAIN r.parent.entries[r.name].entries
      BY <1>4, <2>3
    <3> QED
      BY <1>5, <2>3, <3>1
  <2>4. CASE r.err = "OK" /\ r.name # <<>> /\ Lookup(r.parent, r.name) = "FILE" /\ p = "OK" /\ ~isdir
    BY <1>5, <2>4
  <2>5. CASE r.err = "OK" /\ r.name # <<>> /\ Lookup(r.parent, r.name) = "NOTFOUND" /\ p = "ENOENT"
    BY <1>5, <2>5
  <2> QED
    BY <1>3, <2>1, <2>2, <2>3, <2>4, <2>5
<1>7. reply' = CASE p # "OK" -> Fail(p)
                 [] p = "OK" /\ ~isdir -> Fail("ENOTDIR")
                 [] OTHER -> listed
  BY <1>1, <1>6 DEF r
<1>8. Fs!Children(c) = names
  BY DEF Fs!Children, ChildrenOf
<1> HIDE DEF names
<1> QED
  BY <1>1, <1>2, <1>7, <1>8 DEF Fs!Readdir, Fail, Fs!Fail, p, isdir, c

LEMMA OpenAnswer ==
  ASSUME IInv, NamesAreNames, phase = "serving", req.path \in Paths
  PROVE  LET r == Resolve
             c == req.path.comps
         IN  /\ OpenErrno(r) = IF Fs!Problem # "OK" THEN Fs!Problem
                               ELSE IF Fs!IsDir(c) THEN "EISDIR" ELSE "OK"
             /\ OpenErrno(r) = "OK" => Nodes[c].file = r.parent.entries[r.name]
<1> DEFINE r == Resolve
           c == req.path.comps
           p == Fs!Problem
           isdir == Fs!IsDir(c)
<1>1. \/ r.err # "OK" /\ p = r.err
      \/ r.err = "OK" /\ r.name = <<>> /\ p = "OK" /\ isdir
      \/ r.err = "OK" /\ r.name # <<>> /\ Lookup(r.parent, r.name) = "DIR" /\ p = "OK" /\ isdir
      \/ /\ r.err = "OK" /\ r.name # <<>> /\ Lookup(r.parent, r.name) = "FILE" /\ p = "OK" /\ ~isdir
         /\ Nodes[c].file = r.parent.entries[r.name]
      \/ r.err = "OK" /\ r.name # <<>> /\ Lookup(r.parent, r.name) = "NOTFOUND" /\ p = "ENOENT"
  BY Answer
<1> HIDE DEF r, p, isdir, c
<1>2. /\ OpenErrno(r) = IF p # "OK" THEN p ELSE IF isdir THEN "EISDIR" ELSE "OK"
      /\ OpenErrno(r) = "OK" => Nodes[c].file = r.parent.entries[r.name]
  BY <1>1 DEF OpenErrno
<1> QED
  BY <1>2 DEF r, p, isdir, c

LEMMA OpenRefusedServes ==
  ASSUME IInv, NamesAreNames, OpenRefused
  PROVE  Fs!Open
<1>1. /\ Asked("open")
      /\ req.writing \/ OpenErrno(Resolve) # "OK"
      /\ reply' = IF req.writing THEN Fail("EPERM") ELSE Fail(OpenErrno(Resolve))
      /\ UNCHANGED handles
  BY DEF OpenRefused
<1>2. phase = "serving" /\ Fs!Asked("open") /\ req.path \in Paths
  <2>1. phase = "serving" /\ req.op = "open" /\ req \in Requests /\ Fs!Asked("open")
    BY <1>1, AskedOfFs
  <2> QED
    BY <2>1, RequestIs
<1> DEFINE e == OpenErrno(Resolve)
           p == Fs!Problem
           isdir == Fs!IsDir(req.path.comps)
           obstacle == CASE req.writing -> "EPERM"
                         [] ~req.writing /\ p # "OK" -> p
                         [] ~req.writing /\ p = "OK" /\ isdir -> "EISDIR"
                         [] OTHER -> "OK"
<1>3. e = IF p # "OK" THEN p ELSE IF isdir THEN "EISDIR" ELSE "OK"
  BY <1>2, OpenAnswer
<1> HIDE DEF p, isdir, e
<1>4. obstacle # "OK" /\ (IF req.writing THEN "EPERM" ELSE e) = obstacle
  BY <1>1, <1>3 DEF e
<1>5. reply' = Fail(obstacle)
  <2> HIDE DEF obstacle
  <2> QED
    BY <1>1, <1>4 DEF e
<1> QED
  BY <1>1, <1>2, <1>4, <1>5 DEF Fs!Open, Fail, Fs!Fail, p, isdir

LEMMA OpenServes ==
  ASSUME IInv, NamesAreNames, NEW h \in Handles, Open(h)
  PROVE  Fs!Open
<1>1. /\ Asked("open") /\ ~req.writing /\ OpenErrno(Resolve) = "OK" /\ handles[h] = NoFile
      /\ handles' = [handles EXCEPT ![h] = Resolve.parent.entries[Resolve.name]]
      /\ reply' = [err |-> "OK", fh |-> h]
  BY DEF Open
<1>2. phase = "serving" /\ Fs!Asked("open") /\ req.path \in Paths
  <2>1. phase = "serving" /\ req.op = "open" /\ req \in Requests /\ Fs!Asked("open")
    BY <1>1, AskedOfFs
  <2> QED
    BY <2>1, RequestIs
<1> DEFINE e == OpenErrno(Resolve)
           p == Fs!Problem
           isdir == Fs!IsDir(req.path.comps)
           f == Nodes[req.path.comps].file
           obstacle == CASE req.writing -> "EPERM"
                         [] ~req.writing /\ p # "OK" -> p
                         [] ~req.writing /\ p = "OK" /\ isdir -> "EISDIR"
                         [] OTHER -> "OK"
<1>3. /\ e = IF p # "OK" THEN p ELSE IF isdir THEN "EISDIR" ELSE "OK"
      /\ e = "OK" => f = Resolve.parent.entries[Resolve.name]
  BY <1>2, OpenAnswer
<1>4. e = "OK"
  BY <1>1
<1> HIDE DEF p, isdir, e, f
<1>5. obstacle = "OK"
  BY <1>1, <1>3, <1>4
<1>6. handles' = [handles EXCEPT ![h] = f]
  BY <1>1, <1>3, <1>4
<1> QED
  BY <1>1, <1>2, <1>5, <1>6 DEF Fs!Open, p, isdir, f

LEMMA ReadServes ==
  ASSUME IInv, Read
  PROVE  Fs!Read
<1> DEFINE f == handles[req.fh]
           n == IF req.offset < f.size THEN Min({req.size, f.size - req.offset}) ELSE 0
           held == {k \in 0..req.size - 1 : req.offset + k < f.size}
<1>1. /\ Asked("read") /\ UNCHANGED handles
      /\ reply' = [err |-> "OK", data |-> {<<f.id, req.offset + k>> : k \in 0..n - 1}]
  BY DEF Read
<1>2. Fs!Asked("read") /\ req.offset \in Nat /\ req.size \in Nat
  BY <1>1, AskedOfFs, RequestIs
<1>3. f.size \in Nat
  BY <1>1, AskedOfFs DEF IInv, FileType
<1>4. 0..n - 1 = held
  <2> DEFINE o == req.offset
             s == req.size
             l == f.size
  <2>1. o \in Nat /\ s \in Nat /\ l \in Nat
    BY <1>2, <1>3
  <2> HIDE DEF o, s, l
  <2>2. 0..(IF o < l THEN Min({s, l - o}) ELSE 0) - 1 = {k \in 0..s - 1 : o + k < l}
    BY ONLY <2>1, Held
  <2> QED
    BY <2>2 DEF o, s, l
<1> HIDE DEF n, held
<1>5. reply' = [err |-> "OK", data |-> {<<f.id, req.offset + k>> : k \in held}]
  BY <1>1, <1>4
<1> QED
  BY <1>1, <1>2, <1>5 DEF Fs!Read, held

\* A step of the server is a step of the file system promised, or none.
LEMMA StepServes ==
  ASSUME IInv, NamesAreNames, [Next]_vars
  PROVE  [Fs!Next]_(Fs!vars)
<1>1. CASE InitTree
  <2>1. vtk \in VtkFiles /\ tree = NoTree /\ tree' = ParseVtkFile(vtk) /\ Parses(vtk) /\ vtk' = vtk
    BY <1>1 DEF InitTree, IInv, TypeOK
  <2>2. Nodes = <<>>
    BY <2>1, NodesAre
  <2>3. Nodes' = NodesOf(tree', vtk')
    BY <2>1, VtkFilesAssumption DEF Nodes, NodesOf
  <2>4. Nodes' = Promised(vtk)
    BY <2>1, <2>3, NodesPromised DEF NamesAreNames
  <2>5. Fs!Mount
    BY <1>1, <2>1, <2>2, <2>4 DEF InitTree, Fs!Mount, Fs!Serving
  <2> QED
    BY <2>5 DEF Fs!Next
<1>2. CASE InitTreeFails
  <2>1. UNCHANGED Nodes
    BY <1>2 DEF InitTreeFails, Nodes
  <2> QED
    BY <1>2, <2>1 DEF InitTreeFails, Fs!vars
<1>3. CASE Destroy
  <2>1. Fs!Serving
    BY <1>3, ServingNodes DEF Destroy
  <2>2. Nodes' = <<>>
    BY <1>3 DEF Destroy, Nodes
  <2>3. Fs!Unmount
    BY <1>3, <2>1, <2>2 DEF Destroy, Fs!Unmount
  <2> QED
    BY <2>3 DEF Fs!Next
<1>4. CASE Ask
  <2>1. Fs!Serving
    BY <1>4, ServingNodes DEF Ask
  <2>2. UNCHANGED Nodes
    BY <1>4 DEF Ask, Nodes
  <2>3. Fs!Ask
    BY <1>4, <2>1, <2>2 DEF Ask, Fs!Ask
  <2> QED
    BY <2>3 DEF Fs!Next
<1>5. CASE Getattr
  BY <1>5, GetattrServes DEF Fs!Next
<1>6. CASE Readdir
  BY <1>6, ReaddirServes DEF Fs!Next
<1>7. CASE OpenRefused
  BY <1>7, OpenRefusedServes DEF Fs!Next
<1>8. ASSUME NEW h \in Handles, Open(h) PROVE Fs!Next
  BY <1>8, OpenServes DEF Fs!Next
<1>9. CASE Read
  BY <1>9, ReadServes DEF Fs!Next
<1>10. CASE ReadFails
  <2>1. Fs!Asked("read")
    BY <1>10, AskedOfFs DEF ReadFails
  <2>2. Fs!Read
    BY <1>10, <2>1 DEF ReadFails, Fs!Read, Fail, Fs!Fail
  <2> QED
    BY <2>2 DEF Fs!Next
<1>11. CASE Flush
  <2>1. Fs!Asked("flush")
    BY <1>11, AskedOfFs DEF Flush
  <2>2. Fs!Flush
    BY <1>11, <2>1 DEF Flush, Fs!Flush, Done, Fs!Done
  <2> QED
    BY <2>2 DEF Fs!Next
<1>12. CASE Release
  <2>1. Fs!Asked("release")
    BY <1>12, AskedOfFs DEF Release
  <2>2. Fs!Release
    BY <1>12, <2>1 DEF Release, Fs!Release, Done, Fs!Done
  <2> QED
    BY <2>2 DEF Fs!Next
<1>13. CASE UNCHANGED vars
  <2>1. UNCHANGED Nodes
    BY <1>13 DEF vars, Nodes
  <2> QED
    BY <1>13, <2>1 DEF vars, Fs!vars
<1> QED
  BY <1>1, <1>2, <1>3, <1>4, <1>5, <1>6, <1>7, <1>8, <1>9, <1>10, <1>11, <1>12, <1>13 DEF Next

LEMMA InitServes == Init => Fs!Init
<1> SUFFICES ASSUME Init PROVE Fs!Init
  OBVIOUS
<1>1. Nodes = <<>>
  BY NodesAre DEF Init
<1>2. req \in Requests
  BY InitTypes DEF IInv, TypeOK
<1> QED
  BY <1>1, <1>2 DEF Init, Fs!Init, Done, Fs!Done

\* Whatever files are mounted and however clients spell paths, the handlers of
\* c.cc serve the tree that README.md promises, if names have no separators in
\* them and the arrays of a section have different names.
THEOREM PromisedIsServed ==
  ASSUME NamesAreNames
  PROVE  Spec => ServesFs
<1>1. IInv /\ [Next]_vars => [Fs!Next]_(Fs!vars)
  BY StepServes
<1> QED
  BY <1>1, Invariance, InitServes, PTL DEF Spec, ServesFs, Fs!Spec

=============================================================================
