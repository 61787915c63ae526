------------------------- MODULE LedgerSumsTheorems -------------------------
(***************************************************************************)
(* What the accounting proofs need to know about sums: that they are       *)
(* integers, that they are additive, and how updating one entry moves      *)
(* them.  Everything rests on induction over 0..n, stated for a set so     *)
(* that it needs no operator parameter, and derived from the fact that     *)
(* less-than is well founded on the naturals.                              *)
(***************************************************************************)
EXTENDS LedgerSums, FiniteSetTheorems, WellFoundedInduction, TLAPS

Less == {ss \in Nat \X Nat : ss[1] < ss[2]}

\* Every nonempty set of naturals has a least element.
LEMMA LeastElement ==
  ASSUME NEW T, T \subseteq Nat, T # {}
  PROVE  \E x \in T : \A y \in T : x <= y
<1>1. OpToRel(<, Nat) = Less
  BY Zenon DEF OpToRel, Less
<1>2. PICK x \in T : \A y \in T : ~(<<y, x>> \in Less)
  <2>1. IsWellFoundedOn(Less, Nat)
    BY <1>1, NatLessThanWellFounded
  <2>. QED BY <2>1, WFMin
<1>3. ASSUME NEW y \in T PROVE x <= y
  <2>1. x \in Nat /\ y \in Nat
    OBVIOUS
  <2>2. <<y, x>> \in Nat \X Nat /\ ~(<<y, x>> \in Less)
    BY <1>2, <2>1
  <2>3. ~(y < x)
    BY <2>2 DEF Less
  <2>. QED BY <2>1, <2>3
<1>. QED BY <1>3

\* Induction over 0..n for membership in a set.
LEMMA BoundedInduction ==
  ASSUME NEW n \in Nat, NEW S, 0 \in S,
         \A m \in 1..n : m-1 \in S => m \in S
  PROVE  0..n \subseteq S
<1>. DEFINE T == (0..n) \ S
<1>1. SUFFICES ASSUME T # {} PROVE FALSE
  OBVIOUS
<1>2. PICK m \in T : \A y \in T : m <= y
  <2>1. T \subseteq Nat
    OBVIOUS
  <2>. QED BY <1>1, <2>1, LeastElement
<1>3. m # 0 /\ m \in 1..n /\ m-1 \in 0..n
  BY <1>2
<1>4. m-1 \in S
  BY <1>2, <1>3
<1>. QED BY <1>2, <1>3, <1>4

IsPrefix(n, f, p) == p = [i \in 0..n |-> IF i = 0 THEN 0 ELSE p[i-1] + f[i]]

\* The recursion that defines Prefix has a solution on every 0..n.
LEMMA PrefixExists ==
  ASSUME NEW n \in Nat, NEW f
  PROVE  \E p : IsPrefix(n, f, p)
<1>. DEFINE S == {m \in 0..n : \E p : IsPrefix(m, f, p)}
<1>1. 0 \in S
  <2>1. IsPrefix(0, f, [i \in 0..0 |-> 0])
    BY DEF IsPrefix
  <2>. QED BY <2>1
<1>2. ASSUME NEW m \in 1..n, m-1 \in S PROVE m \in S
  <2>1. PICK p : IsPrefix(m-1, f, p)
    BY <1>2
  <2>. DEFINE q == [i \in 0..m |-> IF i = m THEN p[m-1] + f[m] ELSE p[i]]
  <2>2. IsPrefix(m, f, q)
    BY <2>1 DEF IsPrefix
  <2>. QED BY <2>2
<1>3. 0..n \subseteq S
  <2>. HIDE DEF S
  <2>. QED BY <1>1, <1>2, BoundedInduction
<1>. QED BY <1>3

LEMMA PrefixDef ==
  ASSUME NEW n \in Nat, NEW f
  PROVE  Prefix(n, f) = [i \in 0..n |-> IF i = 0 THEN 0 ELSE Prefix(n, f)[i-1] + f[i]]
<1>1. PICK p : IsPrefix(n, f, p)
  BY PrefixExists
<1>2. Prefix(n, f) = CHOOSE acc : IsPrefix(n, f, acc)
  BY DEF Prefix, IsPrefix
<1>. QED BY <1>1, <1>2 DEF IsPrefix

\* The two clauses of the recursion, one by one.
LEMMA PrefixStep ==
  ASSUME NEW n \in Nat, NEW f
  PROVE  /\ Prefix(n, f)[0] = 0
         /\ \A m \in 1..n : Prefix(n, f)[m] = Prefix(n, f)[m-1] + f[m]
<1>. DEFINE p == Prefix(n, f)
<1>1. p = [i \in 0..n |-> IF i = 0 THEN 0 ELSE p[i-1] + f[i]]
  BY PrefixDef
<1>. HIDE DEF p
<1>2. p[0] = 0
  BY <1>1
<1>3. ASSUME NEW m \in 1..n PROVE p[m] = p[m-1] + f[m]
  <2>1. m \in 0..n /\ m # 0
    OBVIOUS
  <2>. QED BY <1>1, <2>1
<1>. QED BY <1>2, <1>3 DEF p

LEMMA PrefixType ==
  ASSUME NEW n \in Nat, NEW f \in [1..n -> Int]
  PROVE  \A m \in 0..n : Prefix(n, f)[m] \in Int
<1>. DEFINE S == {m \in 0..n : Prefix(n, f)[m] \in Int}
<1>1. 0 \in S
  BY PrefixStep
<1>2. ASSUME NEW m \in 1..n, m-1 \in S PROVE m \in S
  BY <1>2, PrefixStep
<1>3. 0..n \subseteq S
  <2>. HIDE DEF S
  <2>. QED BY <1>1, <1>2, BoundedInduction
<1>. QED BY <1>3

LEMMA TotalType ==
  ASSUME NEW n \in Nat, NEW f \in [1..n -> Int]
  PROVE  Total(n, f) \in Int
BY PrefixType DEF Total

\* A sum of amounts that are not negative is not negative.
LEMMA TotalNat ==
  ASSUME NEW n \in Nat, NEW f \in [1..n -> Nat]
  PROVE  Total(n, f) \in Nat
<1>. DEFINE S == {m \in 0..n : Prefix(n, f)[m] \in Nat}
<1>1. 0 \in S
  BY PrefixStep
<1>2. ASSUME NEW m \in 1..n, m-1 \in S PROVE m \in S
  <2>1. Prefix(n, f)[m] = Prefix(n, f)[m-1] + f[m]
    BY PrefixStep
  <2>2. Prefix(n, f)[m-1] \in Nat /\ f[m] \in Nat
    BY <1>2
  <2>. QED BY <2>1, <2>2
<1>3. 0..n \subseteq S
  <2>. HIDE DEF S
  <2>. QED BY <1>1, <1>2, BoundedInduction
<1>. QED BY <1>3 DEF Total

\* The sum of a pointwise sum is the sum of the sums.
LEMMA TotalAdd ==
  ASSUME NEW n \in Nat, NEW f \in [1..n -> Int], NEW g \in [1..n -> Int],
         NEW h \in [1..n -> Int], \A i \in 1..n : h[i] = f[i] + g[i]
  PROVE  Total(n, h) = Total(n, f) + Total(n, g)
<1>. DEFINE p == Prefix(n, f)  q == Prefix(n, g)  r == Prefix(n, h)
            S == {m \in 0..n : r[m] = p[m] + q[m]}
<1>1. 0 \in S
  BY PrefixStep
<1>2. ASSUME NEW m \in 1..n, m-1 \in S PROVE m \in S
  <2>1. /\ r[m] = r[m-1] + h[m]
        /\ p[m] = p[m-1] + f[m]
        /\ q[m] = q[m-1] + g[m]
    BY PrefixStep
  <2>2. r[m-1] = p[m-1] + q[m-1]
    BY <1>2
  <2>3. m-1 \in 0..n
    OBVIOUS
  <2>4. p[m-1] \in Int /\ q[m-1] \in Int /\ r[m-1] \in Int
    BY <2>3, PrefixType
  <2>5. f[m] \in Int /\ g[m] \in Int /\ h[m] = f[m] + g[m]
    OBVIOUS
  <2>. HIDE DEF p, q, r
  <2>6. r[m] = p[m] + q[m]
    BY <2>1, <2>2, <2>4, <2>5
  <2>. QED BY <2>6
<1>3. 0..n \subseteq S
  <2>. HIDE DEF S
  <2>. QED BY <1>1, <1>2, BoundedInduction
<1>. QED BY <1>3 DEF Total

\* The sum of a function that is zero outside one entry is that entry.
LEMMA TotalSingle ==
  ASSUME NEW n \in Nat, NEW k \in 1..n, NEW v \in Int, NEW f \in [1..n -> Int],
         \A i \in 1..n : f[i] = IF i = k THEN v ELSE 0
  PROVE  Total(n, f) = v
<1>. DEFINE S == {m \in 0..n : Prefix(n, f)[m] = IF m < k THEN 0 ELSE v}
<1>1. 0 \in S
  BY PrefixStep
<1>2. ASSUME NEW m \in 1..n, m-1 \in S PROVE m \in S
  <2>1. Prefix(n, f)[m] = Prefix(n, f)[m-1] + f[m]
    BY PrefixStep
  <2>2. Prefix(n, f)[m-1] = IF m-1 < k THEN 0 ELSE v
    BY <1>2
  <2>. QED BY <2>1, <2>2
<1>3. 0..n \subseteq S
  <2>. HIDE DEF S
  <2>. QED BY <1>1, <1>2, BoundedInduction
<1>. QED BY <1>3 DEF Total

LEMMA TotalZero ==
  ASSUME NEW n \in Nat, NEW f \in [1..n -> Int], \A i \in 1..n : f[i] = 0
  PROVE  Total(n, f) = 0
<1>. DEFINE S == {m \in 0..n : Prefix(n, f)[m] = 0}
<1>1. 0 \in S
  BY PrefixStep
<1>2. ASSUME NEW m \in 1..n, m-1 \in S PROVE m \in S
  BY <1>2, PrefixStep
<1>3. 0..n \subseteq S
  <2>. HIDE DEF S
  <2>. QED BY <1>1, <1>2, BoundedInduction
<1>. QED BY <1>3 DEF Total

\* Replacing one entry changes the sum by what that entry changed.
LEMMA TotalUpdate ==
  ASSUME NEW n \in Nat, NEW f \in [1..n -> Int], NEW k \in 1..n, NEW v \in Int,
         NEW h \in [1..n -> Int], \A i \in 1..n : h[i] = IF i = k THEN v ELSE f[i]
  PROVE  Total(n, h) = Total(n, f) + (v - f[k])
<1>. DEFINE g == [i \in 1..n |-> IF i = k THEN v - f[k] ELSE 0]
<1>1. g \in [1..n -> Int]
  OBVIOUS
<1>2. \A i \in 1..n : h[i] = f[i] + g[i]
  OBVIOUS
<1>3. Total(n, g) = v - f[k]
  BY <1>1, TotalSingle
<1>. HIDE DEF g
<1>4. Total(n, h) = Total(n, f) + Total(n, g)
  BY <1>1, <1>2, TotalAdd
<1>. QED BY <1>3, <1>4

\* A sum of larger entries is larger.
LEMMA TotalMonotone ==
  ASSUME NEW n \in Nat, NEW f \in [1..n -> Int], NEW g \in [1..n -> Int],
         \A i \in 1..n : f[i] <= g[i]
  PROVE  Total(n, f) <= Total(n, g)
<1>. DEFINE d == [i \in 1..n |-> g[i] - f[i]]
<1>1. d \in [1..n -> Nat] /\ d \in [1..n -> Int] /\ \A i \in 1..n : g[i] = f[i] + d[i]
  OBVIOUS
<1>. HIDE DEF d
<1>2. Total(n, g) = Total(n, f) + Total(n, d)
  BY <1>1, TotalAdd
<1>3. Total(n, d) \in Nat /\ Total(n, f) \in Int
  BY <1>1, TotalNat, TotalType
<1>. QED BY <1>2, <1>3

\* The sum without entry k.
LEMMA TotalWithout ==
  ASSUME NEW n \in Nat, NEW f \in [1..n -> Int], NEW k \in 1..n, NEW e,
         e = [j \in 1..n |-> IF j = k THEN 0 ELSE f[j]]
  PROVE  e \in [1..n -> Int] /\ Total(n, f) = Total(n, e) + f[k]
<1>1. e \in [1..n -> Int] /\ \A j \in 1..n : e[j] = IF j = k THEN 0 ELSE f[j]
  OBVIOUS
<1>2. Total(n, e) = Total(n, f) + (0 - f[k])
  BY ZenonT(30), <1>1, TotalUpdate
<1>3. Total(n, f) \in Int /\ Total(n, e) \in Int /\ f[k] \in Int
  BY <1>1, TotalType
<1>. QED BY <1>1, <1>2, <1>3

\* A common factor.
LEMMA TotalScale ==
  ASSUME NEW n \in Nat, NEW c \in Int, NEW f \in [1..n -> Int], NEW h \in [1..n -> Int],
         \A i \in 1..n : h[i] = c * f[i]
  PROVE  Total(n, h) = c * Total(n, f)
<1>. DEFINE S == {m \in 0..n : Prefix(n, h)[m] = c * Prefix(n, f)[m]}
<1>1. 0 \in S
  <2>1. Prefix(n, h)[0] = 0 /\ Prefix(n, f)[0] = 0
    BY PrefixStep
  <2>. QED BY <2>1
<1>2. ASSUME NEW m \in 1..n, m-1 \in S PROVE m \in S
  <2>. DEFINE a == Prefix(n, f)[m-1]
  <2>1. Prefix(n, h)[m] = Prefix(n, h)[m-1] + h[m] /\ Prefix(n, f)[m] = a + f[m]
    BY PrefixStep
  <2>2. Prefix(n, h)[m-1] = c * a /\ h[m] = c * f[m]
    BY <1>2
  <2>3. a \in Int /\ f[m] \in Int
    <3>1. m-1 \in 0..n
      OBVIOUS
    <3>. QED BY <3>1, PrefixType
  <2>. HIDE DEF a
  <2>4. c * (a + f[m]) = c * a + c * f[m]
    BY <2>3
  <2>5. Prefix(n, h)[m] = c * Prefix(n, f)[m]
    BY <2>1, <2>2, <2>4
  <2>. QED BY <2>5
<1>3. 0..n \subseteq S
  <2>. HIDE DEF S
  <2>. QED BY <1>1, <1>2, BoundedInduction
<1>4. n \in S
  <2>. HIDE DEF S
  <2>. QED BY <1>3
<1>. QED BY <1>4 DEF Total

\* Counting by adding ones.
LEMMA TotalCount ==
  ASSUME NEW n \in Nat, NEW T, T \subseteq 1..n
  PROVE  /\ IsFiniteSet(T)
         /\ Cardinality(T) = Total(n, [i \in 1..n |-> IF i \in T THEN 1 ELSE 0])
<1>. DEFINE f == [i \in 1..n |-> IF i \in T THEN 1 ELSE 0]
            upTo(m) == T \intersect (1..m)
            P(m) == IsFiniteSet(upTo(m)) /\ Cardinality(upTo(m)) = Prefix(n, f)[m]
            S == {m \in 0..n : P(m)}
<1>1. P(0)
  <2>1. upTo(0) = {}
    OBVIOUS
  <2>2. Prefix(n, f)[0] = 0
    <3>. HIDE DEF f
    <3>. QED BY PrefixStep
  <2>. QED BY <2>1, <2>2, FS_EmptySet
<1>2. ASSUME NEW m \in 1..n, P(m-1) PROVE P(m)
  <2>1. /\ Prefix(n, f)[m] = Prefix(n, f)[m-1] + f[m]
    <3>. HIDE DEF f
    <3>. QED BY PrefixStep
  <2>2. m \notin upTo(m-1) /\ upTo(m) = IF m \in T THEN upTo(m-1) \union {m} ELSE upTo(m-1)
    OBVIOUS
  <2>3. f[m] = IF m \in T THEN 1 ELSE 0
    OBVIOUS
  <2>4. IsFiniteSet(upTo(m-1)) /\ Cardinality(upTo(m-1)) = Prefix(n, f)[m-1]
    BY <1>2
  <2>. HIDE DEF f, upTo
  <2>5. Cardinality(upTo(m-1)) \in Nat
    BY <2>4, FS_CardinalityType
  <2>6. CASE m \in T
    <3>1. /\ IsFiniteSet(upTo(m-1) \union {m})
          /\ Cardinality(upTo(m-1) \union {m}) = Cardinality(upTo(m-1)) + 1
      BY <2>2, <2>4, FS_AddElement
    <3>. QED BY <2>1, <2>2, <2>3, <2>4, <2>5, <2>6, <3>1
  <2>7. CASE m \notin T
    BY <2>1, <2>2, <2>3, <2>4, <2>5, <2>7
  <2>. QED BY <2>6, <2>7
<1>3. 0..n \subseteq S
  <2>. HIDE DEF P
  <2>1. 0 \in S /\ \A m \in 1..n : m-1 \in S => m \in S
    BY <1>1, <1>2
  <2>. HIDE DEF S
  <2>. QED BY <2>1, BoundedInduction
<1>4. P(n)
  <2>. HIDE DEF P
  <2>. QED BY <1>3
<1>5. upTo(n) = T
  OBVIOUS
<1>. QED BY <1>4, <1>5 DEF Total

-----------------------------------------------------------------------------
(* Sums over some of the entries *)

Only(n, f, T) == [i \in 1..n |-> IF i \in T THEN f[i] ELSE 0]

LEMMA OnlyType ==
  ASSUME NEW n \in Nat, NEW T, NEW f \in [1..n -> Int]
  PROVE  Only(n, f, T) \in [1..n -> Int] /\ Total(n, Only(n, f, T)) \in Int
<1>1. Only(n, f, T) \in [1..n -> Int]
  BY DEF Only
<1>. QED BY <1>1, TotalType

LEMMA OnlyNone ==
  ASSUME NEW n \in Nat, NEW f \in [1..n -> Int]
  PROVE  Total(n, Only(n, f, {})) = 0
<1>1. \A i \in 1..n : Only(n, f, {})[i] = 0
  BY DEF Only
<1>2. Only(n, f, {}) \in [1..n -> Int]
  BY OnlyType
<1>. QED BY <1>1, <1>2, TotalZero

LEMMA OnlyRemove ==
  ASSUME NEW n \in Nat, NEW f \in [1..n -> Int], NEW T, NEW x \in T, x \in 1..n
  PROVE  Total(n, Only(n, f, T)) = Total(n, Only(n, f, T \ {x})) + f[x]
<1>. DEFINE g == Only(n, f, T)
<1>1. g \in [1..n -> Int] /\ g[x] = f[x]
  BY DEF Only
<1>2. Only(n, f, T \ {x}) = [j \in 1..n |-> IF j = x THEN 0 ELSE g[j]]
  BY DEF Only
<1>. HIDE DEF g
<1>3. Total(n, g) = Total(n, Only(n, f, T \ {x})) + g[x]
  BY ZenonT(30), <1>1, <1>2, TotalWithout
<1>. QED BY <1>1, <1>3 DEF g

-----------------------------------------------------------------------------
(* Sums of the same entries in another order *)

\* pi names a different place in 1..m for every place in 1..n.
Places(pi, n, m) ==
  /\ pi \in [1..n -> 1..m]
  /\ \A i, j \in 1..n : pi[i] = pi[j] => i = j

\* The entries 1..k of g are found in h, at the places pi.
Found(g, h, pi, k) == \A i \in 1..k : g[i] <= h[pi[i]]

LEMMA FoundWithout ==
  ASSUME NEW n \in Nat, NEW m \in Nat, NEW h \in [1..m -> Nat], NEW g \in [1..n -> Nat],
         NEW pi, Places(pi, n, m), NEW k \in 1..n, Found(g, h, pi, k), NEW e,
         e = [j \in 1..m |-> IF j = pi[k] THEN 0 ELSE h[j]]
  PROVE  Found(g, e, pi, k-1)
<1>1. ASSUME NEW i \in 1..k-1 PROVE g[i] <= e[pi[i]]
  <2>1. i \in 1..k /\ i \in 1..n /\ i # k
    OBVIOUS
  <2>2. pi[i] # pi[k] /\ pi[i] \in 1..m /\ g[i] <= h[pi[i]]
    BY <2>1 DEF Places, Found
  <2>. QED BY <2>2
<1>. QED BY <1>1 DEF Found

\* The entries of g are found in f at different places, so g adds up to no
\* more than f does.
LEMMA TotalInjection ==
  ASSUME NEW n \in Nat, NEW m \in Nat, NEW f \in [1..m -> Nat], NEW g \in [1..n -> Nat],
         NEW pi, Places(pi, n, m), Found(g, f, pi, n)
  PROVE  Total(n, g) <= Total(m, f)
<1>. DEFINE P(k) == \A h \in [1..m -> Nat] :
                      Found(g, h, pi, k) => Prefix(n, g)[k] <= Total(m, h)
            S == {k \in 0..n : P(k)}
<1>. HIDE DEF P, S
<1>1. P(0)
  <2>1. ASSUME NEW h \in [1..m -> Nat]
        PROVE  Prefix(n, g)[0] <= Total(m, h)
    <3>1. Prefix(n, g)[0] = 0 /\ Total(m, h) \in Nat
      BY PrefixStep, TotalNat
    <3>. QED BY <3>1
  <2>. QED BY <2>1 DEF P
<1>2. ASSUME NEW k \in 1..n, P(k-1) PROVE P(k)
  <2>1. SUFFICES ASSUME NEW h \in [1..m -> Nat], Found(g, h, pi, k)
                 PROVE  Prefix(n, g)[k] <= Total(m, h)
    BY DEF P
  <2>. DEFINE e == [j \in 1..m |-> IF j = pi[k] THEN 0 ELSE h[j]]
  <2>2. e \in [1..m -> Nat] /\ pi[k] \in 1..m /\ Found(g, e, pi, k-1)
    <3>1. e \in [1..m -> Nat]
      OBVIOUS
    <3>2. pi[k] \in 1..m
      BY DEF Places
    <3>3. Found(g, e, pi, k-1)
      BY <2>1, FoundWithout
    <3>. QED BY <3>1, <3>2, <3>3
  <2>3. Total(m, h) = Total(m, e) + h[pi[k]]
    <3>1. h \in [1..m -> Int]
      OBVIOUS
    <3>. QED BY <2>2, <3>1, TotalWithout
  <2>. HIDE DEF e
  <2>4. Prefix(n, g)[k-1] <= Total(m, e)
    BY <1>2, <2>2 DEF P
  <2>5. Prefix(n, g)[k] = Prefix(n, g)[k-1] + g[k]
    BY PrefixStep
  <2>6. Prefix(n, g)[k-1] \in Int
    BY PrefixType
  <2>7. Total(m, e) \in Nat /\ g[k] \in Nat /\ h[pi[k]] \in Nat
    BY <2>2, TotalNat
  <2>8. g[k] <= h[pi[k]]
    BY <2>1 DEF Found
  <2>. QED BY SMTT(30), <2>3, <2>4, <2>5, <2>6, <2>7, <2>8
<1>3. 0..n \subseteq S
  <2>1. 0 \in S /\ \A k \in 1..n : k-1 \in S => k \in S
    BY <1>1, <1>2 DEF S
  <2>. QED BY <2>1, BoundedInduction
<1>4. P(n)
  BY <1>3 DEF S
<1>. QED BY <1>4 DEF Total, P

\* h has the entries 1..k of g at the places pi, and zero elsewhere.
Spread(g, h, pi, n, k) == \A i \in 1..n : h[pi[i]] = IF i <= k THEN g[i] ELSE 0

LEMMA SpreadWithout ==
  ASSUME NEW n \in Nat, NEW m \in Nat, NEW h \in [1..m -> Int], NEW g \in [1..n -> Int],
         NEW pi, Places(pi, n, m), NEW k \in 1..n, Spread(g, h, pi, n, k), NEW e,
         e = [j \in 1..m |-> IF j = pi[k] THEN 0 ELSE h[j]]
  PROVE  pi[k] \in 1..m /\ h[pi[k]] = g[k] /\ Spread(g, e, pi, n, k-1)
<1>1. pi[k] \in 1..m /\ h[pi[k]] = g[k]
  BY DEF Places, Spread
<1>2. ASSUME NEW i \in 1..n PROVE e[pi[i]] = IF i <= k-1 THEN g[i] ELSE 0
  <2>1. CASE i = k
    BY <1>1, <2>1
  <2>2. CASE i # k
    <3>1. pi[i] # pi[k] /\ pi[i] \in 1..m
      BY <2>2 DEF Places
    <3>2. h[pi[i]] = IF i <= k THEN g[i] ELSE 0
      BY DEF Spread
    <3>3. i <= k <=> i <= k-1
      BY <2>2
    <3>. QED BY <3>1, <3>2, <3>3
  <2>. QED BY <2>1, <2>2
<1>. QED BY <1>1, <1>2 DEF Spread

Onto(pi, n, m) == \A j \in 1..m : \E i \in 1..n : pi[i] = j

\* The same entries at other places have the same sum.
LEMMA TotalPermute ==
  ASSUME NEW n \in Nat, NEW m \in Nat, NEW f \in [1..m -> Int], NEW g \in [1..n -> Int],
         NEW pi, Places(pi, n, m), Onto(pi, n, m),
         \A i \in 1..n : g[i] = f[pi[i]]
  PROVE  Total(n, g) = Total(m, f)
<1>. DEFINE P(k) == \A h \in [1..m -> Int] :
                      Spread(g, h, pi, n, k) => Prefix(n, g)[k] = Total(m, h)
            S == {k \in 0..n : P(k)}
<1>. HIDE DEF P, S
<1>1. P(0)
  <2>1. ASSUME NEW h \in [1..m -> Int], Spread(g, h, pi, n, 0)
        PROVE  Total(m, h) = 0
    <3>1. ASSUME NEW j \in 1..m PROVE h[j] = 0
      <4>1. PICK i \in 1..n : pi[i] = j
        BY DEF Onto
      <4>2. ~(i <= 0)
        OBVIOUS
      <4>. QED BY <2>1, <4>1, <4>2 DEF Spread
    <3>. QED BY <3>1, TotalZero
  <2>2. Prefix(n, g)[0] = 0
    BY PrefixStep
  <2>. QED BY <2>1, <2>2 DEF P
<1>2. ASSUME NEW k \in 1..n, P(k-1) PROVE P(k)
  <2>1. SUFFICES ASSUME NEW h \in [1..m -> Int], Spread(g, h, pi, n, k)
                 PROVE  Prefix(n, g)[k] = Total(m, h)
    BY DEF P
  <2>. DEFINE e == [j \in 1..m |-> IF j = pi[k] THEN 0 ELSE h[j]]
  <2>2. pi[k] \in 1..m /\ h[pi[k]] = g[k] /\ Spread(g, e, pi, n, k-1)
    BY <2>1, SpreadWithout
  <2>3. e \in [1..m -> Int] /\ Total(m, h) = Total(m, e) + h[pi[k]]
    BY <2>2, TotalWithout
  <2>. HIDE DEF e
  <2>4. Prefix(n, g)[k-1] = Total(m, e)
    BY <1>2, <2>2, <2>3 DEF P
  <2>5. Prefix(n, g)[k] = Prefix(n, g)[k-1] + g[k]
    BY PrefixStep
  <2>. QED BY <2>2, <2>3, <2>4, <2>5
<1>3. 0..n \subseteq S
  <2>1. 0 \in S /\ \A k \in 1..n : k-1 \in S => k \in S
    BY <1>1, <1>2 DEF S
  <2>. QED BY <2>1, BoundedInduction
<1>4. P(n)
  BY <1>3 DEF S
<1>5. Spread(g, f, pi, n, n)
  BY DEF Spread
<1>. QED BY <1>4, <1>5 DEF Total, P

-----------------------------------------------------------------------------
(* Sums of sums *)

\* Rows first or columns first.
LEMMA TotalSwap ==
  ASSUME NEW n \in Nat, NEW k \in Nat, NEW a \in [1..n -> [1..k -> Int]]
  PROVE  Total(n, [i \in 1..n |-> Total(k, a[i])])
           = Total(k, [j \in 1..k |-> Total(n, [i \in 1..n |-> a[i][j]])])
<1>. DEFINE row == [i \in 1..n |-> Total(k, a[i])]
            col(j) == [i \in 1..n |-> a[i][j]]
            part(m) == [j \in 1..k |-> Prefix(n, col(j))[m]]
            S == {m \in 0..n : Prefix(n, row)[m] = Total(k, part(m))}
<1>0. row \in [1..n -> Int]
  BY TotalType
<1>a. \A j \in 1..k : col(j) \in [1..n -> Int]
  OBVIOUS
<1>b. \A m \in 0..n : part(m) \in [1..k -> Int]
  <2>. HIDE DEF col
  <2>. QED BY <1>a, PrefixType
<1>c. \A m \in 1..n : row[m] = Total(k, a[m])
  OBVIOUS
<1>d. \A m \in 1..n, j \in 1..k : part(m)[j] = part(m-1)[j] + a[m][j]
  <2>1. SUFFICES ASSUME NEW m \in 1..n, NEW j \in 1..k
                 PROVE  Prefix(n, col(j))[m] = Prefix(n, col(j))[m-1] + a[m][j]
    OBVIOUS
  <2>2. col(j)[m] = a[m][j]
    OBVIOUS
  <2>. HIDE DEF col
  <2>3. Prefix(n, col(j))[m] = Prefix(n, col(j))[m-1] + col(j)[m]
    BY PrefixStep
  <2>. QED BY <2>2, <2>3
<1>1. 0 \in S
  <2>1. Prefix(n, row)[0] = 0
    <3>. HIDE DEF row
    <3>. QED BY PrefixStep
  <2>2. \A j \in 1..k : part(0)[j] = 0
    <3>. HIDE DEF col
    <3>. QED BY PrefixStep
  <2>3. part(0) \in [1..k -> Int]
    BY <1>b
  <2>. HIDE DEF part
  <2>4. Total(k, part(0)) = 0
    BY <2>2, <2>3, TotalZero
  <2>. QED BY <2>1, <2>4
<1>2. ASSUME NEW m \in 1..n, m-1 \in S PROVE m \in S
  <2>0. m-1 \in 0..n /\ m \in 0..n
    OBVIOUS
  <2>1. Prefix(n, row)[m-1] = Total(k, part(m-1))
    BY <1>2
  <2>. HIDE DEF row, part, col
  <2>2. Prefix(n, row)[m] = Prefix(n, row)[m-1] + row[m]
    BY PrefixStep
  <2>3. Total(k, part(m)) = Total(k, part(m-1)) + Total(k, a[m])
    <3>1. a[m] \in [1..k -> Int] /\ part(m) \in [1..k -> Int] /\ part(m-1) \in [1..k -> Int]
      BY <1>b, <2>0
    <3>. QED BY <1>d, <3>1, TotalAdd
  <2>. QED BY <1>c, <2>0, <2>1, <2>2, <2>3
<1>3. 0..n \subseteq S
  <2>. HIDE DEF S
  <2>. QED BY <1>1, <1>2, BoundedInduction
<1>4. Prefix(n, row)[n] = Total(k, part(n))
  <2>. HIDE DEF row, part
  <2>. QED BY <1>3
<1>. QED BY <1>4 DEF Total
=============================================================================
