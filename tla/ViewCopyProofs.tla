---------------------------- MODULE ViewCopyProofs ----------------------------
(* Of the views and their copies, for all sizes, all limits and all hashes:  *)
(* types, that the slice, permute, broadcast and reshape optimizers copy     *)
(* exactly, that the storage suffices, that copies of views that are no      *)
(* reshapes are exact, and that the cache is transparent.                    *)
(*                                                                           *)
(* Sums, products, strides and coordinates come first, by induction on sets  *)
(* of indices; then each optimizer; then each operation that makes a view,   *)
(* as places Within the places of the view before; then what the cache holds *)
(* through a combined copy, whose own copies look up and store entries       *)
(* under descriptions of their own, and the invariant Kept.  Transparency    *)
(* is last: it compares a combined copy with the cache and one without, copy *)
(* by copy.                                                                  *)
EXTENDS ViewCopy, FiniteSetTheorems, SequenceTheorems, NaturalsInduction,
        WellFoundedInduction, TLAPS

LEMMA Least ==
  ASSUME NEW S, S \subseteq Nat, S # {}
  PROVE  \E n \in S : \A m \in S : n <= m
<1>1. PICK n \in S : \A m \in S : ~(<<m, n>> \in OpToRel(<, Nat))
  BY NatLessThanWellFounded, WFMin, Zenon
<1>2. \A m \in S : ~(m < n)
  BY <1>1 DEF OpToRel
<1> QED
  BY <1>2

\* Induction up to n, for a set of numbers.
LEMMA UpTo ==
  ASSUME NEW n \in Nat, NEW G, 0 \in G, \A i \in 0 .. n : i + 1 <= n /\ i \in G => i + 1 \in G
  PROVE  \A i \in 0 .. n : i \in G
<1> DEFINE Bad == {i \in 0 .. n : i \notin G}
<1>1. ASSUME Bad # {} PROVE FALSE
  <2>1. Bad \subseteq Nat
    OBVIOUS
  <2> HIDE DEF Bad
  <2>2. PICK i \in Bad : \A m \in Bad : i <= m
    BY <1>1, <2>1, Least
  <2>3. i \in 0 .. n /\ i \notin G /\ i # 0
    BY <2>2 DEF Bad
  <2>4. i - 1 \in 0 .. n /\ i - 1 \in G
    BY <2>2, <2>3 DEF Bad
  <2> QED
    BY <2>3, <2>4
<1> QED
  BY <1>1

\* Induction down from n.
LEMMA DownFrom ==
  ASSUME NEW n \in Nat, NEW G, n \in G, \A i \in 1 .. n : i > 1 /\ i \in G => i - 1 \in G
  PROVE  \A i \in 1 .. n : i \in G
<1> DEFINE H == {k \in 0 .. n : k = n \/ n - k \in G}
<1>1. 0 \in H
  OBVIOUS
<1>2. \A k \in 0 .. n : k + 1 <= n /\ k \in H => k + 1 \in H
  <2> SUFFICES ASSUME NEW k \in 0 .. n, k + 1 <= n, k \in H PROVE k + 1 \in H
    OBVIOUS
  <2>1. CASE k + 1 = n
    BY <2>1
  <2>2. CASE k + 1 # n
    <3>1. n - k \in 1 .. n /\ n - k > 1 /\ n - k \in G
      BY <2>2
    <3>2. (n - k) - 1 \in G
      BY <3>1
    <3>3. (n - k) - 1 = n - (k + 1)
      OBVIOUS
    <3> QED
      BY <3>2, <3>3
  <2> QED
    BY <2>1, <2>2
<1> HIDE DEF H
<1>3. \A k \in 0 .. n : k \in H
  BY <1>1, <1>2, UpTo
<1> SUFFICES ASSUME NEW i \in 1 .. n PROVE i \in G
  OBVIOUS
<1>4. n - i \in H /\ n - (n - i) = i /\ n - i # n
  BY <1>3
<1> QED
  BY <1>4 DEF H

\* A function on 0 .. n may be defined by its first value and a step.
Steps(n, z, G, f) == f = [i \in 0 .. n |-> IF i = 0 THEN z ELSE G[<<f[i - 1], i>>]]

LEMMA StepsExist ==
  ASSUME NEW n \in Nat, NEW z, NEW G
  PROVE  \E f : Steps(n, z, G, f)
<1> DEFINE H == {k \in 0 .. n : \E f : Steps(k, z, G, f)}
<1>1. 0 \in H
  <2> DEFINE f == [i \in 0 .. 0 |-> z]
  <2>1. Steps(0, z, G, f)
    BY DEF Steps
  <2> QED
    BY <2>1
<1>2. \A k \in 0 .. n : k + 1 <= n /\ k \in H => k + 1 \in H
  <2> SUFFICES ASSUME NEW k \in 0 .. n, k + 1 <= n, k \in H PROVE k + 1 \in H
    OBVIOUS
  <2>1. PICK f : Steps(k, z, G, f)
    OBVIOUS
  <2> DEFINE h == [i \in 0 .. k + 1 |-> IF i = 0 THEN z ELSE G[<<f[i - 1], i>>]]
  <2>2. \A i \in 0 .. k : h[i] = f[i]
    BY <2>1 DEF Steps
  <2>3. \A i \in 0 .. k + 1 : i # 0 => i - 1 \in 0 .. k /\ h[i - 1] = f[i - 1]
    BY <2>2
  <2>4. h = [i \in 0 .. k + 1 |-> IF i = 0 THEN z ELSE G[<<h[i - 1], i>>]]
    BY <2>3
  <2> HIDE DEF h
  <2>5. Steps(k + 1, z, G, h)
    BY <2>4 DEF Steps
  <2>6. k + 1 \in 0 .. n
    OBVIOUS
  <2> QED
    BY <2>5, <2>6
<1> HIDE DEF H
<1>3. n \in H
  BY <1>1, <1>2, UpTo
<1> QED
  BY <1>3 DEF H

\* Its values are where the first value and the steps are.
LEMMA StepsTyped ==
  ASSUME NEW n \in Nat, NEW T, NEW z \in T, NEW G \in [T \X (1 .. n) -> T],
         NEW f, Steps(n, z, G, f)
  PROVE  /\ f[0] = z /\ \A i \in 0 .. n : f[i] \in T
         /\ \A i \in 1 .. n : f[i] = G[<<f[i - 1], i>>]
<1>1. f[0] = z /\ \A i \in 1 .. n : f[i] = G[<<f[i - 1], i>>]
  BY DEF Steps
<1> DEFINE H == {i \in 0 .. n : f[i] \in T}
<1>2. 0 \in H
  BY <1>1
<1>3. \A i \in 0 .. n : i + 1 <= n /\ i \in H => i + 1 \in H
  <2> SUFFICES ASSUME NEW i \in 0 .. n, i + 1 <= n, i \in H PROVE i + 1 \in H
    OBVIOUS
  <2>1. i + 1 \in 1 .. n /\ (i + 1) - 1 = i
    OBVIOUS
  <2>2. f[i + 1] = G[<<f[i], i + 1>>]
    BY <2>1, <1>1
  <2>3. f[i + 1] \in T
    BY <2>1, <2>2
  <2> QED
    BY <2>1, <2>3
<1> HIDE DEF H
<1>4. \A i \in 0 .. n : i \in H
  BY <1>2, <1>3, UpTo
<1> QED
  BY <1>1, <1>4 DEF H

------------------------------------------------------------------------------
(* Products and sums, by the partial ones.                                   *)

Products(s, f) ==
  /\ f[0] = 1 /\ \A i \in 0 .. Len(s) : f[i] \in Int
  /\ \A i \in 1 .. Len(s) : f[i] = f[i - 1] * s[i]

Sums(s, f) ==
  /\ f[0] = 0 /\ \A i \in 0 .. Len(s) : f[i] \in Int
  /\ \A i \in 1 .. Len(s) : f[i] = f[i - 1] + s[i]

LEMMA ProductPartial ==
  ASSUME NEW s \in Seq(Int)
  PROVE  \E f : Products(s, f) /\ multiply_integers(s) = f[Len(s)]
<1> DEFINE n == Len(s)
           E(f) == f = [i \in 0 .. n |-> IF i = 0 THEN 1 ELSE f[i - 1] * s[i]]
           p == CHOOSE f : E(f)
           G == [x \in Int \X (1 .. n) |-> x[1] * s[x[2]]]
<1>1. n \in Nat /\ \A i \in 1 .. n : s[i] \in Int
  OBVIOUS
<1>2. G \in [Int \X (1 .. n) -> Int]
  BY <1>1
<1>3. \A f : E(f) <=> Steps(n, 1, G, f)
  <2> SUFFICES ASSUME NEW f PROVE E(f) <=> Steps(n, 1, G, f)
    OBVIOUS
  <2>1. ASSUME Steps(n, 1, G, f) PROVE \A i \in 0 .. n : f[i] \in Int
    BY <2>1, <1>1, <1>2, StepsTyped, 1 \in Int
  <2>2. ASSUME E(f) PROVE \A i \in 0 .. n : f[i] \in Int
    <3> DEFINE H == {i \in 0 .. n : f[i] \in Int}
    <3>1. f[0] = 1 /\ \A i \in 1 .. n : f[i] = f[i - 1] * s[i]
      BY <2>2, <1>1
    <3>2. 0 \in H
      BY <3>1, <1>1
    <3>3. \A i \in 0 .. n : i + 1 <= n /\ i \in H => i + 1 \in H
      <4> SUFFICES ASSUME NEW i \in 0 .. n, i + 1 <= n, i \in H PROVE i + 1 \in H
        OBVIOUS
      <4>1. i + 1 \in 1 .. n /\ (i + 1) - 1 = i
        OBVIOUS
      <4>2. f[i + 1] = f[i] * s[i + 1]
        BY <3>1, <4>1
      <4> QED
        BY <4>1, <4>2, <1>1
    <3> HIDE DEF H
    <3>4. \A i \in 0 .. n : i \in H
      BY <1>1, <3>2, <3>3, UpTo
    <3> QED
      BY <3>4 DEF H
  <2>3. ASSUME E(f) \/ Steps(n, 1, G, f)
        PROVE \A i \in 0 .. n : i # 0 => G[<<f[i - 1], i>>] = f[i - 1] * s[i]
    BY <2>1, <2>2, <2>3, <1>1
  <2> QED
    BY <2>3 DEF Steps
<1>4. \E f : E(f)
  BY <1>1, <1>3, StepsExist
<1>5. E(p)
  BY <1>4
<1>6. multiply_integers(s) = p[n]
  BY DEF multiply_integers
<1> HIDE DEF p, G
<1>7. Steps(n, 1, G, p)
  BY <1>3, <1>5
<1>8. \A i \in 0 .. n : p[i] \in Int
  BY <1>1, <1>2, <1>7, StepsTyped, 1 \in Int
<1>9. p[0] = 1 /\ \A i \in 1 .. n : p[i] = p[i - 1] * s[i]
  BY <1>1, <1>5
<1> QED
  BY <1>6, <1>8, <1>9 DEF Products

LEMMA SumPartial ==
  ASSUME NEW s \in Seq(Int)
  PROVE  \E f : Sums(s, f) /\ Added(s) = f[Len(s)]
<1> DEFINE n == Len(s)
           E(f) == f = [i \in 0 .. n |-> IF i = 0 THEN 0 ELSE f[i - 1] + s[i]]
           p == CHOOSE f : E(f)
           G == [x \in Int \X (1 .. n) |-> x[1] + s[x[2]]]
<1>1. n \in Nat /\ \A i \in 1 .. n : s[i] \in Int
  OBVIOUS
<1>2. G \in [Int \X (1 .. n) -> Int]
  BY <1>1
<1>3. \A f : E(f) <=> Steps(n, 0, G, f)
  <2> SUFFICES ASSUME NEW f PROVE E(f) <=> Steps(n, 0, G, f)
    OBVIOUS
  <2>1. ASSUME Steps(n, 0, G, f) PROVE \A i \in 0 .. n : f[i] \in Int
    BY <2>1, <1>1, <1>2, StepsTyped, 0 \in Int
  <2>2. ASSUME E(f) PROVE \A i \in 0 .. n : f[i] \in Int
    <3> DEFINE H == {i \in 0 .. n : f[i] \in Int}
    <3>0. 0 \in 0 .. n /\ \A i \in 1 .. n : i \in 0 .. n /\ i # 0
      BY <1>1
    <3>1. f[0] = 0 /\ \A i \in 1 .. n : f[i] = f[i - 1] + s[i]
      BY <2>2, <3>0, Zenon
    <3>2. 0 \in H
      BY <3>1, <1>1
    <3>3. \A i \in 0 .. n : i + 1 <= n /\ i \in H => i + 1 \in H
      <4> SUFFICES ASSUME NEW i \in 0 .. n, i + 1 <= n, i \in H PROVE i + 1 \in H
        OBVIOUS
      <4>1. i + 1 \in 1 .. n /\ (i + 1) - 1 = i
        OBVIOUS
      <4>2. f[i + 1] = f[i] + s[i + 1]
        BY <3>1, <4>1
      <4> QED
        BY <4>1, <4>2, <1>1
    <3> HIDE DEF H
    <3>4. \A i \in 0 .. n : i \in H
      BY <1>1, <3>2, <3>3, UpTo
    <3> QED
      BY <3>4 DEF H
  <2>3. ASSUME E(f) \/ Steps(n, 0, G, f)
        PROVE \A i \in 0 .. n : i # 0 => G[<<f[i - 1], i>>] = f[i - 1] + s[i]
    BY <2>1, <2>2, <2>3, <1>1
  <2> QED
    BY <2>3 DEF Steps
<1>4. \E f : E(f)
  BY <1>1, <1>3, StepsExist
<1>5. E(p)
  BY <1>4
<1>6. Added(s) = p[n]
  BY DEF Added
<1> HIDE DEF p, G
<1>7. Steps(n, 0, G, p)
  BY <1>3, <1>5
<1>8. \A i \in 0 .. n : p[i] \in Int
  BY <1>1, <1>2, <1>7, StepsTyped, 0 \in Int
<1>9. p[0] = 0 /\ \A i \in 1 .. n : p[i] = p[i - 1] + s[i]
  BY <1>1, <1>5
<1> QED
  BY <1>6, <1>8, <1>9 DEF Sums

LEMMA FunSeq ==
  ASSUME NEW S, NEW n \in Nat, NEW f \in [1 .. n -> S]
  PROVE  f \in Seq(S) /\ Len(f) = n /\ DOMAIN f = 1 .. n
  BY SeqDef

LEMMA ProductOf ==
  ASSUME NEW s \in Seq(Int), NEW f, Products(s, f)
  PROVE  multiply_integers(s) = f[Len(s)]
<1> DEFINE n == Len(s)
<1>1. n \in Nat /\ \A i \in 1 .. n : s[i] \in Int
  OBVIOUS
<1>2. PICK g : Products(s, g) /\ multiply_integers(s) = g[n]
  BY ProductPartial
<1> DEFINE H == {i \in 0 .. n : f[i] = g[i]}
<1>3. 0 \in H
  BY <1>1, <1>2 DEF Products
<1>4. \A i \in 0 .. n : i + 1 <= n /\ i \in H => i + 1 \in H
  <2> SUFFICES ASSUME NEW i \in 0 .. n, i + 1 <= n, i \in H PROVE i + 1 \in H
    OBVIOUS
  <2>1. i + 1 \in 1 .. n /\ (i + 1) - 1 = i /\ i + 1 \in 0 .. n
    OBVIOUS
  <2>2. f[i + 1] = f[i] * s[i + 1] /\ g[i + 1] = g[i] * s[i + 1]
    BY <1>2, <2>1 DEF Products
  <2> QED
    BY <2>1, <2>2
<1> HIDE DEF H
<1>5. \A i \in 0 .. n : i \in H
  BY <1>1, <1>3, <1>4, UpTo
<1> QED
  BY <1>1, <1>2, <1>5 DEF H

LEMMA SumOf ==
  ASSUME NEW s \in Seq(Int), NEW f, Sums(s, f)
  PROVE  Added(s) = f[Len(s)]
<1> DEFINE n == Len(s)
<1>1. n \in Nat /\ \A i \in 1 .. n : s[i] \in Int
  OBVIOUS
<1>2. PICK g : Sums(s, g) /\ Added(s) = g[n]
  BY SumPartial
<1> DEFINE H == {i \in 0 .. n : f[i] = g[i]}
<1>3. 0 \in H
  BY <1>1, <1>2 DEF Sums
<1>4. \A i \in 0 .. n : i + 1 <= n /\ i \in H => i + 1 \in H
  <2> SUFFICES ASSUME NEW i \in 0 .. n, i + 1 <= n, i \in H PROVE i + 1 \in H
    OBVIOUS
  <2>1. i + 1 \in 1 .. n /\ (i + 1) - 1 = i /\ i + 1 \in 0 .. n
    OBVIOUS
  <2>2. f[i + 1] = f[i] + s[i + 1] /\ g[i + 1] = g[i] + s[i + 1]
    BY <1>2, <2>1 DEF Sums
  <2> QED
    BY <2>1, <2>2
<1> HIDE DEF H
<1>5. \A i \in 0 .. n : i \in H
  BY <1>1, <1>3, <1>4, UpTo
<1> QED
  BY <1>1, <1>2, <1>5 DEF H

LEMMA ProductType ==
  ASSUME NEW s \in Seq(Int) PROVE multiply_integers(s) \in Int
  BY ProductPartial DEF Products

LEMMA SumType ==
  ASSUME NEW s \in Seq(Int) PROVE Added(s) \in Int
  BY SumPartial DEF Sums

LEMMA ProductOne ==
  ASSUME NEW s \in Seq(Int), Len(s) = 0 PROVE multiply_integers(s) = 1
  BY ProductPartial DEF Products

LEMMA SumZero ==
  ASSUME NEW s \in Seq(Int), Len(s) = 0 PROVE Added(s) = 0
  BY SumPartial DEF Sums

LEMMA ProductPositive ==
  ASSUME NEW s \in Seq(Int), \A i \in 1 .. Len(s) : s[i] >= 1
  PROVE  multiply_integers(s) >= 1
<1> DEFINE n == Len(s)
<1>1. n \in Nat /\ \A i \in 1 .. n : s[i] \in Int
  OBVIOUS
<1>2. PICK g : Products(s, g) /\ multiply_integers(s) = g[n]
  BY ProductPartial
<1> DEFINE H == {i \in 0 .. n : g[i] >= 1}
<1>3. 0 \in H
  BY <1>1, <1>2 DEF Products
<1>4. \A i \in 0 .. n : i + 1 <= n /\ i \in H => i + 1 \in H
  <2> SUFFICES ASSUME NEW i \in 0 .. n, i + 1 <= n, i \in H PROVE i + 1 \in H
    OBVIOUS
  <2>1. i + 1 \in 1 .. n /\ (i + 1) - 1 = i /\ i + 1 \in 0 .. n
    OBVIOUS
  <2>2. g[i + 1] = g[i] * s[i + 1] /\ g[i] \in Int /\ s[i + 1] \in Int
    BY <1>1, <1>2, <2>1 DEF Products
  <2>3. g[i] >= 1 /\ s[i + 1] >= 1
    BY <2>1
  <2>4. \A a, b \in Int : a >= 1 /\ b >= 1 => a * b >= 1
    OBVIOUS
  <2>5. g[i] * s[i + 1] >= 1
    BY <2>2, <2>3, <2>4, Zenon
  <2> QED
    BY <2>1, <2>2, <2>5
<1> HIDE DEF H
<1>5. \A i \in 0 .. n : i \in H
  BY <1>1, <1>3, <1>4, UpTo
<1> QED
  BY <1>1, <1>2, <1>5 DEF H

LEMMA ProductFactors ==
  ASSUME NEW s \in Seq(Int), multiply_integers(s) # 0
  PROVE  \A i \in 1 .. Len(s) : s[i] # 0
<1> DEFINE n == Len(s)
<1> SUFFICES ASSUME NEW k \in 1 .. n, s[k] = 0 PROVE FALSE
  OBVIOUS
<1>1. n \in Nat /\ \A i \in 1 .. n : s[i] \in Int
  OBVIOUS
<1>2. PICK g : Products(s, g) /\ multiply_integers(s) = g[n]
  BY ProductPartial
<1> DEFINE H == {i \in 0 .. n : i >= k => g[i] = 0}
<1>3. 0 \in H
  BY <1>1
<1>4. \A i \in 0 .. n : i + 1 <= n /\ i \in H => i + 1 \in H
  <2> SUFFICES ASSUME NEW i \in 0 .. n, i + 1 <= n, i \in H PROVE i + 1 \in H
    OBVIOUS
  <2>1. i + 1 \in 1 .. n /\ (i + 1) - 1 = i /\ i + 1 \in 0 .. n
    OBVIOUS
  <2>2. g[i + 1] = g[i] * s[i + 1] /\ g[i] \in Int /\ s[i + 1] \in Int
    BY <1>1, <1>2, <2>1 DEF Products
  <2>3. CASE i + 1 = k
    BY <2>1, <2>2, <2>3
  <2>4. CASE i + 1 # k
    BY <2>1, <2>2, <2>4
  <2> QED
    BY <2>3, <2>4
<1> HIDE DEF H
<1>5. \A i \in 0 .. n : i \in H
  BY <1>1, <1>3, <1>4, UpTo
<1>6. n \in H /\ n >= k
  BY <1>1, <1>5
<1> QED
  BY <1>2, <1>6 DEF H

LEMMA SumMonotonic ==
  ASSUME NEW s \in Seq(Int), NEW t \in Seq(Int), Len(t) = Len(s),
         \A i \in 1 .. Len(s) : s[i] <= t[i]
  PROVE  Added(s) <= Added(t)
<1> DEFINE n == Len(s)
<1>1. n \in Nat /\ \A i \in 1 .. n : s[i] \in Int /\ t[i] \in Int
  OBVIOUS
<1>2. PICK f : Sums(s, f) /\ Added(s) = f[n]
  BY SumPartial
<1>3. PICK g : Sums(t, g) /\ Added(t) = g[n]
  BY SumPartial
<1> DEFINE H == {i \in 0 .. n : f[i] <= g[i]}
<1>4. 0 \in H
  BY <1>1, <1>2, <1>3 DEF Sums
<1>5. \A i \in 0 .. n : i + 1 <= n /\ i \in H => i + 1 \in H
  <2> SUFFICES ASSUME NEW i \in 0 .. n, i + 1 <= n, i \in H PROVE i + 1 \in H
    OBVIOUS
  <2>1. i + 1 \in 1 .. n /\ (i + 1) - 1 = i /\ i + 1 \in 0 .. n
    OBVIOUS
  <2>2. /\ f[i + 1] = f[i] + s[i + 1] /\ f[i] \in Int /\ s[i + 1] \in Int
        /\ g[i + 1] = g[i] + t[i + 1] /\ g[i] \in Int /\ t[i + 1] \in Int
    BY <1>1, <1>2, <1>3, <2>1 DEF Sums
  <2>3. f[i] <= g[i] /\ s[i + 1] <= t[i + 1]
    BY <2>1
  <2> QED
    BY <2>1, <2>2, <2>3
<1> HIDE DEF H
<1>6. \A i \in 0 .. n : i \in H
  BY <1>1, <1>4, <1>5, UpTo
<1>7. n \in H
  BY <1>1, <1>6
<1> QED
  BY <1>2, <1>3, <1>7 DEF H

LEMMA SumPositive ==
  ASSUME NEW s \in Seq(Int), \A i \in 1 .. Len(s) : s[i] >= 0
  PROVE  Added(s) >= 0
<1> DEFINE n == Len(s)
           z == [i \in 1 .. n |-> 0]
           f == [i \in 0 .. n |-> 0]
<1>1. n \in Nat
  OBVIOUS
<1>2. z \in Seq(Int) /\ Len(z) = n
  BY <1>1, FunSeq
<1>3. Sums(z, f)
  BY <1>1, <1>2 DEF Sums
<1>4. f[n] = 0
  BY <1>1
<1>5. \A i \in 1 .. Len(z) : z[i] = 0 /\ s[i] \in Int
  BY <1>1, <1>2
<1> HIDE DEF z, f
<1>6. Added(z) = 0
  BY <1>2, <1>3, <1>4, SumOf
<1>7. Added(z) <= Added(s)
  BY <1>1, <1>2, <1>5, SumMonotonic
<1> QED
  BY <1>6, <1>7, SumType

LEMMA SumOfSums ==
  ASSUME NEW s \in Seq(Int), NEW t \in Seq(Int), NEW u \in Seq(Int),
         Len(t) = Len(s), Len(u) = Len(s), \A i \in 1 .. Len(s) : u[i] = s[i] + t[i]
  PROVE  Added(u) = Added(s) + Added(t)
<1> DEFINE n == Len(s)
<1>1. n \in Nat /\ \A i \in 1 .. n : s[i] \in Int /\ t[i] \in Int
  OBVIOUS
<1>2. PICK f : Sums(s, f) /\ Added(s) = f[n]
  BY SumPartial
<1>3. PICK g : Sums(t, g) /\ Added(t) = g[n]
  BY SumPartial
<1> DEFINE h == [i \in 0 .. n |-> f[i] + g[i]]
<1>4. \A i \in 0 .. n : f[i] \in Int /\ g[i] \in Int /\ h[i] = f[i] + g[i]
  BY <1>2, <1>3 DEF Sums
<1> HIDE DEF h
<1>5. h[0] = 0
  <2>1. h[0] = f[0] + g[0]
    BY <1>1, <1>4
  <2> QED
    BY <2>1, <1>2, <1>3 DEF Sums
<1>6. ASSUME NEW i \in 0 .. n PROVE h[i] \in Int
  <2>1. f[i] \in Int /\ g[i] \in Int /\ h[i] = f[i] + g[i]
    BY <1>4
  <2> QED
    BY <2>1
<1>7. ASSUME NEW i \in 1 .. n PROVE h[i] = h[i - 1] + u[i]
  <2>1. i - 1 \in 0 .. n /\ i \in 0 .. n
    BY <1>1
  <2>2. f[i] = f[i - 1] + s[i] /\ g[i] = g[i - 1] + t[i]
    BY <1>2, <1>3 DEF Sums
  <2>3. f[i - 1] \in Int /\ g[i - 1] \in Int /\ s[i] \in Int /\ t[i] \in Int
    BY <1>1, <1>4, <2>1
  <2>4. h[i] = f[i] + g[i] /\ h[i - 1] = f[i - 1] + g[i - 1] /\ u[i] = s[i] + t[i]
    BY <1>4, <2>1
  <2> QED
    <3>1. \A a, b, x, y \in Int : (a + x) + (b + y) = (a + b) + (x + y)
      OBVIOUS
    <3>2. h[i] = (f[i - 1] + s[i]) + (g[i - 1] + t[i])
      BY <2>2, <2>4, Zenon
    <3>3. h[i - 1] + u[i] = (f[i - 1] + g[i - 1]) + (s[i] + t[i])
      BY <2>4, Zenon
    <3>4. (f[i - 1] + s[i]) + (g[i - 1] + t[i]) = (f[i - 1] + g[i - 1]) + (s[i] + t[i])
      BY <2>3, <3>1
    <3> QED
      BY <3>2, <3>3, <3>4, Zenon
<1>8. Sums(u, h)
  BY <1>5, <1>6, <1>7 DEF Sums
<1>9. Added(u) = h[n]
  BY <1>8, SumOf
<1> QED
  BY <1>1, <1>2, <1>3, <1>4, <1>9

(* A product is the first factor times the product of the others.            *)
LEMMA ProductFirst ==
  ASSUME NEW s \in Seq(Int), NEW t \in Seq(Int), Len(s) = Len(t) + 1,
         \A i \in 1 .. Len(t) : s[i + 1] = t[i]
  PROVE  multiply_integers(s) = s[1] * multiply_integers(t)
<1> DEFINE n == Len(t)
<1>1. n \in Nat /\ \A i \in 1 .. n : t[i] \in Int
  OBVIOUS
<1>2. \A i \in 1 .. n + 1 : s[i] \in Int
  OBVIOUS
<1>3. s[1] \in Int
  BY <1>1, <1>2
<1>4. PICK f : Products(t, f) /\ multiply_integers(t) = f[n]
  BY ProductPartial
<1> DEFINE g == [i \in 0 .. n + 1 |-> IF i = 0 THEN 1 ELSE s[1] * f[i - 1]]
<1>5. g[0] = 1 /\ \A i \in 1 .. n + 1 : g[i] = s[1] * f[i - 1]
  BY <1>1
<1> HIDE DEF g
<1>6. \A i \in 0 .. n + 1 : g[i] \in Int
  <2> SUFFICES ASSUME NEW i \in 0 .. n + 1 PROVE g[i] \in Int
    OBVIOUS
  <2>1. CASE i = 0
    BY <1>5, <2>1
  <2>2. CASE i # 0
    <3>1. i - 1 \in 0 .. n /\ i \in 1 .. n + 1
      BY <1>1, <2>2
    <3>2. f[i - 1] \in Int
      BY <1>4, <3>1 DEF Products
    <3> QED
      BY <1>3, <1>5, <3>1, <3>2
  <2> QED
    BY <2>1, <2>2
<1>7. ASSUME NEW i \in 1 .. n + 1 PROVE g[i] = g[i - 1] * s[i]
  <2>1. CASE i = 1
    <3>1. g[1] = s[1] * f[0] /\ f[0] = 1 /\ g[0] = 1
      BY <1>1, <1>4, <1>5 DEF Products
    <3> QED
      BY <1>3, <2>1, <3>1
  <2>2. CASE i # 1
    <3>1. i - 1 \in 1 .. n /\ i - 1 \in 1 .. n + 1 /\ (i - 1) - 1 \in 0 .. n /\ (i - 1) + 1 = i
      BY <1>1, <2>2
    <3>2. g[i] = s[1] * f[i - 1] /\ g[i - 1] = s[1] * f[(i - 1) - 1]
      BY <1>5, <3>1
    <3>3. f[i - 1] = f[(i - 1) - 1] * t[i - 1] /\ f[(i - 1) - 1] \in Int /\ t[i - 1] \in Int
      BY <1>1, <1>4, <3>1 DEF Products
    <3>4. s[i] = t[i - 1]
      BY <3>1
    <3>5. \A a, b, c \in Int : a * (b * c) = (a * b) * c
      OBVIOUS
    <3>6. s[1] * (f[(i - 1) - 1] * t[i - 1]) = (s[1] * f[(i - 1) - 1]) * t[i - 1]
      BY <1>3, <3>3, <3>5, Zenon
    <3> QED
      BY <3>2, <3>3, <3>4, <3>6, Zenon
  <2> QED
    BY <2>1, <2>2
<1>8. Products(s, g)
  BY <1>5, <1>6, <1>7 DEF Products
<1>9. multiply_integers(s) = g[n + 1]
  BY <1>8, ProductOf
<1>10. n + 1 \in 1 .. n + 1 /\ (n + 1) - 1 = n
  BY <1>1
<1> QED
  BY <1>4, <1>5, <1>9, <1>10

LEMMA SuffixType ==
  ASSUME NEW s \in Seq(Int), NEW i \in 1 .. Len(s) + 1
  PROVE  /\ SubSeq(s, i, Len(s)) \in Seq(Int)
         /\ Len(SubSeq(s, i, Len(s))) = Len(s) + 1 - i
         /\ \A j \in 1 .. Len(s) + 1 - i : SubSeq(s, i, Len(s))[j] = s[i + j - 1]
  BY SubSeqProperties

(* The strides of a contiguous tensor.                                       *)
StridesOf(s, c) ==
  /\ c \in Seq(Int) /\ Len(c) = Len(s)
  /\ Len(s) >= 1 => c[Len(s)] = 1
  /\ \A i \in 1 .. Len(s) : i + 1 <= Len(s) => c[i] = s[i + 1] * c[i + 1]

LEMMA StrideSteps ==
  ASSUME NEW s \in Seq(Int)
  PROVE  /\ StridesOf(s, ComputeStrideFromShape(s))
         /\ DOMAIN ComputeStrideFromShape(s) = 1 .. Len(s)
         /\ Len(s) >= 1 => multiply_integers(s) = s[1] * ComputeStrideFromShape(s)[1]
<1> DEFINE n == Len(s)
           c == ComputeStrideFromShape(s)
           rest(i) == SubSeq(s, i, n)
<1>1. n \in Nat /\ DOMAIN s = 1 .. n /\ \A i \in 1 .. n : s[i] \in Int
  OBVIOUS
<1>2. c = [i \in 1 .. n |-> multiply_integers(rest(i + 1))]
  BY <1>1 DEF ComputeStrideFromShape
<1>3. ASSUME NEW i \in 1 .. n + 1
      PROVE  /\ rest(i) \in Seq(Int) /\ Len(rest(i)) = n + 1 - i
             /\ \A j \in 1 .. n + 1 - i : rest(i)[j] = s[i + j - 1]
  BY SuffixType
<1>4. ASSUME NEW i \in 1 .. n
      PROVE  c[i] = multiply_integers(rest(i + 1)) /\ c[i] \in Int
  <2>1. c[i] = multiply_integers(rest(i + 1))
    BY <1>2
  <2>2. i + 1 \in 1 .. n + 1
    BY <1>1
  <2>3. rest(i + 1) \in Seq(Int)
    BY <1>3, <2>2
  <2> HIDE DEF c, rest
  <2> QED
    BY <2>1, <2>3, ProductType
<1>5. ASSUME NEW i \in 1 .. n
      PROVE  multiply_integers(rest(i)) = s[i] * multiply_integers(rest(i + 1))
  <2>1. i + 1 \in 1 .. n + 1 /\ i \in 1 .. n + 1
    BY <1>1
  <2>2. /\ rest(i) \in Seq(Int) /\ Len(rest(i)) = n + 1 - i
        /\ \A j \in 1 .. n + 1 - i : rest(i)[j] = s[i + j - 1]
    BY <1>3, <2>1
  <2>3. /\ rest(i + 1) \in Seq(Int) /\ Len(rest(i + 1)) = n + 1 - (i + 1)
        /\ \A j \in 1 .. n + 1 - (i + 1) : rest(i + 1)[j] = s[(i + 1) + j - 1]
    BY <1>3, <2>1
  <2> DEFINE a == rest(i)
             b == rest(i + 1)
  <2> HIDE DEF rest
  <2>9. Len(a) = n + 1 - i /\ Len(b) = n - i /\ n + 1 - i = (n - i) + 1
    <3>0. \A x, y \in Int : x + 1 - (y + 1) = x - y /\ x + 1 - y = (x - y) + 1
      OBVIOUS
    <3>1. n \in Int /\ i \in Int
      BY <1>1
    <3>2. n + 1 - (i + 1) = n - i /\ n + 1 - i = (n - i) + 1
      BY <3>0, <3>1, Zenon
    <3> QED
      BY <2>2, <2>3, <3>2, Zenon
  <2>4. Len(a) = Len(b) + 1
    BY <2>9, Zenon
  <2>5. \A j \in 1 .. Len(b) : a[j + 1] = b[j]
    <3> SUFFICES ASSUME NEW j \in 1 .. Len(b) PROVE a[j + 1] = b[j]
      OBVIOUS
    <3>0. j \in 1 .. n - i
      BY <2>9, Zenon
    <3>1. j + 1 \in 1 .. n + 1 - i /\ j \in 1 .. n + 1 - (i + 1)
      BY <1>1, <3>0
    <3>2. i + (j + 1) - 1 = (i + 1) + j - 1
      BY <1>1, <3>0
    <3> QED
      BY <2>2, <2>3, <3>1, <3>2
  <2>6. a[1] = s[i]
    <3>1. 1 \in 1 .. n + 1 - i /\ i + 1 - 1 = i
      BY <1>1
    <3> QED
      BY <2>2, <3>1
  <2>7. a \in Seq(Int) /\ b \in Seq(Int)
    BY <2>2, <2>3
  <2> HIDE DEF a, b
  <2>8. multiply_integers(a) = a[1] * multiply_integers(b)
    BY <2>4, <2>5, <2>7, ProductFirst
  <2> QED
    BY <2>6, <2>8 DEF a, b
<1>6. n >= 1 => c[n] = 1
  <2> SUFFICES ASSUME n >= 1 PROVE c[n] = 1
    OBVIOUS
  <2>1. n \in 1 .. n /\ n + 1 \in 1 .. n + 1
    BY <1>1
  <2>2. rest(n + 1) \in Seq(Int) /\ Len(rest(n + 1)) = n + 1 - (n + 1)
    BY <1>3, <2>1
  <2>3. n + 1 - (n + 1) = 0
    BY <1>1
  <2>4. c[n] = multiply_integers(rest(n + 1))
    BY <1>4, <2>1
  <2> HIDE DEF rest, c
  <2> QED
    BY <2>2, <2>3, <2>4, ProductOne
<1>7. \A i \in 1 .. n : i + 1 <= n => c[i] = s[i + 1] * c[i + 1]
  <2> SUFFICES ASSUME NEW i \in 1 .. n, i + 1 <= n PROVE c[i] = s[i + 1] * c[i + 1]
    OBVIOUS
  <2>1. i + 1 \in 1 .. n
    BY <1>1
  <2> HIDE DEF c, rest
  <2> QED
    BY <1>4, <1>5, <2>1
<1>8. n >= 1 => multiply_integers(s) = s[1] * c[1]
  <2> SUFFICES ASSUME n >= 1 PROVE multiply_integers(s) = s[1] * c[1]
    OBVIOUS
  <2>1. 1 \in 1 .. n
    BY <1>1
  <2>2. rest(1) = s
    BY SubSeqFull
  <2> HIDE DEF c, rest
  <2> QED
    BY <1>4, <1>5, <2>1, <2>2
<1>9. DOMAIN c = 1 .. n
  BY <1>2
<1>10. c \in [1 .. n -> Int]
  BY <1>2, <1>4
<1> HIDE DEF c
<1>11. c \in Seq(Int) /\ Len(c) = n
  BY <1>1, <1>10, FunSeq
<1> QED
  BY <1>6, <1>7, <1>8, <1>9, <1>11 DEF c, StridesOf

LEMMA StrideType ==
  ASSUME NEW s \in Seq(Int)
  PROVE  /\ ComputeStrideFromShape(s) \in Seq(Int)
         /\ Len(ComputeStrideFromShape(s)) = Len(s)
         /\ DOMAIN ComputeStrideFromShape(s) = 1 .. Len(s)
         /\ \A i \in 1 .. Len(s) : ComputeStrideFromShape(s)[i] \in Int
<1> DEFINE c == ComputeStrideFromShape(s)
<1>1. c \in Seq(Int) /\ Len(c) = Len(s) /\ DOMAIN c = 1 .. Len(s)
  BY StrideSteps DEF StridesOf
<1> HIDE DEF c
<1>2. \A i \in 1 .. Len(s) : c[i] \in Int
  BY <1>1
<1> QED
  BY <1>1, <1>2 DEF c

LEMMA StrideUnique ==
  ASSUME NEW s \in Seq(Int), NEW c, NEW d, StridesOf(s, c), StridesOf(s, d)
  PROVE  \A i \in 1 .. Len(s) : c[i] = d[i]
<1> DEFINE n == Len(s)
           H == {i \in 1 .. n : c[i] = d[i]}
<1>1. n \in Nat
  OBVIOUS
<1>2. CASE n = 0
  BY <1>2
<1>3. CASE n # 0
  <2>1. n \in H
    BY <1>1, <1>3 DEF StridesOf
  <2>2. \A i \in 1 .. n : i > 1 /\ i \in H => i - 1 \in H
    <3> SUFFICES ASSUME NEW i \in 1 .. n, i > 1, i \in H PROVE i - 1 \in H
      OBVIOUS
    <3>1. i - 1 \in 1 .. n /\ (i - 1) + 1 = i /\ (i - 1) + 1 <= n
      BY <1>1
    <3>2. c[i - 1] = s[i] * c[i] /\ d[i - 1] = s[i] * d[i]
      BY <3>1 DEF StridesOf
    <3> QED
      BY <3>1, <3>2
  <2> HIDE DEF H
  <2>3. \A i \in 1 .. n : i \in H
    BY <1>1, <2>1, <2>2, DownFrom
  <2> QED
    BY <2>3 DEF H
<1> QED
  BY <1>2, <1>3

LEMMA StridePositive ==
  ASSUME NEW s \in Seq(Int), \A i \in 1 .. Len(s) : s[i] >= 1
  PROVE  \A i \in 1 .. Len(s) : ComputeStrideFromShape(s)[i] >= 1
<1> DEFINE n == Len(s)
           c == ComputeStrideFromShape(s)
           H == {i \in 1 .. n : c[i] >= 1}
<1>1. n \in Nat /\ \A i \in 1 .. n : s[i] \in Int
  OBVIOUS
<1>2. StridesOf(s, c) /\ \A i \in 1 .. n : c[i] \in Int
  BY StrideSteps, StrideType
<1> HIDE DEF c
<1>3. CASE n = 0
  BY <1>3
<1>4. CASE n # 0
  <2>1. n \in H
    BY <1>1, <1>2, <1>4 DEF StridesOf
  <2>2. \A i \in 1 .. n : i > 1 /\ i \in H => i - 1 \in H
    <3> SUFFICES ASSUME NEW i \in 1 .. n, i > 1, i \in H PROVE i - 1 \in H
      OBVIOUS
    <3>1. i - 1 \in 1 .. n /\ (i - 1) + 1 = i /\ (i - 1) + 1 <= n
      BY <1>1
    <3>2. c[i - 1] = s[i] * c[i]
      BY <1>2, <3>1 DEF StridesOf
    <3>3. \A a, b \in Int : a >= 1 /\ b >= 1 => a * b >= 1
      OBVIOUS
    <3>4. s[i] * c[i] >= 1
      BY <1>1, <1>2, <3>3, Zenon
    <3> QED
      BY <3>1, <3>2, <3>4
  <2> HIDE DEF H
  <2>3. \A i \in 1 .. n : i \in H
    BY <1>1, <2>1, <2>2, DownFrom
  <2> QED
    BY <2>3 DEF H, c
<1> QED
  BY <1>3, <1>4

(* The last place of a contiguous tensor is one less than its elements.      *)
LEMMA Telescoping ==
  ASSUME NEW s \in Seq(Int)
  PROVE  Added([i \in 1 .. Len(s) |-> (s[i] - 1) * ComputeStrideFromShape(s)[i]])
           = multiply_integers(s) - 1
<1> DEFINE n == Len(s)
           c == ComputeStrideFromShape(s)
           m == multiply_integers(s)
           t == [i \in 1 .. n |-> (s[i] - 1) * c[i]]
           f == [i \in 0 .. n |-> IF i = 0 THEN 0 ELSE m - c[i]]
<1>1. n \in Nat /\ \A i \in 1 .. n : s[i] \in Int
  OBVIOUS
<1>2. StridesOf(s, c) /\ (\A i \in 1 .. n : c[i] \in Int) /\ (n >= 1 => m = s[1] * c[1])
  BY StrideSteps, StrideType
<1>3. m \in Int
  BY ProductType
<1>4. \A i \in 1 .. n : t[i] = (s[i] - 1) * c[i]
  OBVIOUS
<1> HIDE DEF c, m
<1>5. t \in [1 .. n -> Int]
  BY <1>1, <1>2
<1>6. f[0] = 0 /\ \A i \in 1 .. n : f[i] = m - c[i]
  BY <1>1
<1> HIDE DEF t, f
<1>7. t \in Seq(Int) /\ Len(t) = n
  BY <1>1, <1>5, FunSeq
<1>8. ASSUME NEW i \in 0 .. n PROVE f[i] \in Int
  BY <1>2, <1>3, <1>6
<1>9. ASSUME NEW i \in 1 .. n PROVE f[i] = f[i - 1] + t[i]
  <2>0. \A a, b \in Int : (a - 1) * b = a * b - b
    OBVIOUS
  <2>1. t[i] = s[i] * c[i] - c[i]
    BY <1>1, <1>2, <1>4, <2>0, Zenon
  <2>2. CASE i = 1
    <3>1. n >= 1 /\ i - 1 = 0
      BY <1>1, <2>2
    <3>2. m = s[i] * c[i] /\ f[i - 1] = 0 /\ f[i] = m - c[i]
      BY <1>2, <1>6, <2>2, <3>1
    <3>3. t[i] = m - c[i]
      BY <2>1, <3>2
    <3> QED
      BY <1>2, <1>3, <3>2, <3>3
  <2>3. CASE i # 1
    <3>1. i - 1 \in 1 .. n /\ (i - 1) + 1 = i /\ (i - 1) + 1 <= n
      BY <1>1, <2>3
    <3>2. c[i - 1] = s[i] * c[i]
      BY <1>2, <3>1 DEF StridesOf
    <3>3. t[i] = c[i - 1] - c[i] /\ f[i - 1] = m - c[i - 1] /\ f[i] = m - c[i]
      BY <1>6, <2>1, <3>1, <3>2
    <3>4. m - c[i] = (m - c[i - 1]) + (c[i - 1] - c[i])
      <4>1. m \in Int /\ c[i] \in Int /\ c[i - 1] \in Int
        BY <1>2, <1>3, <3>1, Zenon
      <4>2. \A x, y, z \in Int : x - z = (x - y) + (y - z)
        OBVIOUS
      <4> QED
        BY <4>1, <4>2, Zenon
    <3> QED
      BY <3>3, <3>4, Zenon
  <2> QED
    BY <2>2, <2>3
<1>10. Sums(t, f)
  BY <1>6, <1>7, <1>8, <1>9 DEF Sums
<1>11. Added(t) = f[n]
  BY <1>7, <1>10, SumOf
<1>12. f[n] = m - 1
  <2>1. CASE n = 0
    <3>1. m = 1
      BY <2>1, ProductOne DEF m
    <3> QED
      BY <1>6, <2>1, <3>1
  <2>2. CASE n # 0
    <3>1. n \in 1 .. n /\ n >= 1
      BY <1>1, <2>2
    <3>2. c[n] = 1
      BY <1>2, <3>1 DEF StridesOf
    <3> QED
      BY <1>6, <3>1, <3>2
  <2> QED
    BY <2>1, <2>2
<1> QED
  BY <1>11, <1>12 DEF t, c, m

(* A sum without one of its terms, and with another in its place.            *)
LEMMA SumWithout ==
  ASSUME NEW t \in Seq(Int), NEW u \in Seq(Int), NEW k \in 1 .. Len(t), Len(u) + 1 = Len(t),
         \A j \in 1 .. Len(u) : u[j] = IF j < k THEN t[j] ELSE t[j + 1]
  PROVE  Added(t) = Added(u) + t[k]
<1> DEFINE n == Len(u)
<1>1. n \in Nat /\ Len(t) = n + 1 /\ k \in 1 .. n + 1
  OBVIOUS
<1>2. (\A i \in 1 .. n : u[i] \in Int) /\ (\A i \in 1 .. n + 1 : t[i] \in Int) /\ t[k] \in Int
  BY <1>1
<1>3. PICK f : Sums(u, f) /\ Added(u) = f[n]
  BY SumPartial
<1>4. f[0] = 0 /\ (\A i \in 0 .. n : f[i] \in Int) /\ \A i \in 1 .. n : f[i] = f[i - 1] + u[i]
  BY <1>3 DEF Sums
<1> DEFINE g == [i \in 0 .. n + 1 |-> IF i < k THEN f[i] ELSE f[i - 1] + t[k]]
<1>5. \A i \in 0 .. n + 1 : (i < k => g[i] = f[i]) /\ (~(i < k) => g[i] = f[i - 1] + t[k])
  OBVIOUS
<1> HIDE DEF g
<1>6. ASSUME NEW i \in 0 .. n + 1 PROVE g[i] \in Int
  <2>1. CASE i < k
    <3>1. i \in 0 .. n
      BY <1>1, <2>1
    <3> QED
      BY <1>4, <1>5, <2>1, <3>1
  <2>2. CASE ~(i < k)
    <3>1. i - 1 \in 0 .. n
      BY <1>1, <2>2
    <3>2. f[i - 1] \in Int /\ g[i] = f[i - 1] + t[k]
      BY <1>4, <1>5, <2>2, <3>1
    <3> QED
      BY <1>2, <3>2
  <2> QED
    BY <2>1, <2>2
<1>7. ASSUME NEW i \in 1 .. n + 1 PROVE g[i] = g[i - 1] + t[i]
  <2>0. i \in 0 .. n + 1 /\ i - 1 \in 0 .. n + 1 /\ i - 1 \in 0 .. n /\ i \in Int /\ k \in Int
    BY <1>1
  <2>1. CASE i < k
    <3>1. i \in 1 .. n /\ i - 1 < k
      BY <1>1, <2>0, <2>1
    <3>2. g[i] = f[i] /\ g[i - 1] = f[i - 1] /\ u[i] = t[i]
      BY <1>5, <2>0, <2>1, <3>1
    <3> QED
      BY <1>4, <3>1, <3>2
  <2>2. CASE i = k
    <3>1. i - 1 < k /\ ~(i < k)
      BY <2>0, <2>2
    <3>2. g[i] = f[i - 1] + t[k] /\ g[i - 1] = f[i - 1]
      BY <1>5, <2>0, <3>1
    <3> QED
      BY <2>2, <3>2
  <2>3. CASE i > k
    <3>1. ~(i < k) /\ ~(i - 1 < k) /\ i - 1 \in 1 .. n /\ (i - 1) + 1 = i /\ (i - 1) - 1 \in 0 .. n
      BY <1>1, <2>0, <2>3
    <3>2. g[i] = f[i - 1] + t[k] /\ g[i - 1] = f[(i - 1) - 1] + t[k]
      BY <1>5, <2>0, <3>1
    <3>3. u[i - 1] = t[i]
      BY <3>1
    <3>4. f[i - 1] = f[(i - 1) - 1] + t[i]
      BY <1>4, <3>1, <3>3
    <3>5. \A a, b, c \in Int : (a + b) + c = (a + c) + b
      OBVIOUS
    <3>6. f[(i - 1) - 1] \in Int /\ t[i] \in Int /\ t[k] \in Int
      BY <1>2, <1>4, <3>1
    <3>7. (f[(i - 1) - 1] + t[i]) + t[k] = (f[(i - 1) - 1] + t[k]) + t[i]
      BY <3>5, <3>6, Zenon
    <3> QED
      BY <3>2, <3>4, <3>7, Zenon
  <2>4. i < k \/ i = k \/ i > k
    BY <2>0
  <2> QED
    BY <2>1, <2>2, <2>3, <2>4
<1>8. g[0] = 0
  BY <1>1, <1>4, <1>5
<1>9. Sums(t, g)
  BY <1>1, <1>6, <1>7, <1>8 DEF Sums
<1>10. Added(t) = g[n + 1]
  BY <1>1, <1>9, SumOf
<1>11. g[n + 1] = f[n] + t[k]
  <2>1. n + 1 \in 0 .. n + 1 /\ ~(n + 1 < k) /\ (n + 1) - 1 = n
    BY <1>1
  <2> QED
    BY <1>5, <2>1
<1> QED
  BY <1>3, <1>10, <1>11

LEMMA SumExcept ==
  ASSUME NEW t \in Seq(Int), NEW u \in Seq(Int), NEW k \in 1 .. Len(t), Len(u) = Len(t),
         \A j \in 1 .. Len(t) : j # k => u[j] = t[j]
  PROVE  Added(u) = Added(t) - t[k] + u[k]
<1> DEFINE n == Len(t) - 1
           r == [j \in 1 .. n |-> IF j < k THEN t[j] ELSE t[j + 1]]
<1>1. n \in Nat /\ Len(t) = n + 1 /\ k \in 1 .. n + 1 /\ k \in Int
  OBVIOUS
<1>2. \A j \in 1 .. n + 1 : t[j] \in Int /\ u[j] \in Int
  BY <1>1
<1>3. \A j \in 1 .. n : j \in 1 .. n + 1 /\ j + 1 \in 1 .. n + 1 /\ (j < k => j # k) /\ (~(j < k) => j + 1 # k)
  BY <1>1
<1>4. \A j \in 1 .. n : (j < k => r[j] = t[j]) /\ (~(j < k) => r[j] = t[j + 1])
  OBVIOUS
<1>5. r \in [1 .. n -> Int]
  BY <1>2, <1>3
<1> HIDE DEF r
<1>6. r \in Seq(Int) /\ Len(r) = n
  BY <1>1, <1>5, FunSeq
<1>7. \A j \in 1 .. Len(r) : r[j] = IF j < k THEN t[j] ELSE t[j + 1]
  BY <1>4, <1>6
<1>8. ASSUME NEW j \in 1 .. Len(r) PROVE r[j] = IF j < k THEN u[j] ELSE u[j + 1]
  <2>1. j \in 1 .. n
    BY <1>6
  <2>2. CASE j < k
    <3>1. j \in 1 .. Len(t) /\ j # k
      BY <1>1, <1>3, <2>1, <2>2
    <3> QED
      BY <1>4, <2>1, <2>2, <3>1, Zenon
  <2>3. CASE ~(j < k)
    <3>1. j + 1 \in 1 .. Len(t) /\ j + 1 # k
      BY <1>1, <1>3, <2>1, <2>3
    <3> QED
      BY <1>4, <2>1, <2>3, <3>1, Zenon
  <2> QED
    BY <2>2, <2>3
<1>9. Len(r) + 1 = Len(t) /\ Len(r) + 1 = Len(u) /\ k \in 1 .. Len(u)
  BY <1>1, <1>6
<1> HIDE DEF n
<1>10. Added(t) = Added(r) + t[k]
  BY <1>6, <1>7, <1>9, SumWithout
<1>11. Added(u) = Added(r) + u[k]
  BY <1>6, <1>8, <1>9, SumWithout
<1>12. Added(r) \in Int /\ t[k] \in Int /\ u[k] \in Int
  BY <1>1, <1>2, <1>6, SumType
<1> QED
  BY <1>10, <1>11, <1>12

LEMMA DivMod ==
  ASSUME NEW a \in Nat, NEW b \in Nat, b >= 1
  PROVE  a \div b \in Nat /\ a % b \in 0 .. b - 1 /\ a = (a \div b) * b + (a % b)
  OBVIOUS

LEMMA DivModInt ==
  ASSUME NEW a \in Int, NEW b \in Nat, b >= 1
  PROVE  a \div b \in Int /\ a % b \in 0 .. b - 1 /\ a = (a \div b) * b + (a % b)
  OBVIOUS

(* Where the p-th element is: its coordinates.                               *)
Coordinates(sizes, p) ==
  [i \in DOMAIN sizes |-> ((p - 1) \div ComputeStrideFromShape(sizes)[i]) % sizes[i]]

LEMMA CoordinatesType ==
  ASSUME NEW s \in Seq(Int), \A i \in 1 .. Len(s) : s[i] >= 1, NEW p \in Nat, p >= 1
  PROVE  \A i \in 1 .. Len(s) :
           /\ Coordinates(s, p)[i] \in 0 .. s[i] - 1
           /\ Coordinates(s, p)[i] = ((p - 1) \div ComputeStrideFromShape(s)[i]) % s[i]
<1> SUFFICES ASSUME NEW i \in 1 .. Len(s)
             PROVE  /\ Coordinates(s, p)[i] \in 0 .. s[i] - 1
                    /\ Coordinates(s, p)[i]
                         = ((p - 1) \div ComputeStrideFromShape(s)[i]) % s[i]
  OBVIOUS
<1> DEFINE c == ComputeStrideFromShape(s)[i]
<1>1. c \in Int /\ c >= 1
  BY StrideType, StridePositive
<1>2. Coordinates(s, p)[i] = ((p - 1) \div c) % s[i]
  BY DEF Coordinates
<1> HIDE DEF c
<1>3. c \in Nat /\ p - 1 \in Nat /\ s[i] \in Nat /\ s[i] >= 1
  BY <1>1
<1>4. (p - 1) \div c \in Nat
  BY <1>1, <1>3, DivMod
<1>5. ((p - 1) \div c) % s[i] \in 0 .. s[i] - 1
  BY <1>3, <1>4, DivMod
<1> QED
  BY <1>2, <1>5 DEF c

LEMMA ElementsAre ==
  ASSUME NEW s, NEW t, NEW o
  PROVE  /\ DOMAIN Elements(s, t, o) = 1 .. multiply_integers(s)
         /\ \A p \in 1 .. multiply_integers(s) :
              Elements(s, t, o)[p]
                = o + Added([i \in DOMAIN s |-> t[i] * Coordinates(s, p)[i]])
<1>1. \A p : [i \in DOMAIN s |-> t[i] * Coordinates(s, p)[i]]
             = [i \in DOMAIN s |-> t[i] * (((p - 1) \div ComputeStrideFromShape(s)[i]) % s[i])]
  BY DEF Coordinates
<1> QED
  BY <1>1 DEF Elements

\* Strides t and u of sizes s differ only where the size is 1.
SameStrides(s, t, u) ==
  /\ s \in Seq(Int) /\ t \in Seq(Int) /\ u \in Seq(Int)
  /\ Len(t) = Len(s) /\ Len(u) = Len(s)
  /\ \A i \in 1 .. Len(s) : s[i] >= 1 /\ (s[i] = 1 \/ t[i] = u[i])

\* The stride of a dimension of size 1 does not matter.
LEMMA ElementsSame ==
  ASSUME NEW s, NEW t, NEW u, NEW o, SameStrides(s, t, u)
  PROVE  Elements(s, t, o) = Elements(s, u, o)
<1> DEFINE m == multiply_integers(s)
<1>0. /\ s \in Seq(Int) /\ t \in Seq(Int) /\ u \in Seq(Int)
      /\ Len(t) = Len(s) /\ Len(u) = Len(s)
      /\ \A i \in 1 .. Len(s) : s[i] >= 1 /\ (s[i] = 1 \/ t[i] = u[i])
  BY Zenon DEF SameStrides
<1>1. m \in Int
  BY <1>0, ProductType
<1>2. ASSUME NEW p \in 1 .. m
      PROVE  [i \in DOMAIN s |-> t[i] * Coordinates(s, p)[i]]
               = [i \in DOMAIN s |-> u[i] * Coordinates(s, p)[i]]
  <2> SUFFICES ASSUME NEW i \in 1 .. Len(s)
               PROVE  t[i] * Coordinates(s, p)[i] = u[i] * Coordinates(s, p)[i]
    <3>1. DOMAIN s = 1 .. Len(s)
      BY <1>0
    <3> QED
      BY <3>1, Zenon
  <2>1. p \in Nat /\ p >= 1
    BY <1>1
  <2>2. Coordinates(s, p)[i] \in 0 .. s[i] - 1
    BY <1>0, <2>1, CoordinatesType
  <2>3. t[i] \in Int /\ u[i] \in Int /\ s[i] \in Int
    BY <1>0
  <2>4. CASE s[i] = 1
    <3>1. Coordinates(s, p)[i] = 0
      BY <2>2, <2>4
    <3> QED
      BY <2>3, <3>1
  <2>5. CASE t[i] = u[i]
    BY <2>5
  <2> QED
    BY <1>0, <2>4, <2>5
<1>3. \A p \in 1 .. m : Elements(s, t, o)[p] = Elements(s, u, o)[p]
  <2> SUFFICES ASSUME NEW p \in 1 .. m PROVE Elements(s, t, o)[p] = Elements(s, u, o)[p]
    OBVIOUS
  <2>1. /\ Elements(s, t, o)[p] = o + Added([i \in DOMAIN s |-> t[i] * Coordinates(s, p)[i]])
        /\ Elements(s, u, o)[p] = o + Added([i \in DOMAIN s |-> u[i] * Coordinates(s, p)[i]])
    <3>1. Elements(s, t, o)[p] = o + Added([i \in DOMAIN s |-> t[i] * Coordinates(s, p)[i]])
      BY ElementsAre, Zenon
    <3>2. Elements(s, u, o)[p] = o + Added([i \in DOMAIN s |-> u[i] * Coordinates(s, p)[i]])
      BY ElementsAre, Zenon
    <3> QED
      BY <3>1, <3>2
  <2> QED
    BY <1>2, <2>1, Zenon
<1>4. /\ Elements(s, t, o) = [p \in 1 .. m |-> Elements(s, t, o)[p]]
      /\ Elements(s, u, o) = [p \in 1 .. m |-> Elements(s, u, o)[p]]
  BY DEF Elements
<1> QED
  BY <1>3, <1>4, Zenon

(* The last place that a view reads, by dimension.                           *)
Terms(sizes, strides) == [i \in DOMAIN sizes |-> (sizes[i] - 1) * strides[i]]

LEMMA TermsType ==
  ASSUME NEW s \in Seq(Int), NEW t \in Seq(Int), Len(t) = Len(s)
  PROVE  /\ Terms(s, t) \in Seq(Int) /\ Len(Terms(s, t)) = Len(s)
         /\ DOMAIN Terms(s, t) = 1 .. Len(s)
         /\ \A i \in 1 .. Len(s) : Terms(s, t)[i] = (s[i] - 1) * t[i] /\ Terms(s, t)[i] \in Int
<1> DEFINE n == Len(s)
<1>1. n \in Nat /\ DOMAIN s = 1 .. n /\ \A i \in 1 .. n : s[i] \in Int /\ t[i] \in Int
  OBVIOUS
<1>2. \A i \in 1 .. n : Terms(s, t)[i] = (s[i] - 1) * t[i]
  BY DEF Terms
<1>3. \A i \in 1 .. n : (s[i] - 1) * t[i] \in Int
  BY <1>1
<1>4. Terms(s, t) \in [1 .. n -> Int]
  BY <1>1, <1>3 DEF Terms
<1>5. Terms(s, t) \in Seq(Int) /\ Len(Terms(s, t)) = n /\ DOMAIN Terms(s, t) = 1 .. n
  BY <1>1, <1>4, FunSeq
<1> QED
  BY <1>2, <1>3, <1>5

LEMMA ElementsInside ==
  ASSUME NEW s \in Seq(Int), NEW t \in Seq(Int), NEW o \in Int, Len(t) = Len(s),
         \A i \in 1 .. Len(s) : s[i] >= 0 /\ t[i] >= 0
  PROVE  \A p \in 1 .. multiply_integers(s) :
           /\ Elements(s, t, o)[p] \in Int
           /\ \A i \in 1 .. Len(s) : s[i] >= 1
           /\ o <= Elements(s, t, o)[p]
           /\ Elements(s, t, o)[p] <= o + Added(Terms(s, t))
<1> SUFFICES ASSUME NEW p \in 1 .. multiply_integers(s)
             PROVE  /\ Elements(s, t, o)[p] \in Int
                    /\ \A i \in 1 .. Len(s) : s[i] >= 1
                    /\ o <= Elements(s, t, o)[p]
                    /\ Elements(s, t, o)[p] <= o + Added(Terms(s, t))
  OBVIOUS
<1> DEFINE n == Len(s)
           u == [i \in 1 .. n |-> t[i] * Coordinates(s, p)[i]]
<1>1. multiply_integers(s) \in Int
  BY ProductType
<1>2. p \in Nat /\ p >= 1 /\ multiply_integers(s) # 0
  BY <1>1
<1>3. n \in Nat /\ DOMAIN s = 1 .. n /\ \A i \in 1 .. n : s[i] \in Int /\ t[i] \in Int
  OBVIOUS
<1>4. \A i \in 1 .. n : s[i] # 0
  BY <1>2, ProductFactors
<1>5. \A i \in 1 .. n : s[i] >= 1
  BY <1>3, <1>4
<1>6. \A i \in 1 .. n : Coordinates(s, p)[i] \in 0 .. s[i] - 1
  BY <1>2, <1>5, CoordinatesType
<1>7. Elements(s, t, o)[p] = o + Added(u)
  <2>1. Elements(s, t, o)[p] = o + Added([i \in DOMAIN s |-> t[i] * Coordinates(s, p)[i]])
    BY ElementsAre, Zenon
  <2>2. DOMAIN s = 1 .. n
    BY <1>3
  <2> QED
    BY <2>1, <2>2, Zenon
<1>8. ASSUME NEW i \in 1 .. n
      PROVE  u[i] \in Int /\ u[i] >= 0 /\ u[i] <= Terms(s, t)[i]
  <2>1. u[i] = t[i] * Coordinates(s, p)[i]
    OBVIOUS
  <2> HIDE DEF u
  <2>2. \A a, b, c \in Nat : b <= c - 1 => a * b \in Nat /\ a * b <= (c - 1) * a
    OBVIOUS
  <2>3. t[i] \in Nat /\ s[i] \in Nat /\ Coordinates(s, p)[i] \in Nat
        /\ Coordinates(s, p)[i] <= s[i] - 1
    BY <1>3, <1>6
  <2>4. t[i] * Coordinates(s, p)[i] \in Nat
        /\ t[i] * Coordinates(s, p)[i] <= (s[i] - 1) * t[i]
    BY <2>2, <2>3, Zenon
  <2>5. Terms(s, t)[i] = (s[i] - 1) * t[i]
    BY TermsType
  <2> QED
    BY <2>1, <2>4, <2>5
<1>9. u \in [1 .. n -> Int]
  BY <1>8
<1> HIDE DEF u
<1>10. u \in Seq(Int) /\ Len(u) = n
  BY <1>3, <1>9, FunSeq
<1>11. Terms(s, t) \in Seq(Int) /\ Len(Terms(s, t)) = n
  BY TermsType
<1>12. Added(u) >= 0
  BY <1>8, <1>10, SumPositive
<1>13. Added(u) <= Added(Terms(s, t))
  BY <1>8, <1>10, <1>11, SumMonotonic
<1>14. Added(u) \in Int /\ Added(Terms(s, t)) \in Int
  BY <1>10, <1>11, SumType
<1> QED
  BY <1>5, <1>7, <1>12, <1>13, <1>14

(* Sizes and strides of a tensor.                                            *)
ShapeOK(sizes, strides) ==
  sizes \in Seq(Nat \ {0}) /\ strides \in Seq(Nat) /\ Len(sizes) = Len(strides)

LEMMA ShapeType ==
  ASSUME NEW s, NEW t, ShapeOK(s, t)
  PROVE  /\ s \in Seq(Int) /\ t \in Seq(Int) /\ Len(t) = Len(s) /\ Len(s) \in Nat
         /\ DOMAIN s = 1 .. Len(s) /\ DOMAIN t = 1 .. Len(s)
         /\ \A i \in 1 .. Len(s) : s[i] \in Nat /\ s[i] >= 1 /\ t[i] \in Nat
<1>1. s \in Seq(Nat \ {0}) /\ t \in Seq(Nat) /\ Len(s) = Len(t)
  BY DEF ShapeOK
<1>2. Nat \ {0} \subseteq Int /\ Nat \subseteq Int
  OBVIOUS
<1>3. s \in Seq(Int) /\ t \in Seq(Int)
  BY <1>1, <1>2, SeqMonotonic
<1> QED
  BY <1>1, <1>3

(* Reordered is a permutation of the dimensions.                             *)
Rank(d, i) == Cardinality({j \in DOMAIN d.sizes : Before(d, j, i)})

LEMMA RankBelow ==
  ASSUME NEW d, ShapeOK(d.sizes, d.strides)
  PROVE  \A i, j \in 1 .. Len(d.sizes) :
           /\ Rank(d, i) \in 0 .. Len(d.sizes) - 1
           /\ Rank(d, i) = Rank(d, j) => i = j
<1> DEFINE n == Len(d.sizes)
           Below(i) == {j \in 1 .. n : Before(d, j, i)}
<1>1. /\ n \in Nat /\ DOMAIN d.sizes = 1 .. n
      /\ \A i \in 1 .. n : d.sizes[i] \in Nat /\ d.strides[i] \in Nat
  BY ShapeType
<1>2. IsFiniteSet(1 .. n) /\ Cardinality(1 .. n) = n
  <2> HIDE DEF n
  <2>1. 1 \in Int /\ n \in Int /\ n - 1 + 1 = n
    BY <1>1
  <2>2. IsFiniteSet(1 .. n) /\ Cardinality(1 .. n) = IF 1 > n THEN 0 ELSE n - 1 + 1
    BY <2>1, FS_Interval
  <2>3. CASE 1 > n
    <3>1. n = 0
      BY <1>1, <2>3
    <3> QED
      BY <2>2, <2>3, <3>1
  <2>4. CASE ~(1 > n)
    BY <2>1, <2>2, <2>4
  <2> QED
    BY <2>3, <2>4
<1>3. \A i : Rank(d, i) = Cardinality(Below(i))
  BY <1>1 DEF Rank
<1>4. ASSUME NEW i \in 1 .. n
      PROVE  /\ IsFiniteSet(Below(i)) /\ Cardinality(Below(i)) \in Nat
             /\ i \notin Below(i) /\ Cardinality(Below(i)) \in 0 .. n - 1
  <2>1. i \notin Below(i)
    BY <1>1 DEF Before
  <2>2. Below(i) \in SUBSET (1 .. n) /\ Below(i) \union {i} \in SUBSET (1 .. n)
    OBVIOUS
  <2> HIDE DEF Below, n
  <2>3. IsFiniteSet(Below(i))
    BY <1>2, <2>2, FS_Subset
  <2>4. Cardinality(Below(i)) \in Nat
    BY <2>3, FS_CardinalityType
  <2>5. Cardinality(Below(i) \union {i}) = Cardinality(Below(i)) + 1
    BY <2>1, <2>3, FS_AddElement
  <2>6. Cardinality(Below(i) \union {i}) <= Cardinality(1 .. n)
    BY <1>2, <2>2, FS_Subset
  <2> QED
    BY <1>1, <1>2, <2>1, <2>3, <2>4, <2>5, <2>6
<1>5. ASSUME NEW i \in 1 .. n, NEW j \in 1 .. n, Before(d, i, j)
      PROVE  Cardinality(Below(i)) + 1 <= Cardinality(Below(j))
  <2>1. \A k \in 1 .. n : Before(d, k, i) => Before(d, k, j)
    BY <1>1, <1>5 DEF Before
  <2>2. Below(i) \union {i} \in SUBSET Below(j)
    BY <1>5, <2>1
  <2>3. IsFiniteSet(Below(i)) /\ IsFiniteSet(Below(j)) /\ i \notin Below(i)
    BY <1>4
  <2> HIDE DEF Below, n
  <2>4. Cardinality(Below(i) \union {i}) = Cardinality(Below(i)) + 1
    BY <2>3, FS_AddElement
  <2>5. Cardinality(Below(i) \union {i}) <= Cardinality(Below(j))
    BY <2>2, <2>3, FS_Subset
  <2> QED
    BY <2>4, <2>5
<1>6. \A i, j \in 1 .. n : Before(d, i, j) \/ Before(d, j, i) \/ i = j
  BY <1>1 DEF Before
<1> HIDE DEF Below
<1> SUFFICES ASSUME NEW i \in 1 .. n, NEW j \in 1 .. n
             PROVE  /\ Rank(d, i) \in 0 .. n - 1
                    /\ Rank(d, i) = Rank(d, j) => i = j
  BY Zenon
<1>7. Cardinality(Below(i)) \in Nat /\ Cardinality(Below(j)) \in Nat
  BY <1>4
<1>8. ASSUME i # j PROVE Cardinality(Below(i)) # Cardinality(Below(j))
  <2>1. CASE Before(d, i, j)
    BY <1>5, <1>7, <2>1
  <2>2. CASE Before(d, j, i)
    BY <1>5, <1>7, <2>2
  <2> QED
    BY <1>6, <1>8, <2>1, <2>2
<1> QED
  BY <1>3, <1>4, <1>8, Zenon

LEMMA ReorderedPermutes ==
  ASSUME NEW d, ShapeOK(d.sizes, d.strides)
  PROVE  /\ DOMAIN Reordered(d) = 1 .. Len(d.sizes)
         /\ \A k \in 1 .. Len(d.sizes) :
              Reordered(d)[k] \in 1 .. Len(d.sizes) /\ Rank(d, Reordered(d)[k]) = k - 1
         /\ \A i \in 1 .. Len(d.sizes) : \E k \in 1 .. Len(d.sizes) : Reordered(d)[k] = i
<1> DEFINE n == Len(d.sizes)
           rank == [i \in 1 .. n |-> Rank(d, i) + 1]
<1>1. n \in Nat /\ DOMAIN d.sizes = 1 .. n
  BY ShapeType
<1>2. \A i, j \in 1 .. n : Rank(d, i) \in 0 .. n - 1 /\ (Rank(d, i) = Rank(d, j) => i = j)
  BY RankBelow
<1>3. \A i \in 1 .. n : rank[i] = Rank(d, i) + 1 /\ rank[i] \in 1 .. n
  BY <1>1, <1>2
<1>4. rank \in [1 .. n -> 1 .. n]
  BY <1>3
<1>5. \A i, j \in 1 .. n : rank[i] = rank[j] => i = j
  BY <1>2, <1>3
<1>6. IsFiniteSet(1 .. n)
  <2> HIDE DEF n
  <2>1. 1 \in Int /\ n \in Int
    BY <1>1
  <2> QED
    BY <2>1, FS_Interval
<1> HIDE DEF rank, n
<1>7. rank \in Injection(1 .. n, 1 .. n)
  BY <1>4, <1>5 DEF Injection, IsInjective
<1>8. rank \in Surjection(1 .. n, 1 .. n)
  BY <1>6, <1>7, FS_Injection
<1>9. \A k \in 1 .. n : \E i \in 1 .. n : rank[i] = k
  BY <1>8 DEF Surjection
<1>10. DOMAIN Reordered(d) = 1 .. n
       /\ \A k \in 1 .. n : Reordered(d)[k] = CHOOSE i \in 1 .. n : Rank(d, i) = k - 1
  BY <1>1 DEF Reordered, Rank
<1>11. ASSUME NEW k \in 1 .. n
       PROVE  Reordered(d)[k] \in 1 .. n /\ Rank(d, Reordered(d)[k]) = k - 1
  <2>1. PICK i \in 1 .. n : rank[i] = k
    BY <1>9
  <2>2. Rank(d, i) = k - 1
    BY <1>2, <1>3, <2>1
  <2> QED
    BY <1>10, <2>2, Zenon
<1>12. ASSUME NEW i \in 1 .. n PROVE \E k \in 1 .. n : Reordered(d)[k] = i
  <2>1. rank[i] \in 1 .. n /\ rank[i] - 1 = Rank(d, i)
    BY <1>2, <1>3
  <2>2. Reordered(d)[rank[i]] \in 1 .. n /\ Rank(d, Reordered(d)[rank[i]]) = Rank(d, i)
    BY <1>11, <2>1
  <2>3. Reordered(d)[rank[i]] = i
    BY <1>2, <2>2
  <2> QED
    BY <2>1, <2>3
<1> QED
  BY <1>10, <1>11, <1>12 DEF n

(* A description of a view and of its storage.                               *)
DescOK(d) ==
  ShapeOK(d.sizes, d.strides) /\ ShapeOK(d.base_sizes, d.base_strides) /\ d.offset \in Nat

LEMMA ReshapeExact ==
  ASSUME NEW d, ShapeOK(d.sizes, d.strides), is_contiguous(d), NEW p, p.sizes = d.sizes
  PROVE  reshape_out(d, p) = Elements(d.sizes, d.strides, d.offset)
<1> DEFINE s == d.sizes
           c == ComputeStrideFromShape(s)
<1>1. s \in Seq(Int) /\ d.strides \in Seq(Int) /\ Len(d.strides) = Len(s)
      /\ DOMAIN s = 1 .. Len(s) /\ \A i \in 1 .. Len(s) : s[i] >= 1
  BY ShapeType
<1>2. c \in Seq(Int) /\ Len(c) = Len(s)
  BY <1>1, StrideType
<1>3. \A i \in 1 .. Len(s) : s[i] = 1 \/ c[i] = d.strides[i]
  BY <1>1 DEF is_contiguous
<1> HIDE DEF c
<1>4. \A i \in 1 .. Len(s) : s[i] >= 1 /\ (s[i] = 1 \/ c[i] = d.strides[i])
  BY <1>1, <1>3, Zenon
<1>5. Elements(s, c, d.offset) = Elements(s, d.strides, d.offset)
  <2> HIDE DEF s
  <2> QED
    <3>1. SameStrides(s, c, d.strides)
      BY <1>1, <1>2, <1>4, Zenon DEF SameStrides
    <3> QED
      BY <3>1, ElementsSame, Zenon
<1> QED
  BY <1>5 DEF reshape_out, c

LEMMA SeqFun ==
  ASSUME NEW s \in Seq(Int), NEW n, DOMAIN s = 1 .. n
  PROVE  [k \in 1 .. n |-> s[k]] = s
  OBVIOUS

LEMMA PermuteExact ==
  ASSUME NEW d, ShapeOK(d.sizes, d.strides), NEW p \in can_use_permute(d)
  PROVE  permute_to_contiguous(d, p) = Elements(d.sizes, d.strides, d.offset)
<1> DEFINE n == Len(d.sizes)
           r == Reordered(d)
           sizes == [i \in 1 .. n |-> d.sizes[r[i]]]
           c == ComputeStrideFromShape(p.sizes)
<1>1. /\ d.sizes \in Seq(Int) /\ d.strides \in Seq(Int) /\ n \in Nat
      /\ DOMAIN d.sizes = 1 .. n /\ DOMAIN d.strides = 1 .. n
  BY ShapeType
<1>2. /\ DOMAIN r = 1 .. n /\ \A k \in 1 .. n : r[k] \in 1 .. n
      /\ \A i \in 1 .. n : \E k \in 1 .. n : r[k] = i
  BY ReorderedPermutes
<1>3. /\ p = [sizes |-> sizes, perm |-> Placed(r)]
      /\ [i \in 1 .. n |-> d.strides[r[i]]] = ComputeStrideFromShape(sizes)
  BY <1>2 DEF can_use_permute
<1>4. p.sizes = sizes /\ p.perm = Placed(r) /\ c = [i \in 1 .. n |-> d.strides[r[i]]]
  BY <1>3
<1>5. Placed(r) = [k \in 1 .. n |-> CHOOSE i \in 1 .. n : r[i] = k]
  BY <1>2, Zenon DEF Placed
<1> HIDE DEF r, c
<1>6. \A k \in 1 .. n : p.perm[k] \in 1 .. n /\ r[p.perm[k]] = k
  <2> SUFFICES ASSUME NEW k \in 1 .. n PROVE p.perm[k] \in 1 .. n /\ r[p.perm[k]] = k
    OBVIOUS
  <2>1. p.perm[k] = CHOOSE i \in 1 .. n : r[i] = k
    BY <1>4, <1>5
  <2>2. \E i \in 1 .. n : r[i] = k
    BY <1>2
  <2> QED
    BY <2>1, <2>2, Zenon
<1>7. DOMAIN p.perm = 1 .. n
  BY <1>4, <1>5
<1>8. \A k \in 1 .. n : p.sizes[p.perm[k]] = d.sizes[k] /\ c[p.perm[k]] = d.strides[k]
  BY <1>4, <1>6
<1>9. /\ [k \in DOMAIN p.perm |-> p.sizes[p.perm[k]]] = [k \in 1 .. n |-> d.sizes[k]]
      /\ [k \in DOMAIN p.perm |-> c[p.perm[k]]] = [k \in 1 .. n |-> d.strides[k]]
  BY <1>7, <1>8
<1>10. [k \in 1 .. n |-> d.sizes[k]] = d.sizes /\ [k \in 1 .. n |-> d.strides[k]] = d.strides
  BY <1>1, SeqFun, Zenon
<1> QED
  BY <1>9, <1>10, Zenon DEF permute_to_contiguous, c

LEMMA BroadcastExact ==
  ASSUME NEW d, DescOK(d), NEW p \in can_use_broadcast(d)
  PROVE  broadcast_to_contiguous(d, p) = Elements(d.sizes, d.strides, d.offset)
<1> DEFINE s == d.sizes
           t == d.strides
           n == Len(s)
           src == [i \in 1 .. n |-> IF t[i] = 0 THEN 1 ELSE s[i]]
           c == ComputeStrideFromShape(src)
           u == [i \in 1 .. n |-> IF src[i] = 1 THEN 0 ELSE c[i]]
<1>1. /\ s \in Seq(Int) /\ t \in Seq(Int) /\ Len(t) = n /\ n \in Nat /\ DOMAIN s = 1 .. n
      /\ \A i \in 1 .. n : s[i] \in Nat /\ s[i] >= 1 /\ t[i] \in Nat
  BY ShapeType DEF DescOK
<1>2. p = [src_size |-> src]
  BY <1>1 DEF can_use_broadcast
<1>3. is_contiguous([sizes |-> src, strides |-> t])
  <2>1. ASSUME ~is_contiguous([sizes |-> src, strides |-> t]) PROVE FALSE
    BY <1>1, <2>1 DEF can_use_broadcast
  <2> QED
    BY <2>1
<1>4. src \in [1 .. n -> Int]
  BY <1>1
<1>5. src \in Seq(Int) /\ Len(src) = n /\ DOMAIN src = 1 .. n
  BY <1>1, <1>4, FunSeq
<1>6. \A i \in 1 .. n : (t[i] = 0 => src[i] = 1) /\ (t[i] # 0 => src[i] = s[i])
  OBVIOUS
<1> HIDE DEF src
<1>7. \A i \in 1 .. n : c[i] \in Int
  BY <1>5, StrideType
<1>8. \A i \in 1 .. n : src[i] # 1 => t[i] = c[i]
  BY <1>3, <1>5 DEF is_contiguous
<1> HIDE DEF c
<1>9. \A i \in 1 .. n : (src[i] = 1 => u[i] = 0) /\ (src[i] # 1 => u[i] = c[i])
  OBVIOUS
<1>10. \A i \in 1 .. n : u[i] \in Int
  BY <1>7, <1>9
<1>11. u \in [1 .. n -> Int]
  BY <1>10
<1>12. broadcast_to_contiguous(d, p) = Elements(s, u, d.offset)
  BY <1>1, <1>2, Zenon DEF broadcast_to_contiguous, c, u
<1> HIDE DEF u
<1>13. u \in Seq(Int) /\ Len(u) = n
  BY <1>1, <1>11, FunSeq
<1>14. \A i \in 1 .. n : s[i] >= 1 /\ (s[i] = 1 \/ u[i] = t[i])
  BY <1>1, <1>6, <1>8, <1>9
<1>15. Elements(s, u, d.offset) = Elements(s, t, d.offset)
  <2>1. s \in Seq(Int) /\ t \in Seq(Int) /\ u \in Seq(Int) /\ Len(u) = Len(s) /\ Len(t) = Len(s)
    BY <1>1, <1>13
  <2>2. \A i \in 1 .. Len(s) : s[i] >= 1 /\ (s[i] = 1 \/ u[i] = t[i])
    BY <1>14
  <2> HIDE DEF s, t, n
  <2> QED
    <3>1. SameStrides(s, u, t)
      BY <2>1, <2>2, Zenon DEF SameStrides
    <3> QED
      BY <3>1, ElementsSame, Zenon
<1> QED
  BY <1>12, <1>15

(* A dimension of size 1 at the end changes nothing.                         *)
LEMMA StrideAppended ==
  ASSUME NEW s \in Seq(Int)
  PROVE  /\ Append(s, 1) \in Seq(Int) /\ Len(Append(s, 1)) = Len(s) + 1
         /\ \A i \in 1 .. Len(s) :
              ComputeStrideFromShape(Append(s, 1))[i] = ComputeStrideFromShape(s)[i]
         /\ ComputeStrideFromShape(Append(s, 1))[Len(s) + 1] = 1
         /\ multiply_integers(Append(s, 1)) = multiply_integers(s)
<1> DEFINE n == Len(s)
           a == Append(s, 1)
           c == ComputeStrideFromShape(a)
           e == [i \in 1 .. n |-> c[i]]
<1>1. n \in Nat /\ \A i \in 1 .. n : s[i] \in Int
  OBVIOUS
<1>2. a \in Seq(Int) /\ Len(a) = n + 1 /\ (\A i \in 1 .. n : a[i] = s[i]) /\ a[n + 1] = 1
  BY AppendProperties
<1> HIDE DEF a, n
<1>3. /\ StridesOf(a, c) /\ (\A i \in 1 .. n + 1 : c[i] \in Int)
      /\ multiply_integers(a) = a[1] * c[1]
  <2>1. a \in Seq(Int) /\ Len(a) >= 1
    BY <1>1, <1>2
  <2>2. StridesOf(a, c) /\ multiply_integers(a) = a[1] * c[1]
    BY <2>1, StrideSteps
  <2>3. \A i \in 1 .. Len(a) : c[i] \in Int
    BY <2>1, StrideType
  <2> QED
    BY <1>2, <2>2, <2>3
<1> HIDE DEF c
<1>4. c[n + 1] = 1
  BY <1>1, <1>2, <1>3 DEF StridesOf
<1>5. \A i \in 1 .. n : c[i] = a[i + 1] * c[i + 1]
  BY <1>1, <1>2, <1>3 DEF StridesOf
<1>6. \A i \in 1 .. n : i \in 1 .. n + 1 /\ e[i] = c[i]
  BY <1>1
<1>7. e \in [1 .. n -> Int]
  BY <1>3, <1>6
<1> HIDE DEF e
<1>8. e \in Seq(Int) /\ Len(e) = n
  BY <1>1, <1>7, FunSeq
<1>9. n >= 1 => e[n] = 1
  <2> SUFFICES ASSUME n >= 1 PROVE e[n] = 1
    OBVIOUS
  <2>1. n \in 1 .. n
    BY <1>1
  <2>2. c[n] = a[n + 1] * c[n + 1] /\ e[n] = c[n]
    BY <1>5, <1>6, <2>1
  <2> QED
    BY <1>2, <1>4, <2>2
<1>10. ASSUME NEW i \in 1 .. n, i + 1 <= n PROVE e[i] = s[i + 1] * e[i + 1]
  <2>1. i + 1 \in 1 .. n
    BY <1>1, <1>10
  <2> QED
    BY <1>2, <1>5, <1>6, <2>1
<1>11. StridesOf(s, e)
  BY <1>8, <1>9, <1>10 DEF StridesOf, n
<1>12. \A i \in 1 .. n : e[i] = ComputeStrideFromShape(s)[i]
  BY <1>11, StrideSteps, StrideUnique DEF n
<1>13. multiply_integers(a) = multiply_integers(s)
  <2>1. CASE n = 0
    <3>1. a[1] = 1 /\ c[1] = 1
      BY <1>2, <1>4, <2>1
    <3>2. multiply_integers(s) = 1
      BY <2>1, ProductOne DEF n
    <3> QED
      BY <1>3, <3>1, <3>2
  <2>2. CASE n # 0
    <3>1. n >= 1 /\ 1 \in 1 .. n
      BY <1>1, <2>2
    <3>2. multiply_integers(s) = s[1] * ComputeStrideFromShape(s)[1]
      BY <3>1, StrideSteps DEF n
    <3>3. a[1] = s[1] /\ c[1] = ComputeStrideFromShape(s)[1]
      BY <1>2, <1>6, <1>12, <3>1
    <3> QED
      BY <1>3, <3>2, <3>3
  <2> QED
    BY <2>1, <2>2
<1> QED
  BY <1>2, <1>4, <1>6, <1>12, <1>13 DEF a, c, n

LEMMA ElementsAppended ==
  ASSUME NEW s, NEW t, ShapeOK(s, t), NEW o
  PROVE  Elements(Append(s, 1), Append(t, 1), o) = Elements(s, t, o)
<1> DEFINE n == Len(s)
           a == Append(s, 1)
           b == Append(t, 1)
           m == multiply_integers(s)
<1>1. /\ s \in Seq(Int) /\ t \in Seq(Int) /\ Len(t) = n /\ n \in Nat /\ DOMAIN s = 1 .. n
      /\ \A i \in 1 .. n : s[i] \in Int /\ s[i] >= 1 /\ t[i] \in Int
  BY ShapeType
<1>2. /\ a \in Seq(Int) /\ Len(a) = n + 1 /\ DOMAIN a = 1 .. n + 1
      /\ (\A i \in 1 .. n : a[i] = s[i]) /\ a[n + 1] = 1
  BY <1>1, AppendProperties
<1>3. (\A i \in 1 .. n : b[i] = t[i]) /\ b[n + 1] = 1
  BY <1>1, AppendProperties
<1>4. /\ \A i \in 1 .. n : ComputeStrideFromShape(a)[i] = ComputeStrideFromShape(s)[i]
      /\ ComputeStrideFromShape(a)[n + 1] = 1 /\ multiply_integers(a) = m
  BY <1>1, StrideAppended
<1>5. m \in Int
  BY <1>1, ProductType
<1> HIDE DEF a, b, m
<1>6. ASSUME NEW p \in 1 .. m
      PROVE  Added([i \in DOMAIN a |-> b[i] * Coordinates(a, p)[i]])
               = Added([i \in DOMAIN s |-> t[i] * Coordinates(s, p)[i]])
  <2> DEFINE x == [i \in 1 .. n + 1 |-> b[i] * Coordinates(a, p)[i]]
             y == [i \in 1 .. n |-> t[i] * Coordinates(s, p)[i]]
  <2>1. p \in Nat /\ p >= 1 /\ p - 1 \in Nat
    BY <1>5
  <2>2. \A i \in 1 .. n : /\ Coordinates(s, p)[i] \in 0 .. s[i] - 1
                          /\ Coordinates(s, p)[i]
                               = ((p - 1) \div ComputeStrideFromShape(s)[i]) % s[i]
    BY <1>1, <2>1, CoordinatesType
  <2>3. \A i \in 1 .. n + 1 :
          Coordinates(a, p)[i] = ((p - 1) \div ComputeStrideFromShape(a)[i]) % a[i]
    BY <1>2 DEF Coordinates
  <2>4. Coordinates(a, p)[n + 1] = 0
    <3>1. n + 1 \in 1 .. n + 1
      BY <1>1
    <3>2. Coordinates(a, p)[n + 1] = ((p - 1) \div 1) % 1
      BY <1>2, <1>4, <2>3, <3>1
    <3>3. ((p - 1) \div 1) % 1 = 0
      BY <2>1
    <3> QED
      BY <3>2, <3>3
  <2>5. \A i \in 1 .. n : i \in 1 .. n + 1 /\ Coordinates(a, p)[i] = Coordinates(s, p)[i]
    <3> SUFFICES ASSUME NEW i \in 1 .. n
                 PROVE  i \in 1 .. n + 1 /\ Coordinates(a, p)[i] = Coordinates(s, p)[i]
      OBVIOUS
    <3>1. i \in 1 .. n + 1
      BY <1>1
    <3>2. /\ Coordinates(a, p)[i] = ((p - 1) \div ComputeStrideFromShape(a)[i]) % a[i]
          /\ Coordinates(s, p)[i] = ((p - 1) \div ComputeStrideFromShape(s)[i]) % s[i]
          /\ ComputeStrideFromShape(a)[i] = ComputeStrideFromShape(s)[i] /\ a[i] = s[i]
      BY <1>2, <1>4, <2>2, <2>3, <3>1
    <3> QED
      BY <3>1, <3>2, Zenon
  <2>6. \A i \in 1 .. n : x[i] = y[i] /\ y[i] = t[i] * Coordinates(s, p)[i]
    BY <1>3, <2>5
  <2>7. x[n + 1] = 0 /\ DOMAIN x = 1 .. n + 1
    <3>1. x[n + 1] = b[n + 1] * Coordinates(a, p)[n + 1]
      BY <1>1
    <3> QED
      BY <1>3, <2>4, <3>1
  <2> HIDE DEF x, y
  <2>8. ASSUME NEW i \in 1 .. n PROVE y[i] \in Int
    <3>1. t[i] \in Int /\ Coordinates(s, p)[i] \in Int
      BY <1>1, <2>2
    <3> QED
      BY <2>6, <3>1
  <2>9. ASSUME NEW i \in 1 .. n + 1 PROVE x[i] \in Int
    <3>1. i \in 1 .. n \/ i = n + 1
      BY <1>1
    <3> QED
      BY <2>6, <2>7, <2>8, <3>1
  <2>10. y \in Seq(Int) /\ Len(y) = n
    <3>1. y \in [1 .. n -> Int]
      BY <2>8 DEF y
    <3> QED
      BY <1>1, <3>1, FunSeq
  <2>11. x \in Seq(Int) /\ Len(x) = n + 1
    <3>1. x \in [1 .. n + 1 -> Int]
      BY <2>9 DEF x
    <3>2. n + 1 \in Nat
      BY <1>1
    <3> QED
      BY <3>1, <3>2, FunSeq
  <2>12. \A j \in 1 .. Len(y) : y[j] = IF j < n + 1 THEN x[j] ELSE x[j + 1]
    <3> SUFFICES ASSUME NEW j \in 1 .. n PROVE y[j] = IF j < n + 1 THEN x[j] ELSE x[j + 1]
      BY <2>10
    <3>1. j < n + 1
      BY <1>1
    <3> QED
      BY <2>6, <3>1
  <2>13. n + 1 \in 1 .. Len(x) /\ Len(y) + 1 = Len(x)
    BY <1>1, <2>10, <2>11
  <2>14. Added(x) = Added(y) + x[n + 1]
    BY <2>10, <2>11, <2>12, <2>13, SumWithout
  <2>15. Added(y) \in Int
    BY <2>10, SumType
  <2>16. Added(x) = Added(y)
    BY <2>7, <2>14, <2>15
  <2> QED
    BY <1>1, <1>2, <2>16 DEF x, y
<1>7. /\ Elements(a, b, o) = [p \in 1 .. m |-> Elements(a, b, o)[p]]
      /\ Elements(s, t, o) = [p \in 1 .. m |-> Elements(s, t, o)[p]]
  BY <1>4 DEF Elements, m
<1>8. \A p \in 1 .. m : Elements(a, b, o)[p] = Elements(s, t, o)[p]
  <2> SUFFICES ASSUME NEW p \in 1 .. m PROVE Elements(a, b, o)[p] = Elements(s, t, o)[p]
    OBVIOUS
  <2>1. /\ Elements(a, b, o)[p] = o + Added([i \in DOMAIN a |-> b[i] * Coordinates(a, p)[i]])
        /\ Elements(s, t, o)[p] = o + Added([i \in DOMAIN s |-> t[i] * Coordinates(s, p)[i]])
    BY <1>4, ElementsAre DEF m
  <2> QED
    BY <1>6, <2>1, Zenon
<1> QED
  BY <1>7, <1>8, Zenon DEF a, b

(* An offset taken apart with the strides.                                   *)
LEMMA LeftSteps ==
  ASSUME NEW o \in Nat, NEW t \in Seq(Nat), \A i \in 1 .. Len(t) : t[i] # 0
  PROVE  /\ Left(o, t)[0] = o /\ \A i \in 0 .. Len(t) : Left(o, t)[i] \in Nat
         /\ \A i \in 1 .. Len(t) : Left(o, t)[i] = Left(o, t)[i - 1] % t[i]
<1> DEFINE n == Len(t)
           E(f) == f = [i \in 0 .. n |-> IF i = 0 THEN o ELSE f[i - 1] % t[i]]
           p == CHOOSE f : E(f)
           G == [x \in Nat \X (1 .. n) |-> x[1] % t[x[2]]]
<1>1. n \in Nat /\ \A i \in 1 .. n : t[i] \in Nat /\ t[i] >= 1
  OBVIOUS
<1>2. \A a, b \in Nat : b >= 1 => a % b \in Nat
  OBVIOUS
<1>3. \A x \in Nat \X (1 .. n) : x[1] % t[x[2]] \in Nat
  BY <1>1, <1>2
<1>4. G \in [Nat \X (1 .. n) -> Nat]
  BY <1>3
<1>5. \A f : E(f) <=> Steps(n, o, G, f)
  <2> SUFFICES ASSUME NEW f PROVE E(f) <=> Steps(n, o, G, f)
    OBVIOUS
  <2>1. ASSUME Steps(n, o, G, f) PROVE \A i \in 0 .. n : f[i] \in Nat
    BY <2>1, <1>1, <1>4, StepsTyped
  <2>2. ASSUME E(f) PROVE \A i \in 0 .. n : f[i] \in Nat
    <3> DEFINE H == {i \in 0 .. n : f[i] \in Nat}
    <3>0. 0 \in 0 .. n /\ \A i \in 1 .. n : i \in 0 .. n /\ i # 0
      BY <1>1
    <3>1. f[0] = o /\ \A i \in 1 .. n : f[i] = f[i - 1] % t[i]
      BY <2>2, <3>0, Zenon
    <3>2. 0 \in H
      BY <3>0, <3>1
    <3>3. \A i \in 0 .. n : i + 1 <= n /\ i \in H => i + 1 \in H
      <4> SUFFICES ASSUME NEW i \in 0 .. n, i + 1 <= n, i \in H PROVE i + 1 \in H
        OBVIOUS
      <4>1. i + 1 \in 1 .. n /\ (i + 1) - 1 = i /\ i + 1 \in 0 .. n
        OBVIOUS
      <4>2. f[i + 1] = f[i] % t[i + 1] /\ f[i] \in Nat /\ t[i + 1] \in Nat /\ t[i + 1] >= 1
        BY <1>1, <3>1, <4>1
      <4>3. f[i] % t[i + 1] \in Nat
        BY <1>2, <4>2, Zenon
      <4> QED
        BY <4>1, <4>2, <4>3
    <3> HIDE DEF H
    <3>4. \A i \in 0 .. n : i \in H
      BY <1>1, <3>2, <3>3, UpTo
    <3> QED
      BY <3>4 DEF H
  <2>3. ASSUME E(f) \/ Steps(n, o, G, f), NEW i \in 0 .. n, i # 0
        PROVE  G[<<f[i - 1], i>>] = f[i - 1] % t[i]
    <3>1. i \in 1 .. n /\ i - 1 \in 0 .. n
      BY <1>1, <2>3
    <3>2. f[i - 1] \in Nat
      BY <2>1, <2>2, <2>3, <3>1
    <3>3. <<f[i - 1], i>> \in Nat \X (1 .. n)
      BY <3>1, <3>2
    <3> QED
      BY <3>3
  <2> QED
    BY <2>3 DEF Steps
<1>6. \E f : E(f)
  BY <1>1, <1>5, StepsExist
<1>7. E(p)
  BY <1>6
<1>8. Left(o, t) = p
  BY DEF Left
<1> HIDE DEF p, G
<1>9. Steps(n, o, G, p)
  BY <1>5, <1>7
<1>10. \A i \in 0 .. n : p[i] \in Nat
  BY <1>1, <1>4, <1>9, StepsTyped
<1>11. p[0] = o /\ \A i \in 1 .. n : p[i] = p[i - 1] % t[i]
  <2>1. 0 \in 0 .. n /\ \A i \in 1 .. n : i \in 0 .. n /\ i # 0
    BY <1>1
  <2> QED
    BY <1>7, <2>1, Zenon
<1> QED
  BY <1>8, <1>10, <1>11

LEMMA LocationSum ==
  ASSUME NEW o \in Nat, NEW t \in Seq(Nat), \A i \in 1 .. Len(t) : t[i] # 0
  PROVE  /\ DOMAIN Location(o, t) = 1 .. Len(t)
         /\ \A i \in 1 .. Len(t) : Location(o, t)[i] \in Nat
         /\ Added([i \in 1 .. Len(t) |-> Location(o, t)[i] * t[i]]) = o - Left(o, t)[Len(t)]
<1> DEFINE n == Len(t)
           l == Left(o, t)
           x == [i \in 1 .. n |-> Location(o, t)[i] * t[i]]
           f == [i \in 0 .. n |-> o - l[i]]
<1>1. n \in Nat /\ DOMAIN t = 1 .. n /\ \A i \in 1 .. n : t[i] \in Nat /\ t[i] >= 1
  OBVIOUS
<1>2. l[0] = o /\ (\A i \in 0 .. n : l[i] \in Nat) /\ \A i \in 1 .. n : l[i] = l[i - 1] % t[i]
  BY LeftSteps
<1>3. DOMAIN Location(o, t) = 1 .. n /\ \A i \in 1 .. n : Location(o, t)[i] = l[i - 1] \div t[i]
  BY <1>1 DEF Location
<1> HIDE DEF l
<1>4. ASSUME NEW i \in 1 .. n
      PROVE  /\ Location(o, t)[i] \in Nat /\ l[i - 1] \in Nat /\ l[i] \in Nat
             /\ l[i - 1] = Location(o, t)[i] * t[i] + l[i]
  <2>1. i - 1 \in 0 .. n /\ i \in 0 .. n
    BY <1>1
  <2>2. l[i - 1] \in Nat /\ l[i] \in Nat /\ t[i] \in Nat /\ t[i] >= 1
    BY <1>1, <1>2, <2>1
  <2>3. /\ l[i - 1] \div t[i] \in Nat
        /\ l[i - 1] = (l[i - 1] \div t[i]) * t[i] + (l[i - 1] % t[i])
    BY <2>2, DivMod
  <2> QED
    BY <1>2, <1>3, <2>2, <2>3
<1>5. \A i \in 1 .. n : x[i] = Location(o, t)[i] * t[i]
  OBVIOUS
<1>6. \A i \in 0 .. n : f[i] = o - l[i]
  OBVIOUS
<1> HIDE DEF f
<1>7. ASSUME NEW i \in 1 .. n PROVE x[i] \in Int
  BY <1>1, <1>4, <1>5
<1>8. x \in [1 .. n -> Int]
  BY <1>7
<1> HIDE DEF x
<1>9. x \in Seq(Int) /\ Len(x) = n
  BY <1>1, <1>8, FunSeq
<1>10. ASSUME NEW i \in 0 .. n PROVE f[i] \in Int
  BY <1>2, <1>6
<1>11. f[0] = 0
  BY <1>1, <1>2, <1>6
<1>12. ASSUME NEW i \in 1 .. n PROVE f[i] = f[i - 1] + x[i]
  <2>1. i - 1 \in 0 .. n /\ i \in 0 .. n
    BY <1>1
  <2>2. f[i] = o - l[i] /\ f[i - 1] = o - l[i - 1]
    BY <1>6, <2>1
  <2>3. x[i] \in Int /\ l[i - 1] = x[i] + l[i] /\ l[i - 1] \in Int /\ l[i] \in Int
    BY <1>4, <1>5, <1>7
  <2> QED
    BY <2>2, <2>3
<1>13. Sums(x, f)
  BY <1>9, <1>10, <1>11, <1>12 DEF Sums
<1>14. Added(x) = f[n]
  BY <1>9, <1>13, SumOf
<1>15. f[n] = o - l[n]
  BY <1>1, <1>6
<1> QED
  BY <1>3, <1>4, <1>14, <1>15 DEF x, l

(* The view that can_use_slice looks for.                                    *)
LEMMA SlicedShape ==
  ASSUME NEW d, ShapeOK(d.sizes, d.strides)
  PROVE  /\ ShapeOK(Sliced(d).sizes, Sliced(d).strides)
         /\ \A o : Elements(Sliced(d).sizes, Sliced(d).strides, o)
                     = Elements(d.sizes, d.strides, o)
<1>1. /\ Sliced(d).sizes = IF SelectsLast(d) THEN Append(d.sizes, 1) ELSE d.sizes
      /\ Sliced(d).strides = IF SelectsLast(d) THEN Append(d.strides, 1) ELSE d.strides
  BY DEF Sliced
<1>2. CASE SelectsLast(d)
  <2>1. Sliced(d).sizes = Append(d.sizes, 1) /\ Sliced(d).strides = Append(d.strides, 1)
    BY <1>1, <1>2
  <2>2. ShapeOK(Append(d.sizes, 1), Append(d.strides, 1))
    <3>1. 1 \in Nat \ {0} /\ 1 \in Nat
      OBVIOUS
    <3>2. d.sizes \in Seq(Nat \ {0}) /\ d.strides \in Seq(Nat) /\ Len(d.sizes) = Len(d.strides)
      BY DEF ShapeOK
    <3>3. Append(d.sizes, 1) \in Seq(Nat \ {0}) /\ Len(Append(d.sizes, 1)) = Len(d.sizes) + 1
      BY <3>1, <3>2, AppendProperties
    <3>4. Append(d.strides, 1) \in Seq(Nat) /\ Len(Append(d.strides, 1)) = Len(d.strides) + 1
      BY <3>1, <3>2, AppendProperties
    <3> QED
      BY <3>2, <3>3, <3>4 DEF ShapeOK
  <2> QED
    BY <2>1, <2>2, ElementsAppended
<1>3. CASE ~SelectsLast(d)
  BY <1>1, <1>3
<1> QED
  BY <1>2, <1>3

LEMMA SliceExact ==
  ASSUME NEW d, DescOK(d), NEW p \in can_use_slice(d)
  PROVE  slice_to_contiguous(d, p) = Elements(d.sizes, d.strides, d.offset)
<1> DEFINE v == Sliced(d)
           n == Len(v.strides)
           l == Location(d.offset, v.strides)
<1>1. ShapeOK(v.sizes, v.strides) /\ ShapeOK(d.base_sizes, d.base_strides) /\ d.offset \in Nat
  BY SlicedShape DEF DescOK
<1>2. p = [offsets |-> l, sizes |-> v.sizes]
  BY DEF can_use_slice
<1>3. SmallerSlice(d) /\ ~Divides0(d)
  <2>1. ASSUME ~(SmallerSlice(d) /\ ~Divides0(d)) PROVE FALSE
    BY <2>1 DEF can_use_slice
  <2> QED
    BY <2>1
<1>4. Left(d.offset, v.strides)[n] = 0
  <2>1. ASSUME Left(d.offset, v.strides)[n] # 0 PROVE FALSE
    BY <2>1 DEF can_use_slice
  <2> QED
    BY <2>1
<1>5. v.strides = d.base_strides /\ 0 \notin Range(v.strides)
  BY <1>3 DEF SmallerSlice, Divides0
<1> HIDE DEF v
<1>6. /\ DOMAIN v.sizes = 1 .. n /\ DOMAIN v.strides = 1 .. n /\ n \in Nat
      /\ v.strides \in Seq(Nat) /\ \A i \in 1 .. n : v.strides[i] \in Nat
  <2>1. /\ DOMAIN v.sizes = 1 .. Len(v.sizes) /\ DOMAIN v.strides = 1 .. Len(v.sizes)
        /\ Len(v.strides) = Len(v.sizes) /\ Len(v.sizes) \in Nat
        /\ \A i \in 1 .. Len(v.sizes) : v.strides[i] \in Nat
    BY <1>1, ShapeType
  <2> QED
    BY <1>1, <2>1 DEF ShapeOK
<1>7. \A i \in 1 .. Len(v.strides) : v.strides[i] # 0
  BY <1>5, <1>6 DEF Range
<1>8. Added([i \in 1 .. n |-> l[i] * v.strides[i]]) = d.offset - Left(d.offset, v.strides)[n]
  BY <1>1, <1>6, <1>7, LocationSum
<1>9. Added([i \in 1 .. n |-> l[i] * v.strides[i]]) = d.offset
  BY <1>1, <1>4, <1>8
<1>10. slice_to_contiguous(d, p) = Elements(v.sizes, v.strides, d.offset)
  <2>1. p.sizes = v.sizes /\ p.offsets = l
    BY <1>2
  <2> HIDE DEF l
  <2> QED
    BY <1>5, <1>6, <1>9, <2>1, Zenon DEF slice_to_contiguous
<1> QED
  <2>1. ShapeOK(d.sizes, d.strides)
    BY DEF DescOK
  <2>2. Elements(v.sizes, v.strides, d.offset) = Elements(d.sizes, d.strides, d.offset)
    BY <2>1, SlicedShape DEF v
  <2> QED
    BY <1>10, <2>2

(* The optimizers whose copies are exact for every view.                     *)
ExactCases == {"slice", "permute", "broadcast", "reshape"}

LEMMA PlainExact ==
  ASSUME NEW d, DescOK(d), NEW case \in ExactCases, NEW p \in PlainMatch(case, d)
  PROVE  PlainCopy(case, d, p) = Elements(d.sizes, d.strides, d.offset)
<1>1. ShapeOK(d.sizes, d.strides)
  BY DEF DescOK
<1>2. CASE case = "slice"
  <2>1. p \in can_use_slice(d)
    BY <1>2, Zenon DEF PlainMatch
  <2>2. PlainCopy(case, d, p) = slice_to_contiguous(d, p)
    BY <1>2, Zenon DEF PlainCopy
  <2> QED
    BY <2>1, <2>2, SliceExact
<1>3. CASE case = "permute"
  <2>1. p \in can_use_permute(d)
    BY <1>3, Zenon DEF PlainMatch
  <2>2. PlainCopy(case, d, p) = permute_to_contiguous(d, p)
    BY <1>3, Zenon DEF PlainCopy
  <2> QED
    BY <1>1, <2>1, <2>2, PermuteExact
<1>4. CASE case = "broadcast"
  <2>1. p \in can_use_broadcast(d)
    BY <1>4, Zenon DEF PlainMatch
  <2>2. PlainCopy(case, d, p) = broadcast_to_contiguous(d, p)
    BY <1>4, Zenon DEF PlainCopy
  <2> QED
    BY <2>1, <2>2, BroadcastExact
<1>5. CASE case = "reshape"
  <2>1. p \in check_reshape_match(d)
    BY <1>5, Zenon DEF PlainMatch
  <2>2. PlainCopy(case, d, p) = reshape_out(d, p)
    BY <1>5, Zenon DEF PlainCopy
  <2>3. is_contiguous(d) /\ p = [sizes |-> d.sizes]
    BY <2>1 DEF check_reshape_match
  <2>4. p.sizes = d.sizes
    BY <2>3
  <2> QED
    BY <1>1, <2>2, <2>3, <2>4, ReshapeExact
<1> QED
  BY <1>2, <1>3, <1>4, <1>5 DEF ExactCases

(* A sequence with an element inserted, and with one removed.                *)
InsertedAs(S, s, k, e) ==
  /\ InsertAt(s, k, e) \in Seq(S) /\ Len(InsertAt(s, k, e)) = Len(s) + 1
  /\ \A i \in 1 .. Len(s) + 1 :
       /\ i < k => InsertAt(s, k, e)[i] = s[i]
       /\ i = k => InsertAt(s, k, e)[i] = e
       /\ i > k => InsertAt(s, k, e)[i] = s[i - 1]

LEMMA Inserted ==
  ASSUME NEW S, NEW s \in Seq(S), NEW k \in 1 .. Len(s) + 1, NEW e \in S
  PROVE  InsertedAs(S, s, k, e)
<1> DEFINE n == Len(s)
           a == SubSeq(s, 1, k - 1)
           b == <<e>>
           c == SubSeq(s, k, n)
<1>1. n \in Nat /\ k \in Int /\ k >= 1 /\ k <= n + 1 /\ \A i \in 1 .. n : s[i] \in S
  OBVIOUS
<1>2. a \in Seq(S) /\ Len(a) = k - 1 /\ \A i \in 1 .. k - 1 : a[i] = s[i]
  <2>1. \A i \in 1 .. k - 1 : s[i] \in S
    BY <1>1
  <2>2. k - 1 \in Int /\ 1 \in Int
    BY <1>1
  <2>3. /\ a \in Seq(S) /\ Len(a) = IF 1 <= k - 1 THEN (k - 1) - 1 + 1 ELSE 0
        /\ \A i \in 1 .. (k - 1) - 1 + 1 : a[i] = s[1 + i - 1]
    BY <2>1, <2>2, SubSeqProperties
  <2>4. (k - 1) - 1 + 1 = k - 1 /\ (~(1 <= k - 1) => k - 1 = 0)
    BY <1>1
  <2>5. \A i \in 1 .. k - 1 : 1 + i - 1 = i
    BY <1>1
  <2> HIDE DEF a
  <2> QED
    BY <2>3, <2>4, <2>5
<1>3. c \in Seq(S) /\ Len(c) = n + 1 - k /\ \A i \in 1 .. n + 1 - k : c[i] = s[k + i - 1]
  <2>1. \A i \in k .. n : s[i] \in S
    BY <1>1
  <2>2. n \in Int /\ k \in Int
    BY <1>1
  <2>3. /\ c \in Seq(S) /\ Len(c) = IF k <= n THEN n - k + 1 ELSE 0
        /\ \A i \in 1 .. n - k + 1 : c[i] = s[k + i - 1]
    BY <2>1, <2>2, SubSeqProperties
  <2>4. n - k + 1 = n + 1 - k /\ (~(k <= n) => n + 1 - k = 0)
    BY <1>1
  <2> HIDE DEF c, n
  <2> QED
    BY <2>3, <2>4
<1>4. b \in Seq(S) /\ Len(b) = 1 /\ b[1] = e
  OBVIOUS
<1>5. InsertAt(s, k, e) = (a \o b) \o c
  BY DEF InsertAt
<1> HIDE DEF a, b, c
<1>6. /\ a \o b \in Seq(S) /\ Len(a \o b) = k
      /\ \A i \in 1 .. k : (a \o b)[i] = IF i <= k - 1 THEN a[i] ELSE b[i - (k - 1)]
  <2>1. (k - 1) + 1 = k
    BY <1>1
  <2>2. /\ a \o b \in Seq(S) /\ Len(a \o b) = Len(a) + Len(b)
        /\ \A i \in 1 .. Len(a) + Len(b) :
             (a \o b)[i] = IF i <= Len(a) THEN a[i] ELSE b[i - Len(a)]
    BY <1>2, <1>4, ConcatProperties
  <2> QED
    BY <1>2, <1>4, <2>1, <2>2
<1> DEFINE ab == a \o b
<1> HIDE DEF ab
<1>7. /\ ab \o c \in Seq(S) /\ Len(ab \o c) = n + 1
      /\ \A i \in 1 .. n + 1 : (ab \o c)[i] = IF i <= k THEN ab[i] ELSE c[i - k]
  <2>1. k + (n + 1 - k) = n + 1
    BY <1>1
  <2>2. /\ ab \o c \in Seq(S) /\ Len(ab \o c) = Len(ab) + Len(c)
        /\ \A i \in 1 .. Len(ab) + Len(c) :
             (ab \o c)[i] = IF i <= Len(ab) THEN ab[i] ELSE c[i - Len(ab)]
    BY <1>3, <1>6, ConcatProperties DEF ab
  <2>3. Len(ab) = k
    BY <1>6 DEF ab
  <2> QED
    BY <1>3, <2>1, <2>2, <2>3
<1>8. ASSUME NEW i \in 1 .. n + 1
      PROVE  /\ i < k => (ab \o c)[i] = s[i]
             /\ i = k => (ab \o c)[i] = e
             /\ i > k => (ab \o c)[i] = s[i - 1]
  <2>1. CASE i < k
    <3>1. i \in 1 .. k - 1 /\ i \in 1 .. k /\ i <= k /\ i <= k - 1
      BY <1>1, <2>1
    <3>2. ab[i] = a[i] /\ a[i] = s[i] /\ (ab \o c)[i] = ab[i]
      BY <1>2, <1>6, <1>7, <3>1 DEF ab
    <3>3. ~(i = k) /\ ~(i > k)
      BY <1>1, <2>1
    <3> QED
      BY <3>2, <3>3
  <2>2. CASE i = k
    <3>1. k \in 1 .. k /\ k <= k /\ ~(k <= k - 1) /\ k - (k - 1) = 1
      BY <1>1
    <3>2. ab[k] = b[1] /\ (ab \o c)[k] = ab[k]
      BY <1>6, <1>7, <2>2, <3>1 DEF ab
    <3>3. ~(k < k) /\ ~(k > k)
      BY <1>1
    <3> QED
      BY <1>4, <2>2, <3>2, <3>3
  <2>3. CASE i > k
    <3>1. ~(i <= k) /\ i - k \in 1 .. n + 1 - k /\ k + (i - k) - 1 = i - 1 /\ ~(i < k) /\ i # k
      BY <1>1, <2>3
    <3>2. (ab \o c)[i] = c[i - k] /\ c[i - k] = s[k + (i - k) - 1]
      BY <1>3, <1>7, <3>1
    <3> QED
      BY <3>1, <3>2
  <2>4. i < k \/ i = k \/ i > k
    BY <1>1
  <2> QED
    BY <2>1, <2>2, <2>3, <2>4
<1> QED
  BY <1>5, <1>7, <1>8 DEF ab, InsertedAs

LEMMA Removed ==
  ASSUME NEW S, NEW s \in Seq(S), NEW k \in 1 .. Len(s)
  PROVE  /\ RemoveAt(s, k) \in Seq(S) /\ Len(RemoveAt(s, k)) + 1 = Len(s)
         /\ \A i \in 1 .. Len(s) - 1 :
              RemoveAt(s, k)[i] = IF i < k THEN s[i] ELSE s[i + 1]
<1> DEFINE n == Len(s)
           a == SubSeq(s, 1, k - 1)
           c == SubSeq(s, k + 1, n)
<1>1. n \in Nat /\ k \in Int /\ k >= 1 /\ k <= n /\ \A i \in 1 .. n : s[i] \in S
  OBVIOUS
<1>2. a \in Seq(S) /\ Len(a) = k - 1 /\ \A i \in 1 .. k - 1 : a[i] = s[i]
  <2>1. \A i \in 1 .. k - 1 : s[i] \in S
    BY <1>1
  <2>2. k - 1 \in Int /\ 1 \in Int
    BY <1>1
  <2>3. /\ a \in Seq(S) /\ Len(a) = IF 1 <= k - 1 THEN (k - 1) - 1 + 1 ELSE 0
        /\ \A i \in 1 .. (k - 1) - 1 + 1 : a[i] = s[1 + i - 1]
    BY <2>1, <2>2, SubSeqProperties
  <2>4. (k - 1) - 1 + 1 = k - 1 /\ (~(1 <= k - 1) => k - 1 = 0)
    BY <1>1
  <2>5. \A i \in 1 .. k - 1 : 1 + i - 1 = i
    BY <1>1
  <2> HIDE DEF a
  <2> QED
    BY <2>3, <2>4, <2>5
<1>3. c \in Seq(S) /\ Len(c) = n - k /\ \A i \in 1 .. n - k : c[i] = s[k + i]
  <2>1. \A i \in k + 1 .. n : s[i] \in S
    BY <1>1
  <2>2. n \in Int /\ k + 1 \in Int
    BY <1>1
  <2>3. /\ c \in Seq(S) /\ Len(c) = IF k + 1 <= n THEN n - (k + 1) + 1 ELSE 0
        /\ \A i \in 1 .. n - (k + 1) + 1 : c[i] = s[(k + 1) + i - 1]
    BY <2>1, <2>2, SubSeqProperties
  <2>4. n - (k + 1) + 1 = n - k /\ (~(k + 1 <= n) => n - k = 0)
    BY <1>1
  <2>5. \A i \in 1 .. n - k : (k + 1) + i - 1 = k + i
    BY <1>1
  <2> HIDE DEF c, n
  <2> QED
    BY <2>3, <2>4, <2>5
<1>4. RemoveAt(s, k) = a \o c
  BY DEF RemoveAt
<1> HIDE DEF a, c
<1>5. /\ a \o c \in Seq(S) /\ Len(a \o c) = n - 1
      /\ \A i \in 1 .. n - 1 : (a \o c)[i] = IF i <= k - 1 THEN a[i] ELSE c[i - (k - 1)]
  <2>1. (k - 1) + (n - k) = n - 1
    BY <1>1
  <2>2. /\ a \o c \in Seq(S) /\ Len(a \o c) = Len(a) + Len(c)
        /\ \A i \in 1 .. Len(a) + Len(c) :
             (a \o c)[i] = IF i <= Len(a) THEN a[i] ELSE c[i - Len(a)]
    BY <1>2, <1>3, ConcatProperties
  <2> QED
    BY <1>2, <1>3, <2>1, <2>2
<1>6. ASSUME NEW i \in 1 .. n - 1
      PROVE  (a \o c)[i] = IF i < k THEN s[i] ELSE s[i + 1]
  <2>1. CASE i < k
    <3>1. i \in 1 .. k - 1 /\ i <= k - 1
      BY <1>1, <2>1
    <3> QED
      BY <1>2, <1>5, <2>1, <3>1
  <2>2. CASE ~(i < k)
    <3>1. ~(i <= k - 1) /\ i - (k - 1) \in 1 .. n - k /\ k + (i - (k - 1)) = i + 1
      BY <1>1, <2>2
    <3>2. (a \o c)[i] = c[i - (k - 1)] /\ c[i - (k - 1)] = s[k + (i - (k - 1))]
      BY <1>3, <1>5, <3>1
    <3> QED
      BY <2>2, <3>1, <3>2
  <2> QED
    BY <2>1, <2>2
<1>7. (n - 1) + 1 = n
  BY <1>1
<1> QED
  BY <1>4, <1>5, <1>6, <1>7

LEMMA GreatestMember ==
  ASSUME NEW n \in Nat, NEW S, S \subseteq 1 .. n, S # {}
  PROVE  Max(S) \in S /\ \A i \in S : Max(S) >= i
<1> DEFINE T == {k \in 0 .. n : n - k \in S}
<1>1. T \subseteq Nat /\ T # {}
  <2>1. PICK i \in S : TRUE
    OBVIOUS
  <2>2. n - i \in 0 .. n /\ n - (n - i) = i
    BY <2>1
  <2>3. n - i \in T
    BY <2>1, <2>2
  <2>4. T \subseteq Nat
    OBVIOUS
  <2> HIDE DEF T
  <2> QED
    BY <2>3, <2>4
<1>2. PICK k \in T : \A m \in T : k <= m
  <2> HIDE DEF T
  <2> QED
    BY <1>1, Least
<1>3. n - k \in S /\ k \in 0 .. n
  BY <1>2
<1>4. \A i \in S : n - k >= i
  <2> SUFFICES ASSUME NEW i \in S PROVE n - k >= i
    OBVIOUS
  <2>1. n - i \in 0 .. n /\ n - (n - i) = i /\ i \in Int
    OBVIOUS
  <2>2. k <= n - i
    BY <1>2, <2>1
  <2> QED
    BY <1>3, <2>1, <2>2
<1>5. \E x \in S : \A y \in S : x >= y
  BY <1>3, <1>4
<1> QED
  BY <1>5, Zenon DEF Max

LEMMA LeastOf ==
  ASSUME NEW S, S \subseteq Nat, S # {}
  PROVE  Min(S) \in S /\ \A i \in S : Min(S) <= i
<1>1. \E x \in S : \A y \in S : x <= y
  BY Least
<1> QED
  BY <1>1, Zenon DEF Min

------------------------------------------------------------------------------
(* What the operations on views do to the last place of a view.              *)

\* A size and a stride.
Dimension(m, r) == m \in Nat \ {0} /\ r \in Nat

ChangedTo(s, t, i, m, r) ==
  /\ ShapeOK([s EXCEPT ![i] = m], [t EXCEPT ![i] = r])
  /\ Len([s EXCEPT ![i] = m]) = Len(s)
  /\ Added(Terms([s EXCEPT ![i] = m], [t EXCEPT ![i] = r]))
       = Added(Terms(s, t)) - (s[i] - 1) * t[i] + (m - 1) * r

LEMMA TermsChanged ==
  ASSUME NEW s, NEW t, ShapeOK(s, t), NEW i \in 1 .. Len(s), NEW m, NEW r, Dimension(m, r)
  PROVE  ChangedTo(s, t, i, m, r)
<1> DEFINE u == [s EXCEPT ![i] = m]
           v == [t EXCEPT ![i] = r]
           n == Len(s)
<1>1. /\ s \in Seq(Int) /\ t \in Seq(Int) /\ Len(t) = n /\ n \in Nat
      /\ DOMAIN s = 1 .. n /\ DOMAIN t = 1 .. n
  BY ShapeType
<1>2. s \in Seq(Nat \ {0}) /\ t \in Seq(Nat) /\ i \in 1 .. Len(t) /\ m \in Nat \ {0} /\ r \in Nat
  BY <1>1 DEF ShapeOK, Dimension
<1>3. /\ u \in Seq(Nat \ {0}) /\ Len(u) = n
      /\ \A j \in 1 .. n : u[j] = IF j = i THEN m ELSE s[j]
  BY <1>2, ExceptSeq
<1>4. /\ v \in Seq(Nat) /\ Len(v) = Len(t)
      /\ \A j \in 1 .. Len(t) : v[j] = IF j = i THEN r ELSE t[j]
  BY <1>2, ExceptSeq
<1> HIDE DEF u, v
<1>5. ShapeOK(u, v)
  BY <1>1, <1>3, <1>4 DEF ShapeOK
<1>6. u \in Seq(Int) /\ v \in Seq(Int) /\ Len(v) = Len(u)
  BY <1>5, ShapeType
<1>7. /\ Terms(s, t) \in Seq(Int) /\ Len(Terms(s, t)) = n
      /\ \A j \in 1 .. n : Terms(s, t)[j] = (s[j] - 1) * t[j] /\ Terms(s, t)[j] \in Int
  BY <1>1, TermsType
<1>8. /\ Terms(u, v) \in Seq(Int) /\ Len(Terms(u, v)) = n
      /\ \A j \in 1 .. n : Terms(u, v)[j] = (u[j] - 1) * v[j] /\ Terms(u, v)[j] \in Int
  BY <1>3, <1>6, TermsType
<1>9. \A j \in 1 .. Len(Terms(s, t)) : j # i => Terms(u, v)[j] = Terms(s, t)[j]
  BY <1>1, <1>3, <1>4, <1>7, <1>8
<1>10. Added(Terms(u, v)) = Added(Terms(s, t)) - Terms(s, t)[i] + Terms(u, v)[i]
  <2>1. i \in 1 .. Len(Terms(s, t)) /\ Len(Terms(u, v)) = Len(Terms(s, t))
    BY <1>7, <1>8
  <2> QED
    BY <1>7, <1>8, <1>9, <2>1, SumExcept
<1>11. Terms(s, t)[i] = (s[i] - 1) * t[i] /\ Terms(u, v)[i] = (m - 1) * r
  BY <1>1, <1>3, <1>4, <1>7, <1>8
<1> QED
  BY <1>3, <1>5, <1>10, <1>11 DEF u, v, ChangedTo

LEMMA TermsRemoved ==
  ASSUME NEW s, NEW t, ShapeOK(s, t), NEW i \in 1 .. Len(s)
  PROVE  /\ ShapeOK(RemoveAt(s, i), RemoveAt(t, i))
         /\ Added(Terms(s, t)) = Added(Terms(RemoveAt(s, i), RemoveAt(t, i))) + (s[i] - 1) * t[i]
<1> DEFINE u == RemoveAt(s, i)
           v == RemoveAt(t, i)
           n == Len(s)
<1>1. s \in Seq(Int) /\ t \in Seq(Int) /\ Len(t) = n /\ n \in Nat
  BY ShapeType
<1>2. s \in Seq(Nat \ {0}) /\ t \in Seq(Nat) /\ i \in 1 .. Len(t)
  BY <1>1 DEF ShapeOK
<1>3. /\ u \in Seq(Nat \ {0}) /\ Len(u) + 1 = n
      /\ \A j \in 1 .. n - 1 : u[j] = IF j < i THEN s[j] ELSE s[j + 1]
  BY <1>2, Removed
<1>4. /\ v \in Seq(Nat) /\ Len(v) + 1 = Len(t)
      /\ \A j \in 1 .. Len(t) - 1 : v[j] = IF j < i THEN t[j] ELSE t[j + 1]
  BY <1>2, Removed
<1> HIDE DEF u, v
<1>5. Len(u) \in Nat /\ Len(u) = n - 1 /\ Len(v) = n - 1
  <2>1. Len(u) \in Nat /\ Len(v) \in Nat
    BY <1>3, <1>4
  <2> QED
    BY <1>1, <1>3, <1>4, <2>1
<1>6. ShapeOK(u, v)
  BY <1>3, <1>4, <1>5 DEF ShapeOK
<1>7. u \in Seq(Int) /\ v \in Seq(Int) /\ Len(v) = Len(u)
  BY <1>6, ShapeType
<1>8. /\ Terms(s, t) \in Seq(Int) /\ Len(Terms(s, t)) = n
      /\ \A j \in 1 .. n : Terms(s, t)[j] = (s[j] - 1) * t[j]
  BY <1>1, TermsType
<1>9. /\ Terms(u, v) \in Seq(Int) /\ Len(Terms(u, v)) = n - 1
      /\ \A j \in 1 .. n - 1 : Terms(u, v)[j] = (u[j] - 1) * v[j]
  BY <1>5, <1>7, TermsType
<1>10. ASSUME NEW j \in 1 .. Len(Terms(u, v))
       PROVE  Terms(u, v)[j] = IF j < i THEN Terms(s, t)[j] ELSE Terms(s, t)[j + 1]
  <2>1. j \in 1 .. n - 1 /\ j \in 1 .. n /\ j + 1 \in 1 .. n /\ j \in 1 .. Len(t) - 1
    BY <1>1, <1>9
  <2>2. Terms(u, v)[j] = (u[j] - 1) * v[j]
    BY <1>9, <2>1
  <2>3. CASE j < i
    BY <1>3, <1>4, <1>8, <2>1, <2>2, <2>3
  <2>4. CASE ~(j < i)
    BY <1>3, <1>4, <1>8, <2>1, <2>2, <2>4
  <2> QED
    BY <2>3, <2>4
<1>11. Added(Terms(s, t)) = Added(Terms(u, v)) + Terms(s, t)[i]
  <2>1. i \in 1 .. Len(Terms(s, t)) /\ Len(Terms(u, v)) + 1 = Len(Terms(s, t))
    BY <1>1, <1>8, <1>9
  <2> QED
    BY <1>8, <1>9, <1>10, <2>1, SumWithout
<1> QED
  BY <1>6, <1>8, <1>11 DEF u, v

LEMMA TermsInserted ==
  ASSUME NEW s, NEW t, ShapeOK(s, t), NEW i \in 1 .. Len(s) + 1,
         NEW m, NEW r, Dimension(m, r)
  PROVE  /\ ShapeOK(InsertAt(s, i, m), InsertAt(t, i, r))
         /\ Len(InsertAt(s, i, m)) = Len(s) + 1
         /\ Added(Terms(InsertAt(s, i, m), InsertAt(t, i, r)))
              = Added(Terms(s, t)) + (m - 1) * r
<1> DEFINE u == InsertAt(s, i, m)
           v == InsertAt(t, i, r)
           n == Len(s)
<1>1. s \in Seq(Int) /\ t \in Seq(Int) /\ Len(t) = n /\ n \in Nat
  BY ShapeType
<1>2. s \in Seq(Nat \ {0}) /\ t \in Seq(Nat) /\ i \in 1 .. Len(t) + 1 /\ m \in Nat \ {0} /\ r \in Nat
  BY <1>1 DEF ShapeOK, Dimension
<1>3. /\ u \in Seq(Nat \ {0}) /\ Len(u) = n + 1
      /\ \A j \in 1 .. n + 1 : /\ j < i => u[j] = s[j]
                               /\ j = i => u[j] = m
                               /\ j > i => u[j] = s[j - 1]
  <2> DEFINE Pos == Nat \ {0}
  <2>1. s \in Seq(Pos) /\ m \in Pos /\ i \in 1 .. Len(s) + 1
    BY <1>2
  <2> HIDE DEF Pos
  <2>2. InsertedAs(Pos, s, i, m)
    BY <2>1, Inserted
  <2> QED
    BY <2>2 DEF InsertedAs, Pos
<1>4. /\ v \in Seq(Nat) /\ Len(v) = Len(t) + 1
      /\ \A j \in 1 .. Len(t) + 1 : /\ j < i => v[j] = t[j]
                                    /\ j = i => v[j] = r
                                    /\ j > i => v[j] = t[j - 1]
  <2>1. t \in Seq(Nat) /\ r \in Nat /\ i \in 1 .. Len(t) + 1
    BY <1>2
  <2>2. InsertedAs(Nat, t, i, r)
    BY <2>1, Inserted
  <2> QED
    BY <2>2 DEF InsertedAs
<1> HIDE DEF u, v
<1>5. ShapeOK(u, v)
  BY <1>1, <1>3, <1>4 DEF ShapeOK
<1>6. u \in Seq(Int) /\ v \in Seq(Int) /\ Len(v) = Len(u)
  BY <1>5, ShapeType
<1>7. /\ Terms(s, t) \in Seq(Int) /\ Len(Terms(s, t)) = n
      /\ \A j \in 1 .. n : Terms(s, t)[j] = (s[j] - 1) * t[j]
  BY <1>1, TermsType
<1>8. /\ Terms(u, v) \in Seq(Int) /\ Len(Terms(u, v)) = n + 1
      /\ \A j \in 1 .. n + 1 : Terms(u, v)[j] = (u[j] - 1) * v[j]
  BY <1>3, <1>6, TermsType
<1>9. ASSUME NEW j \in 1 .. Len(Terms(s, t))
      PROVE  Terms(s, t)[j] = IF j < i THEN Terms(u, v)[j] ELSE Terms(u, v)[j + 1]
  <2>1. /\ j \in 1 .. n /\ j \in 1 .. n + 1 /\ j + 1 \in 1 .. n + 1 /\ j + 1 \in 1 .. Len(t) + 1
        /\ j \in 1 .. Len(t) + 1 /\ (j + 1) - 1 = j
    BY <1>1, <1>7
  <2>2. CASE j < i
    <3>1. u[j] = s[j] /\ v[j] = t[j]
      BY <1>3, <1>4, <2>1, <2>2
    <3> QED
      BY <1>7, <1>8, <2>1, <2>2, <3>1
  <2>3. CASE ~(j < i)
    <3>1. j + 1 > i
      BY <2>3
    <3>2. u[j + 1] = s[j] /\ v[j + 1] = t[j]
      BY <1>3, <1>4, <2>1, <3>1
    <3> QED
      BY <1>7, <1>8, <2>1, <2>3, <3>2
  <2> QED
    BY <2>2, <2>3
<1>10. Added(Terms(u, v)) = Added(Terms(s, t)) + Terms(u, v)[i]
  <2>1. i \in 1 .. Len(Terms(u, v)) /\ Len(Terms(s, t)) + 1 = Len(Terms(u, v))
    BY <1>1, <1>7, <1>8
  <2> QED
    BY <1>7, <1>8, <1>9, <2>1, SumWithout
<1>11. Terms(u, v)[i] = (m - 1) * r
  <2>1. i \in 1 .. n + 1 /\ i \in 1 .. Len(t) + 1
    BY <1>1
  <2> QED
    BY <1>3, <1>4, <1>8, <2>1
<1> QED
  BY <1>3, <1>5, <1>10, <1>11 DEF u, v

(* A view that reads no place beyond the last one of another.                *)
Within(s, t, o, u, v, x) ==
  ShapeOK(u, v) /\ x \in Nat /\ x + Added(Terms(u, v)) <= o + Added(Terms(s, t))

LEMMA TermsInt ==
  ASSUME NEW s, NEW t, ShapeOK(s, t) PROVE Added(Terms(s, t)) \in Nat
<1>1. /\ s \in Seq(Int) /\ t \in Seq(Int) /\ Len(t) = Len(s)
      /\ \A i \in 1 .. Len(s) : s[i] \in Nat /\ s[i] >= 1 /\ t[i] \in Nat
  BY ShapeType
<1>2. /\ Terms(s, t) \in Seq(Int) /\ Len(Terms(s, t)) = Len(s)
      /\ \A i \in 1 .. Len(s) : Terms(s, t)[i] = (s[i] - 1) * t[i]
  BY <1>1, TermsType
<1>3. \A a, b \in Nat : a >= 1 => (a - 1) * b >= 0
  OBVIOUS
<1>4. \A i \in 1 .. Len(Terms(s, t)) : Terms(s, t)[i] >= 0
  BY <1>1, <1>2, <1>3
<1> QED
  BY <1>2, <1>4, SumType, SumPositive

LEMMA NarrowWithin ==
  ASSUME NEW s, NEW t, ShapeOK(s, t), NEW o \in Nat, NEW i \in 1 .. Len(s),
         NEW a \in 0 .. s[i] - 1, NEW b \in a + 1 .. s[i], NEW step \in 1 .. 2
  PROVE  Within(s, t, o, [s EXCEPT ![i] = (b - a + step - 1) \div step],
                [t EXCEPT ![i] = t[i] * step], o + a * t[i])
<1> DEFINE m == (b - a + step - 1) \div step
<1>0. step \in Nat /\ a \in Nat
  OBVIOUS
<1>1. s[i] \in Nat /\ t[i] \in Nat
  BY ShapeType
<1>2. m \in Nat \ {0} /\ (m - 1) * step <= b - a - 1
  <2>1. CASE step = 1
    BY <1>1, <2>1
  <2>2. CASE step = 2
    BY <1>1, <2>2
  <2> QED
    BY <2>1, <2>2
<1> HIDE DEF m
<1>3. t[i] * step \in Nat /\ a * t[i] \in Nat
  BY <1>1
<1>4. a * t[i] + (m - 1) * (t[i] * step) <= (s[i] - 1) * t[i]
  <2>1. \A x, y, z, w \in Nat : x + y <= z => x * w + y * w <= z * w
    OBVIOUS
  <2>2. (m - 1) * step \in Nat /\ s[i] - 1 \in Nat /\ a \in Nat /\ m - 1 \in Nat
    BY <1>1, <1>2
  <2>3. a + (m - 1) * step <= s[i] - 1
    BY <1>1, <1>2, <2>2
  <2>4. a * t[i] + ((m - 1) * step) * t[i] <= (s[i] - 1) * t[i]
    BY <1>1, <2>1, <2>2, <2>3, Zenon
  <2>6. ((m - 1) * step) * t[i] = (m - 1) * (t[i] * step)
    BY <1>0, <1>1, <2>2
  <2> QED
    BY <2>4, <2>6, Zenon
<1> DEFINE r == t[i] * step
<1> HIDE DEF r
<1> DEFINE u == [s EXCEPT ![i] = m]
           v == [t EXCEPT ![i] = r]
<1>5. /\ ShapeOK(u, v)
      /\ Added(Terms(u, v)) = Added(Terms(s, t)) - (s[i] - 1) * t[i] + (m - 1) * r
  <2>1. Dimension(m, r)
    BY <1>2, <1>3 DEF r, Dimension
  <2>2. ChangedTo(s, t, i, m, r)
    BY <2>1, TermsChanged
  <2> QED
    BY <2>2, Zenon DEF ChangedTo
<1> HIDE DEF u, v
<1>6. Added(Terms(s, t)) \in Nat
  BY TermsInt
<1>7. (s[i] - 1) * t[i] \in Int /\ (m - 1) * (t[i] * step) \in Int
  <2>1. s[i] - 1 \in Int /\ t[i] \in Int /\ m - 1 \in Int
    BY <1>1, <1>2
  <2>2. t[i] * step \in Int
    BY <1>3
  <2>3. \A x, y \in Int : x * y \in Int
    OBVIOUS
  <2> QED
    BY <2>1, <2>2, <2>3, Zenon
<1>8. (o + a * t[i]) + Added(Terms(u, v)) <= o + Added(Terms(s, t))
  BY <1>3, <1>4, <1>5, <1>6, <1>7 DEF r
<1>9. o + a * t[i] \in Nat
  BY <1>3
<1> QED
  BY <1>5, <1>8, <1>9 DEF Within, u, v, m, r

\* Of a selection, k is the index; a dimension of size 1 is removed with k = 0.
LEMMA SelectWithin ==
  ASSUME NEW s, NEW t, ShapeOK(s, t), NEW o \in Nat, NEW i \in 1 .. Len(s),
         NEW k \in 0 .. s[i] - 1
  PROVE  Within(s, t, o, RemoveAt(s, i), RemoveAt(t, i), o + k * t[i])
<1>1. s[i] \in Nat /\ t[i] \in Nat /\ s[i] - 1 \in Nat /\ k \in Nat
  BY ShapeType
<1>2. /\ ShapeOK(RemoveAt(s, i), RemoveAt(t, i))
      /\ Added(Terms(s, t)) = Added(Terms(RemoveAt(s, i), RemoveAt(t, i))) + (s[i] - 1) * t[i]
  BY TermsRemoved
<1>3. Added(Terms(RemoveAt(s, i), RemoveAt(t, i))) \in Nat
  BY <1>2, TermsInt
<1>4. \A x, y, z \in Nat : x <= y => x * z <= y * z
  OBVIOUS
<1>5. k * t[i] <= (s[i] - 1) * t[i]
  BY <1>1, <1>4
<1>6. k * t[i] \in Nat /\ (s[i] - 1) * t[i] \in Nat
  BY <1>1
<1> QED
  BY <1>2, <1>3, <1>5, <1>6 DEF Within

LEMMA TransposeWithin ==
  ASSUME NEW s, NEW t, ShapeOK(s, t), NEW o \in Nat, NEW i \in 1 .. Len(s), NEW j \in 1 .. Len(s),
         i < j
  PROVE  Within(s, t, o, [s EXCEPT ![i] = s[j], ![j] = s[i]],
                [t EXCEPT ![i] = t[j], ![j] = t[i]], o)
<1> DEFINE m == s[j]
           r == t[j]
           u == [s EXCEPT ![i] = m]
           v == [t EXCEPT ![i] = r]
<1>1. /\ \A k \in 1 .. Len(s) : s[k] \in Nat \ {0} /\ t[k] \in Nat
      /\ DOMAIN s = 1 .. Len(s) /\ DOMAIN t = 1 .. Len(s)
  BY ShapeType
<1>2. s[i] \in Nat \ {0} /\ s[j] \in Nat \ {0} /\ t[i] \in Nat /\ t[j] \in Nat
  BY <1>1
<1>3. /\ ShapeOK(u, v) /\ Len(u) = Len(s)
      /\ Added(Terms(u, v)) = Added(Terms(s, t)) - (s[i] - 1) * t[i] + (m - 1) * r
  <2>1. Dimension(m, r)
    BY <1>2 DEF Dimension
  <2> HIDE DEF m, r
  <2>2. ChangedTo(s, t, i, m, r)
    BY <2>1, TermsChanged
  <2> QED
    BY <2>2, Zenon DEF ChangedTo
<1>4. u[j] = s[j] /\ v[j] = t[j]
  BY <1>1
<1>5. /\ [s EXCEPT ![i] = s[j], ![j] = s[i]] = [u EXCEPT ![j] = s[i]]
      /\ [t EXCEPT ![i] = t[j], ![j] = t[i]] = [v EXCEPT ![j] = t[i]]
  BY <1>1
<1> HIDE DEF u, v
<1>6. j \in 1 .. Len(u)
  BY <1>3
<1>7. /\ ShapeOK([u EXCEPT ![j] = s[i]], [v EXCEPT ![j] = t[i]])
      /\ Added(Terms([u EXCEPT ![j] = s[i]], [v EXCEPT ![j] = t[i]]))
           = Added(Terms(u, v)) - (u[j] - 1) * v[j] + (s[i] - 1) * t[i]
  <2> DEFINE p == s[i]
             q == t[i]
  <2>1. Dimension(p, q)
    BY <1>2 DEF Dimension
  <2> HIDE DEF p, q
  <2>2. ChangedTo(u, v, j, p, q)
    BY <1>3, <1>6, <2>1, TermsChanged
  <2> QED
    BY <2>2, Zenon DEF ChangedTo, p, q
<1>8. Added(Terms(s, t)) \in Int /\ (s[i] - 1) * t[i] \in Int /\ (s[j] - 1) * t[j] \in Int
  BY <1>2, TermsInt
<1>9. Added(Terms([u EXCEPT ![j] = s[i]], [v EXCEPT ![j] = t[i]])) = Added(Terms(s, t))
  BY <1>3, <1>4, <1>7, <1>8
<1> QED
  BY <1>5, <1>7, <1>8, <1>9 DEF Within

LEMMA ExpandWithin ==
  ASSUME NEW s, NEW t, ShapeOK(s, t), NEW o \in Nat, NEW i \in 1 .. Len(s), s[i] = 1
  PROVE  Within(s, t, o, [s EXCEPT ![i] = 2], [t EXCEPT ![i] = 0], o)
<1>1. t[i] \in Nat /\ (s[i] - 1) * t[i] = 0
  BY ShapeType
<1>2. Dimension(2, 0)
  BY DEF Dimension
<1>3. /\ ShapeOK([s EXCEPT ![i] = 2], [t EXCEPT ![i] = 0])
      /\ Added(Terms([s EXCEPT ![i] = 2], [t EXCEPT ![i] = 0]))
           = Added(Terms(s, t)) - (s[i] - 1) * t[i] + (2 - 1) * 0
  <2>1. ChangedTo(s, t, i, 2, 0)
    BY <1>2, TermsChanged
  <2> QED
    BY <2>1, Zenon DEF ChangedTo
<1>4. Added(Terms(s, t)) \in Nat
  BY TermsInt
<1> QED
  BY <1>1, <1>3, <1>4 DEF Within

LEMMA UnsqueezeWithin ==
  ASSUME NEW s, NEW t, ShapeOK(s, t), NEW o \in Nat, NEW i \in 1 .. Len(s) + 1, NEW r \in Nat
  PROVE  Within(s, t, o, InsertAt(s, i, 1), InsertAt(t, i, r), o)
<1>1. Dimension(1, r) /\ (1 - 1) * r = 0
  BY DEF Dimension
<1>2. /\ ShapeOK(InsertAt(s, i, 1), InsertAt(t, i, r))
      /\ Added(Terms(InsertAt(s, i, 1), InsertAt(t, i, r))) = Added(Terms(s, t)) + (1 - 1) * r
  BY <1>1, TermsInserted
<1>3. Added(Terms(s, t)) \in Nat
  BY TermsInt
<1> QED
  BY <1>1, <1>2, <1>3 DEF Within

LEMMA InFront ==
  ASSUME NEW S, NEW s \in Seq(S), NEW e \in S
  PROVE  InsertAt(s, 1, e) = <<e>> \o s
<1>1. SubSeq(s, 1, 1 - 1) = <<>> /\ SubSeq(s, 1, Len(s)) = s
  <2>1. SubSeq(s, 1, 0) = <<>>
    BY SubSeqEmpty
  <2> QED
    BY <2>1, SubSeqFull
<1>2. <<e>> \in Seq(S)
  OBVIOUS
<1>3. <<>> \o <<e>> = <<e>>
  BY <1>2, ConcatEmptySeq
<1> QED
  BY <1>1, <1>3, Zenon DEF InsertAt

LEMMA ExpandFrontWithin ==
  ASSUME NEW s, NEW t, ShapeOK(s, t), NEW o \in Nat
  PROVE  Within(s, t, o, <<2>> \o s, <<0>> \o t, o)
<1>1. 2 \in Nat \ {0} /\ 0 \in Nat /\ Dimension(2, 0) /\ (2 - 1) * 0 = 0 /\ 1 \in 1 .. Len(s) + 1
  <2>1. Len(s) \in Nat
    BY ShapeType
  <2> QED
    BY <2>1 DEF Dimension
<1>2. InsertAt(s, 1, 2) = <<2>> \o s /\ InsertAt(t, 1, 0) = <<0>> \o t
  BY <1>1, InFront DEF ShapeOK
<1>3. /\ ShapeOK(InsertAt(s, 1, 2), InsertAt(t, 1, 0))
      /\ Added(Terms(InsertAt(s, 1, 2), InsertAt(t, 1, 0))) = Added(Terms(s, t)) + (2 - 1) * 0
  BY <1>1, TermsInserted
<1>4. Added(Terms(s, t)) \in Nat
  BY TermsInt
<1> DEFINE u == <<2>> \o s
           v == <<0>> \o t
<1>5. /\ ShapeOK(u, v)
      /\ Added(Terms(u, v)) = Added(Terms(s, t)) + (2 - 1) * 0
  BY <1>2, <1>3, Zenon
<1> HIDE DEF u, v
<1>6. Added(Terms(u, v)) = Added(Terms(s, t))
  BY <1>4, <1>5
<1>7. Within(s, t, o, u, v, o)
  BY <1>4, <1>5, <1>6 DEF Within
<1> QED
  BY <1>7 DEF u, v

LEMMA MergeWithin ==
  ASSUME NEW s, NEW t, ShapeOK(s, t), NEW o \in Nat, NEW i \in 1 .. Len(s), i + 1 \in 1 .. Len(s),
         t[i] = t[i + 1] * s[i + 1]
  PROVE  Within(s, t, o, RemoveAt([s EXCEPT ![i + 1] = s[i + 1] * s[i]], i), RemoveAt(t, i), o)
<1> DEFINE m == s[i + 1] * s[i]
           k == i + 1
           r == t[k]
           u == [s EXCEPT ![k] = m]
           v == [t EXCEPT ![k] = r]
<1>1. /\ s[i] \in Nat /\ s[i] >= 1 /\ s[i + 1] \in Nat /\ s[i + 1] >= 1
      /\ t[i] \in Nat /\ t[i + 1] \in Nat /\ DOMAIN s = 1 .. Len(s) /\ DOMAIN t = 1 .. Len(s)
      /\ t \in Seq(Int)
  BY ShapeType
<1>2. m \in Nat \ {0}
  <2>1. \A a, b \in Nat : a >= 1 /\ b >= 1 => a * b \in Nat \ {0}
    OBVIOUS
  <2> QED
    BY <1>1, <2>1
<1>3. v = t
  BY <1>1
<1>4. u[i] = s[i]
  <2>1. i # i + 1
    OBVIOUS
  <2> QED
    BY <1>1, <2>1
<1> HIDE DEF m
<1>5. /\ ShapeOK(u, t) /\ Len(u) = Len(s)
      /\ Added(Terms(u, t)) = Added(Terms(s, t)) - (s[i + 1] - 1) * t[i + 1] + (m - 1) * t[i + 1]
  <2>1. /\ ShapeOK(u, v) /\ Len(u) = Len(s)
        /\ Added(Terms(u, v)) = Added(Terms(s, t)) - (s[k] - 1) * t[k] + (m - 1) * r
    <3>1. Dimension(m, r) /\ k \in 1 .. Len(s)
      BY <1>1, <1>2 DEF Dimension
    <3> HIDE DEF r, k
    <3>2. ChangedTo(s, t, k, m, r)
      BY <3>1, TermsChanged
    <3> QED
      BY <3>2, Zenon DEF ChangedTo
  <2> HIDE DEF u, v
  <2> QED
    BY <1>3, <2>1
<1> HIDE DEF u
<1>6. /\ ShapeOK(RemoveAt(u, i), RemoveAt(t, i))
      /\ Added(Terms(u, t)) = Added(Terms(RemoveAt(u, i), RemoveAt(t, i))) + (u[i] - 1) * t[i]
  BY <1>5, TermsRemoved
<1>7. Added(Terms(s, t)) \in Int /\ Added(Terms(RemoveAt(u, i), RemoveAt(t, i))) \in Int
  BY <1>6, TermsInt
<1>8. (m - 1) * t[i + 1] - (s[i + 1] - 1) * t[i + 1] = (s[i] - 1) * t[i]
  <2>1. \A a, b, c \in Nat : (b * a - 1) * c - (b - 1) * c = (a - 1) * (c * b)
    OBVIOUS
  <2> QED
    BY <1>1, <2>1 DEF m
<1>9. /\ (m - 1) * t[i + 1] \in Int /\ (s[i + 1] - 1) * t[i + 1] \in Int /\ (s[i] - 1) * t[i] \in Int
  <2>1. /\ m - 1 \in Int /\ s[i + 1] - 1 \in Int /\ s[i] - 1 \in Int
        /\ t[i] \in Int /\ t[i + 1] \in Int
    BY <1>1, <1>2
  <2>2. \A x, y \in Int : x * y \in Int
    OBVIOUS
  <2> QED
    BY <2>1, <2>2, Zenon
<1>10. Added(Terms(RemoveAt(u, i), RemoveAt(t, i))) = Added(Terms(s, t))
  <2> HIDE DEF m
  <2>2. Added(Terms(s, t)) - (s[i + 1] - 1) * t[i + 1] + (m - 1) * t[i + 1]
          = Added(Terms(RemoveAt(u, i), RemoveAt(t, i))) + (s[i] - 1) * t[i]
    BY <1>4, <1>5, <1>6, Zenon DEF u
  <2> QED
    BY <1>7, <1>8, <1>9, <2>2
<1> QED
  BY <1>6, <1>7, <1>10 DEF Within, u, m

LEMMA SplitWithin ==
  ASSUME NEW s, NEW t, ShapeOK(s, t), NEW o \in Nat, NEW i \in 1 .. Len(s),
         NEW a \in 2 .. s[i] - 1, s[i] % a = 0
  PROVE  Within(s, t, o, InsertAt([s EXCEPT ![i] = s[i] \div a], i, a),
                InsertAt(t, i, (s[i] \div a) * t[i]), o)
<1> DEFINE b == s[i] \div a
           r == t[i]
           u == [s EXCEPT ![i] = b]
           v == [t EXCEPT ![i] = r]
<1>1. /\ s[i] \in Nat /\ s[i] >= 1 /\ t[i] \in Nat /\ DOMAIN t = 1 .. Len(s) /\ t \in Seq(Int)
  BY ShapeType
<1>2. a \in Nat /\ a >= 1 /\ a \in Nat \ {0}
  BY <1>1
<1>3. b \in Nat /\ s[i] = b * a + (s[i] % a)
  BY <1>1, <1>2, DivMod
<1> HIDE DEF b
<1>4. s[i] = b * a /\ b \in Nat \ {0}
  BY <1>1, <1>2, <1>3
<1>5. v = t
  BY <1>1
<1>6. /\ ShapeOK(u, t) /\ Len(u) = Len(s)
      /\ Added(Terms(u, t)) = Added(Terms(s, t)) - (s[i] - 1) * t[i] + (b - 1) * t[i]
  <2>1. /\ ShapeOK(u, v) /\ Len(u) = Len(s)
        /\ Added(Terms(u, v)) = Added(Terms(s, t)) - (s[i] - 1) * t[i] + (b - 1) * r
    <3>1. Dimension(b, r)
      BY <1>1, <1>4 DEF Dimension
    <3> HIDE DEF r
    <3>2. ChangedTo(s, t, i, b, r)
      BY <3>1, TermsChanged
    <3> QED
      BY <3>2, Zenon DEF ChangedTo
  <2> HIDE DEF u, v
  <2> QED
    BY <1>5, <2>1
<1> HIDE DEF u
<1>7. i \in 1 .. Len(u) + 1 /\ b * t[i] \in Nat
  <2>1. Len(s) \in Nat
    BY ShapeType
  <2> QED
    BY <1>1, <1>4, <1>6, <2>1
<1> DEFINE q == b * t[i]
<1>8. /\ ShapeOK(InsertAt(u, i, a), InsertAt(t, i, q))
      /\ Added(Terms(InsertAt(u, i, a), InsertAt(t, i, q))) = Added(Terms(u, t)) + (a - 1) * q
  <2>1. Dimension(a, q)
    BY <1>2, <1>7 DEF Dimension
  <2> HIDE DEF q
  <2> QED
    BY <1>2, <1>6, <1>7, <2>1, TermsInserted
<1>9. Added(Terms(s, t)) \in Int
  BY TermsInt
<1>10. (b - 1) * t[i] + (a - 1) * (b * t[i]) = (s[i] - 1) * t[i]
  <2>1. \A x, y, z \in Nat : (y - 1) * z + (x - 1) * (y * z) = (y * x - 1) * z
    OBVIOUS
  <2> QED
    BY <1>1, <1>2, <1>4, <2>1
<1>11. (b - 1) * t[i] \in Int /\ (a - 1) * (b * t[i]) \in Int /\ (s[i] - 1) * t[i] \in Int
  BY <1>1, <1>2, <1>4, <1>7
<1>12. Added(Terms(InsertAt(u, i, a), InsertAt(t, i, b * t[i]))) = Added(Terms(s, t))
  <2>2. Added(Terms(u, t)) \in Int
    BY <1>6, TermsInt
  <2>3. Added(Terms(u, t)) + (a - 1) * (b * t[i]) = Added(Terms(s, t))
    BY <1>6, <1>9, <1>10, <1>11, <2>2
  <2> QED
    BY <1>8, <2>3, Zenon
<1> QED
  BY <1>8, <1>9, <1>12 DEF Within, u, b

------------------------------------------------------------------------------
(* The shapes of the view and of the storage, and the steps of Next.         *)

Shapes ==
  /\ view \in [sizes : Seq(Nat \ {0}), strides : Seq(Nat), offset : Nat]
  /\ storage = [numel |-> storage.numel, base |-> storage.base]
  /\ storage.base \in [sizes : Seq(Nat \ {0}), strides : Seq(Nat)]
  /\ ShapeOK(view.sizes, view.strides) /\ Len(view.sizes) \in 1 .. MaxDims
  /\ ShapeOK(storage.base.sizes, storage.base.strides)
  /\ Len(storage.base.sizes) \in 1 .. MaxDims
  /\ reshaped \in BOOLEAN /\ ops \in 0 .. MaxOps

\* A view of the places of the view.
ViewStep ==
  \E u, v, x : /\ Within(view.sizes, view.strides, view.offset, u, v, x)
               /\ Becomes(u, v, x) /\ reshaped' \in BOOLEAN

Cases == Plain \union {"combined"}

\* "select" is tried of a view with fewer elements than the storage describes.
Selecting(cases) ==
  (\E k \in 1 .. Len(cases) : cases[k] = "select") =>
    multiply_integers(desc.sizes) < multiply_integers(desc.base_sizes)

Listed == {cases \in Seq(Plain) : Selecting(cases)}

\* A copy that leaves what there is.
CopyOnly ==
  /\ \/ \E case \in {"memcpy", "general"} : General(case)
     \/ Divides0(desc) /\ Done("divided by zero", <<>>)
     \/ \E cases \in Listed : \E run \in {FirstPlain(cache, desc, cases)} :
          \E c \in run.copies : Done(run.case, c)
  /\ UNCHANGED <<storage, cache>>

CopyStep ==
  /\ \/ RunCached
     \/ \E cases \in Listed : RunPlain(cases) \/ RunCombined(cases)
     \/ CopyOnly
  /\ UNCHANGED <<view, reshaped, ops>>

LEMMA ContiguousShape ==
  ASSUME NEW s \in Seq(Nat \ {0})
  PROVE  ShapeOK(s, ComputeStrideFromShape(s))
<1> DEFINE n == Len(s)
           c == ComputeStrideFromShape(s)
<1>1. Nat \ {0} \subseteq Int
  OBVIOUS
<1>2. s \in Seq(Int) /\ n \in Nat /\ \A i \in 1 .. n : s[i] >= 1
  BY <1>1, SeqMonotonic
<1>3. c \in Seq(Int) /\ Len(c) = n /\ \A i \in 1 .. n : c[i] \in Int
  BY <1>2, StrideType
<1>4. \A i \in 1 .. n : c[i] >= 1
  BY <1>2, StridePositive
<1> HIDE DEF c
<1>5. \A i \in 1 .. n : c[i] \in Nat
  BY <1>3, <1>4
<1>6. c \in [1 .. n -> Nat]
  BY <1>2, <1>3, <1>5
<1>7. c \in Seq(Nat)
  BY <1>2, <1>6, FunSeq
<1> QED
  BY <1>3, <1>7 DEF ShapeOK, c

\* A new base is contiguous, and as large as it is said to be.
LEMMA UpdateDescShape ==
  ASSUME NEW s \in Seq(Nat \ {0}), NEW n \in Nat \ {0}
  PROVE  /\ UpdateDesc(n, s) \in [sizes : Seq(Nat \ {0}), strides : Seq(Nat)]
         /\ ShapeOK(UpdateDesc(n, s).sizes, UpdateDesc(n, s).strides)
         /\ UpdateDesc(n, s).sizes \in {s, <<n>>}
         /\ UpdateDesc(n, s).strides = ComputeStrideFromShape(UpdateDesc(n, s).sizes)
<1> DEFINE u == IF n > multiply_integers(s) THEN <<n>> ELSE s
<1>1. u \in {s, <<n>>} /\ <<n>> \in Seq(Nat \ {0})
  OBVIOUS
<1>2. u \in Seq(Nat \ {0})
  BY <1>1
<1>3. UpdateDesc(n, s) = [sizes |-> u, strides |-> ComputeStrideFromShape(u)]
  BY DEF UpdateDesc, Described
<1> HIDE DEF u
<1>4. ShapeOK(u, ComputeStrideFromShape(u))
  BY <1>2, ContiguousShape
<1>5. ComputeStrideFromShape(u) \in Seq(Nat)
  BY <1>4 DEF ShapeOK
<1> QED
  BY <1>1, <1>2, <1>3, <1>4, <1>5

LEMMA ListsAre ==
  find_match_optimization_cases(desc) \in Listed /\ optCasesAnyFormat \in Listed
<1> DEFINE f == find_match_optimization_cases(desc)
           fewer == multiply_integers(desc.sizes) < multiply_integers(desc.base_sizes)
<1>1. \/ f = <<"slice", "select", "indexing">> /\ fewer
      \/ f \in {<<"broadcast">>, <<"permute">>, <<>>}
  BY Zenon DEF find_match_optimization_cases
<1>2. /\ "slice" \in Plain /\ "select" \in Plain /\ "indexing" \in Plain
      /\ "permute" \in Plain /\ "broadcast" \in Plain /\ "reshape" \in Plain
  BY DEF Plain
<1>3. /\ <<"broadcast">> \in Seq(Plain) /\ <<"permute">> \in Seq(Plain) /\ <<>> \in Seq(Plain)
      /\ <<"slice", "select", "indexing">> \in Seq(Plain) /\ <<"reshape", "slice">> \in Seq(Plain)
  BY <1>2
<1>4. ASSUME NEW g, g \in {<<"broadcast">>, <<"permute">>, <<>>, <<"reshape", "slice">>}
      PROVE  \A k \in 1 .. Len(g) : g[k] # "select"
  BY <1>4
<1> HIDE DEF f, fewer
<1>5. fewer => \A g : Selecting(g)
  BY Zenon DEF Selecting, fewer
<1>6. \A g \in {<<"broadcast">>, <<"permute">>, <<>>, <<"reshape", "slice">>} : Selecting(g)
  BY <1>4, Zenon DEF Selecting
<1>7. <<"reshape", "slice">> \in Listed
  <2>1. <<"reshape", "slice">> \in {<<"broadcast">>, <<"permute">>, <<>>, <<"reshape", "slice">>}
    OBVIOUS
  <2> QED
    BY <1>3, <1>6, <2>1, Zenon DEF Listed
<1>8. f \in Listed
  <2>1. CASE f = <<"slice", "select", "indexing">> /\ fewer
    BY <1>3, <1>5, <2>1, Zenon DEF Listed
  <2>2. CASE f \in {<<"broadcast">>, <<"permute">>, <<>>}
    <3>1. f \in {<<"broadcast">>, <<"permute">>, <<>>, <<"reshape", "slice">>} /\ f \in Seq(Plain)
      BY <1>3, <2>2
    <3> QED
      BY <1>6, <3>1, Zenon DEF Listed
  <2> QED
    BY <1>1, <2>1, <2>2
<1> QED
  BY <1>7, <1>8, Zenon DEF optCasesAnyFormat, f

LEMMA BecomesOf ==
  ASSUME NEW u, NEW v, NEW x,
         Within(view.sizes, view.strides, view.offset, u, v, x), Becomes(u, v, x),
         reshaped' \in BOOLEAN
  PROVE  ViewStep
  BY Zenon DEF ViewStep

LEMMA ListedStep ==
  ASSUME NEW cases \in Listed, NEW combined, cached_contiguous_optimize(cases, combined)
  PROVE  CopyStep
<1>1. UNCHANGED <<view, reshaped, ops>>
  BY Zenon DEF cached_contiguous_optimize
<1>2. CASE RunCached
  BY <1>1, <1>2, Zenon DEF CopyStep
<1>3. CASE RunPlain(cases) \/ RunCombined(cases)
  BY <1>1, <1>3, Zenon DEF CopyStep
<1>4. CASE RunNone(cases)
  <2>1. General("general") /\ UNCHANGED <<storage, cache>> /\ "general" \in {"memcpy", "general"}
    BY <1>4, Zenon DEF RunNone
  <2>2. CopyOnly
    BY <2>1, Zenon DEF CopyOnly
  <2> QED
    BY <1>1, <2>2, Zenon DEF CopyStep
<1> QED
  BY <1>2, <1>3, <1>4, Zenon DEF cached_contiguous_optimize

LEMMA BaseFormatStep ==
  ASSUME NEW fresh, copy_d2d_dtype_baseformat(fresh) PROVE CopyStep
<1> DEFINE case == IF is_contiguous(view) THEN "memcpy" ELSE "general"
<1>1. CASE cached_contiguous_optimize(find_match_optimization_cases(desc), CombinedEnable)
  BY <1>1, ListedStep, ListsAre, Zenon
<1>2. CASE General(case) /\ UNCHANGED <<storage, view, reshaped, cache, ops>>
  <2>1. case \in {"memcpy", "general"}
    OBVIOUS
  <2> HIDE DEF case
  <2>2. CopyOnly
    BY <1>2, <2>1, Zenon DEF CopyOnly
  <2> QED
    BY <1>2, <2>2, Zenon DEF CopyStep
<1> QED
  BY <1>1, <1>2, Zenon DEF copy_d2d_dtype_baseformat

LEMMA DivideStep ==
  ASSUME DivideByZero PROVE CopyStep
<1>1. /\ Divides0(desc) /\ Done("divided by zero", <<>>)
      /\ UNCHANGED <<storage, view, reshaped, cache, ops>>
  BY Zenon DEF DivideByZero, Dies
<1>2. CopyOnly
  BY <1>1, Zenon DEF CopyOnly
<1> QED
  BY <1>1, <1>2, Zenon DEF CopyStep

LEMMA CopyIs ==
  ASSUME NEW fresh \in BOOLEAN, Copy(fresh) PROVE CopyStep
<1>1. CASE /\ \E c \in AnyFormat.copies : Done(AnyFormat.case, c)
           /\ UNCHANGED <<storage, view, reshaped, cache, ops>>
  <2>1. AnyFormat = FirstPlain(cache, desc, optCasesAnyFormat)
    BY Zenon DEF AnyFormat
  <2>2. optCasesAnyFormat \in Listed
    BY ListsAre
  <2>3. \E cases \in Listed : \E run \in {FirstPlain(cache, desc, cases)} :
          \E c \in run.copies : Done(run.case, c)
    <3>1. AnyFormat \in {FirstPlain(cache, desc, optCasesAnyFormat)}
      BY <2>1, Zenon
    <3> QED
      BY <1>1, <2>2, <3>1, Zenon
  <2>4. CopyOnly
    BY <1>1, <2>3, Zenon DEF CopyOnly
  <2> QED
    BY <1>1, <2>4, Zenon DEF CopyStep
<1>2. CASE DivideByZero
  BY <1>2, DivideStep
<1>3. CASE copy_d2d_dtype_baseformat(fresh)
  BY <1>3, BaseFormatStep, Zenon
<1> QED
  BY <1>1, <1>2, <1>3, Zenon DEF Copy

LEMMA CloneIs ==
  ASSUME clone PROVE CopyStep
<1>1. CASE DivideByZero
  BY <1>1, DivideStep
<1>2. CASE cached_contiguous_optimize(optCasesAnyFormat, FALSE)
  BY <1>2, ListedStep, ListsAre, Zenon
<1>3. CASE copy_d2d_dtype_baseformat(TRUE)
  BY <1>3, BaseFormatStep, Zenon
<1> QED
  BY <1>1, <1>2, <1>3, Zenon DEF clone

LEMMA NextSplit ==
  ASSUME Shapes, Next
  PROVE  Whole \/ ViewStep \/ AsOperand \/ (\E s \in Resizes : resize_(s)) \/ CopyStep
<1> DEFINE s == view.sizes
           t == view.strides
           o == view.offset
<1>1. /\ ShapeOK(s, t) /\ o \in Nat /\ Dims = 1 .. Len(s) /\ Len(s) \in Nat /\ reshaped \in BOOLEAN
      /\ \A i \in 1 .. Len(s) : s[i] \in Nat /\ s[i] >= 1 /\ t[i] \in Nat
  BY ShapeType DEF Shapes, Dims
<1>2. Keeps \/ Reshapes => reshaped' \in BOOLEAN
  BY <1>1 DEF Keeps, Reshapes
<1>3. ASSUME ExpandFront PROVE ViewStep
  <2>1. Becomes(<<2>> \o s, <<0>> \o t, o) /\ Keeps
    BY <1>3, Zenon DEF ExpandFront
  <2>2. Within(s, t, o, <<2>> \o s, <<0>> \o t, o)
    BY <1>1, ExpandFrontWithin, Zenon
  <2> QED
    BY <1>2, <2>1, <2>2, BecomesOf, Zenon
<1>4. ASSUME NEW i \in 1 .. Len(s), Expand(i) PROVE ViewStep
  <2>1. /\ s[i] = 1 /\ Keeps
        /\ Becomes([s EXCEPT ![i] = 2], [t EXCEPT ![i] = 0], o)
    BY <1>4, Zenon DEF Expand
  <2>2. Within(s, t, o, [s EXCEPT ![i] = 2], [t EXCEPT ![i] = 0], o)
    BY <1>1, <2>1, ExpandWithin, Zenon
  <2> QED
    BY <1>2, <2>1, <2>2, BecomesOf, Zenon
<1>5. ASSUME NEW i \in 1 .. Len(s), squeeze(i) PROVE ViewStep
  <2>1. s[i] = 1 /\ Keeps /\ Becomes(RemoveAt(s, i), RemoveAt(t, i), o)
    BY <1>5, Zenon DEF squeeze
  <2>2. 0 \in 0 .. s[i] - 1 /\ o + 0 * t[i] = o
    BY <1>1, <2>1
  <2>3. Within(s, t, o, RemoveAt(s, i), RemoveAt(t, i), o + 0 * t[i])
    BY <1>1, <2>2, SelectWithin
  <2>4. Within(s, t, o, RemoveAt(s, i), RemoveAt(t, i), o)
    BY <2>2, <2>3, Zenon
  <2> QED
    BY <1>2, <2>1, <2>4, BecomesOf, Zenon
<1>6. ASSUME NEW i \in 1 .. Len(s), NEW k \in 0 .. s[i] - 1, Select(i, k) PROVE ViewStep
  <2>1. Keeps /\ Becomes(RemoveAt(s, i), RemoveAt(t, i), o + k * t[i])
    BY <1>6, Zenon DEF Select
  <2>2. Within(s, t, o, RemoveAt(s, i), RemoveAt(t, i), o + k * t[i])
    BY <1>1, SelectWithin, Zenon
  <2> QED
    BY <1>2, <2>1, <2>2, BecomesOf, Zenon
<1>7. ASSUME NEW i \in 1 .. Len(s), NEW a \in 0 .. s[i] - 1, NEW b \in a + 1 .. s[i],
             NEW step \in 1 .. 2, Narrow(i, a, b, step)
      PROVE  ViewStep
  <2>1. /\ Keeps
        /\ Becomes([s EXCEPT ![i] = (b - a + step - 1) \div step],
                   [t EXCEPT ![i] = t[i] * step], o + a * t[i])
    BY <1>7, Zenon DEF Narrow
  <2>2. Within(s, t, o, [s EXCEPT ![i] = (b - a + step - 1) \div step],
               [t EXCEPT ![i] = t[i] * step], o + a * t[i])
    BY <1>1, NarrowWithin, Zenon
  <2> QED
    BY <1>2, <2>1, <2>2, BecomesOf, Zenon
<1>8. ASSUME NEW i \in 1 .. Len(s), NEW j \in 1 .. Len(s), i < j, Transpose(i, j) PROVE ViewStep
  <2>1. /\ Keeps
        /\ Becomes([s EXCEPT ![i] = s[j], ![j] = s[i]], [t EXCEPT ![i] = t[j], ![j] = t[i]], o)
    BY <1>8, Zenon DEF Transpose
  <2>2. Within(s, t, o, [s EXCEPT ![i] = s[j], ![j] = s[i]],
               [t EXCEPT ![i] = t[j], ![j] = t[i]], o)
    BY <1>1, <1>8, TransposeWithin, Zenon
  <2> QED
    BY <1>2, <2>1, <2>2, BecomesOf, Zenon
<1>9. ASSUME NEW i \in 1 .. Len(s), i + 1 \in 1 .. Len(s), Merge(i) PROVE ViewStep
  <2>1. /\ t[i] = t[i + 1] * s[i + 1] /\ Reshapes
        /\ Becomes(RemoveAt([s EXCEPT ![i + 1] = s[i + 1] * s[i]], i), RemoveAt(t, i), o)
    BY <1>9, Zenon DEF Merge
  <2>2. Within(s, t, o, RemoveAt([s EXCEPT ![i + 1] = s[i + 1] * s[i]], i), RemoveAt(t, i), o)
    BY <1>1, <1>9, <2>1, MergeWithin, Zenon
  <2> QED
    BY <1>2, <2>1, <2>2, BecomesOf, Zenon
<1>10. ASSUME NEW i \in 1 .. Len(s), NEW a \in 2 .. s[i] - 1, Split(i, a) PROVE ViewStep
  <2>1. /\ s[i] % a = 0 /\ Reshapes
        /\ Becomes(InsertAt([s EXCEPT ![i] = s[i] \div a], i, a),
                   InsertAt(t, i, (s[i] \div a) * t[i]), o)
    BY <1>10, Zenon DEF Split
  <2>2. Within(s, t, o, InsertAt([s EXCEPT ![i] = s[i] \div a], i, a),
               InsertAt(t, i, (s[i] \div a) * t[i]), o)
    BY <1>1, <2>1, SplitWithin, Zenon
  <2> QED
    BY <1>2, <2>1, <2>2, BecomesOf, Zenon
<1>11. ASSUME NEW i \in 1 .. Len(s) + 1, unsqueeze(i) PROVE ViewStep
  <2> DEFINE r == IF i > Len(s) THEN 1 ELSE s[i] * t[i]
  <2>1. r \in Nat
    <3>1. CASE i > Len(s)
      BY <3>1
    <3>2. CASE ~(i > Len(s))
      <4>1. i \in 1 .. Len(s)
        BY <1>1, <3>2
      <4>2. s[i] * t[i] \in Nat
        BY <1>1, <4>1
      <4> QED
        BY <3>2, <4>2
    <3> QED
      BY <3>1, <3>2
  <2>2. Keeps /\ Becomes(InsertAt(s, i, 1), InsertAt(t, i, r), o)
    BY <1>11, Zenon DEF unsqueeze
  <2> HIDE DEF r
  <2>3. Within(s, t, o, InsertAt(s, i, 1), InsertAt(t, i, r), o)
    BY <1>1, <2>1, UnsqueezeWithin, Zenon
  <2> QED
    BY <1>2, <2>2, <2>3, BecomesOf, Zenon
<1> QED
  <2>1. Dims = 1 .. Len(s)
    BY <1>1
  <2> QED
    BY <1>3, <1>4, <1>5, <1>6, <1>7, <1>8, <1>9, <1>10, <1>11, <2>1,
       CopyIs, CloneIs, Zenon DEF Next

------------------------------------------------------------------------------
(* The shapes are kept.                                                      *)

LEMMA NumelPositive ==
  ASSUME NEW s \in Seq(Nat \ {0})
  PROVE  multiply_integers(s) \in Nat \ {0} /\ s \in Seq(Int)
<1>1. Nat \ {0} \subseteq Int
  OBVIOUS
<1>2. s \in Seq(Int) /\ \A i \in 1 .. Len(s) : s[i] >= 1
  BY <1>1, SeqMonotonic
<1>3. multiply_integers(s) \in Int /\ multiply_integers(s) >= 1
  BY <1>2, ProductType, ProductPositive
<1> QED
  BY <1>2, <1>3

LEMMA OpsCounted ==
  ASSUME Shapes, ops < MaxOps, ops' = ops + 1 PROVE ops' \in 0 .. MaxOps
<1>1. ops \in 0 .. MaxOps /\ MaxOps \in Nat
  BY ViewAssumption, Zenon DEF Shapes
<1> QED
  BY <1>1

LEMMA ShapesInit == Init => Shapes
<1> SUFFICES ASSUME NEW s \in Bases,
                    storage = [numel |-> multiply_integers(s), base |-> Described(s)],
                    view = WholeOf(Described(s)), reshaped = FALSE, ops = 0
             PROVE  Shapes
  BY Zenon DEF Init
<1> DEFINE c == ComputeStrideFromShape(s)
<1>1. s \in Seq(Nat \ {0}) /\ Len(s) \in 1 .. MaxDims /\ MaxOps \in Nat
  BY ViewAssumption
<1>2. ShapeOK(s, c)
  BY <1>1, ContiguousShape
<1>3. c \in Seq(Nat)
  BY <1>2 DEF ShapeOK
<1>4. Described(s) = [sizes |-> s, strides |-> c]
  BY Zenon DEF Described
<1> HIDE DEF c
<1>5. view = [sizes |-> s, strides |-> c, offset |-> 0]
  BY <1>4 DEF WholeOf
<1>6. view \in [sizes : Seq(Nat \ {0}), strides : Seq(Nat), offset : Nat]
  BY <1>1, <1>3, <1>5
<1>7. /\ storage.base = [sizes |-> s, strides |-> c]
      /\ storage = [numel |-> storage.numel, base |-> storage.base]
  BY <1>4
<1>8. storage.base \in [sizes : Seq(Nat \ {0}), strides : Seq(Nat)]
  BY <1>1, <1>3, <1>7
<1>9. /\ view.sizes = s /\ view.strides = c /\ storage.base.sizes = s
      /\ storage.base.strides = c /\ 0 \in 0 .. MaxOps
  BY <1>1, <1>5, <1>7
<1> QED
  BY <1>1, <1>2, <1>6, <1>7, <1>8, <1>9, Zenon DEF Shapes

\* The view is replaced, of whatever shape.
LEMMA ShapesViewed ==
  ASSUME Shapes, NEW u, NEW v, NEW x, ShapeOK(u, v), x \in Nat, Becomes(u, v, x),
         reshaped' \in BOOLEAN
  PROVE  Shapes'
<1>1. /\ view' = [sizes |-> u, strides |-> v, offset |-> x]
      /\ Len(u) \in 1 .. MaxDims /\ storage' = storage /\ ops < MaxOps /\ ops' = ops + 1
  BY Zenon DEF Becomes
<1>2. u \in Seq(Nat \ {0}) /\ v \in Seq(Nat)
  BY DEF ShapeOK
<1>3. view' \in [sizes : Seq(Nat \ {0}), strides : Seq(Nat), offset : Nat]
  BY <1>1, <1>2
<1>4. view'.sizes = u /\ view'.strides = v
  BY <1>1
<1>5. ops' \in 0 .. MaxOps
  BY <1>1, OpsCounted, Zenon
<1>6. /\ storage' = [numel |-> storage'.numel, base |-> storage'.base]
      /\ storage'.base \in [sizes : Seq(Nat \ {0}), strides : Seq(Nat)]
      /\ ShapeOK(storage'.base.sizes, storage'.base.strides)
      /\ Len(storage'.base.sizes) \in 1 .. MaxDims
  BY <1>1, Zenon DEF Shapes
<1> QED
  BY <1>1, <1>3, <1>4, <1>5, <1>6, Zenon DEF Shapes

\* The storage is described otherwise, and the view is another, of the same place.
LEMMA ShapesDescribed ==
  ASSUME Shapes, NEW n, NEW b \in [sizes : Seq(Nat \ {0}), strides : Seq(Nat)],
         ShapeOK(b.sizes, b.strides), Len(b.sizes) \in 1 .. MaxDims,
         storage' = [numel |-> n, base |-> b],
         view' \in [sizes : Seq(Nat \ {0}), strides : Seq(Nat), offset : Nat],
         ShapeOK(view'.sizes, view'.strides), Len(view'.sizes) \in 1 .. MaxDims,
         reshaped' \in BOOLEAN, ops < MaxOps, ops' = ops + 1
  PROVE  Shapes'
<1>1. ops' \in 0 .. MaxOps
  BY OpsCounted, Zenon
<1>2. storage' = [numel |-> storage'.numel, base |-> storage'.base] /\ storage'.base = b
  OBVIOUS
<1> QED
  BY <1>1, <1>2, Zenon DEF Shapes

LEMMA OperandStep ==
  ASSUME Shapes, AsOperand
  PROVE  Shapes' /\ storage' = [numel |-> storage.numel,
                                base |-> [sizes |-> view.sizes, strides |-> view.strides]]
<1> DEFINE b == [sizes |-> view.sizes, strides |-> view.strides]
<1>1. /\ ops < MaxOps /\ ops' = ops + 1 /\ storage' = [storage EXCEPT !.base = b]
      /\ reshaped' = (view # WholeOf(Described(view.sizes))) /\ view' = view
  BY Zenon DEF AsOperand
<1>2. /\ view \in [sizes : Seq(Nat \ {0}), strides : Seq(Nat), offset : Nat]
      /\ storage = [numel |-> storage.numel, base |-> storage.base]
      /\ ShapeOK(view.sizes, view.strides) /\ Len(view.sizes) \in 1 .. MaxDims
  BY Zenon DEF Shapes
<1>3. b \in [sizes : Seq(Nat \ {0}), strides : Seq(Nat)] /\ b.sizes = view.sizes
        /\ b.strides = view.strides
  BY <1>2
<1>4. reshaped' \in BOOLEAN
  BY <1>1
<1>5. [storage EXCEPT !.base = b] = [numel |-> storage.numel, base |-> b]
  <2> DEFINE x == storage.numel
             y == storage.base
  <2>1. storage = [numel |-> x, base |-> y]
    BY <1>2, Zenon
  <2> HIDE DEF b, x, y
  <2>2. [storage EXCEPT !.base = b] = [numel |-> x, base |-> b]
    BY <2>1
  <2> QED
    BY <2>2, Zenon DEF x
<1> HIDE DEF b
<1>6. storage' = [numel |-> storage.numel, base |-> b]
  BY <1>1, <1>5, Zenon
<1>7. Shapes'
  <2>1. /\ ShapeOK(b.sizes, b.strides) /\ Len(b.sizes) \in 1 .. MaxDims
        /\ view' \in [sizes : Seq(Nat \ {0}), strides : Seq(Nat), offset : Nat]
        /\ ShapeOK(view'.sizes, view'.strides) /\ Len(view'.sizes) \in 1 .. MaxDims
        /\ b \in [sizes : Seq(Nat \ {0}), strides : Seq(Nat)]
        /\ ops < MaxOps /\ ops' = ops + 1
    BY <1>1, <1>2, <1>3, Zenon
  <2> QED
    BY <1>4, <1>6, <2>1, ShapesDescribed, Zenon
<1> QED
  BY <1>6, <1>7 DEF b

\* What resize_ makes of the view and of the storage.
LEMMA ResizeStep ==
  ASSUME Shapes, NEW s \in Resizes, resize_(s)
  PROVE  /\ s \in Seq(Nat \ {0}) /\ ShapeOK(s, ComputeStrideFromShape(s))
         /\ view' = [sizes |-> s, strides |-> ComputeStrideFromShape(s), offset |-> view.offset]
         /\ Needed(s) \in Nat \ {0} /\ Needed(s) = multiply_integers(s) + view.offset
         /\ storage' = IF Needed(s) > storage.numel
                       THEN [numel |-> Needed(s), base |-> UpdateDesc(Needed(s), s)]
                       ELSE storage
         /\ Shapes'
<1> DEFINE c == ComputeStrideFromShape(s)
           n == Needed(s)
<1>1. /\ ops < MaxOps /\ ops' = ops + 1
      /\ view' = [view EXCEPT !.sizes = s, !.strides = c]
      /\ storage' = IF n > storage.numel THEN [numel |-> n, base |-> UpdateDesc(n, s)]
                    ELSE storage
      /\ reshaped' = (view' # WholeOf(storage'.base))
  BY Zenon DEF resize_
<1>2. s \in Seq(Nat \ {0}) /\ Len(s) \in 1 .. MaxDims /\ MaxDims \in Nat
  BY ViewAssumption
<1>3. ShapeOK(s, c)
  BY <1>2, ContiguousShape
<1>4. c \in Seq(Nat)
  BY <1>3 DEF ShapeOK
<1>5. /\ view \in [sizes : Seq(Nat \ {0}), strides : Seq(Nat), offset : Nat]
      /\ storage = [numel |-> storage.numel, base |-> storage.base]
  BY Zenon DEF Shapes
<1> HIDE DEF c
<1>6. view' = [sizes |-> s, strides |-> c, offset |-> view.offset]
  BY <1>1, <1>5
<1>7. /\ view' \in [sizes : Seq(Nat \ {0}), strides : Seq(Nat), offset : Nat]
      /\ view'.sizes = s /\ view'.strides = c
  BY <1>2, <1>4, <1>5, <1>6
<1>8. n \in Nat \ {0} /\ n = multiply_integers(s) + view.offset
  <2>1. multiply_integers(s) \in Nat \ {0} /\ view.offset \in Nat
    BY <1>2, <1>5, NumelPositive
  <2> QED
    BY <2>1 DEF Needed
<1> HIDE DEF n
<1>9. reshaped' \in BOOLEAN
  BY <1>1
<1>10. Shapes'
  <2>1. CASE n > storage.numel
    <3> DEFINE b == UpdateDesc(n, s)
    <3>1. /\ b \in [sizes : Seq(Nat \ {0}), strides : Seq(Nat)]
          /\ ShapeOK(b.sizes, b.strides) /\ b.sizes \in {s, <<n>>}
      BY <1>2, <1>8, UpdateDescShape
    <3> HIDE DEF b
    <3>2. Len(<<n>>) = 1 /\ 1 \in 1 .. MaxDims
      BY <1>2
    <3>3. Len(b.sizes) \in 1 .. MaxDims
      BY <1>2, <3>1, <3>2, Zenon
    <3>4. storage' = [numel |-> n, base |-> b]
      BY <1>1, <2>1 DEF b
    <3>5. ShapeOK(view'.sizes, view'.strides) /\ Len(view'.sizes) \in 1 .. MaxDims
      BY <1>2, <1>3, <1>7, Zenon DEF c
    <3> QED
      BY <1>1, <1>7, <1>9, <3>1, <3>3, <3>4, <3>5, ShapesDescribed, Zenon
  <2>2. CASE ~(n > storage.numel)
    <3>1. storage' = [numel |-> storage.numel, base |-> storage.base]
      BY <1>1, <1>5, <2>2
    <3>2. ShapeOK(view'.sizes, view'.strides) /\ Len(view'.sizes) \in 1 .. MaxDims
      BY <1>2, <1>3, <1>7, Zenon DEF c
    <3>3. /\ storage.base \in [sizes : Seq(Nat \ {0}), strides : Seq(Nat)]
          /\ ShapeOK(storage.base.sizes, storage.base.strides)
          /\ Len(storage.base.sizes) \in 1 .. MaxDims
      BY Zenon DEF Shapes
    <3> QED
      BY <1>1, <1>7, <1>9, <3>1, <3>2, <3>3, ShapesDescribed, Zenon
  <2> QED
    BY <2>1, <2>2
<1> QED
  BY <1>1, <1>2, <1>3, <1>6, <1>8, <1>10, Zenon DEF c, n

\* A copy leaves the description of the storage, and the view.
LEMMA CopyStepShapes ==
  ASSUME Shapes, CopyStep
  PROVE  /\ Shapes' /\ view' = view /\ storage'.base = storage.base
         /\ \E n : storage' = [numel |-> n, base |-> storage.base]
<1>1. UNCHANGED <<view, reshaped, ops>>
  BY Zenon DEF CopyStep
<1>2. storage = [numel |-> storage.numel, base |-> storage.base]
  BY Zenon DEF Shapes
<1>3. PICK n : storage' = [numel |-> n, base |-> storage.base]
  <2>1. ASSUME NEW k, storage' = [storage EXCEPT !.numel = k]
        PROVE  \E n : storage' = [numel |-> n, base |-> storage.base]
    <3>1. storage' = [numel |-> k, base |-> storage.base]
      BY <1>2, <2>1
    <3> QED
      BY <3>1
  <2>2. CASE RunCached
    BY <2>1, <2>2, Zenon DEF RunCached, Attempted
  <2>3. ASSUME NEW cases, RunCombined(cases)
        PROVE  \E n : storage' = [numel |-> n, base |-> storage.base]
    BY <2>1, <2>3, Zenon DEF RunCombined, Attempted
  <2>4. CASE UNCHANGED storage
    BY <1>2, <2>4, Zenon
  <2> QED
    BY <2>2, <2>3, <2>4, Zenon DEF CopyStep, RunPlain, CopyOnly
<1>4. storage'.base = storage.base /\ storage' = [numel |-> storage'.numel, base |-> storage'.base]
  BY <1>3
<1>5. Shapes'
  BY <1>1, <1>4, Zenon DEF Shapes
<1> QED
  BY <1>1, <1>3, <1>4, <1>5

LEMMA ShapesNext == Shapes /\ [Next]_vars => Shapes'
<1> SUFFICES ASSUME Shapes, [Next]_vars PROVE Shapes'
  OBVIOUS
<1>1. CASE UNCHANGED vars
  BY <1>1, Zenon DEF Shapes, vars
<1>2. CASE Whole
  <2>1. /\ Becomes(storage.base.sizes, storage.base.strides, 0)
        /\ reshaped' = (storage.base # Described(storage.base.sizes))
    BY <1>2, Zenon DEF Whole
  <2>2. reshaped' \in BOOLEAN /\ 0 \in Nat
    BY <2>1
  <2>3. ShapeOK(storage.base.sizes, storage.base.strides)
    BY Zenon DEF Shapes
  <2> QED
    BY <2>1, <2>2, <2>3, ShapesViewed, Zenon
<1>3. CASE ViewStep
  BY <1>3, ShapesViewed, Zenon DEF ViewStep, Within
<1>4. CASE AsOperand
  BY <1>4, OperandStep
<1>5. ASSUME NEW s \in Resizes, resize_(s) PROVE Shapes'
  BY <1>5, ResizeStep
<1>6. CASE CopyStep
  BY <1>6, CopyStepShapes
<1> QED
  BY <1>1, <1>2, <1>3, <1>4, <1>5, <1>6, NextSplit, Zenon

\* Sizes are positive, strides go with the sizes, whatever views are made of the
\* tensor, and whatever describes its storage: copy_, resize_ and what takes an
\* operand keep to it.
THEOREM ShapesAlways == Spec => []Shapes
  BY ShapesInit, ShapesNext, PTL DEF Spec

------------------------------------------------------------------------------
(* The description that a copy of the view goes by.                          *)

LEMMA DescIs ==
  ASSUME Shapes
  PROVE  /\ DescOK(desc) /\ desc.sizes = view.sizes /\ desc.strides = view.strides
         /\ desc.offset = view.offset /\ desc.base_sizes = storage.base.sizes
         /\ desc.base_strides = storage.base.strides
<1>1. /\ desc.sizes = view.sizes /\ desc.strides = view.strides
      /\ desc.offset = view.offset /\ desc.base_sizes = storage.base.sizes
      /\ desc.base_strides = storage.base.strides
  BY DEF desc, OnBase
<1>2. /\ ShapeOK(view.sizes, view.strides) /\ ShapeOK(storage.base.sizes, storage.base.strides)
      /\ view \in [sizes : Seq(Nat \ {0}), strides : Seq(Nat), offset : Nat]
  BY Zenon DEF Shapes
<1>3. view.offset \in Nat
  BY <1>2
<1> QED
  BY <1>1, <1>2, <1>3, Zenon DEF DescOK

------------------------------------------------------------------------------
(* What the combined optimizer infers: the first view, and the second one.   *)

\* Sizes and strides that go together, whatever their values.
Ints(v) ==
  /\ v.sizes \in Seq(Int) /\ v.strides \in Seq(Int) /\ Len(v.strides) = Len(v.sizes)
  /\ v.offset \in Int

LEMMA ReachIs ==
  ASSUME NEW v, Ints(v)
  PROVE  Reach(v) \in Int /\ Reach(v) = v.offset + 1 + Added(Terms(v.sizes, v.strides))
<1>1. /\ v.sizes \in Seq(Int) /\ v.strides \in Seq(Int) /\ Len(v.strides) = Len(v.sizes)
      /\ v.offset \in Int
  BY Zenon DEF Ints
<1>2. Terms(v.sizes, v.strides) \in Seq(Int)
  BY <1>1, TermsType, Zenon
<1>3. Added(Terms(v.sizes, v.strides)) \in Int
  BY <1>2, SumType, Zenon
<1>4. Reach(v) = v.offset + 1 + Added(Terms(v.sizes, v.strides))
  BY Zenon DEF Reach, Terms
<1> QED
  BY <1>1, <1>3, <1>4

\* A contiguous view reaches as far as it has elements.
LEMMA ReachWhole ==
  ASSUME NEW v, Ints(v), is_contiguous(v)
  PROVE  Reach(v) = v.offset + multiply_integers(v.sizes) /\ multiply_integers(v.sizes) \in Int
<1> DEFINE s == v.sizes
           t == v.strides
           c == ComputeStrideFromShape(s)
<1>1. s \in Seq(Int) /\ t \in Seq(Int) /\ Len(t) = Len(s) /\ Len(s) \in Nat
  BY DEF Ints
<1>2. DOMAIN s = 1 .. Len(s) /\ \A i \in 1 .. Len(s) : s[i] \in Int /\ t[i] \in Int
  BY <1>1
<1>3. c \in Seq(Int) /\ Len(c) = Len(s) /\ \A i \in 1 .. Len(s) : c[i] \in Int
  BY <1>1, StrideType
<1>4. \A i \in 1 .. Len(s) : s[i] # 1 => t[i] = c[i]
  BY <1>2, Zenon DEF is_contiguous
<1> HIDE DEF c
<1>5. \A i \in 1 .. Len(s) : (s[i] - 1) * t[i] = (s[i] - 1) * c[i]
  <2> SUFFICES ASSUME NEW i \in 1 .. Len(s) PROVE (s[i] - 1) * t[i] = (s[i] - 1) * c[i]
    OBVIOUS
  <2>1. CASE s[i] = 1
    <3>1. \A a \in Int : (1 - 1) * a = 0
      OBVIOUS
    <3> QED
      BY <1>2, <1>3, <2>1, <3>1
  <2>2. CASE s[i] # 1
    BY <1>4, <2>2
  <2> QED
    BY <2>1, <2>2
<1>6. Terms(s, t) = [i \in 1 .. Len(s) |-> (s[i] - 1) * c[i]]
  BY <1>2, <1>5 DEF Terms
<1>7. Added([i \in 1 .. Len(s) |-> (s[i] - 1) * c[i]]) = multiply_integers(s) - 1
  BY <1>1, Telescoping DEF c
<1>8. multiply_integers(s) \in Int
  BY <1>1, ProductType
<1>9. Reach(v) = v.offset + 1 + Added(Terms(s, t)) /\ v.offset \in Int
  BY ReachIs, Zenon DEF Ints
<1> QED
  BY <1>6, <1>7, <1>8, <1>9

LEMMA ProductSame ==
  ASSUME NEW s, NEW t, s = t PROVE multiply_integers(s) = multiply_integers(t)
  OBVIOUS

Nonzero(d) == \A i \in 1 .. Len(d.sizes) : d.strides[i] # 0

\* A view, of whatever storage.
Viewed(v) == ShapeOK(v.sizes, v.strides) /\ v.offset \in Nat

LEMMA ViewedInts ==
  ASSUME NEW v, Viewed(v) PROVE Ints(v)
<1>1. ShapeOK(v.sizes, v.strides) /\ v.offset \in Nat
  BY Zenon DEF Viewed
<1>2. v.sizes \in Seq(Int) /\ v.strides \in Seq(Int) /\ Len(v.strides) = Len(v.sizes)
  BY <1>1, ShapeType, Zenon
<1>3. v.offset \in Int
  BY <1>1
<1> QED
  BY <1>2, <1>3, Zenon DEF Ints

\* Positive sizes, and strides that are not negative, of one length.
LEMMA ShapeOf ==
  ASSUME NEW n \in Nat, NEW s \in [1 .. n -> Int], NEW t \in [1 .. n -> Int],
         \A i \in 1 .. n : s[i] >= 1 /\ t[i] >= 0
  PROVE  ShapeOK(s, t) /\ Len(s) = n
<1>1. s \in [1 .. n -> Nat \ {0}] /\ t \in [1 .. n -> Nat]
  <2>1. \A i \in 1 .. n : s[i] \in Nat \ {0} /\ t[i] \in Nat
    <3> SUFFICES ASSUME NEW i \in 1 .. n PROVE s[i] \in Nat \ {0} /\ t[i] \in Nat
      OBVIOUS
    <3>1. s[i] \in Int /\ t[i] \in Int /\ s[i] >= 1 /\ t[i] >= 0
      OBVIOUS
    <3> QED
      BY <3>1
  <2> QED
    BY <2>1
<1>2. s \in Seq(Nat \ {0}) /\ Len(s) = n /\ t \in Seq(Nat) /\ Len(t) = n
  BY <1>1, FunSeq
<1> QED
  BY <1>2 DEF ShapeOK

\* What is inferred is a view, of the dimensions of the view at least, that
\* begins no later.
Inferred(d, b) == Viewed(b) /\ Len(d.sizes) <= Len(b.sizes) /\ b.offset <= d.offset

LEMMA InferPermuteType ==
  ASSUME NEW d, DescOK(d) PROVE Inferred(d, InferPermute(d))
<1> DEFINE n == Len(d.sizes)
           strides == [k \in DOMAIN d.strides |-> d.strides[Reordered(d)[k]]]
           wide(s) == {i \in 2 .. Len(d.sizes) : d.strides[i] = s /\ d.sizes[i] # 1}
           size(s) == IF wide(s) # {} THEN d.sizes[Max(wide(s))]
                      ELSE IF d.strides[1] = s THEN d.sizes[1] ELSE 1
           sizes == [i \in DOMAIN strides |->
                       IF i > 1 /\ strides[i] = strides[i - 1] THEN 1 ELSE size(strides[i])]
<1>1. ShapeOK(d.sizes, d.strides) /\ d.offset \in Nat
  BY Zenon DEF DescOK
<1>2. /\ DOMAIN d.strides = 1 .. n /\ n \in Nat
      /\ \A i \in 1 .. n : d.sizes[i] \in Int /\ d.sizes[i] >= 1 /\ d.strides[i] \in Int
                             /\ d.strides[i] >= 0
  BY <1>1, ShapeType
<1>3. \A k \in 1 .. n : Reordered(d)[k] \in 1 .. n
  BY <1>1, ReorderedPermutes, Zenon
<1>4. strides \in [1 .. n -> Int] /\ \A k \in 1 .. n : strides[k] >= 0
  BY <1>2, <1>3
<1>5. \A s : n # 0 => size(s) \in Int /\ size(s) >= 1
  <2> SUFFICES ASSUME NEW s, n # 0 PROVE size(s) \in Int /\ size(s) >= 1
    BY Zenon
  <2>1. CASE wide(s) # {}
    <3>1. wide(s) \subseteq 1 .. n
      BY <1>2
    <3>2. Max(wide(s)) \in 1 .. n
      BY <1>2, <2>1, <3>1, GreatestMember, Zenon
    <3> QED
      BY <1>2, <2>1, <3>2
  <2>2. CASE wide(s) = {}
    <3>1. 1 \in 1 .. n
      BY <1>2
    <3>2. d.sizes[1] \in Int /\ d.sizes[1] >= 1
      BY <1>2, <3>1
    <3> QED
      BY <2>2, <3>2
  <2> QED
    BY <2>1, <2>2
<1>6. DOMAIN strides = 1 .. n
  BY <1>2
<1> HIDE DEF size, strides
<1>7. sizes \in [1 .. n -> Int] /\ \A i \in 1 .. n : sizes[i] >= 1
  <2> DEFINE at(i) == IF i > 1 /\ strides[i] = strides[i - 1] THEN 1 ELSE size(strides[i])
  <2>1. ASSUME NEW i \in 1 .. n PROVE at(i) \in Int /\ at(i) >= 1
    <3>1. n # 0
      BY <1>2
    <3>2. size(strides[i]) \in Int /\ size(strides[i]) >= 1
      BY <1>5, <3>1, Zenon
    <3> QED
      BY <3>2
  <2>2. sizes = [i \in 1 .. n |-> at(i)]
    BY <1>6
  <2> HIDE DEF sizes, at
  <2> QED
    BY <2>1, <2>2
<1>8. InferPermute(d) = [strides |-> strides, offset |-> 0, sizes |-> sizes]
  BY Zenon DEF InferPermute, size, strides
<1> HIDE DEF sizes
<1>9. ShapeOK(sizes, strides) /\ Len(sizes) = n
  BY <1>2, <1>4, <1>7, ShapeOf
<1>10. /\ InferPermute(d).sizes = sizes /\ InferPermute(d).strides = strides
       /\ InferPermute(d).offset = 0
  BY <1>8
<1>11. n <= n /\ 0 \in Nat /\ 0 <= d.offset
  BY <1>1, <1>2
<1> QED
  BY <1>9, <1>10, <1>11, Zenon DEF Inferred, Viewed

\* A view that is not contiguous has a gap between the strides.
LEMMA GapExists ==
  ASSUME NEW d, ShapeOK(d.sizes, d.strides), ~is_contiguous(d)
  PROVE  \E i \in 1 .. Len(d.sizes) :
           d.strides[i] # IF i = Len(d.sizes) THEN 1 ELSE d.sizes[i + 1] * d.strides[i + 1]
<1> DEFINE n == Len(d.sizes)
<1>1. /\ d.sizes \in Seq(Int) /\ d.strides \in Seq(Int) /\ Len(d.strides) = n /\ n \in Nat
      /\ DOMAIN d.sizes = 1 .. n
  BY ShapeType
<1> SUFFICES ASSUME \A i \in 1 .. n : d.strides[i]
                      = IF i = n THEN 1 ELSE d.sizes[i + 1] * d.strides[i + 1]
             PROVE  is_contiguous(d)
  BY Zenon
<1>2. StridesOf(d.sizes, d.strides)
  <2>1. n >= 1 => d.strides[n] = 1
    <3> SUFFICES ASSUME n >= 1 PROVE d.strides[n] = 1
      OBVIOUS
    <3>1. n \in 1 .. n
      BY <1>1
    <3> QED
      BY <3>1, Zenon
  <2>2. \A i \in 1 .. n : i + 1 <= n => d.strides[i] = d.sizes[i + 1] * d.strides[i + 1]
    BY <1>1
  <2>3. d.strides \in Seq(Int) /\ Len(d.strides) = Len(d.sizes)
    BY <1>1
  <2> QED
    BY <2>1, <2>2, <2>3, Zenon DEF StridesOf
<1>3. StridesOf(d.sizes, ComputeStrideFromShape(d.sizes))
  BY <1>1, StrideSteps, Zenon
<1>4. \A i \in 1 .. n : d.strides[i] = ComputeStrideFromShape(d.sizes)[i]
  <2> DEFINE s == d.sizes
             c == ComputeStrideFromShape(s)
  <2>1. s \in Seq(Int) /\ StridesOf(s, d.strides) /\ StridesOf(s, c)
    BY <1>1, <1>2, <1>3
  <2> HIDE DEF s, c
  <2>2. \A i \in 1 .. Len(s) : d.strides[i] = c[i]
    BY <2>1, StrideUnique
  <2> QED
    BY <2>2 DEF s, c
<1> QED
  BY <1>1, <1>4, Zenon DEF is_contiguous

LEMMA InferSelectType ==
  ASSUME NEW d, DescOK(d), Nonzero(d), ~is_contiguous(d), maybe_select(d)
  PROVE  Inferred(d, InferSelect(d))
<1> DEFINE n == Len(d.sizes)
           span(i) == IF i = Len(d.sizes) THEN 1 ELSE d.sizes[i + 1] * d.strides[i + 1]
           gaps == {i \in DOMAIN d.sizes : d.strides[i] # span(i)}
           gap == Max(gaps)
<1>1. ShapeOK(d.sizes, d.strides) /\ d.offset \in Nat
  BY Zenon DEF DescOK
<1>2. /\ d.sizes \in Seq(Int) /\ d.strides \in Seq(Int) /\ Len(d.strides) = n /\ n \in Nat
      /\ DOMAIN d.sizes = 1 .. n
      /\ \A i \in 1 .. n : d.sizes[i] \in Nat /\ d.sizes[i] >= 1 /\ d.strides[i] \in Nat
  BY <1>1, ShapeType
<1>3. \A i \in 1 .. n : d.strides[i] >= 1
  BY <1>2 DEF Nonzero
<1>4. gaps # {} /\ gaps \subseteq 1 .. n
  BY <1>1, <1>2, GapExists, Zenon
<1>5. gap \in 1 .. n
  <2> HIDE DEF gaps
  <2> QED
    BY <1>2, <1>4, GreatestMember, Zenon
<1> HIDE DEF gap
<1>6. span(gap) \in Nat /\ span(gap) >= 1
  <2>1. CASE gap = n
    BY <2>1
  <2>2. CASE gap # n
    <3>1. gap + 1 \in 1 .. n
      BY <1>2, <1>5, <2>2
    <3>2. \A a, b \in Nat : a >= 1 /\ b >= 1 => a * b \in Nat /\ a * b >= 1
      OBVIOUS
    <3>3. d.sizes[gap + 1] * d.strides[gap + 1] >= 1
            /\ d.sizes[gap + 1] * d.strides[gap + 1] \in Nat
      BY <1>2, <1>3, <3>1, <3>2
    <3> QED
      BY <2>2, <3>3
  <2> QED
    BY <2>1, <2>2
<1> DEFINE r == span(gap)
           q == d.strides[gap] \div r
           e == d.offset % d.strides[gap]
           k == gap + 1
<1>7. e \in Nat /\ e <= d.offset
  <2> DEFINE a == d.strides[gap]
             o == d.offset
  <2>1. a \in Nat /\ a >= 1 /\ o \in Nat
    BY <1>1, <1>2, <1>3, <1>5
  <2> HIDE DEF a, o
  <2>2. o \div a \in Nat /\ o % a \in 0 .. a - 1 /\ o = (o \div a) * a + (o % a)
    BY <2>1, DivMod
  <2>3. \A x, y \in Nat : x * y \in Nat
    OBVIOUS
  <2>4. (o \div a) * a \in Nat
    BY <2>1, <2>2, <2>3
  <2> DEFINE m == (o \div a) * a
             z == o % a
  <2>5. m \in Nat /\ z \in 0 .. a - 1 /\ o = m + z
    BY <2>2, <2>4
  <2> HIDE DEF m, z
  <2>6. z \in Nat /\ z <= o
    BY <2>1, <2>5
  <2>7. e = z
    BY DEF a, o, z
  <2> QED
    BY <2>6, <2>7 DEF o
<1>8. q \in Nat /\ q >= 1
  <2> DEFINE a == d.strides[gap]
  <2>1. a \in Nat /\ a >= 1 /\ r \in Nat /\ r >= 1
    BY <1>2, <1>3, <1>5, <1>6
  <2>2. a % r = 0
    <3>1. CASE gap = n
      <4>1. r = 1
        BY <3>1
      <4>2. a % 1 = 0
        BY <2>1
      <4> QED
        BY <4>1, <4>2
    <3>2. CASE gap # n
      <4>1. gap + 1 \in 2 .. n /\ (gap + 1) - 1 = gap
        BY <1>2, <1>5, <3>2
      <4>2. d.strides[(gap + 1) - 1] % (d.sizes[gap + 1] * d.strides[gap + 1]) = 0
        BY <4>1, Zenon DEF maybe_select
      <4>3. r = d.sizes[gap + 1] * d.strides[gap + 1]
        BY <3>2
      <4> HIDE DEF r
      <4> QED
        BY <4>1, <4>2, <4>3, Zenon
    <3> QED
      BY <3>1, <3>2
  <2> HIDE DEF a, r
  <2>3. a \div r \in Nat /\ a = (a \div r) * r + (a % r)
    BY <2>1, DivMod
  <2>4. a \div r # 0
    <3> SUFFICES ASSUME a \div r = 0 PROVE FALSE
      OBVIOUS
    <3>1. 0 * r = 0
      BY <2>1
    <3>2. a = 0 + 0
      BY <2>2, <2>3, <3>1, Zenon
    <3> QED
      BY <2>1, <3>2
  <2>5. q = a \div r
    BY DEF a
  <2> QED
    BY <2>3, <2>4, <2>5
<1>9. k \in 1 .. Len(d.sizes) + 1 /\ k \in 1 .. Len(d.strides) + 1
  BY <1>2, <1>5
<1>10. InferSelect(d) = [sizes |-> InsertAt(d.sizes, k, q), strides |-> InsertAt(d.strides, k, r),
                         offset |-> e]
  BY Zenon DEF InferSelect, gap
<1>11. q \in Nat \ {0} /\ r \in Nat
  BY <1>6, <1>8
<1> HIDE DEF r, q, e, k
<1>12. d.sizes \in Seq(Nat \ {0}) /\ d.strides \in Seq(Nat)
  BY <1>1 DEF ShapeOK
<1>13. InsertedAs(Nat \ {0}, d.sizes, k, q) /\ InsertedAs(Nat, d.strides, k, r)
  BY <1>9, <1>11, <1>12, Inserted, Zenon
<1>14. /\ InsertAt(d.sizes, k, q) \in Seq(Nat \ {0}) /\ Len(InsertAt(d.sizes, k, q)) = n + 1
       /\ InsertAt(d.strides, k, r) \in Seq(Nat) /\ Len(InsertAt(d.strides, k, r)) = n + 1
  BY <1>2, <1>13, Zenon DEF InsertedAs
<1>15. n <= n + 1
  BY <1>2
<1>16. /\ InferSelect(d).sizes = InsertAt(d.sizes, k, q)
       /\ InferSelect(d).strides = InsertAt(d.strides, k, r) /\ InferSelect(d).offset = e
  BY <1>10
<1> QED
  BY <1>7, <1>14, <1>15, <1>16, Zenon DEF Inferred, Viewed, ShapeOK

LEMMA InferSliceType ==
  ASSUME NEW d, DescOK(d), Nonzero(d), Len(d.sizes) >= 1,
         \A i \in 2 .. Len(d.sizes) : d.strides[i - 1] % d.strides[i] = 0,
         maybe_slice(OnBase(d, InferSlice(d)))
  PROVE  Inferred(d, InferSlice(d))
<1> DEFINE n == Len(d.sizes)
           inner == [i \in 2 .. Len(d.sizes) |-> d.strides[i - 1] \div d.strides[i]]
           sizes == [i \in DOMAIN d.sizes |-> IF i = 1 THEN 1 ELSE inner[i]]
           q == multiply_integers(d.base_sizes) \div multiply_integers(sizes)
<1>1. /\ ShapeOK(d.sizes, d.strides) /\ ShapeOK(d.base_sizes, d.base_strides) /\ d.offset \in Nat
  BY Zenon DEF DescOK
<1>2. /\ d.strides \in Seq(Int) /\ Len(d.strides) = n /\ n \in Nat /\ DOMAIN d.sizes = 1 .. n
      /\ \A i \in 1 .. n : d.strides[i] \in Nat
  BY <1>1, ShapeType
<1>3. \A i \in 1 .. n : d.strides[i] >= 1
  BY <1>2 DEF Nonzero
<1>4. \A i \in 2 .. n : inner[i] \in Int /\ inner[i] >= 1
  <2> SUFFICES ASSUME NEW i \in 2 .. n PROVE inner[i] \in Int /\ inner[i] >= 1
    OBVIOUS
  <2>1. i \in 1 .. n /\ i - 1 \in 1 .. n
    BY <1>2
  <2> DEFINE a == d.strides[i - 1]
             b == d.strides[i]
  <2>2. a \in Nat /\ a >= 1 /\ b \in Nat /\ b >= 1 /\ a % b = 0
    BY <1>2, <1>3, <2>1
  <2>3. inner[i] = a \div b
    OBVIOUS
  <2> HIDE DEF a, b
  <2>4. a \div b \in Nat /\ a = (a \div b) * b + (a % b)
    BY <2>2, DivMod
  <2>5. a = (a \div b) * b
    BY <2>2, <2>4
  <2>6. a \div b # 0
    <3> SUFFICES ASSUME a \div b = 0 PROVE FALSE
      OBVIOUS
    <3>1. 0 * b = 0
      BY <2>2
    <3>2. a = 0
      BY <2>5, <3>1, Zenon
    <3> QED
      BY <2>2, <3>2
  <2> QED
    BY <2>3, <2>4, <2>6
<1>5. sizes \in [1 .. n -> Int] /\ \A i \in 1 .. n : sizes[i] >= 1
  <2> HIDE DEF inner
  <2>1. ASSUME NEW i \in 1 .. n
        PROVE  (IF i = 1 THEN 1 ELSE inner[i]) \in Int /\ (IF i = 1 THEN 1 ELSE inner[i]) >= 1
    <3>1. CASE i = 1
      BY <3>1
    <3>2. CASE i # 1
      <4>1. i \in 2 .. n
        BY <1>2, <3>2
      <4>2. inner[i] \in Int /\ inner[i] >= 1
        BY <1>4, <4>1
      <4> QED
        BY <3>2, <4>2
    <3> QED
      BY <3>1, <3>2
  <2> QED
    BY <1>2, <2>1
<1>6. InferSlice(d) = [sizes |-> [sizes EXCEPT ![1] = q], strides |-> d.strides,
                       offset |-> d.offset]
  BY Zenon DEF InferSlice
<1> HIDE DEF sizes
<1>7. sizes \in Seq(Int) /\ Len(sizes) = n
  BY <1>2, <1>5, FunSeq
<1>8. q \in Nat
  <2>1. multiply_integers(sizes) \in Nat /\ multiply_integers(sizes) >= 1
    <3>1. multiply_integers(sizes) \in Int /\ multiply_integers(sizes) >= 1
      BY <1>5, <1>7, ProductType, ProductPositive
    <3> QED
      BY <3>1
  <2>2. d.base_sizes \in Seq(Nat \ {0})
    BY <1>1 DEF ShapeOK
  <2>3. multiply_integers(d.base_sizes) \in Nat
    BY <2>2, NumelPositive
  <2> QED
    BY <2>1, <2>3, DivMod
<1> HIDE DEF q
<1> DEFINE u == [sizes EXCEPT ![1] = q]
<1>9. u \in [1 .. n -> Int] /\ u[1] = q /\ \A i \in 2 .. n : u[i] = sizes[i]
  BY <1>2, <1>5, <1>8
<1> HIDE DEF u
<1>10. u \in Seq(Int) /\ Len(u) = n
  BY <1>2, <1>9, FunSeq
<1>11. /\ InferSlice(d).sizes = u /\ InferSlice(d).strides = d.strides
       /\ InferSlice(d).offset = d.offset /\ n <= n
  BY <1>2, <1>6 DEF u
<1>12. u[1] # 0
  <2>1. multiply_integers(d.sizes) < multiply_integers(u)
    <3>1. /\ OnBase(d, InferSlice(d)).sizes = d.sizes
          /\ OnBase(d, InferSlice(d)).base_sizes = InferSlice(d).sizes
      BY DEF OnBase
    <3>2. multiply_integers(OnBase(d, InferSlice(d)).sizes)
            < multiply_integers(OnBase(d, InferSlice(d)).base_sizes)
      BY Zenon DEF maybe_slice
    <3> QED
      BY <1>11, <3>1, <3>2, Zenon
  <2>2. d.sizes \in Seq(Nat \ {0})
    BY <1>1 DEF ShapeOK
  <2>3. multiply_integers(d.sizes) \in Nat
    BY <2>2, NumelPositive
  <2>4. multiply_integers(u) \in Int
    BY <1>10, ProductType
  <2>5. multiply_integers(u) # 0
    BY <2>1, <2>3, <2>4
  <2>6. 1 \in 1 .. Len(u)
    BY <1>2, <1>10
  <2> QED
    BY <1>10, <2>5, <2>6, ProductFactors, Zenon
<1>13. \A i \in 1 .. n : u[i] >= 1
  <2> SUFFICES ASSUME NEW i \in 1 .. n PROVE u[i] >= 1
    OBVIOUS
  <2>1. CASE i = 1
    BY <1>8, <1>9, <1>12, <2>1
  <2>2. CASE i # 1
    <3>1. i \in 2 .. n
      BY <1>2, <2>2
    <3> QED
      BY <1>5, <1>9, <3>1
  <2> QED
    BY <2>1, <2>2
<1>14. ShapeOK(u, d.strides)
  <2>1. d.strides \in [1 .. n -> Int] /\ \A i \in 1 .. n : d.strides[i] >= 0
    BY <1>2
  <2> QED
    BY <1>2, <1>9, <1>13, <2>1, ShapeOf
<1>15. d.offset <= d.offset
  BY <1>1
<1> QED
  BY <1>1, <1>10, <1>11, <1>14, <1>15, Zenon DEF Inferred, Viewed

------------------------------------------------------------------------------
(* The places of the storage after a combined copy.                          *)

Stack(d, b) == [outer |-> [sizes |-> d.sizes, strides |-> d.strides, offset |-> b.offset],
                inner |-> [b EXCEPT !.offset = d.offset - b.offset]]

LEMMA CombinedIs ==
  ASSUME NEW d, NEW p \in can_use_combined(d)
  PROVE  /\ ~is_contiguous(d) /\ \A i \in DOMAIN d.strides : d.strides[i] # 0
         /\ \E b \in can_infer_view_tensor(d) : p = Stack(d, b)
<1>1. ~(is_contiguous(d) \/ \E i \in DOMAIN d.strides : d.strides[i] = 0)
  <2> SUFFICES ASSUME is_contiguous(d) \/ \E i \in DOMAIN d.strides : d.strides[i] = 0
               PROVE  FALSE
    OBVIOUS
  <2>1. can_use_combined(d) = {}
    BY Zenon DEF can_use_combined
  <2> QED
    BY <2>1
<1>2. \E b \in can_infer_view_tensor(d) : p = Stack(d, b)
  <2> DEFINE base == [sizes |-> d.base_sizes, strides |-> d.base_strides]
             found == {Stack(d, b) : b \in can_infer_view_tensor(d)}
  <2>1. can_use_combined(d)
          = {s \in found : can_be_optimize_from_default_cases(OnBase(s.inner, base))}
    BY <1>1, Zenon DEF can_use_combined, Stack
  <2>2. p \in found
    <3> HIDE DEF found
    <3> QED
      BY <2>1
  <2> QED
    BY <2>2
<1> QED
  BY <1>1, <1>2

AsRecord(b) == b = [sizes |-> b.sizes, strides |-> b.strides, offset |-> b.offset]

LEMMA InferRecords ==
  ASSUME NEW d
  PROVE  AsRecord(InferPermute(d)) /\ AsRecord(InferSelect(d)) /\ AsRecord(InferSlice(d))
<1>1. ASSUME NEW x, NEW y, NEW z, NEW b, b = [sizes |-> x, strides |-> y, offset |-> z]
      PROVE  AsRecord(b)
  BY <1>1 DEF AsRecord
<1>2. ASSUME NEW x, NEW y, NEW z, NEW b, b = [strides |-> x, offset |-> y, sizes |-> z]
      PROVE  AsRecord(b)
  BY <1>2 DEF AsRecord
<1>3. \E x, y, z : InferPermute(d) = [strides |-> x, offset |-> y, sizes |-> z]
  BY Zenon DEF InferPermute
<1>4. \E x, y, z : InferSelect(d) = [sizes |-> x, strides |-> y, offset |-> z]
  BY Zenon DEF InferSelect
<1>5. \E x, y, z : InferSlice(d) = [sizes |-> x, strides |-> y, offset |-> z]
  BY Zenon DEF InferSlice
<1> QED
  BY <1>1, <1>2, <1>3, <1>4, <1>5, Zenon

LEMMA InferType ==
  ASSUME NEW d, DescOK(d), Nonzero(d), ~is_contiguous(d), NEW b \in can_infer_view_tensor(d)
  PROVE  Inferred(d, b) /\ AsRecord(b)
<1>1. CASE maybe_permute(d)
  <2>1. b \in {InferPermute(d)}
    BY <1>1, Zenon DEF can_infer_view_tensor
  <2>2. b = InferPermute(d)
    BY <2>1
  <2> QED
    BY <2>2, InferPermuteType, InferRecords, Zenon
<1>2. CASE ~maybe_permute(d) /\ maybe_select(d)
  <2>1. b \in {x \in {InferSelect(d)} : maybe_select(OnBase(d, x))}
    BY <1>2, Zenon DEF can_infer_view_tensor
  <2>2. b = InferSelect(d)
    BY <2>1
  <2> QED
    BY <1>2, <2>2, InferSelectType, InferRecords, Zenon
<1>3. CASE ~maybe_permute(d) /\ ~maybe_select(d)
  <2> DEFINE C == /\ maybe_slice(d)
                  /\ \A i \in 2 .. Len(d.sizes) : d.strides[i - 1] % d.strides[i] = 0
  <2>1. can_infer_view_tensor(d)
          = IF C THEN {x \in {InferSlice(d)} : maybe_slice(OnBase(d, x))} ELSE {}
    BY <1>3, Zenon DEF can_infer_view_tensor
  <2>2. C
    <3> SUFFICES ASSUME ~C PROVE FALSE
      OBVIOUS
    <3> HIDE DEF C
    <3>1. can_infer_view_tensor(d) = {}
      BY <2>1
    <3> QED
      BY <3>1
  <2>3. b = InferSlice(d) /\ maybe_slice(OnBase(d, b))
    <3>1. b \in {x \in {InferSlice(d)} : maybe_slice(OnBase(d, x))}
      BY <2>1, <2>2, Zenon
    <3> QED
      BY <3>1
  <2>4. Len(d.sizes) >= 1
    <3>1. ShapeOK(d.sizes, d.strides)
      BY Zenon DEF DescOK
    <3>2. Len(d.sizes) \in Nat
      BY <3>1, ShapeType
    <3>3. \E i \in 1 .. Len(d.sizes) : TRUE
      BY <3>1, GapExists, Zenon
    <3> QED
      BY <3>2, <3>3
  <2>5. \A i \in 2 .. Len(d.sizes) : d.strides[i - 1] % d.strides[i] = 0
    BY <2>2, Zenon
  <2>6. Inferred(d, InferSlice(d))
    BY <2>3, <2>4, <2>5, InferSliceType, Zenon
  <2> QED
    BY <2>3, <2>6, InferRecords, Zenon
<1> QED
  BY <1>1, <1>2, <1>3

\* The two views of a combined copy.
Stacked(p) ==
  /\ Viewed(p.inner) /\ Viewed(p.outer) /\ Len(p.outer.sizes) <= Len(p.inner.sizes)
  /\ AsRecord(p.outer)

LEMMA CombinedType ==
  ASSUME NEW d, DescOK(d), NEW p \in can_use_combined(d)
  PROVE  Stacked(p)
<1>1. ShapeOK(d.sizes, d.strides) /\ d.offset \in Nat
  BY Zenon DEF DescOK
<1>2. DOMAIN d.strides = 1 .. Len(d.sizes)
  BY <1>1, ShapeType
<1>3. ~is_contiguous(d) /\ Nonzero(d)
  BY <1>2, CombinedIs, Zenon DEF Nonzero
<1>4. PICK b \in can_infer_view_tensor(d) : p = Stack(d, b)
  BY CombinedIs
<1>5. Inferred(d, b) /\ AsRecord(b)
  BY <1>3, InferType, Zenon
<1>6. /\ ShapeOK(b.sizes, b.strides) /\ b.offset \in Nat
      /\ Len(d.sizes) <= Len(b.sizes) /\ b.offset <= d.offset
  BY <1>5, Zenon DEF Inferred, Viewed
<1>7. b = [sizes |-> b.sizes, strides |-> b.strides, offset |-> b.offset]
  BY <1>5, Zenon DEF AsRecord
<1>8. /\ p.outer = [sizes |-> d.sizes, strides |-> d.strides, offset |-> b.offset]
      /\ p.inner = [b EXCEPT !.offset = d.offset - b.offset]
  BY <1>4 DEF Stack
<1>9. p.inner = [sizes |-> b.sizes, strides |-> b.strides, offset |-> d.offset - b.offset]
  BY <1>7, <1>8
<1>10. d.offset - b.offset \in Nat
  BY <1>1, <1>6
<1>11. /\ p.inner.sizes = b.sizes /\ p.inner.strides = b.strides
       /\ p.inner.offset = d.offset - b.offset
  BY <1>9
<1>12. /\ p.outer.sizes = d.sizes /\ p.outer.strides = d.strides /\ p.outer.offset = b.offset
       /\ AsRecord(p.outer)
  BY <1>8 DEF AsRecord
<1> QED
  BY <1>1, <1>6, <1>10, <1>11, <1>12, Zenon DEF Stacked, Viewed

\* The second view keeps its shape, whatever strides it gets.
LEMMA ReconstructType ==
  ASSUME NEW p, Stacked(p) PROVE Viewed(reconstruct_tensor(p.outer, p.inner))
<1> DEFINE outer == p.outer
           inner == p.inner
           n == Len(outer.sizes)
           computed == ComputeStrideFromShape(inner.sizes)
           at(k) == {i \in DOMAIN outer.sizes : inner.sizes[i] * inner.strides[i] = k}
           f == [i \in DOMAIN outer.sizes |->
                   LET k == outer.sizes[i] * outer.strides[i]
                   IN  IF at(k) = {} THEN 0 ELSE computed[Max(at(k))]]
<1>1. /\ ShapeOK(outer.sizes, outer.strides) /\ outer.offset \in Nat
      /\ ShapeOK(inner.sizes, inner.strides) /\ n <= Len(inner.sizes) /\ AsRecord(outer)
  BY Zenon DEF Stacked, Viewed
<1>2. /\ DOMAIN outer.sizes = 1 .. n /\ n \in Nat /\ Len(inner.sizes) \in Nat
      /\ inner.sizes \in Seq(Nat \ {0})
  BY <1>1, ShapeType DEF ShapeOK
<1>3. \A i \in 1 .. Len(inner.sizes) : computed[i] \in Nat
  <2>1. ShapeOK(inner.sizes, computed)
    BY <1>2, ContiguousShape
  <2> QED
    BY <2>1, ShapeType, Zenon
<1>4. ASSUME NEW k PROVE (IF at(k) = {} THEN 0 ELSE computed[Max(at(k))]) \in Nat
  <2>1. CASE at(k) = {}
    BY <2>1
  <2>2. CASE at(k) # {}
    <3>1. at(k) \subseteq 1 .. n
      BY <1>2
    <3>2. Max(at(k)) \in 1 .. n
      <4> HIDE DEF at
      <4> QED
        BY <1>2, <2>2, <3>1, GreatestMember, Zenon
    <3>3. Max(at(k)) \in 1 .. Len(inner.sizes)
      BY <1>1, <1>2, <3>2
    <3>4. computed[Max(at(k))] \in Nat
      BY <1>3, <3>3, Zenon
    <3> QED
      BY <2>2, <3>4
  <2> QED
    BY <2>1, <2>2
<1> HIDE DEF at, computed
<1>5. f \in [1 .. n -> Nat]
  BY <1>2, <1>4
<1>6. reconstruct_tensor(outer, inner) = [outer EXCEPT !.strides = f]
  BY Zenon DEF reconstruct_tensor, at, computed
<1> HIDE DEF f
<1>7. f \in Seq(Nat) /\ Len(f) = n
  BY <1>2, <1>5, FunSeq
<1>8. outer = [sizes |-> outer.sizes, strides |-> outer.strides, offset |-> outer.offset]
  BY <1>1, Zenon DEF AsRecord
<1>9. [outer EXCEPT !.strides = f]
        = [sizes |-> outer.sizes, strides |-> f, offset |-> outer.offset]
  BY <1>8
<1>10. /\ reconstruct_tensor(outer, inner).sizes = outer.sizes
       /\ reconstruct_tensor(outer, inner).strides = f
       /\ reconstruct_tensor(outer, inner).offset = outer.offset
  BY <1>6, <1>9
<1>11. outer.sizes \in Seq(Nat \ {0})
  BY <1>1 DEF ShapeOK
<1> QED
  BY <1>1, <1>7, <1>10, <1>11, Zenon DEF Viewed, ShapeOK

LEMMA SetViewIs ==
  ASSUME NEW v, NEW s
  PROVE  /\ Reach(v) > s.numel => /\ SetView(v, s).numel = Reach(v)
                                  /\ SetView(v, s) = [numel |-> Reach(v),
                                                      base |-> UpdateDesc(Reach(v), v.sizes)]
         /\ ~(Reach(v) > s.numel) => SetView(v, s) = s
<1>1. CASE Reach(v) > s.numel
  <2>1. SetView(v, s) = [numel |-> Reach(v), base |-> UpdateDesc(Reach(v), v.sizes)]
    BY <1>1, Zenon DEF SetView
  <2> QED
    BY <1>1, <2>1
<1>2. CASE ~(Reach(v) > s.numel)
  BY <1>2, Zenon DEF SetView
<1> QED
  BY <1>1, <1>2

\* The storage after both copies: enlarged for the second, if the first is it.
------------------------------------------------------------------------------
(* The storages and the descriptions of a combined copy.                     *)

LEMMA ShapeReach ==
  ASSUME NEW v, ShapeOK(v.sizes, v.strides), v.offset \in Nat
  PROVE  /\ Ints(v) /\ Reach(v) \in Int
         /\ Reach(v) = v.offset + 1 + Added(Terms(v.sizes, v.strides))
         /\ Added(Terms(v.sizes, v.strides)) \in Nat
<1>1. Ints(v)
  <2>1. v.offset \in Int
    OBVIOUS
  <2> QED
    BY <2>1, ShapeType, Zenon DEF Ints
<1>2. Added(Terms(v.sizes, v.strides)) \in Nat
  BY TermsInt, Zenon
<1> QED
  BY <1>1, <1>2, ReachIs, Zenon

\* The storage is as it is described, and the view becomes another of it.
LEMMA ContiguousUpdate ==
  ASSUME NEW s \in Seq(Nat \ {0}), NEW n \in Nat \ {0}, multiply_integers(s) <= n
  PROVE  /\ is_contiguous(UpdateDesc(n, s))
         /\ multiply_integers(UpdateDesc(n, s).sizes) <= n
<1>1. ShapeOK(UpdateDesc(n, s).sizes, UpdateDesc(n, s).strides)
        /\ UpdateDesc(n, s).sizes \in {s, <<n>>}
        /\ UpdateDesc(n, s).strides = ComputeStrideFromShape(UpdateDesc(n, s).sizes)
  BY UpdateDescShape
<1>2. is_contiguous(UpdateDesc(n, s))
  BY <1>1, Zenon DEF is_contiguous
<1>3. multiply_integers(<<n>>) <= n
  <2>1. <<n>> \in Seq(Int) /\ <<>> \in Seq(Int) /\ Len(<<n>>) = Len(<<>>) + 1 /\ <<n>>[1] = n
          /\ Len(<<>>) = 0 /\ \A i \in 1 .. Len(<<>>) : <<n>>[i + 1] = <<>>[i]
    OBVIOUS
  <2>2. multiply_integers(<<>>) = 1
    BY <2>1, ProductOne, Zenon
  <2>3. multiply_integers(<<n>>) = <<n>>[1] * multiply_integers(<<>>)
    BY <2>1, ProductFirst, Zenon
  <2>4. multiply_integers(<<n>>) = n * 1
    BY <2>1, <2>2, <2>3
  <2> QED
    BY <2>4
<1> QED
  BY <1>1, <1>2, <1>3, Zenon

\* A storage is described by what is contiguous.
BaseOK(b) == ShapeOK(b.sizes, b.strides) /\ is_contiguous(b)

StorageOK(s) ==
  s = [numel |-> s.numel, base |-> s.base] /\ s.numel \in Nat \ {0} /\ BaseOK(s.base)

DescBase(d) == [sizes |-> d.base_sizes, strides |-> d.base_strides]

\* The description of a view of such a storage.
Based(d) == DescOK(d) /\ BaseOK(DescBase(d))

LEMMA OnBaseBased ==
  ASSUME NEW v, NEW b, Viewed(v), BaseOK(b) PROVE Based(OnBase(v, b))
<1> DEFINE d == OnBase(v, b)
<1>1. /\ d.sizes = v.sizes /\ d.strides = v.strides /\ d.offset = v.offset
      /\ d.base_sizes = b.sizes /\ d.base_strides = b.strides
  BY DEF OnBase
<1> HIDE DEF d
<1>2. DescOK(d)
  BY <1>1, Zenon DEF DescOK, Viewed, BaseOK
<1>3. DescBase(d).sizes = b.sizes /\ DescBase(d).strides = b.strides
  BY <1>1 DEF DescBase
<1>4. BaseOK(DescBase(d))
  <2>1. is_contiguous(DescBase(d))
    BY <1>3, Zenon DEF BaseOK, is_contiguous
  <2> QED
    BY <1>3, <2>1, Zenon DEF BaseOK
<1> QED
  BY <1>2, <1>4, Zenon DEF Based, d

LEMMA SetViewOK ==
  ASSUME NEW v, NEW s, Viewed(v), StorageOK(s)
  PROVE  /\ StorageOK(SetView(v, s)) /\ SetView(v, s).numel >= s.numel
         /\ SetView(v, s).numel >= Reach(v)
<1>1. s.numel \in Nat \ {0} /\ ShapeOK(v.sizes, v.strides) /\ v.offset \in Nat
  BY Zenon DEF StorageOK, Viewed
<1> DEFINE r == Reach(v)
           u == SetView(v, s)
<1>2. r \in Int /\ Reach(v) = r
  BY <1>1, ShapeReach, Zenon
<1> HIDE DEF r
<1>3. CASE r > s.numel
  <2>1. u.numel = r /\ u = [numel |-> r, base |-> UpdateDesc(r, v.sizes)]
    BY <1>2, <1>3, SetViewIs, Zenon
  <2> HIDE DEF u
  <2>2. r \in Nat \ {0} /\ v.sizes \in Seq(Nat \ {0})
    BY <1>1, <1>2, <1>3 DEF ShapeOK
  <2> DEFINE b == UpdateDesc(r, v.sizes)
  <2>3. ShapeOK(b.sizes, b.strides) /\ b.strides = ComputeStrideFromShape(b.sizes)
    BY <2>2, UpdateDescShape, Zenon
  <2>4. u.base = b /\ u = [numel |-> u.numel, base |-> u.base]
    BY <2>1
  <2> HIDE DEF b
  <2>5. BaseOK(b)
    BY <2>3, Zenon DEF BaseOK, is_contiguous
  <2>6. u.numel >= s.numel /\ u.numel >= r
    BY <1>1, <1>2, <1>3, <2>1
  <2>7. StorageOK(u)
    BY <2>1, <2>2, <2>4, <2>5, Zenon DEF StorageOK
  <2> QED
    BY <1>2, <2>6, <2>7, Zenon DEF u
<1>4. CASE ~(r > s.numel)
  <2>1. u = s
    BY <1>2, <1>4, SetViewIs, Zenon
  <2>2. s.numel >= s.numel /\ s.numel >= r
    BY <1>1, <1>2, <1>4
  <2> QED
    BY <1>2, <2>1, <2>2, Zenon
<1> QED
  BY <1>3, <1>4

LEMMA TransferOK ==
  ASSUME NEW v, Viewed(v) PROVE StorageOK(Transfer(v))
<1>1. v.sizes \in Seq(Nat \ {0})
  BY DEF Viewed, ShapeOK
<1>2. ShapeOK(v.sizes, ComputeStrideFromShape(v.sizes)) /\ multiply_integers(v.sizes) \in Nat \ {0}
  BY <1>1, ContiguousShape, NumelPositive, Zenon
<1>3. Transfer(v) = [numel |-> multiply_integers(v.sizes),
                     base |-> [sizes |-> v.sizes, strides |-> ComputeStrideFromShape(v.sizes)]]
  BY Zenon DEF Transfer, Described
<1> DEFINE m == multiply_integers(v.sizes)
           c == ComputeStrideFromShape(v.sizes)
           t == Transfer(v)
<1>4. /\ c = ComputeStrideFromShape(v.sizes)
      /\ t = [numel |-> m, base |-> [sizes |-> v.sizes, strides |-> c]]
      /\ m \in Nat \ {0} /\ ShapeOK(v.sizes, c)
  BY <1>2, <1>3
<1> HIDE DEF m, c, t
<1>5. /\ t = [numel |-> t.numel, base |-> t.base] /\ t.numel = m
      /\ t.base.sizes = v.sizes /\ t.base.strides = c
  BY <1>4
<1>6. BaseOK(t.base)
  BY <1>4, <1>5, Zenon DEF BaseOK, is_contiguous
<1> QED
  BY <1>4, <1>5, <1>6, Zenon DEF StorageOK, t

LEMMA RefreshedOK ==
  ASSUME NEW v, NEW s, Viewed(v), is_contiguous(v), StorageOK(s)
  PROVE  StorageOK(Refreshed(v, s)) /\ Refreshed(v, s).numel = s.numel
<1> DEFINE n == s.numel
           x == s.base
           b == [sizes |-> v.sizes, strides |-> v.strides]
           t == Refreshed(v, s)
<1>1. s = [numel |-> n, base |-> x] /\ n \in Nat \ {0}
  BY Zenon DEF StorageOK
<1>2. t = [s EXCEPT !.base = b]
  BY Zenon DEF Refreshed
<1>3. b.sizes = v.sizes /\ b.strides = v.strides
  OBVIOUS
<1> HIDE DEF b, t, n, x
<1>4. t = [numel |-> n, base |-> b]
  BY <1>1, <1>2
<1>5. t = [numel |-> t.numel, base |-> t.base] /\ t.numel = n /\ t.base = b
  BY <1>4
<1>6. is_contiguous(b)
  BY <1>3, Zenon DEF is_contiguous
<1>7. BaseOK(t.base)
  BY <1>3, <1>5, <1>6, Zenon DEF BaseOK, Viewed
<1> QED
  BY <1>1, <1>5, <1>7, Zenon DEF StorageOK, t, n

LEMMA OuterOK ==
  ASSUME NEW p, NEW s, Stacked(p) PROVE Viewed(OuterOf(p, s))
<1>1. Viewed(p.outer) /\ Viewed(reconstruct_tensor(p.outer, p.inner))
  BY ReconstructType, Zenon DEF Stacked
<1>2. OuterOf(p, s) \in {reconstruct_tensor(p.outer, p.inner), p.outer}
  BY DEF OuterOf
<1> QED
  BY <1>1, <1>2

\* What a combined copy starts with, and the places it leaves.
LEMMA CombinedStorage ==
  ASSUME NEW d, Based(d), NEW p \in can_use_combined(d), NEW n \in Nat \ {0}
  PROVE  LET storage_ == WithInner(d, p, n)
         IN  /\ StorageOK(storage_) /\ Viewed(OuterOf(p, storage_)) /\ Viewed(p.inner)
             /\ PlacesAfter(p, storage_) \in Nat \ {0} /\ PlacesAfter(p, storage_) >= n
<1> DEFINE s == [numel |-> n, base |-> DescBase(d)]
           w == WithInner(d, p, n)
           o == OuterOf(p, w)
<1>1. Stacked(p)
  BY CombinedType, Zenon DEF Based
<1>2. Viewed(p.inner) /\ Viewed(o)
  BY <1>1, OuterOK, Zenon DEF Stacked
<1>3. StorageOK(s)
  <2>1. s = [numel |-> s.numel, base |-> s.base] /\ s.numel = n /\ s.base = DescBase(d)
    OBVIOUS
  <2> HIDE DEF s
  <2> QED
    BY <2>1, Zenon DEF Based, StorageOK
<1>4. w = SetView(p.inner, s) /\ s.numel = n
  BY Zenon DEF WithInner, DescBase
<1> HIDE DEF s, w, o
<1>5. StorageOK(w) /\ w.numel >= n
  BY <1>2, <1>3, <1>4, SetViewOK, Zenon
<1>6. w.numel \in Nat \ {0}
  BY <1>5, Zenon DEF StorageOK
<1>7. PlacesAfter(p, w) \in Nat \ {0} /\ PlacesAfter(p, w) >= w.numel
  <2>1. CASE AsItIs(p.inner, w)
    <3> DEFINE r == Refreshed(p.inner, w)
               u == SetView(o, r)
    <3>1. StorageOK(r) /\ r.numel = w.numel
      BY <1>2, <1>5, <2>1, RefreshedOK, Zenon DEF AsItIs
    <3> HIDE DEF r
    <3>2. StorageOK(u) /\ u.numel >= r.numel
      BY <1>2, <3>1, SetViewOK, Zenon
    <3>3. PlacesAfter(p, w) = u.numel
      BY <2>1, Zenon DEF PlacesAfter, o, r
    <3> HIDE DEF u
    <3>4. u.numel \in Nat \ {0}
      BY <3>2, Zenon DEF StorageOK
    <3> QED
      BY <3>1, <3>2, <3>3, <3>4, Zenon
  <2>2. CASE ~AsItIs(p.inner, w)
    <3>1. PlacesAfter(p, w) = w.numel
      BY <2>2, Zenon DEF PlacesAfter
    <3>2. w.numel >= w.numel
      BY <1>6
    <3> QED
      BY <1>6, <3>1, <3>2, Zenon
  <2> QED
    BY <2>1, <2>2
<1>8. \A a \in Nat \ {0} : a >= w.numel => a >= n
  BY <1>5, <1>6
<1> QED
  BY <1>2, <1>5, <1>7, <1>8, Zenon DEF w, o

------------------------------------------------------------------------------
(* The cache, through the copies within a combined one.                      *)

Room ==
  /\ storage.numel \in Nat \ {0} /\ is_contiguous(storage.base)
  /\ multiply_integers(storage.base.sizes) <= storage.numel
  /\ Reach(view) <= storage.numel

LEMMA RoomTypes ==
  ASSUME Shapes, Room
  PROVE  /\ storage.numel \in Nat \ {0} /\ DescOK(desc) /\ Based(desc)
         /\ multiply_integers(desc.base_sizes) <= storage.numel
<1>1. Viewed(view) /\ BaseOK(storage.base)
  <2>1. /\ ShapeOK(view.sizes, view.strides)
        /\ view \in [sizes : Seq(Nat \ {0}), strides : Seq(Nat), offset : Nat]
        /\ ShapeOK(storage.base.sizes, storage.base.strides) /\ is_contiguous(storage.base)
    BY Zenon DEF Shapes, Room
  <2>2. view.offset \in Nat
    BY <2>1
  <2> QED
    BY <2>1, <2>2, Zenon DEF Viewed, BaseOK
<1>2. Based(OnBase(view, storage.base))
  BY <1>1, OnBaseBased, Zenon
<1> QED
  BY <1>2, DescIs, Zenon DEF Room, desc

Single == {"slice", "permute"}
Storable == Single \union {"combined"}

\* The hash is a bucket.
LEMMA HashIs ==
  ASSUME NEW d, DescOK(d) PROVE GetHash_(d) \in 0 .. Buckets - 1
<1>1. Buckets \in Nat \ {0}
  BY CacheAssumption, Zenon
<1>2. d.sizes \in Seq(Int) /\ d.strides \in Seq(Int) /\ d.offset \in Nat
  BY ShapeType, Zenon DEF DescOK
<1>3. Added(d.sizes) \in Int /\ Added(d.strides) \in Int
  BY <1>2, SumType, Zenon
<1> DEFINE a == Added(d.sizes) + Added(d.strides) + 3 * d.offset
<1>4. a \in Int
  BY <1>2, <1>3
<1> HIDE DEF a
<1>5. a % Buckets \in 0 .. Buckets - 1
  BY <1>1, <1>4, DivModInt
<1> QED
  BY <1>5 DEF GetHash_, a

\* A cache of at most n entries, of the cases of S, each with parameters that
\* match the description it was stored for.
Holds(c, n, S) ==
  /\ DOMAIN c \subseteq 0 .. Buckets - 1
  /\ Cardinality(DOMAIN c) <= n
  /\ \A h \in DOMAIN c : c[h].case \in S /\ c[h].params \in Match(c[h].case, c[h].desc)

CacheHolds == Holds(cache, CachedMaxSize + 1, Storable)

LEMMA HoldsFinite ==
  ASSUME NEW c, NEW n, NEW S, Holds(c, n, S)
  PROVE  IsFiniteSet(DOMAIN c) /\ Cardinality(DOMAIN c) \in Nat
<1>1. DOMAIN c \subseteq 0 .. Buckets - 1 /\ Buckets \in Nat
  BY CacheAssumption, Zenon DEF Holds
<1>2. IsFiniteSet(0 .. Buckets - 1)
  BY <1>1, FS_Interval
<1>3. IsFiniteSet(DOMAIN c)
  BY <1>1, <1>2, FS_Subset
<1> QED
  BY <1>3, FS_CardinalityType

LEMMA PutIs ==
  ASSUME NEW c, NEW d, NEW case, NEW p
  PROVE  /\ DOMAIN Put(c, d, case, p) = DOMAIN c \union {GetHash_(d)}
         /\ \A h \in DOMAIN c : h # GetHash_(d) => Put(c, d, case, p)[h] = c[h]
         /\ Put(c, d, case, p)[GetHash_(d)] = [desc |-> d, case |-> case, params |-> p]
<1> DEFINE k == GetHash_(d)
           e == [desc |-> d, case |-> case, params |-> p]
           f == [h \in DOMAIN c \union {k} |-> IF h = k THEN e ELSE c[h]]
<1>1. Put(c, d, case, p) = f
  BY Zenon DEF Put
<1> HIDE DEF k, e
<1>2. DOMAIN f = DOMAIN c \union {k} /\ f[k] = e /\ \A h \in DOMAIN c : h # k => f[h] = c[h]
  OBVIOUS
<1> HIDE DEF f
<1> QED
  BY <1>1, <1>2, Zenon DEF k, e

LEMMA PutHolds ==
  ASSUME NEW c, NEW n \in Nat, NEW S, Holds(c, n, S), NEW d, DescOK(d), NEW case \in S,
         NEW p \in Match(case, d)
  PROVE  Holds(Put(c, d, case, p), n + 1, S)
<1> DEFINE k == GetHash_(d)
           f == Put(c, d, case, p)
<1>1. /\ DOMAIN f = DOMAIN c \union {k}
      /\ \A h \in DOMAIN c : h # k => f[h] = c[h]
      /\ f[k] = [desc |-> d, case |-> case, params |-> p]
  BY PutIs
<1>2. k \in 0 .. Buckets - 1 /\ IsFiniteSet(DOMAIN c) /\ Cardinality(DOMAIN c) \in Nat
  BY HashIs, HoldsFinite, Zenon
<1> HIDE DEF k, f
<1>3. DOMAIN f \subseteq 0 .. Buckets - 1 /\ Cardinality(DOMAIN c) <= n
  BY <1>1, <1>2, Zenon DEF Holds
<1>4. Cardinality(DOMAIN f) <= n + 1
  <2>1. Cardinality(DOMAIN f) \in {Cardinality(DOMAIN c), Cardinality(DOMAIN c) + 1}
    BY <1>1, <1>2, FS_AddElement
  <2> QED
    BY <1>2, <1>3, <2>1
<1>5. \A h \in DOMAIN f : f[h].case \in S /\ f[h].params \in Match(f[h].case, f[h].desc)
  <2>1. f[k].case = case /\ f[k].params = p /\ f[k].desc = d
    BY <1>1
  <2>2. ASSUME NEW h \in DOMAIN f
        PROVE  f[h].case \in S /\ f[h].params \in Match(f[h].case, f[h].desc)
    <3>1. CASE h = k
      BY <2>1, <3>1, Zenon
    <3>2. CASE h # k
      <4>1. h \in DOMAIN c
        BY <1>1, <3>2
      <4>2. f[h] = c[h]
        BY <1>1, <3>2, <4>1, Zenon
      <4> QED
        BY <4>1, <4>2, Zenon DEF Holds
    <3> QED
      BY <3>1, <3>2
  <2> QED
    BY <2>2, Zenon
<1> QED
  BY <1>3, <1>4, <1>5, Zenon DEF Holds, f

\* What keeps to fewer entries keeps to more.
LEMMA HoldsMore ==
  ASSUME NEW c, NEW m \in Nat, NEW n \in Nat, m <= n, NEW S, Holds(c, m, S)
  PROVE  Holds(c, n, S)
<1>1. Cardinality(DOMAIN c) \in Nat /\ Cardinality(DOMAIN c) <= m
  BY HoldsFinite, Zenon DEF Holds
<1>2. Cardinality(DOMAIN c) <= n
  BY <1>1
<1> QED
  BY <1>2, Zenon DEF Holds

\* The bounds, and the cases, that the copies of one view keep to.
Bounds(n, S) ==
  /\ n \in Nat /\ CachedMaxSize <= n
  /\ Single \subseteq S

LEMMA MatchPlain ==
  ASSUME NEW case, case # "combined", NEW d PROVE Match(case, d) = PlainMatch(case, d)
  BY Zenon DEF Match

LEMMA MatchSingle ==
  ASSUME NEW case \in Single, NEW d
  PROVE  /\ Match(case, d) = PlainMatch(case, d) /\ case # "combined" /\ case \in Plain
         /\ case \in ExactCases
<1>1. case # "combined" /\ case \in Plain /\ case \in ExactCases
  BY DEF Single, Plain, ExactCases
<1> QED
  BY <1>1, MatchPlain, Zenon

\* With room for it, an entry is within the bound.
LEMMA RoomHolds ==
  ASSUME NEW c, NEW n, NEW S, Holds(c, n, S), HasRoom(c)
  PROVE  /\ CachedMaxSize - 1 \in Nat /\ (CachedMaxSize - 1) + 1 = CachedMaxSize
         /\ Holds(c, CachedMaxSize - 1, S)
<1>1. Cardinality(DOMAIN c) \in Nat /\ CachedMaxSize \in Nat
  BY HoldsFinite, CacheAssumption, Zenon
<1>2. Cardinality(DOMAIN c) < CachedMaxSize
  BY DEF HasRoom
<1>3. Cardinality(DOMAIN c) <= CachedMaxSize - 1
  BY <1>1, <1>2
<1>4. CachedMaxSize - 1 \in Nat /\ (CachedMaxSize - 1) + 1 = CachedMaxSize
  BY <1>1, <1>2
<1> QED
  BY <1>3, <1>4, Zenon DEF Holds

LEMMA StoredHolds ==
  ASSUME NEW c, NEW n, NEW S, Bounds(n, S), Holds(c, n, S), NEW d, DescOK(d), NEW case,
         NEW p \in PlainMatch(case, d)
  PROVE  Holds(Stored(c, d, case, p), n, S)
<1>1. CASE case \in Single /\ MayStore(c, d)
  <2>1. Stored(c, d, case, p) = Put(c, d, case, p)
    BY <1>1, Zenon DEF Stored, Single
  <2>2. CachedMaxSize - 1 \in Nat /\ (CachedMaxSize - 1) + 1 = CachedMaxSize
          /\ Holds(c, CachedMaxSize - 1, S)
    BY <1>1, RoomHolds, Zenon DEF MayStore
  <2>3. case \in S /\ p \in Match(case, d)
    BY <1>1, MatchSingle, Zenon DEF Bounds
  <2>4. Holds(Put(c, d, case, p), (CachedMaxSize - 1) + 1, S)
    BY <2>2, <2>3, PutHolds, Zenon
  <2>5. CachedMaxSize \in Nat /\ n \in Nat /\ CachedMaxSize <= n
    BY CacheAssumption, Zenon DEF Bounds
  <2> QED
    BY <2>1, <2>2, <2>4, <2>5, HoldsMore, Zenon
<1>2. CASE ~(case \in Single /\ MayStore(c, d))
  <2>1. Stored(c, d, case, p) = c
    BY <1>2, Zenon DEF Stored, Single
  <2> QED
    BY <2>1, Zenon
<1> QED
  BY <1>1, <1>2

\* The first case of the list that applies, and none before it.
FirstOf(cases, d, k) ==
  /\ k \in 1 .. Len(cases) /\ cases[k] \in Plain
  /\ \A j \in 1 .. Len(cases) : PlainMatch(cases[j], d) # {} => k <= j

LEMMA FirstPlainIs ==
  ASSUME NEW c, NEW d, NEW cases \in Seq(Plain)
  PROVE  LET r == FirstPlain(c, d, cases)
         IN  \/ /\ \A j \in 1 .. Len(cases) : PlainMatch(cases[j], d) = {}
                /\ r.case = "none" /\ r.copies = {} /\ r.cache = c
             \/ \E k \in 1 .. Len(cases) :
                  LET p == Chosen(cases[k], d)
                  IN  /\ FirstOf(cases, d, k) /\ p \in PlainMatch(cases[k], d)
                      /\ r.case = cases[k] /\ r.copies = {PlainCopy(cases[k], d, p)}
                      /\ r.cache = Stored(c, d, cases[k], p)
<1> DEFINE able == {k \in DOMAIN cases : PlainMatch(cases[k], d) # {}}
           case == cases[Min(able)]
           q == Chosen(case, d)
           r == FirstPlain(c, d, cases)
<1>1. DOMAIN cases = 1 .. Len(cases) /\ Len(cases) \in Nat
  OBVIOUS
<1>2. CASE able = {}
  <2>1. r = [case |-> "none", copies |-> {}, cache |-> c]
    BY <1>2, Zenon DEF FirstPlain, RunFirst
  <2>2. \A j \in 1 .. Len(cases) : PlainMatch(cases[j], d) = {}
    BY <1>1, <1>2
  <2>3. r.case = "none" /\ r.copies = {} /\ r.cache = c
    BY <2>1
  <2> QED
    BY <2>2, <2>3, Zenon
<1>3. CASE able # {}
  <2>1. r = [case |-> case, copies |-> {PlainCopy(case, d, q)}, cache |-> Stored(c, d, case, q)]
    BY <1>3, Zenon DEF FirstPlain, RunFirst, RunCase
  <2>2. able \subseteq 1 .. Len(cases)
    BY <1>1
  <2>3. able \subseteq Nat
    BY <1>1, <2>2
  <2>4. /\ \A k \in 1 .. Len(cases) : k \in able <=> PlainMatch(cases[k], d) # {}
    BY <1>1
  <2> DEFINE m == Min(able)
  <2> HIDE DEF able
  <2>5. m \in able /\ \A j \in able : m <= j
    BY <1>3, <2>3, LeastOf, Zenon
  <2>6. m \in 1 .. Len(cases) /\ case = cases[m] /\ PlainMatch(cases[m], d) # {}
    BY <2>2, <2>4, <2>5
  <2>7. cases[m] \in Plain
    BY <1>1, <2>6
  <2> HIDE DEF m
  <2>8. FirstOf(cases, d, m)
    BY <2>4, <2>5, <2>6, <2>7, Zenon DEF FirstOf
  <2>9. q = Chosen(cases[m], d)
    BY <2>6, Zenon
  <2>10. Chosen(cases[m], d) \in PlainMatch(cases[m], d)
    BY <2>6, Zenon DEF Chosen
  <2> HIDE DEF q, case, r
  <2>11. r.case = case /\ r.copies = {PlainCopy(case, d, q)} /\ r.cache = Stored(c, d, case, q)
    BY <2>1
  <2> QED
    BY <2>6, <2>8, <2>9, <2>10, <2>11, Zenon DEF r
<1> QED
  BY <1>2, <1>3

LEMMA FirstHolds ==
  ASSUME NEW c, NEW n, NEW S, Bounds(n, S), Holds(c, n, S), NEW d, DescOK(d),
         NEW cases \in Seq(Plain)
  PROVE  Holds(FirstPlain(c, d, cases).cache, n, S)
<1>1. CASE FirstPlain(c, d, cases).cache = c
  BY <1>1, Zenon
<1>2. ASSUME NEW k \in 1 .. Len(cases), NEW p \in PlainMatch(cases[k], d),
             FirstPlain(c, d, cases).cache = Stored(c, d, cases[k], p)
      PROVE  Holds(FirstPlain(c, d, cases).cache, n, S)
  BY <1>2, StoredHolds, Zenon
<1> QED
  BY <1>1, <1>2, FirstPlainIs, Zenon

LEMMA CasesGiven == FirstCases \in Seq(Plain) /\ LastCases \in Seq(Plain)
  BY DEF FirstCases, LastCases, Plain

LEMMA GivenHolds ==
  ASSUME NEW c, NEW n, NEW S, Bounds(n, S), Holds(c, n, S), NEW d, DescOK(d),
         NEW cases \in Seq(Plain)
  PROVE  Holds(CopyByGivenCases(c, d, cases).cache, n, S)
<1> DEFINE e == c[GetHash_(d)]
           x == IF e.case \in Plain THEN {PlainCopy(e.case, d, e.params)} ELSE {}
           r == CopyByGivenCases(c, d, cases)
<1>1. CASE Hit(c, d)
  <2>1. r = [copies |-> x, cache |-> c]
    BY <1>1, Zenon DEF CopyByGivenCases
  <2> HIDE DEF r, x
  <2>2. r.cache = c
    BY <2>1
  <2> QED
    BY <2>2, Zenon DEF r
<1>2. CASE ~Hit(c, d)
  <2>1. r = FirstPlain(c, d, cases)
    BY <1>2, Zenon DEF CopyByGivenCases
  <2> HIDE DEF r
  <2>2. r.cache = FirstPlain(c, d, cases).cache
    BY <2>1
  <2> QED
    BY <2>2, FirstHolds, Zenon DEF r
<1> QED
  BY <1>1, <1>2

\* The second copy, of a storage that is enlarged for it.
LEMMA SecondBased ==
  ASSUME NEW o, NEW s, Viewed(o), StorageOK(s) PROVE Based(SecondDesc(o, s))
<1>1. StorageOK(SetView(o, s))
  BY SetViewOK, Zenon
<1>2. BaseOK(SetView(o, s).base)
  BY <1>1, Zenon DEF StorageOK
<1> QED
  BY <1>2, OnBaseBased, Zenon DEF SecondDesc

LEMMA SecondHolds ==
  ASSUME NEW c, NEW n, NEW S, Bounds(n, S), Holds(c, n, S), NEW o, NEW s, Viewed(o), StorageOK(s)
  PROVE  Holds(SecondCopy(c, o, s).cache, n, S)
<1>1. DescOK(SecondDesc(o, s))
  BY SecondBased, Zenon DEF Based
<1> QED
  BY <1>1, GivenHolds, CasesGiven, Zenon DEF SecondCopy

\* What the first copy is of, and what it leaves in the cache.
FirstDesc(i, s) == OnBase(i, s.base)
FirstCopy(c, i, s) == CopyByGivenCases(c, FirstDesc(i, s), FirstCases)

LEMMA FirstCopyHolds ==
  ASSUME NEW c, NEW n, NEW S, Bounds(n, S), Holds(c, n, S), NEW i, NEW s, Viewed(i), StorageOK(s)
  PROVE  Based(FirstDesc(i, s)) /\ Holds(FirstCopy(c, i, s).cache, n, S)
<1>1. Based(FirstDesc(i, s))
  BY OnBaseBased, Zenon DEF FirstDesc, StorageOK
<1>2. DescOK(FirstDesc(i, s))
  BY <1>1, Zenon DEF Based
<1> QED
  BY <1>1, <1>2, GivenHolds, CasesGiven, Zenon DEF FirstCopy

LEMMA ThroughIs ==
  ASSUME NEW c, NEW o, NEW i, NEW s
  PROVE  LET first == FirstCopy(c, i, s)
             second == SecondCopy(first.cache, o, Transfer(i))
             t == ThroughTransfer(c, o, i, s)
         IN  \/ first.copies = {} /\ t.copies = {} /\ t.cache = first.cache
             \/ /\ first.copies # {} /\ t.cache = second.cache
                /\ t.copies = Composed(first.copies, second.copies)
<1> DEFINE first == FirstCopy(c, i, s)
           second == SecondCopy(first.cache, o, Transfer(i))
           t == ThroughTransfer(c, o, i, s)
<1>1. t = IF first.copies = {} THEN first
          ELSE [copies |-> Composed(first.copies, second.copies), cache |-> second.cache]
  BY Zenon DEF ThroughTransfer, AfterFirst, BothCopies, FirstCopy, FirstDesc
<1> HIDE DEF first, second, t
<1>2. CASE first.copies = {}
  <2>1. t = first
    BY <1>1, <1>2, Zenon
  <2> QED
    BY <1>2, <2>1, Zenon DEF first, second, t
<1>3. CASE first.copies # {}
  <2>1. t = [copies |-> Composed(first.copies, second.copies), cache |-> second.cache]
    BY <1>1, <1>3, Zenon
  <2>2. t.copies = Composed(first.copies, second.copies) /\ t.cache = second.cache
    BY <2>1
  <2> QED
    BY <1>3, <2>2, Zenon DEF first, second, t
<1> QED
  BY <1>2, <1>3

LEMMA ThroughHolds ==
  ASSUME NEW c, NEW n, NEW S, Bounds(n, S), Holds(c, n, S), NEW o, NEW i, NEW s,
         Viewed(o), Viewed(i), StorageOK(s)
  PROVE  Holds(ThroughTransfer(c, o, i, s).cache, n, S)
<1> DEFINE first == FirstCopy(c, i, s)
           second == SecondCopy(first.cache, o, Transfer(i))
<1>1. Holds(first.cache, n, S)
  BY FirstCopyHolds, Zenon
<1>2. StorageOK(Transfer(i))
  BY TransferOK, Zenon
<1> HIDE DEF first
<1>3. Holds(second.cache, n, S)
  BY <1>1, <1>2, SecondHolds, Zenon
<1>4. ThroughTransfer(c, o, i, s).cache \in {first.cache, second.cache}
  <2>1. \/ ThroughTransfer(c, o, i, s).cache = first.cache
        \/ ThroughTransfer(c, o, i, s).cache = second.cache
    BY ThroughIs, Zenon DEF first
  <2> QED
    BY <2>1, Zenon
<1> QED
  BY <1>1, <1>3, <1>4, Zenon

\* The three ways of copying twice.
LEMMA TwoIs ==
  ASSUME NEW c, NEW o, NEW i, NEW s
  PROVE  \/ /\ AsItIs(i, s)
            /\ TwoCopies(c, o, i, s) = SecondCopy(c, o, Refreshed(i, s))
         \/ /\ ~AsItIs(i, s) /\ can_be_optimize_from_default_cases(FirstDesc(i, s))
            /\ TwoCopies(c, o, i, s) = ThroughTransfer(c, o, i, s)
         \/ /\ ~AsItIs(i, s) /\ ~can_be_optimize_from_default_cases(FirstDesc(i, s))
            /\ TwoCopies(c, o, i, s).copies = {} /\ TwoCopies(c, o, i, s).cache = c
<1>1. CASE AsItIs(i, s) \/ can_be_optimize_from_default_cases(FirstDesc(i, s))
  BY <1>1, Zenon DEF TwoCopies, FirstDesc
<1>2. CASE ~AsItIs(i, s) /\ ~can_be_optimize_from_default_cases(FirstDesc(i, s))
  <2>1. TwoCopies(c, o, i, s) = [copies |-> {}, cache |-> c]
    BY <1>2, Zenon DEF TwoCopies, FirstDesc
  <2>2. TwoCopies(c, o, i, s).copies = {} /\ TwoCopies(c, o, i, s).cache = c
    BY <2>1
  <2> QED
    BY <1>2, <2>2
<1> QED
  BY <1>1, <1>2

LEMMA TwoHolds ==
  ASSUME NEW c, NEW n, NEW S, Bounds(n, S), Holds(c, n, S), NEW o, NEW i, NEW s,
         Viewed(o), Viewed(i), StorageOK(s)
  PROVE  Holds(TwoCopies(c, o, i, s).cache, n, S)
<1> DEFINE t == TwoCopies(c, o, i, s)
<1>1. CASE AsItIs(i, s) /\ t = SecondCopy(c, o, Refreshed(i, s))
  <2>1. StorageOK(Refreshed(i, s))
    BY <1>1, RefreshedOK, Zenon DEF AsItIs
  <2>2. Holds(SecondCopy(c, o, Refreshed(i, s)).cache, n, S)
    BY <2>1, SecondHolds, Zenon
  <2> QED
    BY <1>1, <2>2, Zenon
<1>2. CASE t = ThroughTransfer(c, o, i, s)
  BY <1>2, ThroughHolds, Zenon
<1>3. CASE t.cache = c
  BY <1>3, Zenon
<1>4. \/ AsItIs(i, s) /\ t = SecondCopy(c, o, Refreshed(i, s))
      \/ t = ThroughTransfer(c, o, i, s)
      \/ t.cache = c
  BY TwoIs
<1> HIDE DEF t
<1> QED
  BY <1>1, <1>2, <1>3, <1>4, Zenon DEF t

LEMMA CombinedRun ==
  ASSUME NEW c, NEW d, NEW p, NEW n
  PROVE  LET storage_ == WithInner(d, p, n)
             run == combined_to_contiguous(c, d, p, n)
         IN  /\ run.copies = TwoCopies(c, OuterOf(p, storage_), p.inner, storage_).copies
             /\ run.cache = TwoCopies(c, OuterOf(p, storage_), p.inner, storage_).cache
             /\ run.numel = PlacesAfter(p, storage_)
<1> DEFINE s == WithInner(d, p, n)
           two == TwoCopies(c, OuterOf(p, s), p.inner, s)
           run == combined_to_contiguous(c, d, p, n)
<1>1. run = [copies |-> two.copies, cache |-> two.cache, numel |-> PlacesAfter(p, s)]
  BY Zenon DEF combined_to_contiguous, WithPlaces
<1> HIDE DEF two, run, s
<1>2. run.copies = two.copies /\ run.cache = two.cache /\ run.numel = PlacesAfter(p, s)
  BY <1>1
<1> QED
  BY <1>2, Zenon DEF two, run, s

\* A combined copy keeps to what the cache holds, and leaves as many places.
LEMMA CombinedHolds ==
  ASSUME NEW c, NEW n, NEW S, Bounds(n, S), Holds(c, n, S), NEW d, Based(d),
         NEW p \in can_use_combined(d), NEW m \in Nat \ {0}
  PROVE  /\ Holds(combined_to_contiguous(c, d, p, m).cache, n, S)
         /\ combined_to_contiguous(c, d, p, m).numel \in Nat \ {0}
         /\ combined_to_contiguous(c, d, p, m).numel >= m
<1> DEFINE s == WithInner(d, p, m)
           o == OuterOf(p, s)
<1>1. /\ StorageOK(s) /\ Viewed(o) /\ Viewed(p.inner)
      /\ PlacesAfter(p, s) \in Nat \ {0} /\ PlacesAfter(p, s) >= m
  BY CombinedStorage, Zenon
<1>2. /\ combined_to_contiguous(c, d, p, m).cache = TwoCopies(c, o, p.inner, s).cache
      /\ combined_to_contiguous(c, d, p, m).numel = PlacesAfter(p, s)
  BY CombinedRun
<1> HIDE DEF s, o
<1>3. Holds(TwoCopies(c, o, p.inner, s).cache, n, S)
  BY <1>1, TwoHolds, Zenon
<1> QED
  BY <1>1, <1>2, <1>3, Zenon

------------------------------------------------------------------------------
(* What a copy stores, and the places it leaves.                             *)

\* A hit gives parameters that match this description.
LEMMA HitIs ==
  ASSUME NEW c, NEW n, NEW S, Holds(c, n, S), NEW d, Hit(c, d)
  PROVE  /\ c[GetHash_(d)].desc = d /\ c[GetHash_(d)].case \in S
         /\ c[GetHash_(d)].params \in Match(c[GetHash_(d)].case, d)
<1>1. GetHash_(d) \in DOMAIN c /\ c[GetHash_(d)].desc = d
  BY Zenon DEF Hit, Taken, equalDesc
<1>2. /\ c[GetHash_(d)].case \in S
      /\ c[GetHash_(d)].params \in Match(c[GetHash_(d)].case, c[GetHash_(d)].desc)
  BY <1>1, Zenon DEF Holds
<1> QED
  BY <1>1, <1>2, Zenon

LEMMA CacheBounds ==
  /\ Bounds(CachedMaxSize, Storable) /\ Bounds(CachedMaxSize + 1, Storable)
  /\ Bounds(CachedMaxSize, Single)
<1>1. /\ CachedMaxSize \in Nat /\ CachedMaxSize + 1 \in Nat /\ CachedMaxSize <= CachedMaxSize
      /\ CachedMaxSize <= CachedMaxSize + 1
  BY CacheAssumption
<1>2. Single \subseteq Storable /\ Single \subseteq Single
  BY DEF Storable
<1> QED
  BY <1>1, <1>2, Zenon DEF Bounds

LEMMA NumelSet ==
  ASSUME Shapes, NEW n, storage' = [storage EXCEPT !.numel = n]
  PROVE  storage'.numel = n /\ storage'.base = storage.base
<1>1. storage = [numel |-> storage.numel, base |-> storage.base]
  BY Zenon DEF Shapes
<1>2. [storage EXCEPT !.numel = n] = [numel |-> n, base |-> storage.base]
  BY <1>1
<1> QED
  BY <1>2

Enough(m) == m \in Nat \ {0} /\ m >= storage.numel

\* What a case with parameters that match stores, and the places it leaves.
LEMMA RunHolds ==
  ASSUME Shapes, Room, NEW n, Bounds(n, Storable), Holds(cache, n, Storable),
         NEW case \in Cases, NEW p \in Match(case, desc)
  PROVE  LET run == Run(cache, case, desc, p, storage.numel)
         IN  Holds(run.cache, n, Storable) /\ Enough(run.numel)
<1> DEFINE run == Run(cache, case, desc, p, storage.numel)
<1>1. storage.numel \in Nat \ {0} /\ Based(desc)
  BY RoomTypes, Zenon
<1>2. CASE case = "combined"
  <2>1. p \in can_use_combined(desc)
    BY <1>2, Zenon DEF Match
  <2>2. run = combined_to_contiguous(cache, desc, p, storage.numel)
    BY <1>2, Zenon DEF Run
  <2> HIDE DEF run
  <2> QED
    BY <1>1, <2>1, <2>2, CombinedHolds, Zenon DEF Enough, run
<1>3. CASE case # "combined"
  <2>1. run.cache = cache /\ run.numel = storage.numel
    <3>1. run = [copies |-> {PlainCopy(case, desc, p)}, cache |-> cache,
                 numel |-> storage.numel]
      BY <1>3, Zenon DEF Run
    <3> HIDE DEF run
    <3> QED
      BY <3>1
  <2>2. storage.numel >= storage.numel
    BY <1>1
  <2> HIDE DEF run
  <2> QED
    BY <1>1, <2>1, <2>2, Zenon DEF Enough, run
<1> QED
  BY <1>2, <1>3

LEMMA AttemptedPlaces ==
  ASSUME Shapes, NEW case, NEW run, Attempted(case, run), Enough(run.numel)
  PROVE  Enough(storage'.numel)
<1>1. storage' = [storage EXCEPT !.numel = run.numel]
  BY Zenon DEF Attempted
<1>2. storage'.numel = run.numel
  BY <1>1, NumelSet, Zenon
<1> QED
  BY <1>2, Zenon

LEMMA CasesAre ==
  /\ Storable \subseteq Cases /\ ExactCases \subseteq Cases /\ "combined" \in Cases
  /\ "combined" \in Storable /\ Plain \subseteq Cases /\ "combined" \notin Plain
  /\ "combined" \notin ExactCases
  BY DEF Storable, Single, Cases, ExactCases, Plain

\* What a combined copy stores for itself, on top of what its copies have stored.
LEMMA StoredCombinedHolds ==
  ASSUME Shapes, Room, CacheHolds, NEW p \in can_use_combined(desc)
  PROVE  LET run == combined_to_contiguous(cache, desc, p, storage.numel)
         IN  Holds(StoredCombined(p, run), CachedMaxSize + 1, Storable) /\ Enough(run.numel)
<1> DEFINE run == combined_to_contiguous(cache, desc, p, storage.numel)
<1>1. p \in Match("combined", desc) /\ DescOK(desc)
  BY RoomTypes, Zenon DEF Match
<1>2. run = Run(cache, "combined", desc, p, storage.numel)
  BY Zenon DEF Run
<1> HIDE DEF run
<1>3. Holds(run.cache, CachedMaxSize + 1, Storable) /\ Enough(run.numel)
  BY <1>1, <1>2, RunHolds, CacheBounds, CasesAre, Zenon DEF CacheHolds
<1>4. CASE run.copies # {} /\ MayStore(cache, desc)
  <2>1. StoredCombined(p, run) = Put(run.cache, desc, "combined", p)
    BY <1>4, Zenon DEF StoredCombined
  <2>2. /\ CachedMaxSize - 1 \in Nat /\ CachedMaxSize \in Nat /\ CachedMaxSize - 1 <= CachedMaxSize
        /\ Holds(cache, CachedMaxSize - 1, Storable)
    <3>1. /\ CachedMaxSize - 1 \in Nat /\ (CachedMaxSize - 1) + 1 = CachedMaxSize
          /\ Holds(cache, CachedMaxSize - 1, Storable)
      BY <1>4, RoomHolds, Zenon DEF CacheHolds, MayStore
    <3>2. CachedMaxSize \in Nat /\ CachedMaxSize - 1 <= CachedMaxSize
      BY CacheAssumption
    <3> QED
      BY <3>1, <3>2, Zenon
  <2>3. Holds(cache, CachedMaxSize, Storable)
    BY <2>2, HoldsMore, Zenon
  <2>4. Holds(run.cache, CachedMaxSize, Storable)
    BY <1>1, <1>2, <2>3, RunHolds, CacheBounds, CasesAre, Zenon
  <2>5. Holds(Put(run.cache, desc, "combined", p), CachedMaxSize + 1, Storable)
    BY <1>1, <2>2, <2>4, PutHolds, CasesAre, Zenon
  <2> QED
    BY <1>3, <2>1, <2>5, Zenon DEF run
<1>5. CASE ~(run.copies # {} /\ MayStore(cache, desc))
  <2>1. StoredCombined(p, run) = run.cache
    BY <1>5, Zenon DEF StoredCombined
  <2> QED
    BY <1>3, <2>1, Zenon DEF run
<1> QED
  BY <1>4, <1>5

LEMMA CopyStores ==
  ASSUME Shapes, Room, CacheHolds, CopyStep
  PROVE  CacheHolds' /\ Enough(storage'.numel)
<1>1. Enough(storage.numel)
  <2>1. storage.numel \in Nat \ {0}
    BY RoomTypes, Zenon
  <2> QED
    BY <2>1 DEF Enough
<1>2. CASE RunCached
  <2> DEFINE e == cache[GetHash_(desc)]
             run == Run(cache, e.case, desc, e.params, storage.numel)
  <2>1. Hit(cache, desc) /\ Attempted(e.case, run) /\ cache' = run.cache
    BY <1>2, Zenon DEF RunCached
  <2>2. e.case \in Storable /\ e.params \in Match(e.case, desc)
    BY <2>1, HitIs, Zenon DEF CacheHolds
  <2>3. e.case \in Cases
    BY <2>2, CasesAre, Zenon
  <2>4. Holds(run.cache, CachedMaxSize + 1, Storable) /\ Enough(run.numel)
    BY <2>2, <2>3, RunHolds, CacheBounds, Zenon DEF CacheHolds
  <2> HIDE DEF run, e
  <2>5. Enough(storage'.numel)
    BY <2>1, <2>4, AttemptedPlaces, Zenon
  <2> QED
    BY <2>1, <2>4, <2>5, Zenon DEF CacheHolds
<1>3. ASSUME NEW cases \in Listed, RunPlain(cases) PROVE CacheHolds' /\ Enough(storage'.numel)
  <2>1. cache' = FirstPlain(cache, desc, cases).cache /\ storage' = storage
    BY <1>3, Zenon DEF RunPlain
  <2>2. cases \in Seq(Plain) /\ DescOK(desc)
    BY RoomTypes, Zenon DEF Listed
  <2>3. Holds(FirstPlain(cache, desc, cases).cache, CachedMaxSize + 1, Storable)
    BY <2>2, FirstHolds, CacheBounds, Zenon DEF CacheHolds
  <2> QED
    BY <1>1, <2>1, <2>3, Zenon DEF CacheHolds
<1>4. ASSUME NEW cases \in Listed, RunCombined(cases) PROVE CacheHolds' /\ Enough(storage'.numel)
  <2>1. PICK p \in can_use_combined(desc) :
          /\ Attempted("combined", combined_to_contiguous(cache, desc, p, storage.numel))
          /\ cache' = StoredCombined(p, combined_to_contiguous(cache, desc, p, storage.numel))
    BY <1>4, Zenon DEF RunCombined
  <2> DEFINE run == combined_to_contiguous(cache, desc, p, storage.numel)
  <2>2. Holds(StoredCombined(p, run), CachedMaxSize + 1, Storable) /\ Enough(run.numel)
    BY StoredCombinedHolds, Zenon
  <2> HIDE DEF run
  <2>3. Enough(storage'.numel)
    BY <2>1, <2>2, AttemptedPlaces, Zenon DEF run
  <2> QED
    BY <2>1, <2>2, <2>3, Zenon DEF CacheHolds, run
<1>5. CASE CopyOnly
  <2>1. cache' = cache /\ storage' = storage
    BY <1>5, Zenon DEF CopyOnly
  <2> QED
    BY <1>1, <2>1, Zenon DEF CacheHolds
<1> QED
  BY <1>2, <1>3, <1>4, <1>5, Zenon DEF CopyStep

------------------------------------------------------------------------------
(* The room is kept.                                                         *)

\* The storage is as it is described, and the view becomes another of it.
LEMMA RoomViewed ==
  ASSUME Room, storage' = storage, NEW v, view' = v, Reach(v) <= storage.numel
  PROVE  Room'
  BY Zenon DEF Room

LEMMA RoomInit == Init => Room
<1> SUFFICES ASSUME NEW s \in Bases,
                    storage = [numel |-> multiply_integers(s), base |-> Described(s)],
                    view = WholeOf(Described(s))
             PROVE  Room
  BY Zenon DEF Init
<1>1. s \in Seq(Nat \ {0})
  BY ViewAssumption
<1>2. multiply_integers(s) \in Nat \ {0} /\ s \in Seq(Int)
  BY <1>1, NumelPositive
<1> DEFINE c == ComputeStrideFromShape(s)
<1>3. ShapeOK(s, c)
  BY <1>1, ContiguousShape
<1>4. is_contiguous([sizes |-> s, strides |-> c])
  BY DEF is_contiguous
<1>5. is_contiguous([sizes |-> s, strides |-> c, offset |-> 0])
  BY DEF is_contiguous
<1>6. Described(s) = [sizes |-> s, strides |-> c]
  BY Zenon DEF Described
<1> HIDE DEF c
<1>7. /\ storage.base = [sizes |-> s, strides |-> c] /\ storage.numel = multiply_integers(s)
      /\ storage.base.sizes = s
      /\ view = [sizes |-> s, strides |-> c, offset |-> 0]
  BY <1>6 DEF WholeOf
<1>8. /\ view.sizes = s /\ view.strides = c /\ view.offset = 0 /\ 0 \in Nat
  BY <1>7
<1>9. Ints(view)
  BY <1>3, <1>8, ShapeReach, Zenon
<1>10. Reach(view) = 0 + multiply_integers(s)
  BY <1>5, <1>7, <1>8, <1>9, ReachWhole
<1>11. Reach(view) <= storage.numel /\ multiply_integers(storage.base.sizes) <= storage.numel
  BY <1>2, <1>7, <1>10
<1> QED
  BY <1>2, <1>4, <1>7, <1>11, Zenon DEF Room

LEMMA WholeReach ==
  ASSUME NEW b, ShapeOK(b.sizes, b.strides), is_contiguous(b)
  PROVE  Reach(WholeOf(b)) = multiply_integers(b.sizes)
<1>1. WholeOf(b).sizes = b.sizes /\ WholeOf(b).strides = b.strides /\ WholeOf(b).offset = 0
  BY DEF WholeOf
<1>2. is_contiguous(WholeOf(b)) /\ 0 \in Nat
  BY <1>1 DEF is_contiguous
<1>3. Ints(WholeOf(b))
  BY <1>1, <1>2, ShapeReach, Zenon
<1> QED
  BY <1>1, <1>2, <1>3, ReachWhole

LEMMA RoomWhole ==
  ASSUME Shapes, Room, Whole PROVE Room'
<1>1. view' = WholeOf(storage.base) /\ storage' = storage
  BY Zenon DEF Whole, Becomes, WholeOf
<1>2. Reach(WholeOf(storage.base)) = multiply_integers(storage.base.sizes)
  BY WholeReach, Zenon DEF Shapes, Room
<1> QED
  BY <1>1, <1>2, RoomViewed, Zenon DEF Room

LEMMA ViewTyped ==
  ASSUME Shapes
  PROVE  /\ ShapeOK(view.sizes, view.strides) /\ view.offset \in Nat
         /\ view \in [sizes : Seq(Nat \ {0}), strides : Seq(Nat), offset : Nat]
<1>1. /\ ShapeOK(view.sizes, view.strides)
      /\ view \in [sizes : Seq(Nat \ {0}), strides : Seq(Nat), offset : Nat]
  BY Zenon DEF Shapes
<1> QED
  BY <1>1

LEMMA RoomView ==
  ASSUME Shapes, Room, ViewStep PROVE Room'
<1>1. PICK u, v, x : /\ Within(view.sizes, view.strides, view.offset, u, v, x)
                     /\ Becomes(u, v, x)
  BY Zenon DEF ViewStep
<1> DEFINE w == [sizes |-> u, strides |-> v, offset |-> x]
<1>2. view' = w /\ storage' = storage
  BY <1>1, Zenon DEF Becomes
<1>3. /\ ShapeOK(u, v) /\ x \in Nat
      /\ x + Added(Terms(u, v)) <= view.offset + Added(Terms(view.sizes, view.strides))
  BY <1>1, Zenon DEF Within
<1>4. w.sizes = u /\ w.strides = v /\ w.offset = x
  OBVIOUS
<1>5. ShapeOK(view.sizes, view.strides) /\ view.offset \in Nat
  BY ViewTyped
<1> HIDE DEF w
<1>6. Reach(w) = x + 1 + Added(Terms(u, v)) /\ Added(Terms(u, v)) \in Nat
  BY <1>3, <1>4, ShapeReach, Zenon
<1>7. /\ Reach(view) = view.offset + 1 + Added(Terms(view.sizes, view.strides))
      /\ Added(Terms(view.sizes, view.strides)) \in Nat /\ Reach(view) \in Int
  BY <1>5, ShapeReach, Zenon
<1>8. Reach(w) <= Reach(view)
  BY <1>3, <1>5, <1>6, <1>7
<1>9. Reach(view) <= storage.numel /\ storage.numel \in Nat
  BY DEF Room
<1>10. Reach(w) \in Int
  BY <1>3, <1>6
<1>11. Reach(w) <= storage.numel
  BY <1>7, <1>8, <1>9, <1>10
<1> QED
  BY <1>2, <1>11, RoomViewed, Zenon

LEMMA RoomOperand ==
  ASSUME Shapes, Room, AsOperand PROVE Room'
<1> DEFINE b == [sizes |-> view.sizes, strides |-> view.strides]
<1>1. /\ view' = view /\ is_contiguous(view)
      /\ multiply_integers(view.sizes) = multiply_integers(storage.base.sizes)
  BY Zenon DEF AsOperand
<1>2. storage' = [numel |-> storage.numel, base |-> b]
  BY OperandStep
<1>3. b.sizes = view.sizes /\ b.strides = view.strides
  OBVIOUS
<1>4. is_contiguous(b)
  BY <1>1, <1>3, Zenon DEF is_contiguous
<1> HIDE DEF b
<1>5. storage'.numel = storage.numel /\ storage'.base = b
  BY <1>2
<1> QED
  BY <1>1, <1>3, <1>4, <1>5, Zenon DEF Room

LEMMA RoomResize ==
  ASSUME Shapes, Room, NEW s \in Resizes, resize_(s) PROVE Room'
<1> DEFINE c == ComputeStrideFromShape(s)
           n == Needed(s)
           w == [sizes |-> s, strides |-> c, offset |-> view.offset]
<1>1. /\ s \in Seq(Nat \ {0}) /\ ShapeOK(s, c) /\ view' = w
      /\ n \in Nat \ {0} /\ n = multiply_integers(s) + view.offset
      /\ storage' = IF n > storage.numel THEN [numel |-> n, base |-> UpdateDesc(n, s)]
                    ELSE storage
  BY ResizeStep
<1>2. view.offset \in Nat /\ storage.numel \in Nat
  <2>1. storage.numel \in Nat \ {0}
    BY RoomTypes, Zenon
  <2> QED
    BY <2>1, ViewTyped
<1>3. w.sizes = s /\ w.strides = c /\ w.offset = view.offset
  OBVIOUS
<1>4. is_contiguous(w)
  BY <1>3, Zenon DEF is_contiguous
<1> HIDE DEF w
<1>5. Ints(w)
  BY <1>1, <1>2, <1>3, ShapeReach, Zenon
<1>6. Reach(w) = view.offset + multiply_integers(s) /\ multiply_integers(s) \in Int
  BY <1>3, <1>4, <1>5, ReachWhole
<1> HIDE DEF n, c
<1>7. Reach(w) = n
  BY <1>1, <1>2, <1>6
<1>8. CASE n > storage.numel
  <2>1. storage'.numel = n /\ storage'.base = UpdateDesc(n, s)
    BY <1>1, <1>8
  <2>2. n >= storage.numel /\ n <= n /\ n \in Nat
    BY <1>1, <1>2, <1>8
  <2>3. multiply_integers(s) <= n
    BY <1>1, <1>2, <1>6
  <2>4. is_contiguous(storage'.base) /\ multiply_integers(storage'.base.sizes) <= n
    BY <1>1, <2>1, <2>3, ContiguousUpdate
  <2> QED
    BY <1>1, <1>7, <2>1, <2>2, <2>4, Zenon DEF Room
<1>9. CASE ~(n > storage.numel)
  <2>1. storage' = storage
    BY <1>1, <1>9, Zenon
  <2>2. Reach(w) <= storage.numel
    BY <1>1, <1>2, <1>7, <1>9
  <2> QED
    BY <1>1, <1>2, <2>1, <2>2, RoomViewed, Zenon
<1> QED
  BY <1>8, <1>9


LEMMA RoomCopy ==
  ASSUME Shapes, CacheHolds, Room, CopyStep PROVE Room'
<1>1. view' = view /\ storage'.base = storage.base
  BY CopyStepShapes, Zenon
<1>2. storage'.numel \in Nat \ {0} /\ storage'.numel >= storage.numel
  BY CopyStores, Zenon DEF Enough
<1>3. /\ Reach(view) \in Int /\ multiply_integers(storage.base.sizes) \in Int
      /\ storage.numel \in Int
  <2>1. ShapeOK(view.sizes, view.strides) /\ view.offset \in Nat
    BY ViewTyped
  <2>2. storage.base.sizes \in Seq(Int)
    BY ShapeType, Zenon DEF Shapes
  <2>3. storage.numel \in Nat \ {0}
    BY RoomTypes, Zenon
  <2>4. Reach(view) \in Int
    BY <2>1, ShapeReach, Zenon
  <2>5. multiply_integers(storage.base.sizes) \in Int
    BY <2>2, ProductType, Zenon
  <2> QED
    BY <2>3, <2>4, <2>5
<1>4. /\ Reach(view) <= storage.numel /\ multiply_integers(storage.base.sizes) <= storage.numel
      /\ is_contiguous(storage.base)
  BY Zenon DEF Room
<1> DEFINE r == Reach(view)
           m == multiply_integers(storage.base.sizes)
<1>5. r <= storage'.numel /\ m <= storage'.numel
  <2> HIDE DEF r, m
  <2>1. r \in Int /\ m \in Int /\ r <= storage.numel /\ m <= storage.numel
    BY <1>3, <1>4, Zenon DEF r, m
  <2> QED
    BY <1>2, <1>3, <2>1
<1> QED
  BY <1>1, <1>2, <1>4, <1>5, Zenon DEF Room, r, m

LEMMA RoomNext == Shapes /\ CacheHolds /\ Room /\ [Next]_vars => Room'
<1> SUFFICES ASSUME Shapes, CacheHolds, Room, [Next]_vars PROVE Room'
  OBVIOUS
<1>1. CASE UNCHANGED vars
  <2>1. storage' = storage /\ view' = view /\ Reach(view) <= storage.numel
    BY <1>1, Zenon DEF vars, Room
  <2> QED
    BY <2>1, RoomViewed, Zenon
<1>2. CASE Whole
  BY <1>2, RoomWhole
<1>3. CASE ViewStep
  BY <1>3, RoomView
<1>4. CASE AsOperand
  BY <1>4, RoomOperand
<1>5. ASSUME NEW s \in Resizes, resize_(s) PROVE Room'
  BY <1>5, RoomResize
<1>6. CASE CopyStep
  BY <1>6, RoomCopy
<1> QED
  BY <1>1, <1>2, <1>3, <1>4, <1>5, <1>6, NextSplit, Zenon

------------------------------------------------------------------------------
(* The cases of which a copy is exact.                                       *)

Simple == {"memcpy", "general"}

\* The last copy, of the view at hand.
CopyHolds ==
  /\ copy.case \in Cases \union Simple \union {"none", "divided by zero"}
  /\ copy.case = "none" => copy = NoCopy
  /\ copy.case \in ExactCases \union Simple =>
       copy.elements = Elements(view.sizes, view.strides, view.offset)

LEMMA DoneIs ==
  ASSUME NEW case, NEW e, Done(case, e) PROVE copy'.case = case /\ copy'.elements = e
  BY DEF Done

LEMMA NoCopyHolds ==
  ASSUME copy' = NoCopy PROVE CopyHolds' /\ copy'.case = "none" /\ copy'.elements = <<>>
<1>1. copy'.case = "none" /\ copy'.elements = <<>>
  BY DEF NoCopy
<1>2. "none" \notin ExactCases \union Simple
  BY DEF ExactCases, Simple
<1> QED
  BY <1>1, <1>2, Zenon DEF CopyHolds

LEMMA CaseNames ==
  /\ \A case \in Simple \union Cases : case # "none"
  /\ \A case \in Cases : case \notin Simple
  /\ "general" \in Simple
  BY DEF Simple, Cases, Plain

LEMMA GeneralHolds ==
  ASSUME NEW case \in Simple, General(case), view' = view
  PROVE  CopyHolds' /\ copy'.case = case
<1>1. /\ copy'.case = case
      /\ copy'.elements = Elements(view.sizes, view.strides, view.offset)
  BY DoneIs, Zenon DEF General
<1> QED
  BY <1>1, CaseNames, Zenon DEF CopyHolds

LEMMA DoneHolds ==
  ASSUME NEW case \in Cases, NEW c, Done(case, c), view' = view,
         case \in ExactCases => c = Elements(view.sizes, view.strides, view.offset)
  PROVE  CopyHolds'
<1>1. copy'.case = case /\ copy'.elements = c
  BY DoneIs, Zenon
<1>2. case \notin Simple /\ case # "none"
  BY CaseNames, Zenon
<1> QED
  BY <1>1, <1>2, Zenon DEF CopyHolds

LEMMA PlainRead ==
  ASSUME Shapes, NEW case \in ExactCases, NEW p \in PlainMatch(case, desc)
  PROVE  PlainCopy(case, desc, p) = Elements(view.sizes, view.strides, view.offset)
  BY DescIs, PlainExact, Zenon

\* The first case that applies is a single optimizer, and copies once.
LEMMA FirstRead ==
  ASSUME Shapes, NEW c, NEW cases \in Listed, NEW e \in FirstPlain(c, desc, cases).copies
  PROVE  LET case == FirstPlain(c, desc, cases).case
         IN  /\ case \in Plain
             /\ \E p \in PlainMatch(case, desc) : e = PlainCopy(case, desc, p)
             /\ \E k \in 1 .. Len(cases) : case = cases[k]
<1> DEFINE r == FirstPlain(c, desc, cases)
<1>1. cases \in Seq(Plain)
  BY Zenon DEF Listed
<1>2. \/ r.copies = {}
      \/ \E k \in 1 .. Len(cases) :
           LET p == Chosen(cases[k], desc)
           IN  /\ FirstOf(cases, desc, k) /\ p \in PlainMatch(cases[k], desc)
               /\ r.case = cases[k] /\ r.copies = {PlainCopy(cases[k], desc, p)}
  BY <1>1, FirstPlainIs
<1> HIDE DEF r
<1>3. e \in r.copies
  BY DEF r
<1>4. r.copies # {}
  BY <1>3
<1>5. PICK k \in 1 .. Len(cases) :
        LET p == Chosen(cases[k], desc)
        IN  /\ FirstOf(cases, desc, k) /\ p \in PlainMatch(cases[k], desc)
            /\ r.case = cases[k] /\ r.copies = {PlainCopy(cases[k], desc, p)}
  BY <1>2, <1>4, Zenon
<1> DEFINE p == Chosen(cases[k], desc)
<1>6. /\ cases[k] \in Plain /\ p \in PlainMatch(cases[k], desc) /\ r.case = cases[k]
      /\ r.copies = {PlainCopy(cases[k], desc, p)}
  BY <1>5, Zenon DEF FirstOf
<1> HIDE DEF p
<1>7. e = PlainCopy(cases[k], desc, p)
  BY <1>3, <1>6
<1>8. r.case \in Plain /\ \E q \in PlainMatch(r.case, desc) : e = PlainCopy(r.case, desc, q)
  BY <1>6, <1>7, Zenon
<1>9. \E j \in 1 .. Len(cases) : r.case = cases[j]
  BY <1>6, Zenon
<1> QED
  BY <1>8, <1>9, Zenon DEF r

LEMMA FirstReads ==
  ASSUME Shapes, NEW c, NEW cases \in Listed, NEW e \in FirstPlain(c, desc, cases).copies,
         Done(FirstPlain(c, desc, cases).case, e), view' = view
  PROVE  CopyHolds'
<1> DEFINE case == FirstPlain(c, desc, cases).case
<1>1. case \in Plain /\ \E p \in PlainMatch(case, desc) : e = PlainCopy(case, desc, p)
  BY FirstRead, Zenon
<1> HIDE DEF case
<1>2. case \in ExactCases => e = Elements(view.sizes, view.strides, view.offset)
  BY <1>1, PlainRead, Zenon
<1>3. Done(case, e) /\ case \in Cases
  BY <1>1, CasesAre, Zenon DEF case
<1> QED
  BY <1>2, <1>3, DoneHolds, Zenon

LEMMA AttemptedReads ==
  ASSUME Shapes, NEW c, NEW case \in Cases, NEW p \in Match(case, desc), NEW n,
         Attempted(case, Run(c, case, desc, p, n)), view' = view
  PROVE  CopyHolds'
<1> DEFINE run == Run(c, case, desc, p, n)
<1>1. IF run.copies = {} THEN General("general") ELSE \E e \in run.copies : Done(case, e)
  BY Zenon DEF Attempted
<1>2. CASE General("general")
  BY <1>2, GeneralHolds, CaseNames, Zenon
<1>3. ASSUME NEW e \in run.copies, Done(case, e) PROVE CopyHolds'
  <2>1. case \in ExactCases => e = Elements(view.sizes, view.strides, view.offset)
    <3> SUFFICES ASSUME case \in ExactCases
                 PROVE  e = Elements(view.sizes, view.strides, view.offset)
      OBVIOUS
    <3>1. case # "combined"
      BY CasesAre, Zenon
    <3>2. run = [copies |-> {PlainCopy(case, desc, p)}, cache |-> c, numel |-> n]
      BY <3>1, Zenon DEF Run
    <3> HIDE DEF run
    <3>3. e = PlainCopy(case, desc, p)
      BY <1>3, <3>2
    <3>4. p \in PlainMatch(case, desc)
      BY <3>1, MatchPlain, Zenon
    <3> QED
      BY <3>3, <3>4, PlainRead, Zenon
  <2> QED
    BY <1>3, <2>1, DoneHolds, Zenon
<1> QED
  BY <1>1, <1>2, <1>3, Zenon

LEMMA CopyKeeps ==
  ASSUME Shapes, CacheHolds, CopyHolds, CopyStep PROVE CopyHolds'
<1>1. view' = view
  BY CopyStepShapes
<1>2. CASE RunCached
  <2> DEFINE e == cache[GetHash_(desc)]
  <2>1. Hit(cache, desc)
        /\ Attempted(e.case, Run(cache, e.case, desc, e.params, storage.numel))
    BY <1>2, Zenon DEF RunCached
  <2>2. e.case \in Storable /\ e.params \in Match(e.case, desc)
    BY <2>1, HitIs, Zenon DEF CacheHolds
  <2>3. e.case \in Cases
    BY <2>2, CasesAre, Zenon
  <2> HIDE DEF e
  <2> QED
    BY <1>1, <2>1, <2>2, <2>3, AttemptedReads, Zenon
<1>3. ASSUME NEW cases \in Listed, RunPlain(cases) PROVE CopyHolds'
  <2>1. \E e \in FirstPlain(cache, desc, cases).copies :
          Done(FirstPlain(cache, desc, cases).case, e)
    BY <1>3, Zenon DEF RunPlain
  <2> QED
    BY <1>1, <2>1, FirstReads, Zenon
<1>4. ASSUME NEW cases \in Listed, RunCombined(cases) PROVE CopyHolds'
  <2>1. PICK p \in can_use_combined(desc) :
          Attempted("combined", combined_to_contiguous(cache, desc, p, storage.numel))
    BY <1>4, Zenon DEF RunCombined
  <2>2. /\ combined_to_contiguous(cache, desc, p, storage.numel)
             = Run(cache, "combined", desc, p, storage.numel)
        /\ p \in Match("combined", desc)
    BY Zenon DEF Run, Match
  <2>3. Attempted("combined", Run(cache, "combined", desc, p, storage.numel))
    BY <2>1, <2>2, Zenon
  <2> QED
    BY <1>1, <2>2, <2>3, AttemptedReads, CasesAre, Zenon
<1>5. CASE CopyOnly
  <2>1. ASSUME NEW case \in {"memcpy", "general"}, General(case) PROVE CopyHolds'
    BY <1>1, <2>1, GeneralHolds, Zenon DEF Simple
  <2>2. ASSUME Done("divided by zero", <<>>) PROVE CopyHolds'
    <3>1. copy'.case = "divided by zero"
      BY <2>2, DoneIs, Zenon
    <3>2. "divided by zero" \notin ExactCases \union Simple /\ "divided by zero" # "none"
      BY DEF ExactCases, Simple
    <3> QED
      BY <3>1, <3>2, Zenon DEF CopyHolds
  <2>3. ASSUME NEW cases \in Listed, NEW e \in FirstPlain(cache, desc, cases).copies,
               Done(FirstPlain(cache, desc, cases).case, e)
        PROVE  CopyHolds'
    BY <1>1, <2>3, FirstReads, Zenon
  <2> QED
    BY <1>5, <2>1, <2>2, <2>3, Zenon DEF CopyOnly
<1> QED
  BY <1>2, <1>3, <1>4, <1>5, Zenon DEF CopyStep

\* Every other step forgets the copy, and leaves the cache.
LEMMA OtherSteps ==
  ASSUME Whole \/ ViewStep \/ AsOperand \/ \E s \in Resizes : resize_(s)
  PROVE  copy' = NoCopy /\ cache' = cache
  BY Zenon DEF Whole, ViewStep, Becomes, AsOperand, resize_

LEMMA CacheInit == Init => CacheHolds /\ CopyHolds
<1> SUFFICES ASSUME cache = <<>>, copy = NoCopy PROVE CacheHolds /\ CopyHolds
  BY Zenon DEF Init
<1>1. DOMAIN cache = {}
  OBVIOUS
<1>2. Cardinality(DOMAIN cache) <= CachedMaxSize + 1
  <2>1. Cardinality(DOMAIN cache) = 0 /\ CachedMaxSize \in Nat
    BY <1>1, FS_EmptySet, CacheAssumption
  <2> QED
    BY <2>1
<1>3. copy.case = "none" /\ "none" \notin ExactCases \union Simple
  BY DEF NoCopy, ExactCases, Simple
<1> QED
  BY <1>1, <1>2, <1>3, Zenon DEF CacheHolds, Holds, CopyHolds

LEMMA CacheNext ==
  Shapes /\ Room /\ CacheHolds /\ CopyHolds /\ [Next]_vars => CacheHolds' /\ CopyHolds'
<1> SUFFICES ASSUME Shapes, Room, CacheHolds, CopyHolds, [Next]_vars
             PROVE  CacheHolds' /\ CopyHolds'
  OBVIOUS
<1>1. CASE UNCHANGED vars
  BY <1>1, Zenon DEF CacheHolds, CopyHolds, vars
<1>2. CASE CopyStep
  BY <1>2, CopyStores, CopyKeeps
<1>3. CASE Whole \/ ViewStep \/ AsOperand \/ \E s \in Resizes : resize_(s)
  BY <1>3, OtherSteps, NoCopyHolds, Zenon DEF CacheHolds
<1> QED
  BY <1>1, <1>2, <1>3, NextSplit, Zenon

\* What holds of the shapes, of the cache, of the last copy and of the places:
\* the inductive invariant.
Kept == Shapes /\ CacheHolds /\ CopyHolds /\ Room

\* Whatever is viewed, resized and copied, and whatever combined copies store on
\* the way, under descriptions no view at hand has: shapes are well formed; an
\* entry of the cache has parameters that its optimizer found for the description
\* it is stored with, and there is at most one entry too many; and the storage
\* holds the view and what it is described as.
THEOREM KeptAlways == Spec => []Kept
<1>1. Init => Kept
  BY ShapesInit, CacheInit, RoomInit, Zenon DEF Kept
<1>2. Kept /\ [Next]_vars => Kept'
  BY ShapesNext, CacheNext, RoomNext, Zenon DEF Kept
<1> QED
  BY <1>1, <1>2, PTL DEF Spec

\* Sizes stay positive, sizes and strides stay together, the storage has places,
\* however often the combined optimizer enlarges it, and the cache of the
\* optimizers keeps to the values of the hash and to CachedMaxSize, but for the one
\* entry that a combined copy adds without a look at what its own copies added.
THEOREM ViewTypes == Spec => []TypeOK
<1>1. Kept => TypeOK
  <2> SUFFICES ASSUME Shapes, CacheHolds, Room PROVE TypeOK
    BY Zenon DEF Kept
  <2>1. /\ ShapeOK(view.sizes, view.strides) /\ Len(view.sizes) \in 1 .. MaxDims
        /\ ShapeOK(storage.base.sizes, storage.base.strides)
        /\ Len(storage.base.sizes) \in 1 .. MaxDims
        /\ reshaped \in BOOLEAN /\ ops \in 0 .. MaxOps
    BY Zenon DEF Shapes
  <2>2. view.offset \in Nat
    BY ViewTyped
  <2>3. \A v \in {view, storage.base} :
          /\ v.sizes \in Seq(Nat \ {0}) /\ v.strides \in Seq(Nat)
          /\ Len(v.sizes) = Len(v.strides) /\ Len(v.sizes) \in 1 .. MaxDims
    <3> SUFFICES ASSUME NEW v, v = view \/ v = storage.base
                 PROVE  /\ v.sizes \in Seq(Nat \ {0}) /\ v.strides \in Seq(Nat)
                        /\ Len(v.sizes) = Len(v.strides) /\ Len(v.sizes) \in 1 .. MaxDims
      OBVIOUS
    <3> QED
      BY <2>1, Zenon DEF ShapeOK
  <2> QED
    BY <2>1, <2>2, <2>3, Zenon DEF TypeOK, CacheHolds, Holds, Room
<1> QED
  BY <1>1, KeptAlways, PTL

\* The copies by "slice", "permute", "broadcast" and "reshape", from the cache or
\* not, those of a contiguous view and the general ones read the elements of the
\* view in their order, also when views reshape, and whatever the storage has been
\* described as: can_use_slice, can_use_permute, can_use_broadcast and
\* check_reshape_match take no view that their operator would copy wrongly.
THEOREM ExactCopies ==
  Spec => [](copy.case \notin {"select", "indexing", "combined", "divided by zero"} => CopyExact)
<1>1. Shapes /\ CopyHolds =>
        (copy.case \notin {"select", "indexing", "combined", "divided by zero"} => CopyExact)
  <2> SUFFICES ASSUME CopyHolds, copy # NoCopy,
                      copy.case \notin {"select", "indexing", "combined", "divided by zero"}
               PROVE  copy.elements = Elements(view.sizes, view.strides, view.offset)
    BY Zenon DEF CopyExact
  <2>1. copy.case \in Cases \union Simple \union {"none", "divided by zero"} /\ copy.case # "none"
    BY Zenon DEF CopyHolds
  <2>2. copy.case \in ExactCases \union Simple
    BY <2>1 DEF Cases, Plain, ExactCases, Simple
  <2> QED
    BY <2>2, Zenon DEF CopyHolds
<1> QED
  BY <1>1, KeptAlways, PTL DEF Kept

LEMMA LargestOf ==
  ASSUME NEW a \in Int, NEW b \in Int, NEW S, a \in S, S \subseteq {a, b}
  PROVE  Max(S) \in S /\ \A x \in S : Max(S) >= x
<1>1. \E k \in S : \A x \in S : k >= x
  <2>1. CASE b \in S /\ b >= a
    BY <2>1
  <2>2. CASE ~(b \in S /\ b >= a)
    BY <2>2
  <2> QED
    BY <2>1, <2>2
<1> DEFINE P(k) == k \in S /\ \A x \in S : k >= x
<1>2. Max(S) = CHOOSE k \in S : \A x \in S : k >= x
  BY Zenon DEF Max
<1> HIDE DEF P
<1> QED
  BY <1>1, <1>2, Zenon

------------------------------------------------------------------------------
(* What a strided slice reads is inside of the storage as it is described.   *)

LEMMA ProductLacking ==
  ASSUME NEW t \in Seq(Int), NEW u \in Seq(Int), NEW k \in 1 .. Len(t), Len(u) + 1 = Len(t),
         \A j \in 1 .. Len(u) : u[j] = IF j < k THEN t[j] ELSE t[j + 1]
  PROVE  multiply_integers(t) = multiply_integers(u) * t[k]
<1> DEFINE n == Len(u)
<1>1. n \in Nat /\ Len(t) = n + 1 /\ k \in 1 .. n + 1
  OBVIOUS
<1>2. PICK f : Products(u, f) /\ multiply_integers(u) = f[n]
  BY ProductPartial
<1>3. f[0] = 1 /\ (\A i \in 0 .. n : f[i] \in Int) /\ \A i \in 1 .. n : f[i] = f[i - 1] * u[i]
  BY <1>2 DEF Products
<1> DEFINE g == [i \in 0 .. n + 1 |-> IF i < k THEN f[i] ELSE f[i - 1] * t[k]]
<1>4. \A i \in 0 .. n + 1 : (i < k => g[i] = f[i]) /\ (~(i < k) => g[i] = f[i - 1] * t[k])
  OBVIOUS
<1> HIDE DEF g
<1>5. ASSUME NEW i \in 0 .. n + 1 PROVE g[i] \in Int
  <2>1. CASE i < k
    <3>1. i \in 0 .. n
      BY <1>1, <2>1
    <3> QED
      BY <1>3, <1>4, <2>1, <3>1
  <2>2. CASE ~(i < k)
    <3>1. f[i - 1] \in Int /\ t[k] \in Int
      BY <1>1, <1>3, <2>2
    <3>2. g[i] = f[i - 1] * t[k]
      BY <1>4, <2>2
    <3>3. \A x, y \in Int : x * y \in Int
      OBVIOUS
    <3> QED
      BY <3>1, <3>2, <3>3, Zenon
  <2> QED
    BY <2>1, <2>2
<1>6. ASSUME NEW i \in 1 .. n + 1 PROVE g[i] = g[i - 1] * t[i]
  <2>0. i \in 0 .. n + 1 /\ i - 1 \in 0 .. n + 1 /\ i - 1 \in 0 .. n /\ i \in Int /\ k \in Int
    BY <1>1
  <2>1. CASE i < k
    <3>1. i \in 1 .. n /\ i - 1 < k
      BY <1>1, <2>0, <2>1
    <3>2. g[i] = f[i] /\ g[i - 1] = f[i - 1] /\ u[i] = t[i]
      BY <1>4, <2>0, <2>1, <3>1
    <3> QED
      BY <1>3, <3>1, <3>2
  <2>2. CASE i = k
    <3>1. i - 1 < k /\ ~(i < k)
      BY <2>0, <2>2
    <3>2. g[i] = f[i - 1] * t[k] /\ g[i - 1] = f[i - 1] /\ t[i] = t[k]
      BY <1>4, <2>0, <2>2, <3>1
    <3> QED
      BY <3>2, Zenon
  <2>3. CASE i > k
    <3>1. ~(i < k) /\ ~(i - 1 < k) /\ i - 1 \in 1 .. n /\ (i - 1) + 1 = i
      BY <1>1, <2>0, <2>3
    <3>2. g[i] = f[i - 1] * t[k] /\ g[i - 1] = f[(i - 1) - 1] * t[k]
      BY <1>4, <2>0, <3>1
    <3>3. u[i - 1] = t[i]
      BY <3>1
    <3>4. t[i] \in Int /\ t[k] \in Int
      BY <1>1
    <3>5. (i - 1) - 1 \in 0 .. n
      BY <1>1, <3>1
    <3>6. f[(i - 1) - 1] \in Int /\ f[i - 1] = f[(i - 1) - 1] * t[i]
      BY <1>3, <3>1, <3>3, <3>5
    <3>7. f[i - 1] \in Int /\ g[i] \in Int /\ g[i - 1] \in Int
      BY <1>3, <1>5, <2>0
    <3> DEFINE a == f[(i - 1) - 1]
               x == f[i - 1]
               y == g[i]
               z == g[i - 1]
               b == t[i]
               c == t[k]
    <3>8. a \in Int /\ b \in Int /\ c \in Int
      BY <3>4, <3>6, Zenon
    <3>9. x = a * b /\ y = x * c /\ z = a * c
      BY <3>2, <3>6, Zenon
    <3> HIDE DEF a, x, y, z, b, c
    <3>10. (a * b) * c = (a * c) * b
      BY <3>8
    <3>11. y = z * b
      BY <3>9, <3>10, Zenon
    <3> QED
      BY <3>11, Zenon DEF y, z, b
  <2>4. i < k \/ i = k \/ i > k
    BY <2>0
  <2> QED
    BY <2>1, <2>2, <2>3, <2>4
<1>7. g[0] = 1
  BY <1>1, <1>3, <1>4
<1>8. Products(t, g)
  BY <1>1, <1>5, <1>6, <1>7 DEF Products
<1>9. multiply_integers(t) = g[n + 1]
  BY <1>1, <1>8, ProductOf
<1>10. g[n + 1] = f[n] * t[k]
  <2>1. n + 1 \in 0 .. n + 1 /\ ~(n + 1 < k) /\ (n + 1) - 1 = n
    BY <1>1
  <2> QED
    BY <1>4, <2>1, Zenon
<1> QED
  BY <1>2, <1>9, <1>10, Zenon

LEMMA ProductWithout ==
  ASSUME NEW t \in Seq(Int), NEW u \in Seq(Int), NEW k \in 1 .. Len(t), Len(u) + 1 = Len(t),
         \A j \in 1 .. Len(u) : u[j] = IF j < k THEN t[j] ELSE t[j + 1], t[k] = 1
  PROVE  multiply_integers(t) = multiply_integers(u)
<1>1. multiply_integers(t) = multiply_integers(u) * t[k]
  BY ProductLacking, Zenon
<1>2. multiply_integers(u) \in Int /\ \A a \in Int : a * 1 = a
  BY ProductType
<1> QED
  BY <1>1, <1>2, Zenon

\* What StridedSlice is given: steps from a place on, in each dimension of the base.
Strided(n, start, end, step) ==
  /\ DOMAIN start = 1 .. n
  /\ \A i \in 1 .. n : start[i] \in Nat /\ end[i] \in Int /\ step[i] \in Nat /\ step[i] >= 1

\* The places of one dimension end before its size.
LEMMA StepsWithin ==
  ASSUME NEW b \in Nat, NEW a \in Nat, NEW e \in Int, NEW k \in Nat, k >= 1
  PROVE  LET stop == Min({e, b})
             m == Max({0, (stop - a + k - 1) \div k})
         IN  m \in Nat /\ (m >= 1 => a + (m - 1) * k <= b - 1)
<1> DEFINE stop == Min({e, b})
           q == (stop - a + k - 1) \div k
           m == Max({0, q})
<1>1. stop \in Int /\ stop <= b
  <2>1. \E x \in {e, b} : \A y \in {e, b} : x <= y
    OBVIOUS
  <2>2. stop = CHOOSE x \in {e, b} : \A y \in {e, b} : x <= y
    BY Zenon DEF Min
  <2>3. stop \in {e, b} /\ \A y \in {e, b} : stop <= y
    BY <2>1, <2>2, Zenon
  <2> QED
    BY <2>3
<1> HIDE DEF stop
<1>2. stop - a + k - 1 \in Int
  BY <1>1
<1>3. q \in Int /\ q * k <= stop - a + k - 1
  <2> DEFINE x == stop - a + k - 1
  <2>1. x \in Int
    BY <1>2
  <2> HIDE DEF x
  <2>2. x \div k \in Int /\ x % k \in 0 .. k - 1 /\ x = (x \div k) * k + (x % k)
    BY <2>1, DivModInt
  <2>3. (x \div k) * k \in Int
    BY <2>2
  <2>4. x \div k \in Int /\ (x \div k) * k <= x
    BY <2>1, <2>2, <2>3
  <2> QED
    BY <2>4 DEF x
<1> HIDE DEF q
<1>4. m \in {0, q} /\ m >= 0
  <2>1. 0 \in {0, q} /\ {0, q} \subseteq {0, q} /\ 0 \in Int /\ q \in Int
    BY <1>3
  <2>2. Max({0, q}) \in {0, q} /\ \A x \in {0, q} : Max({0, q}) >= x
    BY <2>1, LargestOf, Zenon
  <2> QED
    BY <2>2
<1> HIDE DEF m
<1>5. m \in Nat
  BY <1>3, <1>4
<1>6. ASSUME m >= 1 PROVE a + (m - 1) * k <= b - 1
  <2>1. m = q
    BY <1>4, <1>6
  <2>2. (q - 1) * k = q * k - k /\ q * k \in Int
    BY <1>3
  <2> QED
    BY <1>1, <1>3, <2>1, <2>2
<1> QED
  BY <1>5, <1>6, Zenon DEF m, q, stop

LEMMA ScaledSteps ==
  ASSUME NEW a \in Nat, NEW m \in Nat, NEW k \in Nat, NEW c \in Nat, NEW b \in Nat,
         m >= 1, a + (m - 1) * k <= b - 1
  PROVE  a * c + (m - 1) * (k * c) <= (b - 1) * c
<1> DEFINE j == m - 1
           x == a + j * k
<1>1. j \in Nat /\ x \in Nat /\ b - 1 \in Nat /\ x <= b - 1
  <2>1. j \in Nat
    OBVIOUS
  <2>2. j * k \in Nat
    BY <2>1
  <2> HIDE DEF j
  <2>3. x \in Nat
    BY <2>2
  <2>4. x <= b - 1
    BY DEF j
  <2> QED
    BY <2>1, <2>3, <2>4
<1>2. a * c + j * (k * c) = x * c
  <2> HIDE DEF j
  <2>1. \A p, q, r, s \in Int : p * s + q * (r * s) = (p + q * r) * s
    OBVIOUS
  <2> QED
    BY <1>1, <2>1
<1>3. \A p, q, r \in Nat : p <= q => p * r <= q * r
  OBVIOUS
<1> HIDE DEF x, j
<1>4. x * c <= (b - 1) * c
  BY <1>1, <1>3
<1> QED
  BY <1>2, <1>4 DEF j

LEMMA StridedInside ==
  ASSUME NEW d, ShapeOK(d.base_sizes, d.base_strides), NEW start, NEW end, NEW step,
         Strided(Len(d.base_sizes), start, end, step)
  PROVE  \A p \in DOMAIN StridedSlice(d, start, end, step) :
           StridedSlice(d, start, end, step)[p]
             \in 0 .. Added(Terms(d.base_sizes, d.base_strides))
<1> DEFINE b == d.base_sizes
           c == d.base_strides
           n == Len(b)
           size(i) == LET stop == Min({end[i], b[i]})
                      IN  Max({0, (stop - start[i] + step[i] - 1) \div step[i]})
           u == [i \in DOMAIN start |-> size(i)]
           v == [i \in DOMAIN start |-> step[i] * c[i]]
           w == [i \in DOMAIN start |-> start[i] * c[i]]
           o == Added(w)
           e == Elements(u, v, o)
<1>1. StridedSlice(d, start, end, step) = e
  BY Zenon DEF StridedSlice
<1>2. /\ n \in Nat /\ b \in Seq(Int) /\ c \in Seq(Int) /\ Len(c) = Len(b)
      /\ \A i \in 1 .. n : b[i] \in Nat /\ b[i] >= 1 /\ c[i] \in Nat
  BY ShapeType
<1>3. /\ DOMAIN start = 1 .. n
      /\ \A i \in 1 .. n : start[i] \in Nat /\ end[i] \in Int /\ step[i] \in Nat /\ step[i] >= 1
  BY Zenon DEF Strided
<1>4. \A i \in 1 .. n : /\ size(i) \in Nat
                        /\ size(i) >= 1 => start[i] + (size(i) - 1) * step[i] <= b[i] - 1
  <2> HIDE DEF b, n
  <2> QED
    BY <1>2, <1>3, StepsWithin, Zenon
<1> HIDE DEF size
<1>5. u \in [1 .. n -> Int] /\ \A i \in 1 .. n : u[i] = size(i)
  BY <1>3, <1>4
<1>6. v \in [1 .. n -> Int] /\ \A i \in 1 .. n : v[i] = step[i] * c[i] /\ v[i] \in Nat
  <2>1. \A i \in 1 .. n : step[i] * c[i] \in Nat /\ step[i] * c[i] \in Int
    <3> SUFFICES ASSUME NEW i \in 1 .. n PROVE step[i] * c[i] \in Nat /\ step[i] * c[i] \in Int
      OBVIOUS
    <3>1. step[i] \in Nat /\ c[i] \in Nat
      BY <1>2, <1>3
    <3>2. \A x, y \in Nat : x * y \in Nat /\ x * y \in Int
      OBVIOUS
    <3> QED
      BY <3>1, <3>2
  <2> HIDE DEF b, c, n
  <2> QED
    BY <1>3, <2>1
<1>7. w \in [1 .. n -> Int] /\ \A i \in 1 .. n : w[i] = start[i] * c[i] /\ w[i] \in Nat
  <2>1. \A i \in 1 .. n : start[i] * c[i] \in Nat /\ start[i] * c[i] \in Int
    <3> SUFFICES ASSUME NEW i \in 1 .. n PROVE start[i] * c[i] \in Nat /\ start[i] * c[i] \in Int
      OBVIOUS
    <3>1. start[i] \in Nat /\ c[i] \in Nat
      BY <1>2, <1>3
    <3>2. \A x, y \in Nat : x * y \in Nat /\ x * y \in Int
      OBVIOUS
    <3> QED
      BY <3>1, <3>2, Zenon
  <2> HIDE DEF b, c, n
  <2> QED
    BY <1>3, <2>1
<1> HIDE DEF u, v, w
<1>8. /\ u \in Seq(Int) /\ Len(u) = n /\ v \in Seq(Int) /\ Len(v) = n
      /\ w \in Seq(Int) /\ Len(w) = n
  BY <1>2, <1>5, <1>6, <1>7, FunSeq
<1>9. o \in Int /\ o >= 0
  BY <1>7, <1>8, SumType, SumPositive
<1>10. \A i \in 1 .. Len(u) : u[i] >= 0 /\ v[i] >= 0
  BY <1>4, <1>5, <1>6, <1>8
<1> HIDE DEF o
<1>11. DOMAIN e = 1 .. multiply_integers(u)
  BY ElementsAre
<1>12. \A p \in 1 .. multiply_integers(u) :
         /\ e[p] \in Int /\ \A i \in 1 .. Len(u) : u[i] >= 1
         /\ o <= e[p] /\ e[p] <= o + Added(Terms(u, v))
  BY <1>8, <1>9, <1>10, ElementsInside
<1> HIDE DEF e
<1> SUFFICES ASSUME NEW p \in DOMAIN e PROVE e[p] \in 0 .. Added(Terms(b, c))
  BY <1>1
<1>13. /\ e[p] \in Int /\ \A i \in 1 .. n : u[i] >= 1
       /\ o <= e[p] /\ e[p] <= o + Added(Terms(u, v))
  BY <1>8, <1>11, <1>12
<1> DEFINE t == Terms(u, v)
           x == [i \in 1 .. n |-> w[i] + t[i]]
<1>14. t \in Seq(Int) /\ Len(t) = n /\ \A i \in 1 .. n : t[i] = (u[i] - 1) * v[i] /\ t[i] \in Int
  BY <1>8, TermsType
<1>15. /\ Terms(b, c) \in Seq(Int) /\ Len(Terms(b, c)) = n
       /\ \A i \in 1 .. n : Terms(b, c)[i] = (b[i] - 1) * c[i]
  BY <1>2, TermsType
<1> HIDE DEF t
<1>16. x \in [1 .. n -> Int] /\ \A i \in 1 .. n : x[i] = w[i] + t[i]
  BY <1>7, <1>14
<1> HIDE DEF x
<1>17. x \in Seq(Int) /\ Len(x) = n
  BY <1>2, <1>16, FunSeq
<1>18. Added(x) = o + Added(t)
  BY <1>8, <1>14, <1>16, <1>17, SumOfSums DEF o
<1>19. \A i \in 1 .. n : x[i] <= Terms(b, c)[i]
  <2> SUFFICES ASSUME NEW i \in 1 .. n PROVE x[i] <= Terms(b, c)[i]
    OBVIOUS
  <2> DEFINE m == u[i]
  <2>1. m \in Nat /\ m >= 1 /\ start[i] + (m - 1) * step[i] <= b[i] - 1
    BY <1>4, <1>5, <1>13
  <2>2. start[i] \in Nat /\ step[i] \in Nat /\ c[i] \in Nat /\ b[i] \in Nat
    BY <1>2, <1>3
  <2>3. x[i] = start[i] * c[i] + (m - 1) * (step[i] * c[i])
    BY <1>6, <1>7, <1>14, <1>16
  <2>4. Terms(b, c)[i] = (b[i] - 1) * c[i]
    BY <1>15
  <2> HIDE DEF m, b, c
  <2>5. start[i] * c[i] + (m - 1) * (step[i] * c[i]) <= (b[i] - 1) * c[i]
    BY <2>1, <2>2, ScaledSteps
  <2> QED
    BY <2>3, <2>4, <2>5
<1>20. Added(x) <= Added(Terms(b, c))
  BY <1>15, <1>17, <1>19, SumMonotonic
<1>21. Added(t) \in Int /\ Added(x) \in Int /\ Added(Terms(b, c)) \in Int
  BY <1>14, <1>15, <1>17, SumType
<1>22. e[p] \in Int /\ o <= e[p] /\ e[p] <= o + Added(t)
  BY <1>13 DEF t
<1> HIDE DEF b, c
<1> QED
  BY <1>9, <1>18, <1>20, <1>21, <1>22

(* The two optimizers that copy by strided slices.                           *)

LEMMA IndexingInside ==
  ASSUME NEW d, DescOK(d), NEW p \in can_use_indexing(d)
  PROVE  \A k \in DOMAIN indexing_to_contiguous(d, p) :
           indexing_to_contiguous(d, p)[k] \in 0 .. Added(Terms(d.base_sizes, d.base_strides))
<1> DEFINE n == Len(d.sizes)
           step == [i \in 1 .. n |-> d.strides[i] \div d.base_strides[i]]
           start == Location(d.offset, d.base_strides)
           end == [i \in 1 .. n |-> start[i] + d.sizes[i] * step[i]]
<1>1. p = [start |-> start, end |-> end, step |-> step]
  BY DEF can_use_indexing
<1>2. /\ n = Len(d.base_sizes)
      /\ \A i \in 1 .. n : d.base_strides[i] # 0 /\ d.strides[i] >= d.base_strides[i]
  <2>1. ASSUME ~(/\ n = Len(d.base_sizes)
                 /\ \A i \in 1 .. n : d.base_strides[i] # 0 /\ d.strides[i] >= d.base_strides[i])
        PROVE  FALSE
    BY <2>1 DEF can_use_indexing
  <2> QED
    BY <2>1
<1>3. /\ ShapeOK(d.sizes, d.strides) /\ ShapeOK(d.base_sizes, d.base_strides) /\ d.offset \in Nat
  BY Zenon DEF DescOK
<1>4. /\ \A i \in 1 .. n : d.sizes[i] \in Nat /\ d.strides[i] \in Nat
      /\ Len(d.base_strides) = n /\ n \in Nat /\ d.base_strides \in Seq(Nat)
      /\ \A i \in 1 .. n : d.base_strides[i] \in Nat
  <2>1. /\ \A i \in 1 .. n : d.sizes[i] \in Nat /\ d.strides[i] \in Nat
        /\ n \in Nat
    BY <1>3, ShapeType
  <2>2. /\ Len(d.base_strides) = Len(d.base_sizes)
        /\ \A i \in 1 .. Len(d.base_sizes) : d.base_strides[i] \in Nat
    BY <1>3, ShapeType
  <2>3. d.base_strides \in Seq(Nat)
    BY <1>3 DEF ShapeOK
  <2> QED
    BY <1>2, <2>1, <2>2, <2>3
<1>5. DOMAIN start = 1 .. n /\ \A i \in 1 .. n : start[i] \in Nat
  <2>1. \A i \in 1 .. Len(d.base_strides) : d.base_strides[i] # 0
    BY <1>2, <1>4
  <2> QED
    BY <1>3, <1>4, <2>1, LocationSum
<1> HIDE DEF start
<1>6. \A i \in 1 .. n : step[i] \in Nat /\ step[i] >= 1
  <2> SUFFICES ASSUME NEW i \in 1 .. n PROVE step[i] \in Nat /\ step[i] >= 1
    OBVIOUS
  <2> DEFINE a == d.strides[i]
             c == d.base_strides[i]
  <2>1. a \in Nat /\ c \in Nat /\ c >= 1 /\ a >= c
    BY <1>2, <1>4
  <2>2. step[i] = a \div c
    OBVIOUS
  <2> HIDE DEF a, c, step
  <2>3. a \div c \in Nat /\ a % c \in 0 .. c - 1 /\ a = (a \div c) * c + (a % c)
    BY <2>1, DivMod
  <2>4. a \div c # 0
    <3> SUFFICES ASSUME a \div c = 0 PROVE FALSE
      OBVIOUS
    <3>1. 0 * c = 0
      BY <2>1
    <3>2. a = 0 + (a % c)
      BY <2>3, <3>1, Zenon
    <3> QED
      BY <2>1, <2>3, <3>2
  <2> QED
    BY <2>2, <2>3, <2>4
<1> HIDE DEF step
<1>7. \A i \in 1 .. n : end[i] \in Int
  BY <1>4, <1>5, <1>6
<1>8. Strided(n, start, end, step)
  <2> HIDE DEF end
  <2> QED
    BY <1>5, <1>6, <1>7, Zenon DEF Strided
<1>9. p.start = start /\ p.end = end /\ p.step = step
  BY <1>1
<1>10. indexing_to_contiguous(d, p) = StridedSlice(d, start, end, step)
  BY <1>9, Zenon DEF indexing_to_contiguous
<1> HIDE DEF end
<1> QED
  BY <1>2, <1>3, <1>8, <1>10, StridedInside, Zenon

LEMMA SelectInside ==
  ASSUME NEW d, DescOK(d), NEW p \in can_use_select(d),
         multiply_integers(d.sizes) < multiply_integers(d.base_sizes),
         \A i \in 1 .. Len(d.base_sizes) :
           d.base_sizes[i] # 1 =>
             d.base_strides[i] = ComputeStrideFromShape(d.base_sizes)[i]
  PROVE  \A k \in DOMAIN select_to_contiguous(d, p) :
           select_to_contiguous(d, p)[k] \in 0 .. Added(Terms(d.base_sizes, d.base_strides))
<1> DEFINE n == Len(d.base_sizes)
           differ == {i \in DOMAIN d.sizes : \/ d.base_sizes[i] # d.sizes[i]
                                             \/ d.base_strides[i] # d.strides[i]}
           dim == Min(differ \union {Len(d.base_sizes)})
           start == [i \in DOMAIN d.base_sizes |->
                       IF i = dim THEN d.offset \div d.base_strides[dim] ELSE 0]
           length == [d.base_sizes EXCEPT ![dim] = 1]
           end == [i \in DOMAIN start |-> start[i] + length[i]]
           step == [i \in DOMAIN start |-> 1]
<1>1. p = [start |-> start, length |-> length]
  BY DEF can_use_select
<1>2. /\ n = Len(d.sizes) + 1
      /\ InsertAt(d.sizes, dim, d.base_sizes[dim]) = d.base_sizes
  <2>1. ASSUME ~(/\ n = Len(d.sizes) + 1
                 /\ InsertAt(d.sizes, dim, d.base_sizes[dim]) = d.base_sizes)
        PROVE  FALSE
    BY <2>1 DEF can_use_select
  <2> QED
    BY <2>1
<1>3. /\ ShapeOK(d.sizes, d.strides) /\ ShapeOK(d.base_sizes, d.base_strides) /\ d.offset \in Nat
  BY Zenon DEF DescOK
<1>4. /\ d.base_sizes \in Seq(Int) /\ d.sizes \in Seq(Int) /\ n \in Nat
      /\ DOMAIN d.sizes = 1 .. Len(d.sizes) /\ DOMAIN d.base_sizes = 1 .. n
      /\ \A i \in 1 .. n : d.base_sizes[i] \in Nat /\ d.base_sizes[i] >= 1
                             /\ d.base_strides[i] \in Nat
  <2>1. d.sizes \in Seq(Int) /\ DOMAIN d.sizes = 1 .. Len(d.sizes)
    BY <1>3, ShapeType
  <2>2. /\ d.base_sizes \in Seq(Int) /\ n \in Nat /\ DOMAIN d.base_sizes = 1 .. n
        /\ \A i \in 1 .. n : d.base_sizes[i] \in Nat /\ d.base_sizes[i] >= 1
                               /\ d.base_strides[i] \in Nat
    BY <1>3, ShapeType
  <2> QED
    BY <2>1, <2>2
<1>5. dim \in 1 .. n
  <2> DEFINE S == differ \union {n}
  <2>1. S \subseteq 1 .. n /\ S # {} /\ S \subseteq Nat
    <3>1. Len(d.sizes) \in Nat /\ n \in 1 .. n
      BY <1>2, <1>4
    <3>2. differ \subseteq 1 .. n
      BY <1>2, <1>4, <3>1
    <3> HIDE DEF differ
    <3>3. 1 .. n \subseteq Nat
      OBVIOUS
    <3> QED
      BY <3>1, <3>2, <3>3
  <2> HIDE DEF S
  <2>2. Min(S) \in S
    BY <2>1, LeastOf, Zenon
  <2> QED
    BY <2>1, <2>2 DEF S
<1> HIDE DEF dim
<1>6. d.base_sizes[dim] # 1
  <2> SUFFICES ASSUME d.base_sizes[dim] = 1 PROVE FALSE
    OBVIOUS
  <2> DEFINE s == d.sizes
             t == d.base_sizes
  <2>0. s \in Seq(Int) /\ t \in Seq(Int) /\ Len(t) = Len(s) + 1 /\ Len(s) \in Nat
          /\ dim \in 1 .. Len(s) + 1 /\ dim \in 1 .. Len(t) /\ t[dim] \in Int
          /\ InsertAt(s, dim, t[dim]) = t /\ t[dim] = 1
          /\ multiply_integers(s) < multiply_integers(t)
    BY <1>2, <1>4, <1>5
  <2> HIDE DEF s, t
  <2>1. InsertedAs(Int, s, dim, t[dim])
    BY <2>0, Inserted
  <2>2. \A i \in 1 .. Len(s) + 1 : (i < dim => t[i] = s[i]) /\ (i > dim => t[i] = s[i - 1])
    BY <2>0, <2>1, Zenon DEF InsertedAs
  <2>3. \A j \in 1 .. Len(s) : s[j] = IF j < dim THEN t[j] ELSE t[j + 1]
    <3> SUFFICES ASSUME NEW j \in 1 .. Len(s)
                 PROVE  s[j] = IF j < dim THEN t[j] ELSE t[j + 1]
      OBVIOUS
    <3>1. CASE j < dim
      <4>1. j \in 1 .. Len(s) + 1
        BY <2>0
      <4> QED
        BY <2>2, <3>1, <4>1
    <3>2. CASE ~(j < dim)
      <4>1. j + 1 \in 1 .. Len(s) + 1 /\ j + 1 > dim /\ (j + 1) - 1 = j
        BY <2>0, <3>2
      <4> QED
        BY <2>2, <3>2, <4>1
    <3> QED
      BY <3>1, <3>2
  <2>4. multiply_integers(t) = multiply_integers(s)
    BY <2>0, <2>3, ProductWithout
  <2>5. multiply_integers(s) \in Int
    BY <2>0, ProductType
  <2> QED
    BY <2>0, <2>4, <2>5
<1>7. d.base_strides[dim] >= 1
  <2>1. ComputeStrideFromShape(d.base_sizes)[dim] >= 1
    BY <1>4, <1>5, StridePositive
  <2>2. d.base_strides[dim] = ComputeStrideFromShape(d.base_sizes)[dim]
    BY <1>5, <1>6
  <2> QED
    BY <2>1, <2>2
<1>8. d.offset \div d.base_strides[dim] \in Nat
  <2> DEFINE c == d.base_strides[dim]
  <2>1. c \in Nat /\ c >= 1
    BY <1>4, <1>5, <1>7
  <2> HIDE DEF c
  <2>2. d.offset \div c \in Nat
    BY <1>3, <2>1, DivMod
  <2> QED
    BY <2>2 DEF c
<1>9. DOMAIN start = 1 .. n /\ \A i \in 1 .. n : start[i] \in Nat
  <2> DEFINE q == d.offset \div d.base_strides[dim]
  <2>1. q \in Nat
    BY <1>8
  <2> HIDE DEF q
  <2>2. start = [i \in 1 .. n |-> IF i = dim THEN q ELSE 0]
    BY <1>4, Zenon DEF q
  <2> HIDE DEF start
  <2> QED
    BY <2>1, <2>2
<1> HIDE DEF start
<1>10. \A i \in 1 .. n : length[i] \in Int
  BY <1>4, <1>5
<1> HIDE DEF length
<1>11. \A i \in 1 .. n : end[i] \in Int /\ step[i] \in Nat /\ step[i] >= 1
  BY <1>9, <1>10
<1>12. p.start = start /\ p.length = length
  BY <1>1
<1>13. select_to_contiguous(d, p) = StridedSlice(d, start, end, step)
  BY <1>12, Zenon DEF select_to_contiguous
<1> HIDE DEF end, step
<1>14. Strided(n, start, end, step)
  BY <1>9, <1>11, Zenon DEF Strided
<1> QED
  BY <1>3, <1>13, <1>14, StridedInside, Zenon

------------------------------------------------------------------------------
(* What is read is inside of the storage.                                    *)

Inside(c, n) == \A k \in DOMAIN c : c[k] \in 0 .. n - 1

\* The places of the description are as many as it has elements.
LEMMA BaseTerms ==
  ASSUME Shapes, Room
  PROVE  /\ Added(Terms(storage.base.sizes, storage.base.strides)) <= storage.numel - 1
         /\ Added(Terms(storage.base.sizes, storage.base.strides)) \in Nat
         /\ storage.numel \in Nat
<1> DEFINE b == storage.base
<1>1. ShapeOK(b.sizes, b.strides) /\ is_contiguous(b) /\ storage.numel \in Nat \ {0}
        /\ multiply_integers(b.sizes) <= storage.numel
  BY Zenon DEF Shapes, Room
<1>2. Reach(WholeOf(b)) = multiply_integers(b.sizes)
  BY <1>1, WholeReach, Zenon
<1>3. WholeOf(b).sizes = b.sizes /\ WholeOf(b).strides = b.strides /\ WholeOf(b).offset = 0
        /\ 0 \in Nat
  BY DEF WholeOf
<1>4. /\ Reach(WholeOf(b)) = 0 + 1 + Added(Terms(b.sizes, b.strides))
      /\ Added(Terms(b.sizes, b.strides)) \in Nat
  BY <1>1, <1>3, ShapeReach, Zenon
<1> HIDE DEF b
<1> QED
  BY <1>1, <1>2, <1>4 DEF b

LEMMA ViewInside ==
  ASSUME Shapes, Room
  PROVE  Inside(Elements(view.sizes, view.strides, view.offset), storage.numel)
<1> DEFINE s == view.sizes
           t == view.strides
           o == view.offset
           e == Elements(s, t, o)
<1>1. ShapeOK(s, t) /\ o \in Nat
  BY ViewTyped
<1>2. /\ s \in Seq(Int) /\ t \in Seq(Int) /\ Len(t) = Len(s)
      /\ \A i \in 1 .. Len(s) : s[i] >= 1 /\ t[i] \in Nat
  BY <1>1, ShapeType
<1>3. Reach(view) = o + 1 + Added(Terms(s, t)) /\ Added(Terms(s, t)) \in Nat
  BY <1>1, ShapeReach, Zenon
<1>4. Reach(view) <= storage.numel /\ storage.numel \in Nat
  BY DEF Room
<1>5. \A i \in 1 .. Len(s) : s[i] >= 0 /\ t[i] >= 0
  <2> SUFFICES ASSUME NEW i \in 1 .. Len(s) PROVE s[i] >= 0 /\ t[i] >= 0
    OBVIOUS
  <2>1. s[i] \in Int /\ s[i] >= 1 /\ t[i] \in Nat
    BY <1>2
  <2> QED
    BY <2>1
<1>6. o \in Int
  BY <1>1
<1> HIDE DEF s, t, o
<1>7. \A p \in 1 .. multiply_integers(s) :
        e[p] \in Int /\ o <= e[p] /\ e[p] <= o + Added(Terms(s, t))
  BY <1>2, <1>5, <1>6, ElementsInside
<1>8. DOMAIN e = 1 .. multiply_integers(s)
  BY ElementsAre
<1> HIDE DEF e
<1>9. \A p \in DOMAIN e : e[p] \in 0 .. storage.numel - 1
  BY <1>1, <1>3, <1>4, <1>7, <1>8
<1> QED
  BY <1>9 DEF Inside, e, s, t, o

LEMMA PlainInside ==
  ASSUME Shapes, Room, NEW case \in Plain, NEW p \in PlainMatch(case, desc),
         case = "select" =>
           multiply_integers(desc.sizes) < multiply_integers(desc.base_sizes)
  PROVE  Inside(PlainCopy(case, desc, p), storage.numel)
<1>1. case \in ExactCases \/ case = "select" \/ case = "indexing"
  BY DEF Plain, ExactCases
<1>2. /\ DescOK(desc) /\ desc.sizes = view.sizes /\ desc.strides = view.strides
      /\ desc.offset = view.offset /\ desc.base_sizes = storage.base.sizes
      /\ desc.base_strides = storage.base.strides
  BY DescIs
<1> DEFINE t == Added(Terms(storage.base.sizes, storage.base.strides))
<1>3. t <= storage.numel - 1 /\ t \in Nat /\ storage.numel \in Nat
  BY BaseTerms
<1>4. ASSUME NEW c, \A k \in DOMAIN c : c[k] \in 0 .. t PROVE Inside(c, storage.numel)
  <2> HIDE DEF t
  <2>1. \A x \in 0 .. t : x \in 0 .. storage.numel - 1
    BY <1>3
  <2> QED
    BY <1>4, <2>1, Zenon DEF Inside
<1>5. CASE case \in ExactCases
  <2>1. PlainCopy(case, desc, p) = Elements(view.sizes, view.strides, view.offset)
    BY <1>2, <1>5, PlainExact, Zenon
  <2> QED
    BY <2>1, ViewInside, Zenon
<1>6. CASE case = "indexing"
  <2>1. p \in can_use_indexing(desc) /\ PlainCopy(case, desc, p) = indexing_to_contiguous(desc, p)
    BY <1>6, Zenon DEF PlainMatch, PlainCopy
  <2>2. \A k \in DOMAIN indexing_to_contiguous(desc, p) : indexing_to_contiguous(desc, p)[k] \in 0 .. t
    BY <1>2, <2>1, IndexingInside, Zenon
  <2> QED
    BY <1>4, <2>1, <2>2, Zenon
<1>7. CASE case = "select"
  <2>1. p \in can_use_select(desc) /\ PlainCopy(case, desc, p) = select_to_contiguous(desc, p)
    BY <1>7, Zenon DEF PlainMatch, PlainCopy
  <2>2. \A i \in 1 .. Len(desc.base_sizes) :
          desc.base_sizes[i] # 1 =>
            desc.base_strides[i] = ComputeStrideFromShape(desc.base_sizes)[i]
    <3>1. is_contiguous(storage.base) /\ ShapeOK(storage.base.sizes, storage.base.strides)
      BY Zenon DEF Room, Shapes
    <3>2. DOMAIN storage.base.sizes = 1 .. Len(storage.base.sizes)
      BY <3>1, ShapeType
    <3> QED
      BY <1>2, <3>1, <3>2, Zenon DEF is_contiguous
  <2>3. \A k \in DOMAIN select_to_contiguous(desc, p) : select_to_contiguous(desc, p)[k] \in 0 .. t
    BY <1>2, <1>7, <2>1, <2>2, SelectInside, Zenon
  <2> QED
    BY <1>4, <2>1, <2>3, Zenon
<1> QED
  BY <1>1, <1>5, <1>6, <1>7

\* Whatever the case but "combined", what the last copy read is in the storage.
CopyInside == copy.case # "combined" => Inside(copy.elements, storage.numel)

LEMMA InsideLarger ==
  ASSUME NEW m \in Int, NEW n \in Int, m <= n, NEW c, Inside(c, m) PROVE Inside(c, n)
<1>1. \A x \in 0 .. m - 1 : x \in 0 .. n - 1
  OBVIOUS
<1> QED
  BY <1>1, Zenon DEF Inside

LEMMA InsideEmpty == \A n : Inside(<<>>, n)
<1>1. DOMAIN <<>> = {}
  OBVIOUS
<1> QED
  BY <1>1, Zenon DEF Inside

LEMMA GeneralInside ==
  ASSUME Shapes, Room, NEW case \in Simple, General(case), NEW n \in Int, storage.numel <= n,
         storage'.numel = n
  PROVE  CopyInside'
<1>1. copy'.elements = Elements(view.sizes, view.strides, view.offset)
  BY DoneIs, Zenon DEF General
<1>2. storage.numel \in Int
  BY DEF Room
<1>3. Inside(copy'.elements, n)
  BY <1>1, <1>2, ViewInside, InsideLarger, Zenon
<1> QED
  BY <1>3, Zenon DEF CopyInside

LEMMA FirstInside ==
  ASSUME Shapes, Room, NEW c, NEW cases \in Listed, NEW e \in FirstPlain(c, desc, cases).copies
  PROVE  Inside(e, storage.numel)
<1> DEFINE case == FirstPlain(c, desc, cases).case
<1>1. /\ case \in Plain /\ \E p \in PlainMatch(case, desc) : e = PlainCopy(case, desc, p)
      /\ \E k \in 1 .. Len(cases) : case = cases[k]
  BY FirstRead, Zenon
<1>2. Selecting(cases)
  BY Zenon DEF Listed
<1> HIDE DEF case
<1>3. case = "select" => multiply_integers(desc.sizes) < multiply_integers(desc.base_sizes)
  BY <1>1, <1>2, Zenon DEF Selecting
<1>4. PICK p \in PlainMatch(case, desc) : e = PlainCopy(case, desc, p)
  BY <1>1
<1>5. Inside(PlainCopy(case, desc, p), storage.numel)
  BY <1>1, <1>3, PlainInside, Zenon
<1> QED
  BY <1>4, <1>5, Zenon

LEMMA FirstCopyInside ==
  ASSUME Shapes, Room, NEW c, NEW cases \in Listed, storage' = storage,
         \E e \in FirstPlain(c, desc, cases).copies : Done(FirstPlain(c, desc, cases).case, e)
  PROVE  CopyInside'
<1>1. PICK e \in FirstPlain(c, desc, cases).copies : Done(FirstPlain(c, desc, cases).case, e)
  OBVIOUS
<1>2. copy'.elements = e
  BY <1>1, DoneIs, Zenon
<1>3. Inside(e, storage.numel)
  BY FirstInside, Zenon
<1> QED
  BY <1>2, <1>3, Zenon DEF CopyInside

LEMMA AttemptedInside ==
  ASSUME Shapes, Room, NEW c, NEW case \in Storable, NEW p \in Match(case, desc), NEW n,
         Attempted(case, Run(c, case, desc, p, n)), Enough(storage'.numel)
  PROVE  CopyInside'
<1> DEFINE run == Run(c, case, desc, p, n)
<1>1. IF run.copies = {} THEN General("general") ELSE \E e \in run.copies : Done(case, e)
  BY Zenon DEF Attempted
<1>2. /\ storage'.numel \in Int /\ storage.numel \in Int /\ storage.numel <= storage'.numel
  <2>1. storage.numel \in Nat \ {0}
    BY RoomTypes, Zenon
  <2> QED
    BY <2>1 DEF Enough
<1>3. CASE General("general")
  BY <1>2, <1>3, GeneralInside, CaseNames, Zenon
<1>4. ASSUME NEW e \in run.copies, Done(case, e) PROVE CopyInside'
  <2>1. copy'.case = case /\ copy'.elements = e
    BY <1>4, DoneIs, Zenon
  <2> SUFFICES ASSUME case # "combined" PROVE Inside(e, storage.numel)
    BY <1>2, <2>1, InsideLarger, Zenon DEF CopyInside
  <2>2. case \in Single
    BY DEF Storable
  <2>3. run = [copies |-> {PlainCopy(case, desc, p)}, cache |-> c, numel |-> n]
    BY Zenon DEF Run
  <2> HIDE DEF run
  <2>4. e = PlainCopy(case, desc, p)
    BY <1>4, <2>3
  <2>5. case \in ExactCases /\ p \in PlainMatch(case, desc)
    BY <2>2, MatchSingle, Zenon
  <2>6. e = Elements(view.sizes, view.strides, view.offset)
    BY <2>4, <2>5, PlainRead, Zenon
  <2> QED
    BY <2>6, ViewInside, Zenon
<1> QED
  BY <1>1, <1>3, <1>4, Zenon

LEMMA CopyStepInside ==
  ASSUME Shapes, CacheHolds, Room, CopyStep PROVE CopyInside'
<1>1. Enough(storage'.numel)
  BY CopyStores, Zenon
<1>2. CASE RunCached
  <2> DEFINE e == cache[GetHash_(desc)]
  <2>1. Hit(cache, desc)
        /\ Attempted(e.case, Run(cache, e.case, desc, e.params, storage.numel))
    BY <1>2, Zenon DEF RunCached
  <2>2. e.case \in Storable /\ e.params \in Match(e.case, desc)
    BY <2>1, HitIs, Zenon DEF CacheHolds
  <2> HIDE DEF e
  <2> QED
    BY <1>1, <2>1, <2>2, AttemptedInside, Zenon
<1>3. ASSUME NEW cases \in Listed, RunPlain(cases) PROVE CopyInside'
  <2>1. /\ storage' = storage
        /\ \E e \in FirstPlain(cache, desc, cases).copies :
             Done(FirstPlain(cache, desc, cases).case, e)
    BY <1>3, Zenon DEF RunPlain
  <2> QED
    BY <2>1, FirstCopyInside, Zenon
<1>4. ASSUME NEW cases \in Listed, RunCombined(cases) PROVE CopyInside'
  <2>1. PICK p \in can_use_combined(desc) :
          Attempted("combined", combined_to_contiguous(cache, desc, p, storage.numel))
    BY <1>4, Zenon DEF RunCombined
  <2>2. /\ combined_to_contiguous(cache, desc, p, storage.numel)
             = Run(cache, "combined", desc, p, storage.numel)
        /\ p \in Match("combined", desc)
    BY Zenon DEF Run, Match
  <2>3. Attempted("combined", Run(cache, "combined", desc, p, storage.numel))
    BY <2>1, <2>2, Zenon
  <2> QED
    BY <1>1, <2>2, <2>3, AttemptedInside, CasesAre, Zenon
<1>5. CASE CopyOnly
  <2>1. storage' = storage /\ storage.numel \in Int /\ storage.numel <= storage.numel
    <3>1. storage.numel \in Nat \ {0} /\ storage' = storage
      BY <1>5, RoomTypes, Zenon DEF CopyOnly
    <3> QED
      BY <3>1
  <2>2. ASSUME NEW case \in {"memcpy", "general"}, General(case) PROVE CopyInside'
    BY <2>1, <2>2, GeneralInside, Zenon DEF Simple
  <2>3. ASSUME Done("divided by zero", <<>>) PROVE CopyInside'
    <3>1. copy'.elements = <<>>
      BY <2>3, DoneIs, Zenon
    <3> QED
      BY <3>1, InsideEmpty, Zenon DEF CopyInside
  <2>4. ASSUME NEW cases \in Listed,
               \E e \in FirstPlain(cache, desc, cases).copies :
                 Done(FirstPlain(cache, desc, cases).case, e)
        PROVE  CopyInside'
    BY <2>1, <2>4, FirstCopyInside, Zenon
  <2> QED
    BY <1>5, <2>2, <2>3, <2>4, Zenon DEF CopyOnly
<1> QED
  BY <1>2, <1>3, <1>4, <1>5, Zenon DEF CopyStep

LEMMA InsideNext == Shapes /\ CacheHolds /\ Room /\ CopyInside /\ [Next]_vars => CopyInside'
<1> SUFFICES ASSUME Shapes, CacheHolds, Room, CopyInside, [Next]_vars PROVE CopyInside'
  OBVIOUS
<1>1. CASE UNCHANGED vars
  BY <1>1, Zenon DEF vars, CopyInside
<1>2. CASE Whole \/ ViewStep \/ AsOperand \/ \E s \in Resizes : resize_(s)
  <2>1. copy'.elements = <<>>
    BY <1>2, OtherSteps, NoCopyHolds, Zenon
  <2> QED
    BY <2>1, InsideEmpty, Zenon DEF CopyInside
<1>3. CASE CopyStep
  BY <1>3, CopyStepInside
<1> QED
  BY <1>1, <1>2, <1>3, NextSplit, Zenon

LEMMA InsideInit == Init => CopyInside
<1> SUFFICES ASSUME copy = NoCopy PROVE CopyInside
  BY Zenon DEF Init
<1>1. copy.elements = <<>>
  BY DEF NoCopy
<1> QED
  BY <1>1, InsideEmpty, Zenon DEF CopyInside

\* The storage has the places of the view and of what it is described as, after
\* any sequence of views, operands, resize_ and copies, and a copy by any of the
\* optimizers but the combined one reads places of the storage only.
THEOREM StorageSuffices ==
  Spec => [](/\ Reach(view) <= storage.numel
             /\ Reach(WholeOf(storage.base)) <= storage.numel
             /\ copy.case # "combined" => StorageHolds)
<1>1. Init => CopyInside
  BY InsideInit
<1>2. Kept /\ CopyInside /\ [Next]_vars => CopyInside'
  BY InsideNext, Zenon DEF Kept
<1>3. Spec => []CopyInside
  BY <1>1, <1>2, KeptAlways, PTL DEF Spec
<1>4. Kept /\ CopyInside =>
        /\ Reach(view) <= storage.numel
        /\ Reach(WholeOf(storage.base)) <= storage.numel
        /\ copy.case # "combined" => StorageHolds
  <2> SUFFICES ASSUME Kept, CopyInside
               PROVE  /\ Reach(view) <= storage.numel
                      /\ Reach(WholeOf(storage.base)) <= storage.numel
                      /\ copy.case # "combined" => StorageHolds
    OBVIOUS
  <2>1. Shapes /\ Room
    BY Zenon DEF Kept
  <2>2. /\ Reach(view) <= storage.numel
        /\ multiply_integers(storage.base.sizes) <= storage.numel
    BY <2>1, Zenon DEF Room
  <2>3. Reach(WholeOf(storage.base)) = multiply_integers(storage.base.sizes)
    BY <2>1, WholeReach, Zenon DEF Shapes, Room
  <2> QED
    BY <2>2, <2>3, Zenon DEF StorageHolds, CopyInside, Inside
<1> QED
  BY <1>3, <1>4, KeptAlways, PTL

------------------------------------------------------------------------------
(* A view that is no reshape lies in its base: each of its dimensions runs   *)
(* along a dimension of the base, another for each, or does not run at all.  *)

Strides(b) == ComputeStrideFromShape(b)

Places(c, b) == [j \in 1 .. Len(b) |-> c[j] * Strides(b)[j]]

\* Size m and stride r: along dimension j of b, from place c[j] on, or (0) along none.
Lies(m, r, j, c, b) ==
  IF j = 0 THEN m = 1 \/ r = 0
  ELSE /\ j \in 1 .. Len(b)
       /\ \E k \in Nat : r = k * Strides(b)[j] /\ c[j] + (m - 1) * k <= b[j] - 1

Embedded(s, t, o, g, c, b) ==
  /\ g \in [1 .. Len(s) -> Nat] /\ c \in [1 .. Len(b) -> Nat]
  /\ \A j \in 1 .. Len(b) : c[j] <= b[j] - 1
  /\ o = Added(Places(c, b))
  /\ \A i \in 1 .. Len(s) : Lies(s[i], t[i], g[i], c, b)
  /\ \A i, k \in 1 .. Len(s) : g[i] # 0 /\ g[i] = g[k] => i = k

Embeds(s, t, o, b) == \E g, c : Embedded(s, t, o, g, c, b)

\* The dimensions of u and v are some of those of s and t, in any order, and new ones.
Relabels(s, t, u, v, h) ==
  /\ h \in [1 .. Len(u) -> Nat]
  /\ \A i \in 1 .. Len(u) :
       IF h[i] = 0 THEN u[i] = 1 \/ v[i] = 0
       ELSE h[i] \in 1 .. Len(s) /\ u[i] = s[h[i]] /\ v[i] = t[h[i]]
  /\ \A i, k \in 1 .. Len(u) : h[i] # 0 /\ h[i] = h[k] => i = k

LEMMA Relabelled ==
  ASSUME NEW s, NEW t, NEW o, NEW b, Embeds(s, t, o, b),
         NEW u, NEW v, NEW h, Relabels(s, t, u, v, h)
  PROVE  Embeds(u, v, o, b)
<1>1. PICK g, c : Embedded(s, t, o, g, c, b)
  BY Zenon DEF Embeds
<1> DEFINE e == [i \in 1 .. Len(u) |-> IF h[i] = 0 THEN 0 ELSE g[h[i]]]
<1>2. /\ g \in [1 .. Len(s) -> Nat]
      /\ \A i \in 1 .. Len(s) : Lies(s[i], t[i], g[i], c, b)
      /\ \A i, k \in 1 .. Len(s) : g[i] # 0 /\ g[i] = g[k] => i = k
  BY <1>1, Zenon DEF Embedded
<1>3. /\ \A i \in 1 .. Len(u) :
           IF h[i] = 0 THEN u[i] = 1 \/ v[i] = 0
           ELSE h[i] \in 1 .. Len(s) /\ u[i] = s[h[i]] /\ v[i] = t[h[i]]
      /\ \A i, k \in 1 .. Len(u) : h[i] # 0 /\ h[i] = h[k] => i = k
  BY Zenon DEF Relabels
<1>4. /\ e \in [1 .. Len(u) -> Nat]
      /\ \A i \in 1 .. Len(u) : e[i] = IF h[i] = 0 THEN 0 ELSE g[h[i]]
  BY <1>2, <1>3
<1> HIDE DEF e
<1>5. \A i \in 1 .. Len(u) : Lies(u[i], v[i], e[i], c, b)
  <2> SUFFICES ASSUME NEW i \in 1 .. Len(u) PROVE Lies(u[i], v[i], e[i], c, b)
    OBVIOUS
  <2>1. CASE h[i] = 0
    <3>1. e[i] = 0 /\ (u[i] = 1 \/ v[i] = 0)
      BY <1>3, <1>4, <2>1
    <3> QED
      BY <3>1, Zenon DEF Lies
  <2>2. CASE h[i] # 0
    <3>1. e[i] = g[h[i]] /\ h[i] \in 1 .. Len(s) /\ u[i] = s[h[i]] /\ v[i] = t[h[i]]
      BY <1>3, <1>4, <2>2
    <3> QED
      BY <1>2, <3>1, Zenon
  <2> QED
    BY <2>1, <2>2
<1>6. \A i, k \in 1 .. Len(u) : e[i] # 0 /\ e[i] = e[k] => i = k
  <2> SUFFICES ASSUME NEW i \in 1 .. Len(u), NEW k \in 1 .. Len(u), e[i] # 0, e[i] = e[k]
               PROVE  i = k
    OBVIOUS
  <2>1. h[i] # 0 /\ h[k] # 0 /\ e[i] = g[h[i]] /\ e[k] = g[h[k]]
    BY <1>4
  <2>2. h[i] \in 1 .. Len(s) /\ h[k] \in 1 .. Len(s)
    BY <1>3, <2>1
  <2>3. h[i] = h[k]
    BY <1>2, <2>1, <2>2
  <2> QED
    BY <1>3, <2>1, <2>3
<1> QED
  BY <1>1, <1>4, <1>5, <1>6, Zenon DEF Embeds, Embedded

LEMMA RemovedEmbeds ==
  ASSUME NEW s, NEW t, ShapeOK(s, t), NEW o, NEW b, Embeds(s, t, o, b), NEW i \in 1 .. Len(s)
  PROVE  Embeds(RemoveAt(s, i), RemoveAt(t, i), o, b)
<1> DEFINE u == RemoveAt(s, i)
           v == RemoveAt(t, i)
           h == [j \in 1 .. Len(u) |-> IF j < i THEN j ELSE j + 1]
<1>1. s \in Seq(Int) /\ t \in Seq(Int) /\ Len(t) = Len(s) /\ i \in 1 .. Len(t)
  BY ShapeType
<1>2. /\ Len(u) + 1 = Len(s) /\ u \in Seq(Int)
      /\ \A j \in 1 .. Len(s) - 1 : u[j] = IF j < i THEN s[j] ELSE s[j + 1]
  BY <1>1, Removed
<1>3. \A j \in 1 .. Len(t) - 1 : v[j] = IF j < i THEN t[j] ELSE t[j + 1]
  BY <1>1, Removed
<1> HIDE DEF u, v
<1>4. /\ Len(u) \in Nat /\ Len(s) - 1 = Len(u) /\ Len(t) - 1 = Len(u)
      /\ Len(s) = Len(u) + 1 /\ i \in 1 .. Len(u) + 1
  BY <1>1, <1>2
<1>5. h \in [1 .. Len(u) -> Nat] /\ \A j \in 1 .. Len(u) : h[j] = IF j < i THEN j ELSE j + 1
  OBVIOUS
<1> HIDE DEF h
<1>6. \A j \in 1 .. Len(u) : h[j] # 0 /\ h[j] \in 1 .. Len(s) /\ u[j] = s[h[j]] /\ v[j] = t[h[j]]
  <2> SUFFICES ASSUME NEW j \in 1 .. Len(u)
               PROVE  h[j] # 0 /\ h[j] \in 1 .. Len(s) /\ u[j] = s[h[j]] /\ v[j] = t[h[j]]
    OBVIOUS
  <2>1. h[j] # 0 /\ h[j] \in 1 .. Len(s)
    <3>1. \A n \in Nat : \A k \in 1 .. n : k \in 1 .. n + 1 /\ k + 1 \in 1 .. n + 1
      OBVIOUS
    <3>2. h[j] = j \/ h[j] = j + 1
      BY <1>5
    <3>3. j # 0 /\ j + 1 # 0
      BY <1>4
    <3> QED
      BY <1>4, <3>1, <3>2, <3>3
  <2>2. u[j] = s[h[j]] /\ v[j] = t[h[j]]
    BY <1>2, <1>3, <1>4, <1>5
  <2> QED
    BY <2>1, <2>2
<1>7. \A j, k \in 1 .. Len(u) : h[j] = h[k] => j = k
  BY <1>1, <1>5
<1>8. Relabels(s, t, u, v, h)
  BY <1>5, <1>6, <1>7, Zenon DEF Relabels
<1>9. Embeds(u, v, o, b)
  BY <1>8, Relabelled, Zenon
<1> QED
  BY <1>9 DEF u, v

LEMMA InsertedEmbeds ==
  ASSUME NEW s, NEW t, ShapeOK(s, t), NEW o, NEW b, Embeds(s, t, o, b),
         NEW i \in 1 .. Len(s) + 1, NEW m \in Nat, NEW r \in Nat, m = 1 \/ r = 0
  PROVE  Embeds(InsertAt(s, i, m), InsertAt(t, i, r), o, b)
<1> DEFINE u == InsertAt(s, i, m)
           v == InsertAt(t, i, r)
           h == [j \in 1 .. Len(u) |-> IF j < i THEN j ELSE j - 1]
           e == [j \in 1 .. Len(u) |-> IF j = i THEN 0 ELSE h[j]]
<1>1. s \in Seq(Int) /\ t \in Seq(Int) /\ Len(t) = Len(s) /\ i \in 1 .. Len(t) + 1
      /\ m \in Int /\ r \in Int
  BY ShapeType
<1>2. InsertedAs(Int, s, i, m) /\ InsertedAs(Int, t, i, r)
  BY <1>1, Inserted
<1>3. /\ Len(u) = Len(s) + 1 /\ Len(s) \in Nat /\ i \in 1 .. Len(s) + 1
      /\ \A j \in 1 .. Len(s) + 1 :
           /\ j < i => u[j] = s[j] /\ v[j] = t[j]
           /\ j = i => u[j] = m /\ v[j] = r
           /\ j > i => u[j] = s[j - 1] /\ v[j] = t[j - 1]
  BY <1>1, <1>2 DEF InsertedAs
<1> HIDE DEF u, v
<1>4. \A j \in 1 .. Len(u) : e[j] = IF j = i THEN 0 ELSE IF j < i THEN j ELSE j - 1
  OBVIOUS
<1>5. e \in [1 .. Len(u) -> Nat]
  BY <1>3
<1> HIDE DEF h, e
<1>6. \A j \in 1 .. Len(u) : IF e[j] = 0 THEN u[j] = 1 \/ v[j] = 0
                             ELSE e[j] \in 1 .. Len(s) /\ u[j] = s[e[j]] /\ v[j] = t[e[j]]
  <2> SUFFICES ASSUME NEW j \in 1 .. Len(u)
               PROVE  IF e[j] = 0 THEN u[j] = 1 \/ v[j] = 0
                      ELSE e[j] \in 1 .. Len(s) /\ u[j] = s[e[j]] /\ v[j] = t[e[j]]
    OBVIOUS
  <2>1. j \in 1 .. Len(s) + 1
    BY <1>3
  <2>2. CASE j = i
    BY <1>3, <1>4, <2>1, <2>2
  <2>3. CASE j < i
    <3>1. e[j] = j /\ j \in 1 .. Len(s) /\ e[j] # 0
      BY <1>3, <1>4, <2>1, <2>3
    <3> QED
      BY <1>3, <2>1, <2>3, <3>1
  <2>4. CASE j > i
    <3>1. e[j] = j - 1 /\ j - 1 \in 1 .. Len(s) /\ e[j] # 0
      BY <1>3, <1>4, <2>1, <2>4
    <3> QED
      BY <1>3, <2>1, <2>4, <3>1
  <2> QED
    BY <1>3, <2>1, <2>2, <2>3, <2>4
<1>7. \A j, k \in 1 .. Len(u) : e[j] # 0 /\ e[j] = e[k] => j = k
  BY <1>3, <1>4
<1>8. Relabels(s, t, u, v, e)
  BY <1>5, <1>6, <1>7, Zenon DEF Relabels
<1>9. Embeds(u, v, o, b)
  BY <1>8, Relabelled, Zenon
<1> QED
  BY <1>9 DEF u, v

LEMMA SwappedEmbeds ==
  ASSUME NEW s, NEW t, ShapeOK(s, t), NEW o, NEW b, Embeds(s, t, o, b),
         NEW i \in 1 .. Len(s), NEW j \in 1 .. Len(s)
  PROVE  Embeds([s EXCEPT ![i] = s[j], ![j] = s[i]], [t EXCEPT ![i] = t[j], ![j] = t[i]], o, b)
<1> DEFINE u == [s EXCEPT ![i] = s[j], ![j] = s[i]]
           v == [t EXCEPT ![i] = t[j], ![j] = t[i]]
           n == Len(s)
           h == [k \in 1 .. n |-> IF k = j THEN i ELSE IF k = i THEN j ELSE k]
<1>1. /\ s \in Seq(Int) /\ t \in Seq(Int) /\ n \in Nat
      /\ DOMAIN s = 1 .. n /\ DOMAIN t = 1 .. n
  BY ShapeType
<1>2. Len(u) = n /\ \A k \in 1 .. n : u[k] = s[h[k]] /\ v[k] = t[h[k]]
  <2>1. u \in Seq(Int) /\ Len(u) = n
    BY <1>1
  <2>2. \A k \in 1 .. n : u[k] = s[h[k]]
    BY <1>1
  <2>3. \A k \in 1 .. n : v[k] = t[h[k]]
    BY <1>1
  <2> QED
    BY <2>1, <2>2, <2>3
<1>3. /\ h \in [1 .. n -> Nat]
      /\ \A k \in 1 .. n : h[k] # 0 /\ h[k] \in 1 .. n
      /\ \A k, l \in 1 .. n : h[k] = h[l] => k = l
  BY <1>1
<1> HIDE DEF u, v, h
<1>4. Relabels(s, t, u, v, h)
  BY <1>2, <1>3, Zenon DEF Relabels
<1>5. Embeds(u, v, o, b)
  BY <1>4, Relabelled, Zenon
<1> QED
  BY <1>5 DEF u, v

LEMMA ExpandedEmbeds ==
  ASSUME NEW s, NEW t, ShapeOK(s, t), NEW o, NEW b, Embeds(s, t, o, b), NEW i \in 1 .. Len(s)
  PROVE  Embeds([s EXCEPT ![i] = 2], [t EXCEPT ![i] = 0], o, b)
<1> DEFINE u == [s EXCEPT ![i] = 2]
           v == [t EXCEPT ![i] = 0]
           n == Len(s)
           h == [k \in 1 .. n |-> IF k = i THEN 0 ELSE k]
<1>1. /\ s \in Seq(Int) /\ t \in Seq(Int) /\ n \in Nat
      /\ DOMAIN s = 1 .. n /\ DOMAIN t = 1 .. n
  BY ShapeType
<1>2. Len(u) = n /\ v[i] = 0 /\ \A k \in 1 .. n : k # i => u[k] = s[k] /\ v[k] = t[k]
  <2>1. u \in Seq(Int) /\ Len(u) = n
    BY <1>1
  <2> QED
    BY <1>1, <2>1
<1>3. /\ h \in [1 .. n -> Nat]
      /\ \A k \in 1 .. n : h[k] = IF k = i THEN 0 ELSE k
  OBVIOUS
<1> HIDE DEF u, v, h
<1>4. /\ \A k \in 1 .. n : IF h[k] = 0 THEN u[k] = 1 \/ v[k] = 0
                           ELSE h[k] \in 1 .. n /\ u[k] = s[h[k]] /\ v[k] = t[h[k]]
      /\ \A k, l \in 1 .. n : h[k] # 0 /\ h[k] = h[l] => k = l
  BY <1>2, <1>3
<1>5. Relabels(s, t, u, v, h)
  BY <1>2, <1>3, <1>4, Zenon DEF Relabels
<1>6. Embeds(u, v, o, b)
  BY <1>5, Relabelled, Zenon
<1> QED
  BY <1>6 DEF u, v

LEMMA Associates ==
  ASSUME NEW x \in Nat, NEW y \in Nat, NEW z \in Nat
  PROVE  z * (x * y) = (z * x) * y
OBVIOUS

LEMMA Regroup ==
  ASSUME NEW x \in Nat, NEW y \in Nat, NEW z \in Nat
  PROVE  (x * y) * z = (z * x) * y
OBVIOUS

LEMMA Spread ==
  ASSUME NEW x \in Nat, NEW y \in Nat, NEW z \in Nat
  PROVE  (x + y) * z = x * z + y * z
OBVIOUS

LEMMA PutAt ==
  ASSUME NEW n \in Nat, NEW f \in [1 .. n -> Nat], NEW j \in 1 .. n, NEW w \in Nat
  PROVE  /\ [f EXCEPT ![j] = w] \in [1 .. n -> Nat] /\ [f EXCEPT ![j] = w][j] = w
         /\ \A l \in 1 .. n : l # j => [f EXCEPT ![j] = w][l] = f[l]
OBVIOUS

LEMMA PlacesType ==
  ASSUME NEW b \in Seq(Nat \ {0}), NEW c \in [1 .. Len(b) -> Nat]
  PROVE  /\ Places(c, b) \in Seq(Int) /\ Len(Places(c, b)) = Len(b) /\ Len(b) \in Nat
         /\ \A j \in 1 .. Len(b) : /\ Places(c, b)[j] = c[j] * Strides(b)[j]
                                   /\ Strides(b)[j] \in Nat /\ Strides(b)[j] >= 1
                                   /\ b[j] \in Nat /\ b[j] >= 1
<1> DEFINE n == Len(b)
           p == Places(c, b)
<1>1. b \in Seq(Int) /\ n \in Nat /\ \A j \in 1 .. n : b[j] \in Nat /\ b[j] >= 1
  OBVIOUS
<1>2. \A j \in 1 .. n : Strides(b)[j] \in Int /\ Strides(b)[j] >= 1
  BY <1>1, StridePositive, StrideType DEF Strides
<1>3. \A j \in 1 .. n : Strides(b)[j] \in Nat
  BY <1>2
<1>4. p = [j \in 1 .. n |-> c[j] * Strides(b)[j]]
  BY DEF Places
<1> HIDE DEF p
<1>5. p \in [1 .. n -> Int] /\ \A j \in 1 .. n : p[j] = c[j] * Strides(b)[j]
  BY <1>3, <1>4
<1>6. p \in Seq(Int) /\ Len(p) = n
  BY <1>1, <1>5, FunSeq
<1> QED
  BY <1>1, <1>2, <1>3, <1>5, <1>6 DEF p

\* The described tensor lies in itself.
LEMMA WholeEmbeds ==
  ASSUME NEW b \in Seq(Nat \ {0})
  PROVE  Embeds(b, Strides(b), 0, b)
<1> DEFINE n == Len(b)
           g == [j \in 1 .. n |-> j]
           c == [j \in 1 .. n |-> 0]
<1>1. /\ g \in [1 .. n -> Nat] /\ \A j \in 1 .. n : g[j] = j
      /\ c \in [1 .. n -> Nat] /\ \A j \in 1 .. n : c[j] = 0
  OBVIOUS
<1> HIDE DEF g, c
<1>2. /\ Places(c, b) \in Seq(Int) /\ Len(Places(c, b)) = n /\ n \in Nat
      /\ \A j \in 1 .. n : /\ Places(c, b)[j] = c[j] * Strides(b)[j]
                           /\ Strides(b)[j] \in Nat /\ b[j] \in Nat /\ b[j] >= 1
  BY <1>1, PlacesType
<1>3. \A j \in 1 .. n : c[j] <= b[j] - 1
  BY <1>1, <1>2
<1>4. Added(Places(c, b)) = 0
  <2> DEFINE p == Places(c, b)
             f == [i \in 0 .. n |-> 0]
  <2>1. \A j \in 1 .. n : p[j] = 0
    <3>1. \A x \in Nat : 0 * x = 0
      OBVIOUS
    <3> QED
      BY <1>1, <1>2, <3>1, Zenon
  <2>2. p \in Seq(Int) /\ Len(p) = n
    BY <1>2
  <2> HIDE DEF p
  <2>3. Sums(p, f)
    BY <1>2, <2>1, <2>2 DEF Sums
  <2>4. f[n] = 0
    BY <1>2
  <2> HIDE DEF f
  <2> QED
    BY <2>2, <2>3, <2>4, SumOf DEF p
<1>5. \A j \in 1 .. n : Lies(b[j], Strides(b)[j], g[j], c, b)
  <2> SUFFICES ASSUME NEW j \in 1 .. n PROVE Lies(b[j], Strides(b)[j], g[j], c, b)
    OBVIOUS
  <2>1. /\ g[j] = j /\ j # 0 /\ Strides(b)[j] = 1 * Strides(b)[j]
        /\ c[j] + (b[j] - 1) * 1 <= b[j] - 1 /\ 1 \in Nat
    BY <1>1, <1>2
  <2> QED
    BY <2>1, Zenon DEF Lies
<1>6. \A i, k \in 1 .. n : g[i] # 0 /\ g[i] = g[k] => i = k
  BY <1>1
<1>7. Embedded(b, Strides(b), 0, g, c, b)
  BY <1>1, <1>3, <1>4, <1>5, <1>6, Zenon DEF Embedded
<1> QED
  BY <1>7, Zenon DEF Embeds

\* Dimension i is cut: m places of the s[i], from the a-th on, h apart.
LEMMA MovedEmbeds ==
  ASSUME NEW b \in Seq(Nat \ {0}), NEW s, NEW t, ShapeOK(s, t), NEW o, Embeds(s, t, o, b),
         NEW i \in 1 .. Len(s), NEW m \in Nat, m >= 1, NEW h \in Nat, NEW a \in Nat,
         a + (m - 1) * h <= s[i] - 1
  PROVE  Embeds([s EXCEPT ![i] = m], [t EXCEPT ![i] = t[i] * h], o + a * t[i], b)
<1> DEFINE u == [s EXCEPT ![i] = m]
           v == [t EXCEPT ![i] = t[i] * h]
           n == Len(s)
<1>1. /\ s \in Seq(Int) /\ t \in Seq(Int) /\ n \in Nat
      /\ DOMAIN s = 1 .. n /\ DOMAIN t = 1 .. n
      /\ \A k \in 1 .. n : s[k] \in Nat /\ s[k] >= 1 /\ t[k] \in Nat
  BY ShapeType
<1>2. /\ Len(u) = n /\ u[i] = m /\ v[i] = t[i] * h
      /\ \A k \in 1 .. n : k # i => u[k] = s[k] /\ v[k] = t[k]
  <2>1. u \in Seq(Int) /\ Len(u) = n
    BY <1>1
  <2> QED
    BY <1>1, <2>1
<1> HIDE DEF u, v
<1>3. PICK g, c : Embedded(s, t, o, g, c, b)
  BY Zenon DEF Embeds
<1>4. /\ g \in [1 .. n -> Nat] /\ c \in [1 .. Len(b) -> Nat]
      /\ \A j \in 1 .. Len(b) : c[j] <= b[j] - 1
      /\ o = Added(Places(c, b))
      /\ \A k \in 1 .. n : Lies(s[k], t[k], g[k], c, b)
      /\ \A k, l \in 1 .. n : g[k] # 0 /\ g[k] = g[l] => k = l
  BY <1>3, Zenon DEF Embedded
<1>5. Len(Places(c, b)) = Len(b) /\ Places(c, b) \in Seq(Int)
  BY <1>4, PlacesType
<1>6. o \in Int
  BY <1>4, <1>5, SumType
<1>7. CASE g[i] = 0
  <2>1. s[i] = 1 \/ t[i] = 0
    BY <1>4, <1>7, Zenon DEF Lies
  <2>2. o + a * t[i] = o /\ (m = 1 \/ t[i] * h = 0)
    <3>1. CASE t[i] = 0
      <4>1. a * 0 = 0 /\ 0 * h = 0
        OBVIOUS
      <4> QED
        BY <1>6, <3>1, <4>1
    <3>2. CASE s[i] = 1
      <4>1. (m - 1) * h >= 0 /\ (m - 1) * h \in Nat
        <5>1. m - 1 \in Nat
          OBVIOUS
        <5> QED
          BY <5>1
      <4>2. a = 0 /\ (m - 1) * h = 0
        BY <3>2, <4>1
      <4>3. m - 1 = 0 \/ h = 0
        <5>1. \A x, y \in Nat : x * y = 0 => x = 0 \/ y = 0
          OBVIOUS
        <5>2. m - 1 \in Nat
          OBVIOUS
        <5> QED
          BY <4>2, <5>1, <5>2
      <4>4. t[i] \in Nat /\ 0 * t[i] = 0 /\ t[i] * 0 = 0
        BY <1>1
      <4> QED
        BY <1>6, <4>2, <4>3, <4>4
    <3> QED
      BY <2>1, <3>1, <3>2
  <2>3. \A k \in 1 .. n : Lies(u[k], v[k], g[k], c, b)
    <3> SUFFICES ASSUME NEW k \in 1 .. n PROVE Lies(u[k], v[k], g[k], c, b)
      OBVIOUS
    <3>1. CASE k = i
      BY <1>2, <1>7, <2>2, <3>1, Zenon DEF Lies
    <3>2. CASE k # i
      BY <1>2, <1>4, <3>2, Zenon
    <3> QED
      BY <3>1, <3>2
  <2>4. Embedded(u, v, o, g, c, b)
    BY <1>2, <1>4, <2>3, Zenon DEF Embedded
  <2> QED
    BY <2>2, <2>4, Zenon DEF Embeds, u, v
<1>8. CASE g[i] # 0
  <2> DEFINE j == g[i]
             S == Strides(b)[j]
  <2>1. /\ j \in 1 .. Len(b) /\ j # 0
        /\ \E k \in Nat : t[i] = k * S /\ c[j] + (s[i] - 1) * k <= b[j] - 1
    BY <1>4, <1>8, Zenon DEF Lies
  <2>2. PICK k \in Nat : t[i] = k * S /\ c[j] + (s[i] - 1) * k <= b[j] - 1
    BY <2>1
  <2> DEFINE e == [c EXCEPT ![j] = c[j] + a * k]
  <2>3. c[j] \in Nat /\ S \in Nat /\ b[j] \in Nat /\ s[i] \in Nat /\ t[i] \in Nat
    BY <1>1, <1>4, <2>1, PlacesType
  <2>4. a * k \in Nat /\ (m - 1) * (h * k) \in Nat /\ h * k \in Nat
    <3>1. m - 1 \in Nat
      OBVIOUS
    <3> QED
      BY <3>1
  <2>5. a * k + (m - 1) * (h * k) <= (s[i] - 1) * k
    <3> DEFINE w == s[i]
    <3>1. w \in Nat /\ a + (m - 1) * h <= w - 1
      BY <2>3
    <3> HIDE DEF w
    <3> QED
      BY <3>1, ScaledSteps DEF w
  <2>6. /\ e \in [1 .. Len(b) -> Nat] /\ e[j] = c[j] + a * k
        /\ \A l \in 1 .. Len(b) : l # j => e[l] = c[l]
    <3> DEFINE w == c[j] + a * k
    <3>1. w \in Nat
      <4> DEFINE x == c[j]
                 y == a * k
      <4>1. x \in Nat /\ y \in Nat /\ w = x + y
        BY <2>3, <2>4
      <4> HIDE DEF x, y, w
      <4> QED
        BY <4>1
    <3>2. Len(b) \in Nat
      BY <1>4, PlacesType
    <3> HIDE DEF j, w
    <3>3. e = [c EXCEPT ![j] = w]
      BY DEF w
    <3> HIDE DEF e
    <3>4. /\ e \in [1 .. Len(b) -> Nat] /\ e[j] = w
          /\ \A l \in 1 .. Len(b) : l # j => e[l] = c[l]
      BY <1>4, <2>1, <3>1, <3>2, <3>3, PutAt, Zenon
    <3> QED
      BY <3>4 DEF w
  <2>7. v[i] = (h * k) * S /\ a * t[i] = (a * k) * S
    <3>1. S \in Nat
      BY <2>3
    <3> HIDE DEF S
    <3>2. (k * S) * h = (h * k) * S /\ a * (k * S) = (a * k) * S
      <4>1. k \in Nat /\ h \in Nat /\ a \in Nat
        BY <2>2
      <4>2. (k * S) * h = (h * k) * S
        BY <3>1, <4>1, Regroup, Zenon
      <4>3. a * (k * S) = (a * k) * S
        BY <3>1, <4>1, Associates, Zenon
      <4> QED
        BY <4>2, <4>3, Zenon
    <3> QED
      BY <1>2, <2>2, <3>2, Zenon
  <2>8. e[j] + (m - 1) * (h * k) <= b[j] - 1
    <3> DEFINE x == (m - 1) * (h * k)
               y == (s[i] - 1) * k
               z == a * k
    <3>1. y \in Int
      <4>1. s[i] - 1 \in Int
        BY <2>3
      <4> QED
        BY <4>1
    <3>2. x \in Nat /\ z \in Nat /\ z + x <= y /\ c[j] + y <= b[j] - 1 /\ e[j] = c[j] + z
      BY <2>2, <2>4, <2>5, <2>6
    <3> DEFINE p == c[j]
               q == b[j]
    <3>3. p \in Nat /\ q \in Nat
      BY <2>3
    <3> HIDE DEF x, y, z, e, j, p, q
    <3>4. p + y <= q - 1 /\ e[j] = p + z
      BY <3>2 DEF p, q
    <3>5. (p + z) + x <= q - 1
      BY <3>1, <3>2, <3>3, <3>4
    <3> QED
      BY <3>4, <3>5, Zenon DEF x, q
  <2>9. \A l \in 1 .. Len(b) : e[l] <= b[l] - 1
    <3> SUFFICES ASSUME NEW l \in 1 .. Len(b) PROVE e[l] <= b[l] - 1
      OBVIOUS
    <3>1. CASE l = j
      <4> DEFINE x == (m - 1) * (h * k)
      <4>1. x \in Nat /\ e[j] \in Nat /\ b[j] \in Nat /\ e[j] + x <= b[j] - 1
        BY <2>1, <2>3, <2>4, <2>6, <2>8
      <4> HIDE DEF x, e, j
      <4>2. e[j] <= b[j] - 1
        BY <4>1
      <4> QED
        BY <3>1, <4>2, Zenon
    <3>2. CASE l # j
      <4> HIDE DEF e, j
      <4> QED
        BY <1>4, <2>6, <3>2
    <3> QED
      BY <3>1, <3>2
  <2> HIDE DEF e
  <2>10. \A l \in 1 .. n : Lies(u[l], v[l], g[l], e, b)
    <3> SUFFICES ASSUME NEW l \in 1 .. n PROVE Lies(u[l], v[l], g[l], e, b)
      OBVIOUS
    <3>1. CASE l = i
      <4>1. Lies(m, v[i], j, e, b)
        BY <2>1, <2>4, <2>7, <2>8, Zenon DEF Lies
      <4> QED
        BY <1>2, <3>1, <4>1, Zenon
    <3>2. CASE l # i
      <4>1. u[l] = s[l] /\ v[l] = t[l] /\ Lies(s[l], t[l], g[l], c, b)
        BY <1>2, <1>4, <3>2, Zenon
      <4>2. CASE g[l] = 0
        BY <4>1, <4>2, Zenon DEF Lies
      <4>3. CASE g[l] # 0
        <5>1. g[l] # j
          BY <1>4, <3>2, <4>3
        <5>2. g[l] \in 1 .. Len(b)
          BY <4>1, <4>3, Zenon DEF Lies
        <5>3. e[g[l]] = c[g[l]]
          BY <2>6, <5>1, <5>2, Zenon
        <5> QED
          BY <4>1, <4>3, <5>3, Zenon DEF Lies
      <4> QED
        BY <4>2, <4>3
    <3> QED
      BY <3>1, <3>2
  <2>11. o + a * t[i] = Added(Places(e, b))
    <3> DEFINE p == Places(c, b)
               q == Places(e, b)
    <3>1. /\ p \in Seq(Int) /\ Len(p) = Len(b)
          /\ \A l \in 1 .. Len(b) : p[l] = c[l] * Strides(b)[l]
      BY <1>4, PlacesType
    <3>2. /\ q \in Seq(Int) /\ Len(q) = Len(b)
          /\ \A l \in 1 .. Len(b) : q[l] = e[l] * Strides(b)[l]
      BY <2>6, PlacesType
    <3> HIDE DEF p, q
    <3>3. j \in 1 .. Len(p) /\ Len(q) = Len(p) /\ \A l \in 1 .. Len(p) : l # j => q[l] = p[l]
      <4> HIDE DEF j
      <4> QED
        BY <2>1, <2>6, <3>1, <3>2
    <3>4. Added(q) = Added(p) - p[j] + q[j]
      BY <3>1, <3>2, <3>3, SumExcept
    <3>5. p[j] = c[j] * S /\ q[j] = (c[j] + a * k) * S
      BY <2>1, <2>6, <3>1, <3>2
    <3>6. (c[j] + a * k) * S = c[j] * S + (a * k) * S
      <4> DEFINE x == c[j]
                 y == a * k
      <4>1. x \in Nat /\ y \in Nat /\ S \in Nat
        BY <2>3, <2>4
      <4> HIDE DEF x, y, S
      <4>2. (x + y) * S = x * S + y * S
        BY <4>1, SMT
      <4> QED
        BY <4>2, Zenon DEF x, y
    <3>7. Added(p) = o /\ c[j] * S \in Int /\ (a * k) * S \in Int
      <4>1. \A x, y \in Nat : x * y \in Int
        OBVIOUS
      <4> QED
        BY <1>4, <2>3, <2>4, <4>1 DEF p
    <3> DEFINE x == c[j] * S
               y == (a * k) * S
    <3>8. x \in Int /\ y \in Int /\ Added(q) = o - x + (x + y)
      BY <3>4, <3>5, <3>6, <3>7
    <3> HIDE DEF x, y
    <3>9. Added(q) = o + y
      BY <1>6, <3>8
    <3> QED
      BY <2>7, <3>9 DEF q, y
  <2>12. Embedded(u, v, o + a * t[i], g, e, b)
    BY <1>2, <1>4, <2>6, <2>9, <2>10, <2>11, Zenon DEF Embedded
  <2> QED
    BY <2>12, Zenon DEF Embeds, u, v
<1> QED
  BY <1>7, <1>8

(* An offset in the base, taken apart, gives the places it is made of.       *)

LEMMA NoMultiple ==
  ASSUME NEW z \in Int, NEW d \in Nat, d >= 1, z * d < d, -d < z * d PROVE z = 0
<1>1. CASE z >= 1
  <2>1. z - 1 \in Nat
    BY <1>1
  <2> DEFINE y == z - 1
  <2>2. y \in Nat /\ z = y + 1
    BY <2>1
  <2> HIDE DEF y
  <2>3. y * d \in Nat /\ (y + 1) * d = y * d + d
    BY <2>2
  <2> QED
    BY <2>2, <2>3
<1>2. CASE z <= -1
  <2> DEFINE y == -1 - z
  <2>1. y \in Nat /\ z = -1 - y
    BY <1>2
  <2> HIDE DEF y
  <2>2. y * d \in Nat /\ (-1 - y) * d = -d - y * d
    BY <2>1
  <2> QED
    BY <2>1, <2>2
<1> QED
  BY <1>1, <1>2

LEMMA Quotient ==
  ASSUME NEW q \in Nat, NEW d \in Nat, NEW r \in 0 .. d - 1
  PROVE  (q * d + r) \div d = q /\ (q * d + r) % d = r
<1> DEFINE x == q * d + r
           u == x \div d
           v == x % d
<1>1. d >= 1 /\ x \in Nat
  <2>1. q * d \in Nat /\ r \in Nat
    OBVIOUS
  <2> QED
    BY <2>1
<1>2. u \in Nat /\ v \in 0 .. d - 1 /\ x = u * d + v
  <2> HIDE DEF x
  <2> QED
    BY <1>1, DivMod
<1> HIDE DEF u, v
<1> DEFINE z == q - u
<1>3. z \in Int /\ z * d = q * d - u * d
  BY <1>2
<1>4. q * d \in Int /\ u * d \in Int
  BY <1>2
<1>5. z * d = v - r
  BY <1>2, <1>3, <1>4
<1>6. z * d < d /\ -d < z * d
  BY <1>2, <1>5
<1> HIDE DEF z
<1>7. z = 0
  BY <1>1, <1>3, <1>6, NoMultiple
<1>8. q = u
  BY <1>2, <1>7 DEF z
<1>9. v = r
  BY <1>2, <1>4, <1>8
<1> QED
  BY <1>8, <1>9 DEF u, v

LEMMA Grows ==
  ASSUME NEW x \in Nat, NEW y \in Nat, x >= 1 PROVE x * y \in Nat /\ x * y >= y
<1> DEFINE z == x - 1
<1>1. z \in Nat /\ x = z + 1
  OBVIOUS
<1> HIDE DEF z
<1>2. z * y \in Nat /\ (z + 1) * y = z * y + y
  BY <1>1
<1> QED
  BY <1>1, <1>2

LEMMA StridesType ==
  ASSUME NEW b \in Seq(Nat \ {0})
  PROVE  /\ Len(b) \in Nat /\ StridesOf(b, Strides(b)) /\ b \in Seq(Int)
         /\ Strides(b) \in Seq(Nat) /\ Len(Strides(b)) = Len(b)
         /\ \A j \in 1 .. Len(b) : /\ Strides(b)[j] \in Nat /\ Strides(b)[j] >= 1
                                   /\ b[j] \in Nat /\ b[j] >= 1
<1> DEFINE S == Strides(b)
           n == Len(b)
<1>1. b \in Seq(Int) /\ n \in Nat /\ \A j \in 1 .. n : b[j] \in Nat /\ b[j] >= 1
  OBVIOUS
<1>2. StridesOf(b, S)
  BY <1>1, StrideSteps DEF Strides
<1>3. \A j \in 1 .. n : S[j] \in Int /\ S[j] >= 1
  BY <1>1, StridePositive, StrideType DEF Strides
<1>4. S \in Seq(Int) /\ Len(S) = n
  BY <1>1, StrideType DEF Strides
<1> HIDE DEF S
<1>5. \A j \in 1 .. n : S[j] \in Nat
  BY <1>3
<1>6. S \in Seq(Nat)
  <2>1. S \in [1 .. n -> Nat]
    BY <1>4, <1>5
  <2> QED
    BY <1>1, <2>1, FunSeq
<1> QED
  BY <1>1, <1>2, <1>3, <1>4, <1>5, <1>6 DEF S

LEMMA StrideBelow ==
  ASSUME NEW b \in Seq(Nat \ {0}), NEW m \in 1 .. Len(b), NEW j \in 1 .. Len(b), m < j
  PROVE  Strides(b)[m] >= b[j] * Strides(b)[j]
<1> DEFINE n == Len(b)
           S == Strides(b)
           G == {i \in 1 .. j - 1 : S[i] >= S[j - 1]}
<1>1. /\ n \in Nat /\ StridesOf(b, S)
      /\ \A i \in 1 .. n : S[i] \in Nat /\ S[i] >= 1 /\ b[i] \in Nat /\ b[i] >= 1
  BY StridesType
<1> HIDE DEF S
<1>2. j - 1 \in 1 .. n /\ (j - 1) + 1 = j /\ (j - 1) + 1 <= n /\ j - 1 \in Nat /\ m \in 1 .. j - 1
  BY <1>1
<1>3. S[j - 1] = b[j] * S[j]
  BY <1>1, <1>2 DEF StridesOf
<1>4. j - 1 \in G
  BY <1>1, <1>2
<1>5. ASSUME NEW i \in 1 .. j - 1, i > 1, i \in G PROVE i - 1 \in G
  <2>1. i - 1 \in 1 .. n /\ i \in 1 .. n /\ (i - 1) + 1 = i /\ (i - 1) + 1 <= n /\ i - 1 \in 1 .. j - 1
    BY <1>1, <1>5
  <2>2. S[i - 1] = b[i] * S[i]
    BY <1>1, <2>1 DEF StridesOf
  <2>3. S[i] \in Nat /\ b[i] \in Nat /\ b[i] >= 1 /\ S[i] >= S[j - 1]
    BY <1>1, <1>5, <2>1
  <2>4. b[i] * S[i] >= S[i] /\ b[i] * S[i] \in Nat
    BY <2>3, Grows
  <2>5. S[i - 1] >= S[j - 1]
    <3> DEFINE x == b[i] * S[i]
               y == S[i]
               z == S[j - 1]
    <3>1. x \in Nat /\ y \in Nat /\ z \in Nat /\ x >= y /\ y >= z /\ S[i - 1] = x
      BY <1>1, <1>2, <2>2, <2>3, <2>4
    <3> HIDE DEF x, y, z
    <3>2. S[i - 1] >= z
      BY <3>1
    <3> QED
      BY <3>2 DEF z
  <2> QED
    BY <2>1, <2>5
<1> HIDE DEF G
<1>6. \A i \in 1 .. j - 1 : i \in G
  BY <1>2, <1>4, <1>5, DownFrom
<1>7. m \in G
  BY <1>2, <1>6
<1> QED
  BY <1>3, <1>7 DEF G, S

LEMMA LocationIs ==
  ASSUME NEW b \in Seq(Nat \ {0}), NEW c \in [1 .. Len(b) -> Nat],
         \A j \in 1 .. Len(b) : c[j] <= b[j] - 1
  PROVE  LET o == Added(Places(c, b))
         IN  /\ o \in Nat /\ DOMAIN Location(o, Strides(b)) = 1 .. Len(b)
             /\ \A j \in 1 .. Len(b) : Location(o, Strides(b))[j] = c[j]
<1> DEFINE n == Len(b)
           S == Strides(b)
           P == Places(c, b)
           o == Added(P)
           l == Left(o, S)
<1>1. /\ n \in Nat /\ StridesOf(b, S) /\ S \in Seq(Nat) /\ Len(S) = n
      /\ \A i \in 1 .. n : S[i] \in Nat /\ S[i] >= 1 /\ b[i] \in Nat /\ b[i] >= 1
  BY StridesType
<1>2. P \in Seq(Int) /\ Len(P) = n /\ \A i \in 1 .. n : P[i] = c[i] * S[i]
  BY PlacesType
<1> HIDE DEF S, P
<1>3. PICK f : Sums(P, f) /\ o = f[n]
  BY <1>2, SumPartial
<1>4. /\ f[0] = 0 /\ \A i \in 0 .. n : f[i] \in Int
      /\ \A i \in 1 .. n : f[i] = f[i - 1] + P[i]
  BY <1>2, <1>3 DEF Sums
<1> DEFINE r == [i \in 0 .. n |-> o - f[i]]
           G == {i \in 1 .. n : r[i] \in 0 .. S[i] - 1}
<1>5. /\ \A i \in 0 .. n : r[i] \in Int
      /\ r[0] = o /\ r[n] = 0
      /\ \A i \in 1 .. n : r[i - 1] = P[i] + r[i]
  <2>1. o \in Int /\ \A i \in 0 .. n : r[i] = o - f[i]
    BY <1>1, <1>3, <1>4
  <2> HIDE DEF r, o
  <2>2. ASSUME NEW i \in 1 .. n PROVE r[i - 1] = P[i] + r[i]
    <3>1. i \in 0 .. n /\ i - 1 \in 0 .. n
      BY <1>1
    <3>2. P[i] \in Int
      BY <1>2
    <3>3. /\ f[i] \in Int /\ f[i - 1] \in Int /\ f[i] = f[i - 1] + P[i] /\ o \in Int
          /\ r[i] = o - f[i] /\ r[i - 1] = o - f[i - 1]
      BY <1>4, <2>1, <3>1
    <3> QED
      BY <3>2, <3>3
  <2>3. 0 \in 0 .. n /\ n \in 0 .. n
    BY <1>1
  <2>4. (\A i \in 0 .. n : r[i] \in Int) /\ r[0] = o /\ r[n] = 0
    <3>1. r[0] = o - f[0] /\ r[n] = o - f[n] /\ o = f[n] /\ o \in Int
      BY <1>3, <2>1, <2>3
    <3>2. \A i \in 0 .. n : r[i] = o - f[i] /\ f[i] \in Int
      BY <1>4, <2>1
    <3>3. ASSUME NEW i \in 0 .. n PROVE r[i] \in Int
      <4>1. r[i] = o - f[i] /\ f[i] \in Int /\ o \in Int
        BY <3>1, <3>2, Zenon
      <4> QED
        BY <4>1
    <3>4. f[0] = 0
      BY <1>4
    <3>5. r[0] = o /\ r[n] = 0
      BY <3>1, <3>4
    <3> QED
      BY <3>3, <3>5
  <2> QED
    BY <2>2, <2>4
<1> HIDE DEF r
<1>6. ASSUME NEW i \in 1 .. n, r[i] \in 0 .. S[i] - 1
      PROVE  r[i - 1] \in 0 .. b[i] * S[i] - 1 /\ b[i] * S[i] \in Nat
  <2>1. c[i] \in Nat /\ S[i] \in Nat /\ b[i] \in Nat /\ b[i] >= 1 /\ c[i] <= b[i] - 1
    BY <1>1
  <2> DEFINE x == c[i]
             y == S[i]
             z == b[i]
             w == z - 1 - x
  <2>2. x \in Nat /\ y \in Nat /\ z \in Nat /\ w \in Nat /\ z = x + w + 1
    BY <2>1
  <2>3. r[i - 1] = x * y + r[i] /\ r[i] \in 0 .. y - 1
    BY <1>2, <1>5, <1>6
  <2> HIDE DEF x, y, z, w
  <2>4. x * y \in Nat /\ w * y \in Nat /\ (x + w + 1) * y = x * y + w * y + y
    BY <2>2
  <2>5. r[i - 1] \in 0 .. z * y - 1 /\ z * y \in Nat
    <3> DEFINE u == x * y
               v == w * y
    <3>1. u \in Nat /\ v \in Nat /\ z * y = u + v + y /\ r[i - 1] = u + r[i]
      BY <2>2, <2>3, <2>4
    <3> HIDE DEF u, v
    <3>2. z * y \in Nat
      BY <2>2, <3>1
    <3>3. u + r[i] \in 0 .. (u + v + y) - 1
      BY <2>2, <2>3, <3>1
    <3> QED
      BY <3>1, <3>2, <3>3
  <2> QED
    BY <2>5 DEF y, z
<1>7. \A i \in 1 .. n : i \in G
  <2>1. CASE n = 0
    BY <2>1
  <2>2. CASE n # 0
    <3>1. n \in 1 .. n /\ n >= 1
      BY <1>1, <2>2
    <3>2. S[n] = 1
      BY <1>1, <3>1 DEF StridesOf
    <3>3. n \in G
      BY <1>5, <3>1, <3>2
    <3>4. ASSUME NEW i \in 1 .. n, i > 1, i \in G PROVE i - 1 \in G
      <4>1. i - 1 \in 1 .. n /\ (i - 1) + 1 = i /\ (i - 1) + 1 <= n
        BY <1>1, <3>4
      <4>2. S[i - 1] = b[i] * S[i]
        BY <1>1, <4>1 DEF StridesOf
      <4>3. r[i - 1] \in 0 .. b[i] * S[i] - 1
        BY <1>6, <3>4
      <4> QED
        BY <4>1, <4>2, <4>3
    <3> HIDE DEF G
    <3> QED
      BY <1>1, <3>3, <3>4, DownFrom
  <2> QED
    BY <2>1, <2>2
<1>8. o \in Nat
  <2>1. CASE n = 0
    BY <1>5, <2>1
  <2>2. CASE n # 0
    <3>1. 1 \in 1 .. n /\ 1 - 1 = 0
      BY <1>1, <2>2
    <3>2. r[1] \in 0 .. S[1] - 1
      BY <1>7, <3>1
    <3>3. r[0] \in 0 .. b[1] * S[1] - 1 /\ b[1] * S[1] \in Nat
      BY <1>6, <3>1, <3>2
    <3> QED
      BY <1>5, <3>3
  <2> QED
    BY <2>1, <2>2
<1> HIDE DEF o
<1>9. \A i \in 1 .. Len(S) : S[i] # 0
  BY <1>1
<1>10. l[0] = o /\ \A i \in 1 .. n : l[i] = l[i - 1] % S[i]
  BY <1>1, <1>8, <1>9, LeftSteps
<1>11. DOMAIN Location(o, S) = 1 .. n /\ \A i \in 1 .. n : Location(o, S)[i] = l[i - 1] \div S[i]
  BY <1>1 DEF Location
<1> HIDE DEF l
<1>12. ASSUME NEW i \in 1 .. n
       PROVE  r[i - 1] \div S[i] = c[i] /\ r[i - 1] % S[i] = r[i]
  <2> DEFINE x == c[i]
             y == S[i]
             z == r[i]
  <2>1. x \in Nat /\ y \in Nat /\ z \in 0 .. y - 1 /\ r[i - 1] = x * y + z
    BY <1>1, <1>2, <1>5, <1>7
  <2> HIDE DEF x, y, z
  <2>2. (x * y + z) \div y = x /\ (x * y + z) % y = z
    BY <2>1, Quotient
  <2> QED
    BY <2>1, <2>2, Zenon DEF x, y, z
<1> DEFINE H == {i \in 0 .. n : l[i] = r[i]}
<1>13. \A i \in 0 .. n : i \in H
  <2>1. 0 \in H
    BY <1>1, <1>5, <1>10
  <2>2. ASSUME NEW i \in 0 .. n, i + 1 <= n, i \in H PROVE i + 1 \in H
    <3>1. i + 1 \in 1 .. n /\ (i + 1) - 1 = i /\ i + 1 \in 0 .. n
      BY <1>1, <2>2
    <3>2. l[i + 1] = l[i] % S[i + 1] /\ r[i] % S[i + 1] = r[i + 1]
      BY <1>10, <1>12, <3>1
    <3>3. l[i] = r[i]
      BY <2>2
    <3> QED
      BY <3>1, <3>2, <3>3
  <2> HIDE DEF H
  <2> QED
    BY <1>1, <2>1, <2>2, UpTo
<1>14. ASSUME NEW i \in 1 .. n PROVE Location(o, S)[i] = c[i]
  <2>1. i - 1 \in 0 .. n
    BY <1>1
  <2>2. l[i - 1] = r[i - 1]
    BY <1>13, <2>1
  <2>3. r[i - 1] \div S[i] = c[i]
    BY <1>12
  <2> QED
    BY <1>11, <2>2, <2>3
<1> QED
  BY <1>8, <1>11, <1>14, Zenon DEF o, P, S

(* Indexing copies a view that lies in the base.                             *)

LEMMA Cancels ==
  ASSUME NEW x \in Nat, NEW y \in Nat, NEW z \in Nat, z >= 1, x * z = y * z PROVE x = y
<1>1. 0 \in 0 .. z - 1 /\ x * z + 0 = x * z /\ y * z + 0 = y * z
  OBVIOUS
<1>2. (x * z + 0) \div z = x /\ (y * z + 0) \div z = y
  BY <1>1, Quotient
<1> QED
  BY <1>2, Zenon

LEMMA StepsAre ==
  ASSUME NEW a \in Nat, NEW m \in Nat, m >= 1, NEW k \in Nat, k >= 1, NEW b \in Nat,
         a + (m - 1) * k <= b - 1
  PROVE  LET stop == Min({a + m * k, b})
         IN  Max({0, (stop - a + k - 1) \div k}) = m
<1> DEFINE e == a + m * k
           stop == Min({e, b})
           y == (m - 1) * k
           r == stop - a - y - 1
<1>1. y \in Nat /\ m * k = y + k /\ m * k \in Nat
  <2> DEFINE z == m - 1
  <2>1. z \in Nat /\ m = z + 1
    OBVIOUS
  <2> HIDE DEF z
  <2>2. z * k \in Nat /\ (z + 1) * k = z * k + k
    BY <2>1
  <2>3. z * k \in Nat /\ m * k = z * k + k /\ m * k \in Nat
    BY <2>1, <2>2
  <2> QED
    BY <2>3 DEF z
<1>2. e \in Nat /\ e = a + y + k /\ a + y <= b - 1
  BY <1>1
<1> HIDE DEF e, y
<1>3. stop \in Int /\ stop <= b /\ stop <= e /\ stop >= a + y + 1
  <2>1. \E x \in {e, b} : \A w \in {e, b} : x <= w
    BY <1>2
  <2>2. stop = CHOOSE x \in {e, b} : \A w \in {e, b} : x <= w
    BY Zenon DEF Min
  <2>3. stop \in {e, b} /\ \A w \in {e, b} : stop <= w
    BY <2>1, <2>2, Zenon
  <2> QED
    BY <1>1, <1>2, <2>3
<1> HIDE DEF stop
<1>4. r \in 0 .. k - 1 /\ stop - a + k - 1 = (y + k) + r
  BY <1>1, <1>2, <1>3
<1> HIDE DEF r
<1>5. stop - a + k - 1 = m * k + r
  BY <1>1, <1>4, Zenon
<1>6. (m * k + r) \div k = m
  BY <1>4, Quotient
<1>7. (stop - a + k - 1) \div k = m
  BY <1>5, <1>6, Zenon
<1>8. Max({0, m}) = m
  <2>1. 0 \in {0, m} /\ {0, m} \subseteq {0, m} /\ 0 \in Int /\ m \in Int
    OBVIOUS
  <2>2. Max({0, m}) \in {0, m} /\ \A x \in {0, m} : Max({0, m}) >= x
    BY <2>1, LargestOf, Zenon
  <2> QED
    BY <2>2
<1> QED
  BY <1>7, <1>8, Zenon DEF stop, e

StepOf(d) == [i \in 1 .. Len(d.sizes) |-> d.strides[i] \div d.base_strides[i]]

Indexed(d) ==
  LET n == Len(d.sizes)
      step == StepOf(d)
      start == Location(d.offset, d.base_strides)
  IN  [start |-> start, end |-> [i \in 1 .. n |-> start[i] + d.sizes[i] * step[i]],
       step |-> step]

LEMMA IndexingIs ==
  ASSUME NEW d, DescOK(d), NEW p \in can_use_indexing(d)
  PROVE  /\ p = Indexed(d) /\ Len(d.base_sizes) = Len(d.sizes)
         /\ \A i \in 1 .. Len(d.sizes) :
              /\ d.base_strides[i] \in Nat /\ d.base_strides[i] >= 1
              /\ StepOf(d)[i] \in Nat /\ StepOf(d)[i] >= 1
              /\ d.strides[i] = StepOf(d)[i] * d.base_strides[i]
              /\ StepOf(d)[i] = 1 => d.sizes[i] = d.base_sizes[i]
              /\ d.sizes[i] = 1 => StepOf(d)[i] = 1
<1> DEFINE n == Len(d.sizes)
           step == StepOf(d)
<1>1. p = Indexed(d)
  BY Zenon DEF can_use_indexing, Indexed, StepOf
<1>2. /\ n = Len(d.base_sizes)
      /\ \A i \in 1 .. n : /\ d.base_strides[i] # 0 /\ d.strides[i] >= d.base_strides[i]
                           /\ d.strides[i] % d.base_strides[i] = 0
      /\ step[n] = 1
      /\ \A i \in 1 .. n : step[i] = 1 => d.sizes[i] = d.base_sizes[i]
      /\ \A i \in 1 .. n - 1 : step[i] # 1 => d.sizes[i] # 1
  <2>1. can_use_indexing(d) # {}
    OBVIOUS
  <2> QED
    BY <2>1, Zenon DEF can_use_indexing, StepOf
<1>3. /\ \A i \in 1 .. n : d.strides[i] \in Nat
      /\ \A i \in 1 .. n : d.base_strides[i] \in Nat
      /\ n \in Nat
  <2>1. ShapeOK(d.sizes, d.strides) /\ ShapeOK(d.base_sizes, d.base_strides)
    BY Zenon DEF DescOK
  <2>2. n \in Nat /\ \A i \in 1 .. n : d.strides[i] \in Nat
    BY <2>1, ShapeType
  <2>3. \A i \in 1 .. Len(d.base_sizes) : d.base_strides[i] \in Nat
    BY <2>1, ShapeType
  <2> QED
    BY <1>2, <2>2, <2>3
<1>4. \A i \in 1 .. n : step[i] = d.strides[i] \div d.base_strides[i]
  BY DEF StepOf
<1> HIDE DEF step
<1>5. ASSUME NEW i \in 1 .. n
      PROVE  /\ d.base_strides[i] \in Nat /\ d.base_strides[i] >= 1
             /\ step[i] \in Nat /\ step[i] >= 1
             /\ d.strides[i] = step[i] * d.base_strides[i]
  <2> DEFINE a == d.strides[i]
             c == d.base_strides[i]
  <2>1. a \in Nat /\ c \in Nat /\ c >= 1 /\ a >= c /\ a % c = 0 /\ step[i] = a \div c
    BY <1>2, <1>3, <1>4
  <2> HIDE DEF a, c
  <2>2. a \div c \in Nat /\ a = (a \div c) * c + (a % c)
    BY <2>1, DivMod
  <2> DEFINE q == a \div c
  <2>3. q \in Nat /\ a = q * c + 0 /\ step[i] = q
    BY <2>1, <2>2
  <2> HIDE DEF q
  <2>4. a = q * c
    BY <2>1, <2>3
  <2>5. q # 0
    <3> SUFFICES ASSUME q = 0 PROVE FALSE
      OBVIOUS
    <3>1. 0 * c = 0
      BY <2>1
    <3>2. a = 0
      BY <2>4, <3>1, Zenon
    <3> QED
      BY <2>1, <3>2
  <2>6. step[i] \in Nat /\ step[i] >= 1 /\ a = step[i] * c
    BY <2>3, <2>4, <2>5
  <2> QED
    BY <2>1, <2>6 DEF a, c
<1>6. ASSUME NEW i \in 1 .. n, d.sizes[i] = 1 PROVE step[i] = 1
  <2>1. i = n \/ i \in 1 .. n - 1
    BY <1>3
  <2> QED
    BY <1>2, <1>6, <2>1
<1> QED
  BY <1>1, <1>2, <1>5, <1>6 DEF step

\* The dimensions of an indexed view run along those of the base, in order.
LEMMA IndexingAlong ==
  ASSUME NEW d, DescOK(d), d.base_strides = Strides(d.base_sizes), NEW p \in can_use_indexing(d),
         NEW g, NEW c, Embedded(d.sizes, d.strides, d.offset, g, c, d.base_sizes)
  PROVE  \A i \in 1 .. Len(d.sizes) : d.sizes[i] >= 2 => g[i] = i
<1> DEFINE n == Len(d.sizes)
           s == d.sizes
           t == d.strides
           b == d.base_sizes
           S == Strides(b)
           step == StepOf(d)
<1>1. /\ Len(b) = n
      /\ \A i \in 1 .. n :
           /\ S[i] \in Nat /\ S[i] >= 1 /\ step[i] \in Nat /\ step[i] >= 1
           /\ t[i] = step[i] * S[i]
           /\ step[i] = 1 => s[i] = b[i]
           /\ s[i] = 1 => step[i] = 1
  BY IndexingIs
<1>2. b \in Seq(Nat \ {0}) /\ n \in Nat /\ \A i \in 1 .. n : s[i] \in Nat /\ s[i] >= 1
  <2>1. ShapeOK(d.sizes, d.strides) /\ ShapeOK(d.base_sizes, d.base_strides)
    BY Zenon DEF DescOK
  <2>2. n \in Nat /\ \A i \in 1 .. n : s[i] \in Nat /\ s[i] >= 1
    BY <2>1, ShapeType
  <2> QED
    BY <2>1, <2>2 DEF ShapeOK
<1>3. /\ g \in [1 .. n -> Nat] /\ c \in [1 .. n -> Nat]
      /\ \A i \in 1 .. n : Lies(s[i], t[i], g[i], c, b)
      /\ \A i, k \in 1 .. n : g[i] # 0 /\ g[i] = g[k] => i = k
  BY <1>1, Zenon DEF Embedded
<1>4. \A i \in 1 .. n : b[i] \in Nat /\ b[i] >= 1
  BY <1>1, <1>2
<1> HIDE DEF n, s, t, b, S, step
<1>5. ASSUME NEW i \in 1 .. n, s[i] >= 2
      PROVE  g[i] \in 1 .. i /\ b[g[i]] # 1
  <2> DEFINE j == g[i]
  <2>1. t[i] # 0 /\ t[i] \in Nat /\ t[i] >= S[i]
    <3> DEFINE x == step[i]
               y == S[i]
    <3>1. x \in Nat /\ y \in Nat /\ x >= 1 /\ y >= 1 /\ t[i] = x * y
      BY <1>1
    <3> HIDE DEF x, y
    <3>2. x * y \in Nat /\ x * y >= y
      BY <3>1, Grows
    <3>3. t[i] # 0 /\ t[i] \in Nat /\ t[i] >= y
      BY <3>1, <3>2
    <3> QED
      BY <3>3 DEF y
  <2>2. /\ j \in 1 .. n
        /\ \E k \in Nat : t[i] = k * S[j] /\ c[j] + (s[i] - 1) * k <= b[j] - 1
    <3>1. s[i] # 1
      BY <1>2, <1>5
    <3> QED
      BY <1>1, <1>3, <2>1, <3>1, Zenon DEF Lies, S
  <2>3. PICK k \in Nat : t[i] = k * S[j] /\ c[j] + (s[i] - 1) * k <= b[j] - 1
    BY <2>2
  <2> HIDE DEF j
  <2>4. S[j] \in Nat /\ b[j] \in Nat /\ c[j] \in Nat /\ s[i] \in Nat
    BY <1>1, <1>2, <1>3, <1>4, <2>2
  <2>5. k <= b[j] - 1
    <3> DEFINE x == s[i] - 1
               y == x * k
               z == c[j]
               w == b[j]
    <3>1. x \in Nat /\ x >= 1 /\ z \in Nat /\ w \in Nat
      BY <1>5, <2>4
    <3>2. z + x * k <= w - 1
      BY <2>3
    <3> HIDE DEF x, z, w
    <3>3. y \in Nat /\ y >= k
      BY <3>1, Grows
    <3>4. z + y <= w - 1
      BY <3>2
    <3> HIDE DEF y
    <3>5. k <= w - 1
      BY <3>1, <3>3, <3>4
    <3> QED
      BY <3>5 DEF w
  <2>6. k # 0
    <3> SUFFICES ASSUME k = 0 PROVE FALSE
      OBVIOUS
    <3>1. 0 * S[j] = 0
      BY <2>4
    <3> QED
      BY <2>1, <2>3, <3>1, Zenon
  <2>7. ~(i < j)
    <3> SUFFICES ASSUME i < j PROVE FALSE
      OBVIOUS
    <3>1. S[i] >= b[j] * S[j]
      BY <1>1, <1>2, <2>2, StrideBelow DEF S
    <3> DEFINE x == S[j]
               w == b[j] - k
               y == k * x
               z == w * x
    <3>2. w \in Nat /\ w >= 1 /\ x \in Nat /\ b[j] = w + k /\ x >= 1
      <4>1. b[j] \in Nat /\ k \in Nat /\ k <= b[j] - 1
        BY <2>4, <2>5, Zenon
      <4>2. w \in Nat /\ w >= 1 /\ b[j] = w + k
        BY <4>1
      <4>3. x \in Nat /\ x >= 1
        BY <1>1, <2>2, <2>4, Zenon
      <4> QED
        BY <4>2, <4>3, Zenon
    <3>3. S[i] \in Nat /\ t[i] >= S[i] /\ t[i] = y /\ S[i] >= b[j] * x
      BY <1>1, <2>1, <2>3, <3>1
    <3> HIDE DEF x, w
    <3>4. b[j] * x = z + y /\ y \in Nat /\ z \in Nat /\ z >= x
      <4>1. (w + k) * x = w * x + k * x
        BY <3>2
      <4>2. w * x \in Nat /\ w * x >= x /\ k * x \in Nat
        BY <3>2, Grows
      <4> QED
        BY <3>2, <4>1, <4>2
    <3> HIDE DEF y, z
    <3> QED
      BY <2>1, <3>2, <3>3, <3>4
  <2>8. j \in 1 .. i
    BY <1>2, <2>2, <2>7
  <2>9. b[j] # 1
    BY <2>4, <2>5, <2>6
  <2> QED
    BY <2>8, <2>9 DEF j
<1> DEFINE W == {i \in 1 .. n : s[i] >= 2 /\ g[i] # i}
<1>6. W = {}
  <2> SUFFICES ASSUME W # {} PROVE FALSE
    OBVIOUS
  <2>1. W \subseteq Nat
    BY <1>2
  <2>2. PICK i \in W : \A j \in W : i <= j
    BY <2>1, Least
  <2>3. i \in 1 .. n /\ s[i] >= 2 /\ g[i] # i
    BY <2>2
  <2>4. g[i] \in 1 .. i /\ b[g[i]] # 1
    BY <1>5, <2>3
  <2> DEFINE j == g[i]
  <2>5. j \in 1 .. n /\ j < i /\ j # 0 /\ b[j] # 1
    BY <1>2, <2>3, <2>4
  <2> HIDE DEF j
  <2>6. s[j] # 1
    BY <1>1, <2>5
  <2>7. s[j] >= 2
    BY <1>2, <2>5, <2>6
  <2>8. g[j] = j
    <3> SUFFICES ASSUME g[j] # j PROVE FALSE
      OBVIOUS
    <3>1. j \in W
      BY <2>5, <2>7
    <3>2. i <= j
      BY <2>2, <3>1
    <3> QED
      BY <1>2, <2>3, <2>5, <3>2
  <2>9. j = i
    <3>1. g[j] # 0 /\ g[j] = g[i]
      BY <2>5, <2>8, Zenon DEF j
    <3> QED
      BY <1>3, <2>3, <2>5, <3>1, Zenon
  <2> QED
    BY <2>3, <2>9 DEF j
<1> QED
  BY <1>6 DEF n, s

LEMMA IndexingExact ==
  ASSUME NEW d, DescOK(d), d.base_strides = Strides(d.base_sizes),
         Embeds(d.sizes, d.strides, d.offset, d.base_sizes), NEW p \in can_use_indexing(d)
  PROVE  indexing_to_contiguous(d, p) = Elements(d.sizes, d.strides, d.offset)
<1> DEFINE n == Len(d.sizes)
           s == d.sizes
           t == d.strides
           b == d.base_sizes
           S == Strides(b)
           step == StepOf(d)
           start == Location(d.offset, S)
           end == [i \in 1 .. n |-> start[i] + s[i] * step[i]]
<1>1. /\ Len(b) = n /\ p = Indexed(d)
      /\ \A i \in 1 .. n :
           /\ S[i] \in Nat /\ S[i] >= 1 /\ step[i] \in Nat /\ step[i] >= 1
           /\ t[i] = step[i] * S[i]
           /\ step[i] = 1 => s[i] = b[i]
           /\ s[i] = 1 => step[i] = 1
  BY IndexingIs
<1>2. /\ b \in Seq(Nat \ {0}) /\ n \in Nat /\ \A i \in 1 .. n : s[i] \in Nat /\ s[i] >= 1
      /\ s \in Seq(Int) /\ DOMAIN s = 1 .. n /\ t \in Seq(Int) /\ DOMAIN t = 1 .. n
  <2>1. ShapeOK(d.sizes, d.strides) /\ ShapeOK(d.base_sizes, d.base_strides)
    BY Zenon DEF DescOK
  <2>2. /\ n \in Nat /\ \A i \in 1 .. n : s[i] \in Nat /\ s[i] >= 1
        /\ s \in Seq(Int) /\ DOMAIN s = 1 .. n /\ t \in Seq(Int) /\ DOMAIN t = 1 .. n
    BY <2>1, ShapeType
  <2> QED
    BY <2>1, <2>2 DEF ShapeOK
<1>3. PICK g, c : Embedded(s, t, d.offset, g, c, b)
  BY Zenon DEF Embeds
<1>4. \A i \in 1 .. n : s[i] >= 2 => g[i] = i
  BY <1>3, IndexingAlong
<1>5. /\ g \in [1 .. n -> Nat] /\ c \in [1 .. n -> Nat]
      /\ \A i \in 1 .. n : c[i] <= b[i] - 1
      /\ d.offset = Added(Places(c, b))
      /\ \A i \in 1 .. n : Lies(s[i], t[i], g[i], c, b)
  BY <1>1, <1>3, Zenon DEF Embedded
<1>6. \A i \in 1 .. n : b[i] \in Nat /\ b[i] >= 1
  BY <1>1, <1>2
<1>7. DOMAIN start = 1 .. n /\ \A i \in 1 .. n : start[i] = c[i]
  <2>1. c \in [1 .. Len(b) -> Nat] /\ \A i \in 1 .. Len(b) : c[i] <= b[i] - 1
    BY <1>1, <1>5
  <2> HIDE DEF b, n
  <2> QED
    <3>1. b \in Seq(Nat \ {0})
      BY <1>2
    <3>2. /\ DOMAIN Location(Added(Places(c, b)), Strides(b)) = 1 .. Len(b)
          /\ \A i \in 1 .. Len(b) : Location(Added(Places(c, b)), Strides(b))[i] = c[i]
      BY <2>1, <3>1, LocationIs, Zenon
    <3> QED
      BY <1>1, <1>5, <3>2, Zenon
<1> HIDE DEF n, s, t, b, S, step, start
<1>8. ASSUME NEW i \in 1 .. n PROVE c[i] + (s[i] - 1) * step[i] <= b[i] - 1
  <2>1. CASE s[i] = 1
    <3>1. step[i] = 1 /\ b[i] = 1
      BY <1>1, <2>1
    <3>2. c[i] \in Nat /\ c[i] <= 1 - 1
      BY <1>5, <3>1
    <3> QED
      BY <2>1, <3>1, <3>2
  <2>2. CASE s[i] # 1
    <3>1. s[i] >= 2
      BY <1>2, <2>2
    <3>2. g[i] = i /\ i # 0
      BY <1>2, <1>4, <3>1
    <3>3. \E k \in Nat : t[i] = k * S[i] /\ c[i] + (s[i] - 1) * k <= b[i] - 1
      BY <1>5, <3>2, Zenon DEF Lies, S
    <3>4. PICK k \in Nat : t[i] = k * S[i] /\ c[i] + (s[i] - 1) * k <= b[i] - 1
      BY <3>3
    <3> DEFINE x == step[i]
               y == S[i]
    <3>5. x \in Nat /\ y \in Nat /\ y >= 1 /\ k * y = x * y
      BY <1>1, <3>4
    <3> HIDE DEF x, y
    <3>6. k = x
      BY <3>5, Cancels
    <3> QED
      BY <3>4, <3>6, Zenon DEF x
  <2> QED
    BY <2>1, <2>2
<1> DEFINE size(i) == LET stop == Min({end[i], b[i]})
                      IN  Max({0, (stop - start[i] + step[i] - 1) \div step[i]})
           u == [i \in DOMAIN start |-> size(i)]
           v == [i \in DOMAIN start |-> step[i] * S[i]]
           w == [i \in DOMAIN start |-> start[i] * S[i]]
<1>9. indexing_to_contiguous(d, p) = Elements(u, v, Added(w))
  <2>1. d.base_strides = S
    BY Zenon DEF S, b
  <2>2. p.start = start /\ p.end = end /\ p.step = step
    BY <1>1, <2>1 DEF Indexed, start, step, n, s
  <2> HIDE DEF end
  <2> QED
    BY <2>1, <2>2, Zenon DEF indexing_to_contiguous, StridedSlice, b
<1>10. u = s
  <2>1. ASSUME NEW i \in 1 .. n PROVE size(i) = s[i]
    <3> DEFINE x == start[i]
               y == s[i]
               z == step[i]
               q == b[i]
    <3>1. /\ x \in Nat /\ y \in Nat /\ y >= 1 /\ z \in Nat /\ z >= 1 /\ q \in Nat
          /\ x + (y - 1) * z <= q - 1
      BY <1>1, <1>2, <1>5, <1>6, <1>7, <1>8
    <3>2. end[i] = x + y * z
      OBVIOUS
    <3> HIDE DEF x, y, z, q, end
    <3>3. Max({0, (Min({x + y * z, q}) - x + z - 1) \div z}) = y
      BY <3>1, StepsAre
    <3> QED
      BY <3>2, <3>3, Zenon DEF x, y, z, q
  <2> HIDE DEF size
  <2>2. u = [i \in 1 .. n |-> s[i]]
    BY <1>7, <2>1
  <2>3. [i \in 1 .. n |-> s[i]] = s
    BY <1>2, SeqFun
  <2> QED
    BY <2>2, <2>3, Zenon
<1>11. v = t
  <2>1. v = [i \in 1 .. n |-> t[i]]
    BY <1>1, <1>7
  <2>2. [i \in 1 .. n |-> t[i]] = t
    BY <1>2, SeqFun
  <2> QED
    BY <2>1, <2>2, Zenon
<1>12. w = Places(c, b)
  <2>1. w = [i \in 1 .. n |-> c[i] * S[i]]
    BY <1>7
  <2>2. Places(c, b) = [i \in 1 .. n |-> c[i] * S[i]]
    BY <1>1, Zenon DEF Places, S
  <2> QED
    BY <2>1, <2>2, Zenon
<1> HIDE DEF u, v, w
<1> QED
  BY <1>5, <1>9, <1>10, <1>11, <1>12, Zenon DEF s, t

(* A dimension of size 1, wherever it is, changes no place.                  *)

\* u is s without its k-th.
Lacks(u, s, k) ==
  /\ k \in 1 .. Len(s) /\ Len(u) + 1 = Len(s)
  /\ \A j \in 1 .. Len(u) : u[j] = IF j < k THEN s[j] ELSE s[j + 1]

LEMMA StrideWithout ==
  ASSUME NEW s \in Seq(Int), NEW u \in Seq(Int), NEW k, Lacks(u, s, k), s[k] = 1
  PROVE  \A j \in 1 .. Len(u) :
           ComputeStrideFromShape(u)[j]
             = ComputeStrideFromShape(s)[IF j < k THEN j ELSE j + 1]
<1> DEFINE C == ComputeStrideFromShape(s)
           m == Len(u)
           e == [j \in 1 .. m |-> IF j < k THEN C[j] ELSE C[j + 1]]
<1>1. /\ m \in Nat /\ Len(s) = m + 1 /\ k \in 1 .. m + 1
      /\ \A j \in 1 .. m : u[j] = IF j < k THEN s[j] ELSE s[j + 1]
  BY DEF Lacks
<1>2. /\ StridesOf(s, C) /\ \A i \in 1 .. m + 1 : C[i] \in Int
  BY <1>1, StrideSteps, StrideType
<1> HIDE DEF C
<1>3. /\ C[m + 1] = 1
      /\ \A i \in 1 .. m : C[i] = s[i + 1] * C[i + 1]
  <2>1. m + 1 >= 1 /\ \A i \in 1 .. m : i \in 1 .. m + 1 /\ i + 1 <= m + 1
    BY <1>1
  <2> QED
    BY <1>1, <1>2, <2>1 DEF StridesOf
<1>4. \A j \in 1 .. m : e[j] = IF j < k THEN C[j] ELSE C[j + 1]
  OBVIOUS
<1>5. e \in [1 .. m -> Int]
  BY <1>1, <1>2
<1> HIDE DEF e
<1>6. e \in Seq(Int) /\ Len(e) = m
  BY <1>1, <1>5, FunSeq
<1>7. k <= m => C[k] = s[k + 1] * C[k + 1]
  BY <1>1, <1>3
<1>8. k >= 2 => C[k - 1] = C[k]
  <2> SUFFICES ASSUME k >= 2 PROVE C[k - 1] = C[k]
    OBVIOUS
  <2>1. k - 1 \in 1 .. m /\ (k - 1) + 1 = k
    BY <1>1
  <2>2. C[k - 1] = s[k] * C[k]
    BY <1>3, <2>1
  <2>3. C[k] \in Int
    BY <1>1, <1>2
  <2> QED
    BY <2>2, <2>3
<1>9. m >= 1 => e[m] = 1
  <2> SUFFICES ASSUME m >= 1 PROVE e[m] = 1
    OBVIOUS
  <2>1. m \in 1 .. m
    BY <1>1
  <2>2. CASE m < k
    <3>1. k = m + 1 /\ k - 1 = m /\ k >= 2
      BY <1>1, <2>2
    <3> QED
      BY <1>3, <1>4, <1>8, <2>1, <2>2, <3>1
  <2>3. CASE ~(m < k)
    BY <1>3, <1>4, <2>1, <2>3
  <2> QED
    BY <2>2, <2>3
<1>10. ASSUME NEW i \in 1 .. m, i + 1 <= m PROVE e[i] = u[i + 1] * e[i + 1]
  <2>1. i + 1 \in 1 .. m /\ i + 2 \in 1 .. m + 1 /\ (i + 1) + 1 = i + 2
    BY <1>1, <1>10
  <2>2. CASE i + 1 < k
    <3>1. i < k
      BY <1>1, <2>2
    <3>2. e[i] = C[i] /\ e[i + 1] = C[i + 1] /\ u[i + 1] = s[i + 1]
      BY <1>1, <1>4, <2>1, <2>2, <3>1
    <3> QED
      BY <1>3, <3>2
  <2>3. CASE i + 1 = k
    <3>1. i < k /\ i = k - 1 /\ k >= 2 /\ k <= m /\ ~(k < k)
      BY <1>1, <2>1, <2>3
    <3>2. e[i] = C[k - 1] /\ e[i + 1] = C[k + 1] /\ u[i + 1] = s[k + 1]
      BY <1>1, <1>4, <2>1, <2>3, <3>1
    <3> QED
      BY <1>7, <1>8, <3>1, <3>2, Zenon
  <2>4. CASE i >= k
    <3>1. ~(i < k) /\ ~(i + 1 < k)
      BY <1>1, <2>4
    <3>2. e[i] = C[i + 1] /\ e[i + 1] = C[i + 2] /\ u[i + 1] = s[i + 2]
      BY <1>1, <1>4, <2>1, <3>1
    <3>3. C[i + 1] = s[(i + 1) + 1] * C[(i + 1) + 1]
      BY <1>3, <2>1, Zenon
    <3> QED
      BY <2>1, <3>2, <3>3, Zenon
  <2> QED
    BY <1>1, <2>2, <2>3, <2>4
<1>11. StridesOf(u, e)
  BY <1>6, <1>9, <1>10 DEF StridesOf
<1>12. \A j \in 1 .. m : ComputeStrideFromShape(u)[j] = e[j]
  BY <1>11, StrideSteps, StrideUnique
<1> SUFFICES ASSUME NEW j \in 1 .. m
             PROVE  ComputeStrideFromShape(u)[j] = C[IF j < k THEN j ELSE j + 1]
  BY DEF C
<1> QED
  BY <1>4, <1>12

LEMMA ElementsWithout ==
  ASSUME NEW s, NEW t, ShapeOK(s, t), NEW u, NEW v, ShapeOK(u, v), NEW k,
         Lacks(u, s, k), Lacks(v, t, k), s[k] = 1, NEW o
  PROVE  Elements(s, t, o) = Elements(u, v, o)
<1> DEFINE n == Len(s)
           m == multiply_integers(s)
           h(j) == IF j < k THEN j ELSE j + 1
<1>1. /\ s \in Seq(Int) /\ t \in Seq(Int) /\ Len(t) = n /\ n \in Nat /\ DOMAIN s = 1 .. n
      /\ \A i \in 1 .. n : s[i] \in Int /\ s[i] >= 1 /\ t[i] \in Int
  BY ShapeType
<1>2. /\ u \in Seq(Int) /\ v \in Seq(Int) /\ Len(v) = Len(u) /\ DOMAIN u = 1 .. Len(u)
      /\ \A i \in 1 .. Len(u) : u[i] \in Int /\ u[i] >= 1 /\ v[i] \in Int
  BY ShapeType
<1>3. /\ k \in 1 .. n /\ Len(u) + 1 = n /\ Len(u) \in Nat
      /\ \A j \in 1 .. Len(u) : u[j] = IF j < k THEN s[j] ELSE s[j + 1]
      /\ \A j \in 1 .. Len(u) : v[j] = IF j < k THEN t[j] ELSE t[j + 1]
  BY <1>1, <1>2 DEF Lacks
<1>4. /\ multiply_integers(u) = m
      /\ \A j \in 1 .. Len(u) : ComputeStrideFromShape(u)[j] = ComputeStrideFromShape(s)[h(j)]
  BY <1>1, <1>2, <1>3, ProductWithout, StrideWithout
<1>5. m \in Int
  BY <1>1, ProductType
<1> HIDE DEF m
<1>6. ASSUME NEW p \in 1 .. m
      PROVE  Added([i \in DOMAIN s |-> t[i] * Coordinates(s, p)[i]])
               = Added([i \in DOMAIN u |-> v[i] * Coordinates(u, p)[i]])
  <2> DEFINE x == [i \in 1 .. n |-> t[i] * Coordinates(s, p)[i]]
             y == [i \in 1 .. Len(u) |-> v[i] * Coordinates(u, p)[i]]
  <2>1. p \in Nat /\ p >= 1
    BY <1>5
  <2>2. \A i \in 1 .. n : /\ Coordinates(s, p)[i] \in 0 .. s[i] - 1
                          /\ Coordinates(s, p)[i]
                               = ((p - 1) \div ComputeStrideFromShape(s)[i]) % s[i]
    BY <1>1, <2>1, CoordinatesType
  <2>3. \A i \in 1 .. Len(u) : /\ Coordinates(u, p)[i] \in 0 .. u[i] - 1
                               /\ Coordinates(u, p)[i]
                                    = ((p - 1) \div ComputeStrideFromShape(u)[i]) % u[i]
    BY <1>2, <2>1, CoordinatesType
  <2>4. ASSUME NEW j \in 1 .. Len(u)
        PROVE  /\ h(j) \in 1 .. n /\ Coordinates(u, p)[j] = Coordinates(s, p)[h(j)]
               /\ v[j] = t[h(j)]
    <3>1. h(j) \in 1 .. n
      BY <1>3
    <3>2. u[j] = s[h(j)] /\ v[j] = t[h(j)]
      BY <1>3
    <3> DEFINE q == h(j)
    <3>3. /\ ComputeStrideFromShape(u)[j] = ComputeStrideFromShape(s)[q] /\ u[j] = s[q]
          /\ q \in 1 .. n
      BY <1>4, <3>1, <3>2, Zenon
    <3> HIDE DEF q
    <3>4. Coordinates(u, p)[j] = Coordinates(s, p)[q]
      <4>1. Coordinates(s, p)[q] = ((p - 1) \div ComputeStrideFromShape(s)[q]) % s[q]
        BY <2>2, <3>3, Zenon
      <4>2. Coordinates(u, p)[j] = ((p - 1) \div ComputeStrideFromShape(u)[j]) % u[j]
        BY <2>3, Zenon
      <4> QED
        BY <3>3, <4>1, <4>2, Zenon
    <3> QED
      BY <3>1, <3>2, <3>4, Zenon DEF q
  <2>5. x[k] = 0
    <3>1. Coordinates(s, p)[k] \in 0 .. 1 - 1
      BY <1>3, <2>2
    <3>2. Coordinates(s, p)[k] = 0
      BY <3>1
    <3>3. t[k] \in Int /\ x[k] = t[k] * Coordinates(s, p)[k]
      BY <1>1, <1>3
    <3> QED
      BY <3>2, <3>3
  <2>6. \A i \in 1 .. n : x[i] = t[i] * Coordinates(s, p)[i]
    OBVIOUS
  <2>7. \A i \in 1 .. Len(u) : y[i] = v[i] * Coordinates(u, p)[i]
    OBVIOUS
  <2>8. ASSUME NEW i \in 1 .. n PROVE x[i] \in Int
    <3>1. t[i] \in Int /\ Coordinates(s, p)[i] \in Int
      BY <1>1, <2>2
    <3> QED
      BY <2>6, <3>1
  <2>9. ASSUME NEW i \in 1 .. Len(u) PROVE y[i] \in Int
    <3>1. v[i] \in Int /\ Coordinates(u, p)[i] \in Int
      BY <1>2, <2>3
    <3> QED
      BY <2>7, <3>1
  <2>10. x \in Seq(Int) /\ Len(x) = n
    <3>1. x \in [1 .. n -> Int]
      BY <2>8
    <3> HIDE DEF x
    <3> QED
      BY <1>1, <3>1, FunSeq
  <2>11. y \in Seq(Int) /\ Len(y) = Len(u)
    <3>1. y \in [1 .. Len(u) -> Int]
      BY <2>9
    <3> HIDE DEF y
    <3> QED
      BY <1>3, <3>1, FunSeq
  <2> HIDE DEF x, y
  <2>12. \A j \in 1 .. Len(y) : y[j] = IF j < k THEN x[j] ELSE x[j + 1]
    <3> SUFFICES ASSUME NEW j \in 1 .. Len(u) PROVE y[j] = IF j < k THEN x[j] ELSE x[j + 1]
      BY <2>11
    <3> DEFINE q == h(j)
    <3>1. q \in 1 .. n /\ Coordinates(u, p)[j] = Coordinates(s, p)[q] /\ v[j] = t[q]
      BY <2>4, Zenon
    <3>2. q = IF j < k THEN j ELSE j + 1
      OBVIOUS
    <3> HIDE DEF q
    <3>3. y[j] = x[q]
      BY <2>6, <2>7, <3>1, Zenon
    <3> QED
      BY <3>2, <3>3
  <2>13. k \in 1 .. Len(x) /\ Len(y) + 1 = Len(x)
    BY <1>3, <2>10, <2>11
  <2>14. Added(x) = Added(y) + x[k]
    BY <2>10, <2>11, <2>12, <2>13, SumWithout
  <2>15. Added(y) \in Int
    BY <2>11, SumType
  <2>16. Added(x) = Added(y)
    BY <2>5, <2>14, <2>15
  <2> QED
    BY <1>1, <1>2, <2>16 DEF x, y
<1>7. /\ Elements(s, t, o) = [p \in 1 .. m |-> Elements(s, t, o)[p]]
      /\ Elements(u, v, o) = [p \in 1 .. m |-> Elements(u, v, o)[p]]
  BY <1>4 DEF Elements, m
<1>8. \A p \in 1 .. m : Elements(s, t, o)[p] = Elements(u, v, o)[p]
  <2> SUFFICES ASSUME NEW p \in 1 .. m PROVE Elements(s, t, o)[p] = Elements(u, v, o)[p]
    OBVIOUS
  <2>1. /\ Elements(s, t, o)[p] = o + Added([i \in DOMAIN s |-> t[i] * Coordinates(s, p)[i]])
        /\ Elements(u, v, o)[p] = o + Added([i \in DOMAIN u |-> v[i] * Coordinates(u, p)[i]])
    BY <1>4, ElementsAre DEF m
  <2> QED
    BY <1>6, <2>1, Zenon
<1> QED
  BY <1>7, <1>8, Zenon

(* A selection copies a view that lies in the base.                          *)

LEMMA OneTerm ==
  ASSUME NEW t \in Seq(Int), NEW k \in 1 .. Len(t), \A j \in 1 .. Len(t) : j # k => t[j] = 0
  PROVE  Added(t) = t[k]
<1> DEFINE n == Len(t)
           u == [j \in 1 .. n |-> 0]
           f == [j \in 0 .. n |-> 0]
<1>1. n \in Nat /\ u \in [1 .. n -> Int] /\ \A j \in 1 .. n : u[j] = 0 /\ t[j] \in Int
  OBVIOUS
<1> HIDE DEF u
<1>2. u \in Seq(Int) /\ Len(u) = n
  BY <1>1, FunSeq
<1>3. Sums(u, f)
  BY <1>1, <1>2 DEF Sums
<1>4. f[n] = 0
  BY <1>1
<1> HIDE DEF f
<1>5. Added(u) = 0
  BY <1>2, <1>3, <1>4, SumOf
<1>6. Added(t) = Added(u) - u[k] + t[k]
  <2>1. k \in 1 .. Len(u) /\ Len(t) = Len(u) /\ \A j \in 1 .. Len(u) : j # k => t[j] = u[j]
    BY <1>1, <1>2
  <2> QED
    BY <1>2, <2>1, SumExcept
<1> QED
  BY <1>1, <1>5, <1>6

\* The dimension that is selected, what is started from and how far.
Lacking(d) ==
  Min({i \in DOMAIN d.sizes : \/ d.base_sizes[i] # d.sizes[i]
                              \/ d.base_strides[i] # d.strides[i]}
        \union {Len(d.base_sizes)})

Selected(d) ==
  [start |-> [i \in DOMAIN d.base_sizes |->
                IF i = Lacking(d) THEN d.offset \div d.base_strides[Lacking(d)] ELSE 0],
   length |-> [d.base_sizes EXCEPT ![Lacking(d)] = 1]]

LEMMA SelectIs ==
  ASSUME NEW d, DescOK(d), NEW p \in can_use_select(d)
  PROVE  /\ p = Selected(d)
         /\ Lacks(d.sizes, d.base_sizes, Lacking(d))
         /\ Lacks(d.strides, d.base_strides, Lacking(d))
<1> DEFINE dim == Lacking(d)
           s == d.sizes
           t == d.strides
           b == d.base_sizes
           c == d.base_strides
           n == Len(b)
<1>1. /\ p = Selected(d) /\ n = Len(s) + 1
      /\ InsertAt(s, dim, b[dim]) = b
      /\ InsertAt(t, dim, c[dim]) = c
  <2>1. p = Selected(d)
    BY Zenon DEF can_use_select, Selected, Lacking
  <2>2. can_use_select(d) # {}
    OBVIOUS
  <2>3. /\ n = Len(s) + 1
        /\ InsertAt(s, dim, b[dim]) = b
        /\ InsertAt(t, dim, c[dim]) = c
    BY <2>2, Zenon DEF can_use_select, Lacking
  <2> QED
    BY <2>1, <2>3
<1>2. /\ s \in Seq(Int) /\ t \in Seq(Int) /\ Len(t) = Len(s) /\ Len(s) \in Nat
      /\ DOMAIN s = 1 .. Len(s)
      /\ b \in Seq(Int) /\ c \in Seq(Int) /\ Len(c) = n /\ n \in Nat
  <2>1. ShapeOK(s, t) /\ ShapeOK(b, c)
    BY Zenon DEF DescOK
  <2>2. /\ s \in Seq(Int) /\ t \in Seq(Int) /\ Len(t) = Len(s) /\ Len(s) \in Nat
        /\ DOMAIN s = 1 .. Len(s)
    BY <2>1, ShapeType
  <2>3. b \in Seq(Int) /\ c \in Seq(Int) /\ Len(c) = n /\ n \in Nat
    BY <2>1, ShapeType
  <2> QED
    BY <2>2, <2>3
<1>3. dim \in 1 .. n
  <2> DEFINE differ == {i \in DOMAIN s : b[i] # s[i] \/ c[i] # t[i]}
             S == differ \union {n}
  <2>0. dim = Min(S)
    BY Zenon DEF Lacking
  <2>1. S \subseteq 1 .. n /\ S # {} /\ S \subseteq Nat
    <3>1. Len(s) \in Nat /\ n \in 1 .. n
      BY <1>1, <1>2
    <3>2. differ \subseteq 1 .. n
      BY <1>1, <1>2, <3>1
    <3> HIDE DEF differ
    <3>3. 1 .. n \subseteq Nat
      OBVIOUS
    <3> QED
      BY <3>1, <3>2, <3>3
  <2> HIDE DEF S, dim
  <2>2. Min(S) \in S
    BY <2>1, LeastOf, Zenon
  <2> QED
    BY <2>0, <2>1, <2>2
<1> HIDE DEF dim, s, t, b, c
<1>4. ASSUME NEW x \in Seq(Int), NEW y \in Seq(Int), Len(y) = Len(x) + 1,
             dim \in 1 .. Len(y), InsertAt(x, dim, y[dim]) = y
      PROVE  Lacks(x, y, dim)
  <2>0. /\ Len(x) \in Nat /\ dim \in 1 .. Len(x) + 1 /\ y[dim] \in Int
        /\ InsertAt(x, dim, y[dim]) = y
    BY <1>4
  <2>1. InsertedAs(Int, x, dim, y[dim])
    BY <2>0, Inserted
  <2>2. \A i \in 1 .. Len(x) + 1 : (i < dim => y[i] = x[i]) /\ (i > dim => y[i] = x[i - 1])
    BY <2>0, <2>1, Zenon DEF InsertedAs
  <2>3. ASSUME NEW j \in 1 .. Len(x) PROVE x[j] = IF j < dim THEN y[j] ELSE y[j + 1]
    <3>1. CASE j < dim
      <4>1. j \in 1 .. Len(x) + 1
        BY <2>0
      <4> QED
        BY <2>2, <3>1, <4>1
    <3>2. CASE ~(j < dim)
      <4>1. j + 1 \in 1 .. Len(x) + 1 /\ j + 1 > dim /\ (j + 1) - 1 = j
        BY <2>0, <3>2
      <4> QED
        BY <2>2, <3>2, <4>1
    <3> QED
      BY <3>1, <3>2
  <2> QED
    BY <1>4, <2>3 DEF Lacks
<1>5. Lacks(s, b, dim)
  BY <1>1, <1>2, <1>3, <1>4
<1>6. Lacks(t, c, dim)
  <2>1. Len(c) = Len(t) + 1 /\ dim \in 1 .. Len(c)
    BY <1>1, <1>2, <1>3
  <2> QED
    BY <1>1, <1>2, <1>4, <2>1
<1> QED
  BY <1>1, <1>5, <1>6 DEF dim, s, t, b, c

\* A dimension as long as one of the base, and as far apart, runs along it all.
LEMMA RunsAlong ==
  ASSUME NEW b \in Seq(Nat \ {0}), NEW c \in [1 .. Len(b) -> Nat],
         \A j \in 1 .. Len(b) : c[j] <= b[j] - 1,
         NEW m \in 1 .. Len(b), NEW j \in Nat, Lies(b[m], Strides(b)[m], j, c, b)
  PROVE  c[m] = 0
<1> DEFINE n == Len(b)
           S == Strides(b)
<1>1. /\ n \in Nat
      /\ \A i \in 1 .. n : S[i] \in Nat /\ S[i] >= 1 /\ b[i] \in Nat /\ b[i] >= 1 /\ c[i] \in Nat
  BY StridesType
<1>2. CASE b[m] = 1
  <2>1. c[m] <= 1 - 1 /\ c[m] \in Nat
    BY <1>1, <1>2
  <2> QED
    BY <2>1
<1>3. CASE b[m] # 1
  <2>1. S[m] # 0
    BY <1>1
  <2>2. /\ j \in 1 .. n
        /\ \E k \in Nat : S[m] = k * S[j] /\ c[j] + (b[m] - 1) * k <= b[j] - 1
    BY <1>3, <2>1, Zenon DEF Lies
  <2>3. PICK k \in Nat : S[m] = k * S[j] /\ c[j] + (b[m] - 1) * k <= b[j] - 1
    BY <2>2
  <2> HIDE DEF S
  <2>4. S[j] \in Nat /\ b[j] \in Nat /\ c[j] \in Nat /\ b[m] \in Nat /\ b[m] >= 2
        /\ S[m] \in Nat /\ S[m] >= 1 /\ S[j] >= 1
    <3>1. S[j] \in Nat /\ b[j] \in Nat /\ c[j] \in Nat /\ S[j] >= 1
      BY <1>1, <2>2, Zenon
    <3>2. b[m] \in Nat /\ b[m] >= 1 /\ S[m] \in Nat /\ S[m] >= 1
      BY <1>1, Zenon
    <3>3. b[m] >= 2
      BY <1>3, <3>2
    <3> QED
      BY <3>1, <3>2, <3>3, Zenon
  <2>5. k <= b[j] - 1
    <3> DEFINE x == b[m] - 1
               y == x * k
               z == c[j]
               w == b[j]
    <3>1. x \in Nat /\ x >= 1 /\ z \in Nat /\ w \in Nat
      BY <2>4
    <3>2. z + x * k <= w - 1
      BY <2>3
    <3> HIDE DEF x, z, w
    <3>3. y \in Nat /\ y >= k
      BY <3>1, Grows
    <3>4. z + y <= w - 1
      BY <3>2
    <3> HIDE DEF y
    <3>5. k <= w - 1
      BY <3>1, <3>3, <3>4
    <3> QED
      BY <3>5 DEF w
  <2>6. k # 0
    <3> SUFFICES ASSUME k = 0 PROVE FALSE
      OBVIOUS
    <3>1. 0 * S[j] = 0
      BY <2>4
    <3> QED
      BY <2>1, <2>3, <3>1, Zenon
  <2>7. ~(m < j)
    <3> SUFFICES ASSUME m < j PROVE FALSE
      OBVIOUS
    <3>1. S[m] >= b[j] * S[j]
      BY <2>2, StrideBelow DEF S
    <3> DEFINE x == S[j]
               w == b[j] - k
               y == k * x
               z == w * x
    <3>2. w \in Nat /\ w >= 1 /\ x \in Nat /\ b[j] = w + k /\ x >= 1
      <4>1. b[j] \in Nat /\ k \in Nat /\ k <= b[j] - 1
        BY <2>4, <2>5, Zenon
      <4>2. w \in Nat /\ w >= 1 /\ b[j] = w + k
        BY <4>1
      <4>3. x \in Nat /\ x >= 1
        BY <2>4, Zenon
      <4> QED
        BY <4>2, <4>3, Zenon
    <3>3. S[m] = y /\ S[m] >= b[j] * x
      BY <2>3, <3>1
    <3> HIDE DEF x, w
    <3>4. b[j] * x = z + y /\ y \in Nat /\ z \in Nat /\ z >= x
      <4>1. (w + k) * x = w * x + k * x
        BY <3>2
      <4>2. w * x \in Nat /\ w * x >= x /\ k * x \in Nat
        BY <3>2, Grows
      <4> QED
        BY <3>2, <4>1, <4>2
    <3> HIDE DEF y, z
    <3> QED
      BY <3>2, <3>3, <3>4
  <2>8. ~(j < m)
    <3> SUFFICES ASSUME j < m PROVE FALSE
      OBVIOUS
    <3>1. S[j] >= b[m] * S[m]
      BY <2>2, StrideBelow DEF S
    <3> DEFINE x == S[j]
               y == S[m]
               z == b[m]
    <3>2. /\ x \in Nat /\ y \in Nat /\ z \in Nat /\ z >= 2 /\ y >= 1 /\ k >= 1
          /\ x >= z * y /\ y = k * x
      BY <2>3, <2>4, <2>6, <3>1
    <3> HIDE DEF x, y, z
    <3>3. y >= x
      <4>1. k * x >= x /\ k * x \in Nat
        BY <3>2, Grows
      <4> QED
        BY <3>2, <4>1
    <3>4. z * y \in Nat /\ z * y >= y + y
      <4> DEFINE w == z - 1
      <4>1. w \in Nat /\ w >= 1 /\ z = w + 1
        BY <3>2
      <4> HIDE DEF w
      <4>2. w * y \in Nat /\ w * y >= y
        BY <3>2, <4>1, Grows
      <4>3. (w + 1) * y = w * y + y
        BY <3>2, <4>1
      <4> QED
        BY <3>2, <4>1, <4>2, <4>3
    <3> DEFINE q == z * y
    <3>5. q \in Nat /\ q >= y + y /\ x >= q /\ y >= x /\ x \in Nat /\ y \in Nat /\ y >= 1
      BY <3>2, <3>3, <3>4
    <3> HIDE DEF q
    <3> QED
      BY <3>5
  <2>9. j = m
    BY <1>1, <2>2, <2>7, <2>8
  <2>10. k = 1
    <3> DEFINE x == S[m]
    <3>1. x \in Nat /\ x >= 1 /\ 1 * x = k * x /\ 1 \in Nat
      BY <2>3, <2>4, <2>9
    <3> HIDE DEF x
    <3> QED
      BY <3>1, Cancels
  <2>11. c[m] + (b[m] - 1) * 1 <= b[m] - 1
    BY <2>3, <2>9, <2>10
  <2> QED
    BY <2>4, <2>9, <2>11
<1> QED
  BY <1>2, <1>3

LEMMA SelectExact ==
  ASSUME NEW d, DescOK(d), d.base_strides = Strides(d.base_sizes),
         Embeds(d.sizes, d.strides, d.offset, d.base_sizes), NEW p \in can_use_select(d)
  PROVE  select_to_contiguous(d, p) = Elements(d.sizes, d.strides, d.offset)
<1> DEFINE s == d.sizes
           t == d.strides
           b == d.base_sizes
           S == Strides(b)
           n == Len(b)
           dim == Lacking(d)
           q == d.offset \div S[dim]
           start == [i \in DOMAIN b |-> IF i = dim THEN q ELSE 0]
           length == [b EXCEPT ![dim] = 1]
           end == [i \in DOMAIN start |-> start[i] + length[i]]
           step == [i \in DOMAIN start |-> 1]
<1>1. p = Selected(d) /\ Lacks(s, b, dim) /\ Lacks(t, S, dim)
  BY SelectIs
<1>2. /\ ShapeOK(s, t) /\ ShapeOK(b, S) /\ n \in Nat /\ DOMAIN b = 1 .. n /\ b \in Seq(Nat \ {0})
      /\ \A i \in 1 .. n : b[i] \in Nat /\ b[i] >= 1 /\ S[i] \in Nat
      /\ Len(s) \in Nat /\ Len(t) = Len(s) /\ Len(S) = n /\ S \in Seq(Nat)
  <2>1. ShapeOK(s, t) /\ ShapeOK(b, S)
    BY Zenon DEF DescOK
  <2>2. Len(s) \in Nat /\ Len(t) = Len(s)
    BY <2>1, ShapeType
  <2>3. /\ n \in Nat /\ DOMAIN b = 1 .. n
        /\ \A i \in 1 .. n : b[i] \in Nat /\ b[i] >= 1 /\ S[i] \in Nat
    BY <2>1, ShapeType
  <2>4. b \in Seq(Nat \ {0}) /\ Len(S) = n /\ S \in Seq(Nat)
    BY <2>1, Zenon DEF ShapeOK
  <2> QED
    BY <2>1, <2>2, <2>3, <2>4
<1>3. PICK g, c : Embedded(s, t, d.offset, g, c, b)
  BY Zenon DEF Embeds
<1>4. /\ g \in [1 .. Len(s) -> Nat] /\ c \in [1 .. n -> Nat]
      /\ \A i \in 1 .. n : c[i] <= b[i] - 1
      /\ d.offset = Added(Places(c, b))
      /\ \A i \in 1 .. Len(s) : Lies(s[i], t[i], g[i], c, b)
  BY <1>3, Zenon DEF Embedded
<1>5. /\ Places(c, b) \in Seq(Int) /\ Len(Places(c, b)) = n
      /\ Places(c, b) = [i \in 1 .. n |-> c[i] * S[i]]
      /\ \A i \in 1 .. n : Places(c, b)[i] = c[i] * S[i] /\ S[i] >= 1
  <2>1. c \in [1 .. Len(b) -> Nat]
    BY <1>4
  <2>2. Places(c, b) = [i \in 1 .. n |-> c[i] * S[i]]
    BY Zenon DEF Places
  <2> QED
    BY <1>2, <2>1, <2>2, PlacesType
<1>6. p.start = start /\ p.length = length /\ d.base_strides = S
  BY <1>1 DEF Selected
<1>7. /\ dim \in 1 .. n /\ Len(s) + 1 = n
      /\ \A j \in 1 .. Len(s) : s[j] = IF j < dim THEN b[j] ELSE b[j + 1]
      /\ \A j \in 1 .. Len(s) : t[j] = IF j < dim THEN S[j] ELSE S[j + 1]
  BY <1>1, <1>2, Zenon DEF Lacks
<1> HIDE DEF s, t, b, S, n, dim
<1>8. ASSUME NEW m \in 1 .. n, m # dim PROVE c[m] = 0
  <2>1. \E i \in 1 .. Len(s) : s[i] = b[m] /\ t[i] = S[m]
    <3>1. CASE m < dim
      <4>1. m \in 1 .. Len(s)
        BY <1>2, <1>7, <3>1
      <4>2. s[m] = b[m] /\ t[m] = S[m]
        BY <1>7, <3>1, <4>1
      <4> QED
        BY <4>1, <4>2
    <3>2. CASE ~(m < dim)
      <4>1. m - 1 \in 1 .. Len(s) /\ ~(m - 1 < dim) /\ (m - 1) + 1 = m
        BY <1>2, <1>7, <1>8, <3>2
      <4>2. s[m - 1] = b[m] /\ t[m - 1] = S[m]
        BY <1>7, <4>1
      <4> QED
        BY <4>1, <4>2
    <3> QED
      BY <3>1, <3>2
  <2>2. PICK i \in 1 .. Len(s) : s[i] = b[m] /\ t[i] = S[m]
    BY <2>1
  <2>3. Lies(b[m], Strides(b)[m], g[i], c, b) /\ g[i] \in Nat
    <3>1. Lies(s[i], t[i], g[i], c, b) /\ g[i] \in Nat
      BY <1>4
    <3> QED
      BY <2>2, <3>1, Zenon DEF S
  <2>4. c \in [1 .. Len(b) -> Nat] /\ (\A j \in 1 .. Len(b) : c[j] <= b[j] - 1) /\ m \in 1 .. Len(b)
    BY <1>4, Zenon DEF n
  <2> QED
    BY <1>2, <2>3, <2>4, RunsAlong, Zenon
<1>9. d.offset = c[dim] * S[dim]
  <2> DEFINE P == Places(c, b)
  <2>1. P \in Seq(Int) /\ dim \in 1 .. Len(P) /\ P[dim] = c[dim] * S[dim]
    BY <1>5, <1>7
  <2>2. \A j \in 1 .. Len(P) : j # dim => P[j] = 0
    <3> SUFFICES ASSUME NEW j \in 1 .. n, j # dim PROVE P[j] = 0
      BY <1>5
    <3>1. c[j] = 0 /\ S[j] \in Nat /\ P[j] = c[j] * S[j]
      BY <1>2, <1>5, <1>8
    <3> QED
      BY <3>1
  <2> HIDE DEF P
  <2>3. Added(P) = P[dim]
    BY <2>1, <2>2, OneTerm
  <2> QED
    BY <1>4, <2>1, <2>3, Zenon DEF P
<1>10. q = c[dim]
  <2> DEFINE x == c[dim]
             y == S[dim]
  <2>1. x \in Nat /\ y \in Nat /\ y >= 1 /\ d.offset = x * y
    BY <1>2, <1>4, <1>5, <1>7, <1>9
  <2> HIDE DEF x, y
  <2>2. 0 \in 0 .. y - 1 /\ x * y + 0 = x * y
    BY <2>1
  <2>3. (x * y + 0) \div y = x
    BY <2>1, <2>2, Quotient
  <2> QED
    BY <2>1, <2>2, <2>3, Zenon DEF x, y
<1> HIDE DEF q
<1>11. start = c /\ DOMAIN start = 1 .. n
  <2>1. start = [i \in 1 .. n |-> c[i]]
    BY <1>2, <1>8, <1>10
  <2>2. [i \in 1 .. n |-> c[i]] = c
    BY <1>4
  <2> HIDE DEF start
  <2> QED
    BY <1>4, <2>1, <2>2
<1> HIDE DEF start
<1>12. /\ length \in Seq(Nat \ {0}) /\ Len(length) = n /\ length[dim] = 1
       /\ \A i \in 1 .. n : i # dim => length[i] = b[i]
  <2>1. 1 \in Nat \ {0} /\ dim \in DOMAIN b
    BY <1>2, <1>7
  <2> QED
    BY <1>2, <2>1 DEF n
<1> HIDE DEF length
<1> DEFINE size(i) == LET stop == Min({end[i], b[i]})
                      IN  Max({0, (stop - start[i] + step[i] - 1) \div step[i]})
           u == [i \in DOMAIN start |-> size(i)]
           v == [i \in DOMAIN start |-> step[i] * S[i]]
           w == [i \in DOMAIN start |-> start[i] * S[i]]
<1>13. select_to_contiguous(d, p) = Elements(u, v, Added(w))
  <2> HIDE DEF end, step
  <2>1. select_to_contiguous(d, p) = StridedSlice(d, start, end, step)
    BY <1>6, Zenon DEF select_to_contiguous, end, step
  <2> QED
    BY <1>6, <2>1, Zenon DEF StridedSlice, b
<1>14. u = length
  <2>1. ASSUME NEW i \in 1 .. n PROVE size(i) = length[i]
    <3> DEFINE x == start[i]
               y == length[i]
               z == b[i]
    <3>1. x \in Nat /\ y \in Nat /\ y >= 1 /\ z \in Nat /\ x + (y - 1) * 1 <= z - 1
      <4>1. x = c[i] /\ c[i] \in Nat /\ c[i] <= z - 1 /\ z \in Nat /\ y \in Nat /\ y >= 1
        <5>1. x = c[i]
          BY <1>11, Zenon
        <5>2. c[i] \in Nat /\ c[i] <= z - 1
          BY <1>4, Zenon
        <5>3. z \in Nat
          BY <1>2
        <5>4. y \in Nat /\ y >= 1
          BY <1>12
        <5> QED
          BY <5>1, <5>2, <5>3, <5>4, Zenon
      <4>2. CASE i = dim
        BY <1>12, <4>1, <4>2
      <4>3. CASE i # dim
        <5>1. y = z /\ c[i] = 0
          BY <1>8, <1>12, <4>3
        <5> QED
          BY <4>1, <5>1
      <4> QED
        BY <4>2, <4>3
    <3>2. end[i] = x + y * 1 /\ step[i] = 1
      BY <1>11, <3>1
    <3> HIDE DEF x, y, z, end, step
    <3>3. 1 \in Nat /\ 1 >= 1
      OBVIOUS
    <3>4. Max({0, (Min({x + y * 1, z}) - x + 1 - 1) \div 1}) = y
      BY <3>1, <3>3, StepsAre
    <3> QED
      BY <3>2, <3>4, Zenon DEF x, y, z
  <2> HIDE DEF size
  <2>2. u = [i \in 1 .. n |-> length[i]]
    BY <1>11, <2>1
  <2>3. [i \in 1 .. n |-> length[i]] = length
    BY <1>12
  <2> QED
    BY <2>2, <2>3, Zenon
<1>15. v = S
  <2>1. v = [i \in 1 .. n |-> S[i]]
    BY <1>2, <1>11
  <2>2. [i \in 1 .. n |-> S[i]] = S
    BY <1>2
  <2> QED
    BY <2>1, <2>2, Zenon
<1>16. w = Places(c, b)
  <2>1. w = [i \in 1 .. n |-> c[i] * S[i]]
    BY <1>11
  <2> QED
    BY <1>5, <2>1, Zenon
<1> HIDE DEF u, v, w
<1>17. select_to_contiguous(d, p) = Elements(length, S, d.offset)
  BY <1>4, <1>13, <1>14, <1>15, <1>16, Zenon
<1>18. Lacks(s, length, dim)
  <2>1. ASSUME NEW j \in 1 .. Len(s)
        PROVE  s[j] = IF j < dim THEN length[j] ELSE length[j + 1]
    <3>1. CASE j < dim
      <4>1. j \in 1 .. n /\ j # dim
        BY <1>2, <1>7, <3>1
      <4> QED
        BY <1>7, <1>12, <3>1, <4>1
    <3>2. CASE ~(j < dim)
      <4>1. j + 1 \in 1 .. n /\ j + 1 # dim
        BY <1>2, <1>7, <3>2
      <4> QED
        BY <1>7, <1>12, <3>2, <4>1
    <3> QED
      BY <3>1, <3>2
  <2> QED
    BY <1>7, <1>12, <2>1 DEF Lacks
<1>19. ShapeOK(length, S)
  BY <1>2, <1>12 DEF ShapeOK
<1>20. Elements(length, S, d.offset) = Elements(s, t, d.offset)
  <2>1. ShapeOK(s, t) /\ Lacks(t, S, dim) /\ length[dim] = 1
    BY <1>1, <1>2, <1>12 DEF s, t, b, S, dim
  <2> QED
    BY <1>18, <1>19, <2>1, ElementsWithout, SMTT(30)
<1> QED
  BY <1>17, <1>20 DEF s, t

------------------------------------------------------------------------------
(* A view that is no reshape is of the described tensor, place by place.     *)

Carries(u, v, x) ==
  \A b \in Seq(Nat \ {0}) :
    Embeds(view.sizes, view.strides, view.offset, b) => Embeds(u, v, x, b)

CarriedStep ==
  \E u, v, x : Becomes(u, v, x) /\ ((Keeps /\ Carries(u, v, x)) \/ Reshapes)

LEMMA CarriedOf ==
  ASSUME NEW u, NEW v, NEW x, Becomes(u, v, x), Keeps, Carries(u, v, x) PROVE CarriedStep
  BY Zenon DEF CarriedStep

LEMMA ReshapedOf ==
  ASSUME NEW u, NEW v, NEW x, Becomes(u, v, x), Reshapes PROVE CarriedStep
  BY Zenon DEF CarriedStep

LEMMA NarrowSteps ==
  ASSUME NEW n \in Nat, NEW a \in 0 .. n - 1, NEW b \in a + 1 .. n, NEW step \in 1 .. 2
  PROVE  LET m == (b - a + step - 1) \div step
         IN  m \in Nat /\ m >= 1 /\ a + (m - 1) * step <= n - 1
<1>1. CASE step = 1
  BY <1>1
<1>2. CASE step = 2
  BY <1>2
<1> QED
  BY <1>1, <1>2

LEMMA NarrowCarries ==
  ASSUME Shapes, NEW i \in 1 .. Len(view.sizes), NEW a \in 0 .. view.sizes[i] - 1,
         NEW b \in a + 1 .. view.sizes[i], NEW step \in 1 .. 2
  PROVE  Carries([view.sizes EXCEPT ![i] = (b - a + step - 1) \div step],
                 [view.strides EXCEPT ![i] = view.strides[i] * step],
                 view.offset + a * view.strides[i])
<1> DEFINE s == view.sizes
           t == view.strides
           m == (b - a + step - 1) \div step
<1>1. ShapeOK(s, t)
  BY ViewTyped, Zenon
<1>2. s[i] \in Nat
  BY <1>1, ShapeType
<1>3. a \in Nat /\ step \in Nat
  BY <1>2
<1>4. m \in Nat /\ m >= 1 /\ a + (m - 1) * step <= s[i] - 1
  BY <1>2, NarrowSteps
<1> HIDE DEF m, s, t
<1>5. ASSUME NEW c \in Seq(Nat \ {0}), Embeds(s, t, view.offset, c)
      PROVE  Embeds([s EXCEPT ![i] = m], [t EXCEPT ![i] = t[i] * step], view.offset + a * t[i], c)
  <2>1. i \in 1 .. Len(s)
    BY DEF s
  <2> QED
    BY <1>1, <1>3, <1>4, <1>5, <2>1, MovedEmbeds, Zenon
<1> QED
  BY <1>5, Zenon DEF Carries, s, t, m

LEMMA ExceptSame ==
  ASSUME NEW t \in Seq(Nat), NEW i \in 1 .. Len(t)
  PROVE  [t EXCEPT ![i] = t[i] * 1] = t
<1>1. t[i] \in Nat
  OBVIOUS
<1>2. t[i] * 1 = t[i]
  BY <1>1
<1>3. [t EXCEPT ![i] = t[i]] = t
  OBVIOUS
<1> QED
  BY <1>2, <1>3, Zenon

\* Narrowed to the place k, the dimension has size 1.
LEMMA SelectCarries ==
  ASSUME Shapes, NEW i \in 1 .. Len(view.sizes), NEW k \in 0 .. view.sizes[i] - 1
  PROVE  Carries(RemoveAt(view.sizes, i), RemoveAt(view.strides, i),
                 view.offset + k * view.strides[i])
<1> DEFINE s == view.sizes
           t == view.strides
           u == [s EXCEPT ![i] = 1]
           v == [t EXCEPT ![i] = t[i] * 1]
<1>1. ShapeOK(s, t)
  BY ViewTyped, Zenon
<1>2. /\ s[i] \in Nat /\ t[i] \in Nat /\ t[i] * 1 = t[i] /\ Len(t) = Len(s) /\ Len(s) \in Nat
      /\ DOMAIN s = 1 .. Len(s) /\ DOMAIN t = 1 .. Len(s) /\ t \in Seq(Int)
  BY <1>1, ShapeType
<1>3. k \in Nat /\ k + (1 - 1) * 1 <= s[i] - 1 /\ 1 \in Nat /\ 1 >= 1
  BY <1>2
<1>4. v = t
  <2>1. t \in Seq(Nat) /\ i \in 1 .. Len(t)
    BY <1>1, <1>2, Zenon DEF ShapeOK
  <2> QED
    BY <2>1, ExceptSame, Zenon
<1>5. ShapeOK(u, v) /\ Len(u) = Len(s)
  <2>1. Dimension(1, t[i])
    BY <1>2 DEF Dimension
  <2>2. ChangedTo(s, t, i, 1, t[i])
    BY <1>1, <2>1, TermsChanged
  <2> QED
    BY <1>2, <2>2 DEF ChangedTo
<1>6. \A j \in 1 .. Len(s) : j # i => u[j] = s[j]
  BY <1>2
<1> HIDE DEF s, t, u, v
<1>7. i \in 1 .. Len(s)
  BY DEF s
<1>8. RemoveAt(u, i) = RemoveAt(s, i)
  <2>1. s \in Seq(Nat \ {0}) /\ u \in Seq(Nat \ {0})
    BY <1>1, <1>5 DEF ShapeOK
  <2> DEFINE p == RemoveAt(u, i)
             q == RemoveAt(s, i)
  <2>2. /\ q \in Seq(Nat \ {0}) /\ Len(q) + 1 = Len(s)
        /\ \A j \in 1 .. Len(s) - 1 : q[j] = IF j < i THEN s[j] ELSE s[j + 1]
    BY <1>7, <2>1, Removed
  <2>3. /\ p \in Seq(Nat \ {0}) /\ Len(p) + 1 = Len(s)
        /\ \A j \in 1 .. Len(s) - 1 : p[j] = IF j < i THEN u[j] ELSE u[j + 1]
    BY <1>5, <1>7, <2>1, Removed
  <2> HIDE DEF p, q
  <2>4. Len(p) = Len(q) /\ Len(p) = Len(s) - 1
    <3>1. Len(p) + 1 = Len(s) /\ Len(q) + 1 = Len(s)
      BY <2>2, <2>3, Zenon
    <3>2. Len(p) \in Nat /\ Len(q) \in Nat
      BY <2>2, <2>3, LenProperties, Zenon
    <3> QED
      BY <3>1, <3>2
  <2>5. ASSUME NEW j \in 1 .. Len(s) - 1 PROVE p[j] = q[j]
    <3>1. j < i => j \in 1 .. Len(s) /\ j # i
      BY <1>2
    <3>2. ~(j < i) => j + 1 \in 1 .. Len(s) /\ j + 1 # i
      BY <1>2, <1>7
    <3> QED
      BY <1>6, <2>2, <2>3, <3>1, <3>2, Zenon
  <2>6. p = q
    BY <2>2, <2>3, <2>4, <2>5, SeqEqual, Zenon
  <2> QED
    BY <2>6 DEF p, q
<1>9. ASSUME NEW c \in Seq(Nat \ {0}), Embeds(s, t, view.offset, c)
      PROVE  Embeds(RemoveAt(s, i), RemoveAt(t, i), view.offset + k * t[i], c)
  <2>1. Embeds(u, v, view.offset + k * t[i], c)
    <3>1. Embeds([s EXCEPT ![i] = 1], [t EXCEPT ![i] = t[i] * 1], view.offset + k * t[i], c)
      BY <1>1, <1>3, <1>7, <1>9, MovedEmbeds, Zenon
    <3> QED
      BY <3>1, Zenon DEF u, v
  <2>2. i \in 1 .. Len(u)
    BY <1>5, <1>7
  <2>3. Embeds(RemoveAt(u, i), RemoveAt(v, i), view.offset + k * t[i], c)
    BY <1>5, <2>1, <2>2, RemovedEmbeds, Zenon
  <2> QED
    BY <1>4, <1>8, <2>3, Zenon
<1> QED
  BY <1>9, Zenon DEF Carries, s, t

LEMMA NextCarried ==
  ASSUME Shapes, Next
  PROVE  Whole \/ CarriedStep \/ AsOperand \/ (\E s \in Resizes : resize_(s)) \/ CopyStep
<1> DEFINE s == view.sizes
           t == view.strides
           o == view.offset
<1>1. /\ ShapeOK(s, t) /\ o \in Nat /\ Dims = 1 .. Len(s) /\ Len(s) \in Nat
      /\ \A i \in 1 .. Len(s) : s[i] \in Nat /\ s[i] >= 1 /\ t[i] \in Nat
  BY ShapeType DEF Shapes, Dims
<1>3. ASSUME ExpandFront PROVE CarriedStep
  <2>1. Becomes(<<2>> \o s, <<0>> \o t, o) /\ Keeps
    BY <1>3, Zenon DEF ExpandFront
  <2>2. s \in Seq(Nat \ {0}) /\ t \in Seq(Nat) /\ 2 \in Nat \ {0} /\ 0 \in Nat /\ 2 \in Nat
    BY <1>1 DEF ShapeOK
  <2>3. InsertAt(s, 1, 2) = <<2>> \o s /\ InsertAt(t, 1, 0) = <<0>> \o t
    BY <2>2, InFront
  <2>4. 1 \in 1 .. Len(s) + 1
    BY <1>1
  <2>5. ASSUME NEW b, Embeds(s, t, o, b) PROVE Embeds(<<2>> \o s, <<0>> \o t, o, b)
    <3>1. Embeds(InsertAt(s, 1, 2), InsertAt(t, 1, 0), o, b)
      BY <1>1, <2>2, <2>4, <2>5, InsertedEmbeds, Zenon
    <3> QED
      BY <2>3, <3>1, Zenon
  <2>6. Carries(<<2>> \o s, <<0>> \o t, o)
    BY <2>5, Zenon DEF Carries
  <2> QED
    BY <2>1, <2>6, CarriedOf, Zenon
<1>4. ASSUME NEW i \in 1 .. Len(s), Expand(i) PROVE CarriedStep
  <2>1. Keeps /\ Becomes([s EXCEPT ![i] = 2], [t EXCEPT ![i] = 0], o)
    BY <1>4, Zenon DEF Expand
  <2>2. Carries([s EXCEPT ![i] = 2], [t EXCEPT ![i] = 0], o)
    BY <1>1, ExpandedEmbeds, Zenon DEF Carries
  <2> QED
    BY <2>1, <2>2, CarriedOf, Zenon
<1>5. ASSUME NEW i \in 1 .. Len(s), squeeze(i) PROVE CarriedStep
  <2>1. Keeps /\ Becomes(RemoveAt(s, i), RemoveAt(t, i), o)
    BY <1>5, Zenon DEF squeeze
  <2>2. Carries(RemoveAt(s, i), RemoveAt(t, i), o)
    BY <1>1, RemovedEmbeds, Zenon DEF Carries
  <2> QED
    BY <2>1, <2>2, CarriedOf, Zenon
<1>6. ASSUME NEW i \in 1 .. Len(s), NEW k \in 0 .. s[i] - 1, Select(i, k) PROVE CarriedStep
  <2>1. Keeps /\ Becomes(RemoveAt(s, i), RemoveAt(t, i), o + k * t[i])
    BY <1>6, Zenon DEF Select
  <2> QED
    BY <2>1, SelectCarries, CarriedOf, Zenon
<1>7. ASSUME NEW i \in 1 .. Len(s), NEW a \in 0 .. s[i] - 1, NEW b \in a + 1 .. s[i],
             NEW step \in 1 .. 2, Narrow(i, a, b, step)
      PROVE  CarriedStep
  <2>1. /\ Keeps
        /\ Becomes([s EXCEPT ![i] = (b - a + step - 1) \div step],
                   [t EXCEPT ![i] = t[i] * step], o + a * t[i])
    BY <1>7, Zenon DEF Narrow
  <2> QED
    BY <2>1, NarrowCarries, CarriedOf, Zenon
<1>8. ASSUME NEW i \in 1 .. Len(s), NEW j \in 1 .. Len(s), Transpose(i, j) PROVE CarriedStep
  <2>1. /\ Keeps
        /\ Becomes([s EXCEPT ![i] = s[j], ![j] = s[i]], [t EXCEPT ![i] = t[j], ![j] = t[i]], o)
    BY <1>8, Zenon DEF Transpose
  <2>2. Carries([s EXCEPT ![i] = s[j], ![j] = s[i]], [t EXCEPT ![i] = t[j], ![j] = t[i]], o)
    BY <1>1, SwappedEmbeds, Zenon DEF Carries
  <2> QED
    BY <2>1, <2>2, CarriedOf, Zenon
<1>9. ASSUME NEW i, Merge(i) PROVE CarriedStep
  BY <1>9, ReshapedOf, Zenon DEF Merge
<1>10. ASSUME NEW i, NEW a, Split(i, a) PROVE CarriedStep
  BY <1>10, ReshapedOf, Zenon DEF Split
<1>11. ASSUME NEW i \in 1 .. Len(s) + 1, unsqueeze(i) PROVE CarriedStep
  <2> DEFINE r == IF i > Len(s) THEN 1 ELSE s[i] * t[i]
  <2>1. r \in Nat
    <3>1. CASE i > Len(s)
      BY <3>1
    <3>2. CASE ~(i > Len(s))
      <4>1. i \in 1 .. Len(s)
        BY <1>1, <3>2
      <4>2. s[i] * t[i] \in Nat
        BY <1>1, <4>1
      <4> QED
        BY <3>2, <4>2
    <3> QED
      BY <3>1, <3>2
  <2>2. Keeps /\ Becomes(InsertAt(s, i, 1), InsertAt(t, i, r), o)
    BY <1>11, Zenon DEF unsqueeze
  <2> HIDE DEF r
  <2>3. 1 \in Nat
    OBVIOUS
  <2>4. Carries(InsertAt(s, i, 1), InsertAt(t, i, r), o)
    BY <1>1, <2>1, <2>3, InsertedEmbeds, Zenon DEF Carries
  <2> QED
    BY <2>2, <2>4, CarriedOf, Zenon
<1> QED
  <2>1. Dims = 1 .. Len(s)
    BY <1>1
  <2> QED
    BY <1>3, <1>4, <1>5, <1>6, <1>7, <1>8, <1>9, <1>10, <1>11, CopyIs, CloneIs, <2>1, Zenon DEF Next

\* A view of the places of a contiguous description.
AtBase(v, base) ==
  /\ base.strides = Strides(base.sizes)
  /\ Embeds(v.sizes, v.strides, v.offset, base.sizes)

Linear == ~reshaped => AtBase(view, storage.base)

LEMMA WholeAtBase ==
  ASSUME NEW b, b.sizes \in Seq(Nat \ {0}), b.strides = ComputeStrideFromShape(b.sizes),
         NEW v, v.sizes = b.sizes, v.strides = b.strides, v.offset = 0
  PROVE  AtBase(v, b)
<1>1. b.strides = Strides(b.sizes)
  BY Zenon DEF Strides
<1>2. Embeds(b.sizes, Strides(b.sizes), 0, b.sizes)
  BY WholeEmbeds
<1> QED
  BY <1>1, <1>2, Zenon DEF AtBase

LEMMA DescribedIs ==
  ASSUME NEW s PROVE Described(s).sizes = s /\ Described(s).strides = ComputeStrideFromShape(s)
  BY DEF Described

LEMMA WholeOfIs ==
  ASSUME NEW b
  PROVE  WholeOf(b).sizes = b.sizes /\ WholeOf(b).strides = b.strides /\ WholeOf(b).offset = 0
  BY DEF WholeOf

LEMMA LinearInit == Init => Linear
<1> SUFFICES ASSUME NEW s \in Bases,
                    storage = [numel |-> multiply_integers(s), base |-> Described(s)],
                    view = WholeOf(Described(s))
             PROVE  Linear
  BY Zenon DEF Init
<1>1. s \in Seq(Nat \ {0})
  BY ViewAssumption
<1>2. storage.base = Described(s)
  OBVIOUS
<1>3. /\ storage.base.sizes = s /\ storage.base.strides = ComputeStrideFromShape(s)
      /\ view.sizes = s /\ view.strides = storage.base.strides /\ view.offset = 0
  BY <1>2, DescribedIs, WholeOfIs, Zenon
<1>4. AtBase(view, storage.base)
  BY <1>1, <1>3, WholeAtBase, Zenon
<1> QED
  BY <1>4, Zenon DEF Linear

LEMMA LinearNext == Shapes /\ Linear /\ [Next]_vars => Linear'
<1> SUFFICES ASSUME Shapes, Linear, [Next]_vars, ~reshaped' PROVE AtBase(view', storage'.base)
  BY Zenon DEF Linear
<1>1. CASE UNCHANGED vars
  BY <1>1, Zenon DEF Linear, vars
<1>2. CASE Whole
  <2> DEFINE b == storage.base
  <2>1. /\ Becomes(b.sizes, b.strides, 0) /\ b = Described(b.sizes)
    <3>1. Becomes(b.sizes, b.strides, 0) /\ reshaped' = (b # Described(b.sizes))
      BY <1>2, Zenon DEF Whole
    <3> QED
      BY <3>1
  <2>2. view' = [sizes |-> b.sizes, strides |-> b.strides, offset |-> 0] /\ storage' = storage
    BY <2>1, Zenon DEF Becomes
  <2>3. view'.sizes = b.sizes /\ view'.strides = b.strides /\ view'.offset = 0
    BY <2>2
  <2>4. b.sizes \in Seq(Nat \ {0})
    BY DEF Shapes, ShapeOK
  <2>5. b.strides = ComputeStrideFromShape(b.sizes)
    BY <2>1, DescribedIs, Zenon
  <2>6. AtBase(view', b)
    BY <2>3, <2>4, <2>5, WholeAtBase, Zenon
  <2> QED
    BY <2>2, <2>6, Zenon
<1>3. CASE CarriedStep
  <2>1. PICK u, v, x : Becomes(u, v, x) /\ ((Keeps /\ Carries(u, v, x)) \/ Reshapes)
    BY <1>3, Zenon DEF CarriedStep
  <2>2. view' = [sizes |-> u, strides |-> v, offset |-> x] /\ storage' = storage
    BY <2>1, Zenon DEF Becomes
  <2>3. view'.sizes = u /\ view'.strides = v /\ view'.offset = x
    BY <2>2
  <2>4. Keeps /\ Carries(u, v, x)
    <3>1. ~Reshapes
      BY DEF Reshapes
    <3> QED
      BY <2>1, <3>1
  <2>5. ~reshaped
    BY <2>4 DEF Keeps
  <2>6. AtBase(view, storage.base) /\ storage.base.sizes \in Seq(Nat \ {0})
    BY <2>5, Zenon DEF Linear, Shapes, ShapeOK
  <2>7. Embeds(u, v, x, storage.base.sizes)
    BY <2>4, <2>6, Zenon DEF AtBase, Carries
  <2> QED
    BY <2>2, <2>3, <2>6, <2>7, Zenon DEF AtBase
<1>4. CASE AsOperand
  <2>1. storage' = [numel |-> storage.numel,
                    base |-> [sizes |-> view.sizes, strides |-> view.strides]]
    BY <1>4, OperandStep
  <2>2. view = WholeOf(Described(view.sizes)) /\ view' = view
    <3>1. reshaped' = (view # WholeOf(Described(view.sizes))) /\ view' = view
      BY <1>4, Zenon DEF AsOperand
    <3> QED
      BY <3>1
  <2>3. storage'.base.sizes = view.sizes /\ storage'.base.strides = view.strides
    BY <2>1
  <2>4. view.strides = ComputeStrideFromShape(view.sizes) /\ view.offset = 0
    BY <2>2, DescribedIs, WholeOfIs, Zenon
  <2>5. view.sizes \in Seq(Nat \ {0})
    BY DEF Shapes, ShapeOK
  <2> QED
    BY <2>2, <2>3, <2>4, <2>5, WholeAtBase, Zenon
<1>5. ASSUME NEW s \in Resizes, resize_(s) PROVE AtBase(view', storage'.base)
  <2>1. /\ view' = [sizes |-> s, strides |-> ComputeStrideFromShape(s), offset |-> view.offset]
        /\ s \in Seq(Nat \ {0})
    BY <1>5, ResizeStep
  <2>2. view' = WholeOf(storage'.base)
    <3>1. reshaped' = (view' # WholeOf(storage'.base))
      BY <1>5, Zenon DEF resize_
    <3> QED
      BY <3>1
  <2>3. view'.sizes = s /\ view'.strides = ComputeStrideFromShape(s)
    BY <2>1
  <2>4. /\ view'.sizes = storage'.base.sizes /\ view'.strides = storage'.base.strides
        /\ view'.offset = 0
    BY <2>2, WholeOfIs, Zenon
  <2> QED
    BY <2>1, <2>3, <2>4, WholeAtBase, Zenon
<1>6. CASE CopyStep
  <2>1. view' = view /\ storage'.base = storage.base
    BY <1>6, CopyStepShapes, Zenon
  <2>2. reshaped' = reshaped
    BY <1>6, Zenon DEF CopyStep
  <2> QED
    BY <2>1, <2>2, Zenon DEF Linear
<1> QED
  BY <1>1, <1>2, <1>3, <1>4, <1>5, <1>6, NextCarried, Zenon

------------------------------------------------------------------------------
(* What a single optimizer copies of such a view.                            *)

LEMMA PlainCopyExact ==
  ASSUME Shapes, Linear, ~reshaped, NEW case \in Plain, NEW p \in PlainMatch(case, desc)
  PROVE  PlainCopy(case, desc, p) = Elements(view.sizes, view.strides, view.offset)
<1>1. case \in ExactCases \/ case = "select" \/ case = "indexing"
  BY DEF Plain, ExactCases
<1>2. /\ DescOK(desc) /\ desc.sizes = view.sizes /\ desc.strides = view.strides
      /\ desc.offset = view.offset /\ desc.base_sizes = storage.base.sizes
      /\ desc.base_strides = storage.base.strides
  BY DescIs
<1>3. /\ desc.base_strides = Strides(desc.base_sizes)
      /\ Embeds(desc.sizes, desc.strides, desc.offset, desc.base_sizes)
  BY <1>2, Zenon DEF Linear, AtBase
<1>4. CASE case \in ExactCases
  BY <1>2, <1>4, PlainExact, Zenon
<1>5. CASE case = "indexing"
  <2>1. p \in can_use_indexing(desc) /\ PlainCopy(case, desc, p) = indexing_to_contiguous(desc, p)
    BY <1>5, Zenon DEF PlainMatch, PlainCopy
  <2> QED
    BY <1>2, <1>3, <2>1, IndexingExact, Zenon
<1>6. CASE case = "select"
  <2>1. p \in can_use_select(desc) /\ PlainCopy(case, desc, p) = select_to_contiguous(desc, p)
    BY <1>6, Zenon DEF PlainMatch, PlainCopy
  <2> QED
    BY <1>2, <1>3, <2>1, SelectExact, Zenon
<1> QED
  BY <1>1, <1>4, <1>5, <1>6

LEMMA NothingDivided ==
  ASSUME Shapes, Linear, ~reshaped PROVE ~Divides0(desc)
<1>1. desc.base_strides = Strides(storage.base.sizes) /\ storage.base.sizes \in Seq(Nat \ {0})
  <2>1. desc.base_strides = storage.base.strides
    BY DescIs, Zenon
  <2>2. storage.base.strides = Strides(storage.base.sizes)
    BY Zenon DEF Linear, AtBase
  <2> QED
    BY <2>1, <2>2, Zenon DEF Shapes, ShapeOK
<1> DEFINE r == Strides(storage.base.sizes)
<1>2. /\ r \in Seq(Nat) /\ Len(r) = Len(storage.base.sizes)
      /\ \A j \in 1 .. Len(storage.base.sizes) : r[j] >= 1
  BY <1>1, StridesType, Zenon
<1> HIDE DEF r
<1>3. ASSUME NEW j \in DOMAIN r PROVE r[j] # 0
  <2>1. j \in 1 .. Len(r) /\ r[j] \in Nat
    BY <1>2
  <2>2. r[j] >= 1
    BY <1>2, <2>1
  <2> QED
    BY <2>1, <2>2
<1>4. 0 \notin Range(r)
  BY <1>3, Zenon DEF Range
<1> QED
  BY <1>1, <1>4, Zenon DEF Divides0, r

\* Whatever the case but "combined", the last copy of a view that is no reshape

\* Whatever the case but "combined", the last copy of a view that is no reshape
\* is of its elements.
Faithful ==
  copy.case # "combined" /\ copy # NoCopy /\ ~reshaped =>
    copy.elements = Elements(view.sizes, view.strides, view.offset)

LEMMA FaithfulOf ==
  ASSUME NEW case, NEW e, Done(case, e), view' = view, reshaped' = reshaped,
         case # "combined" /\ ~reshaped => e = Elements(view.sizes, view.strides, view.offset)
  PROVE  Faithful'
<1>1. copy'.case = case /\ copy'.elements = e
  BY DoneIs, Zenon
<1> QED
  BY <1>1, Zenon DEF Faithful

LEMMA FaithfulGeneral ==
  ASSUME NEW case, General(case), view' = view, reshaped' = reshaped PROVE Faithful'
  BY FaithfulOf, Zenon DEF General

LEMMA FaithfulFirst ==
  ASSUME Shapes, Linear, NEW c, NEW cases \in Listed, view' = view, reshaped' = reshaped,
         \E e \in FirstPlain(c, desc, cases).copies : Done(FirstPlain(c, desc, cases).case, e)
  PROVE  Faithful'
<1> DEFINE case == FirstPlain(c, desc, cases).case
<1>1. PICK e \in FirstPlain(c, desc, cases).copies : Done(case, e)
  OBVIOUS
<1>2. case \in Plain /\ \E p \in PlainMatch(case, desc) : e = PlainCopy(case, desc, p)
  BY FirstRead, Zenon
<1> HIDE DEF case
<1>3. ~reshaped => e = Elements(view.sizes, view.strides, view.offset)
  BY <1>2, PlainCopyExact, Zenon
<1> QED
  BY <1>1, <1>3, FaithfulOf, Zenon

LEMMA FaithfulAttempted ==
  ASSUME Shapes, Linear, NEW c, NEW case \in Cases, NEW p \in Match(case, desc), NEW n,
         Attempted(case, Run(c, case, desc, p, n)), view' = view, reshaped' = reshaped
  PROVE  Faithful'
<1> DEFINE run == Run(c, case, desc, p, n)
<1>1. IF run.copies = {} THEN General("general") ELSE \E e \in run.copies : Done(case, e)
  BY Zenon DEF Attempted
<1>2. CASE General("general")
  BY <1>2, FaithfulGeneral, Zenon
<1>3. ASSUME NEW e \in run.copies, Done(case, e) PROVE Faithful'
  <2>1. ASSUME case # "combined", ~reshaped
        PROVE  e = Elements(view.sizes, view.strides, view.offset)
    <3>1. run = [copies |-> {PlainCopy(case, desc, p)}, cache |-> c, numel |-> n]
      BY <2>1, Zenon DEF Run
    <3>2. case \in Plain
      BY <2>1 DEF Cases
    <3> HIDE DEF run
    <3>3. e = PlainCopy(case, desc, p)
      BY <1>3, <3>1
    <3>4. p \in PlainMatch(case, desc)
      BY <2>1, MatchPlain, Zenon
    <3> QED
      BY <2>1, <3>2, <3>3, <3>4, PlainCopyExact, Zenon
  <2> QED
    BY <1>3, <2>1, FaithfulOf, Zenon
<1> QED
  BY <1>1, <1>2, <1>3, Zenon

LEMMA FaithfulCopy ==
  ASSUME Shapes, CacheHolds, Linear, CopyStep PROVE Faithful'
<1>1. view' = view /\ reshaped' = reshaped
  BY Zenon DEF CopyStep
<1>2. CASE RunCached
  <2> DEFINE e == cache[GetHash_(desc)]
  <2>1. Hit(cache, desc)
        /\ Attempted(e.case, Run(cache, e.case, desc, e.params, storage.numel))
    BY <1>2, Zenon DEF RunCached
  <2>2. e.case \in Storable /\ e.params \in Match(e.case, desc)
    BY <2>1, HitIs, Zenon DEF CacheHolds
  <2>3. e.case \in Cases
    BY <2>2, CasesAre, Zenon
  <2> HIDE DEF e
  <2> QED
    BY <1>1, <2>1, <2>2, <2>3, FaithfulAttempted, Zenon
<1>3. ASSUME NEW cases \in Listed, RunPlain(cases) PROVE Faithful'
  <2>1. \E e \in FirstPlain(cache, desc, cases).copies :
          Done(FirstPlain(cache, desc, cases).case, e)
    BY <1>3, Zenon DEF RunPlain
  <2> QED
    BY <1>1, <2>1, FaithfulFirst, Zenon
<1>4. ASSUME NEW cases \in Listed, RunCombined(cases) PROVE Faithful'
  <2>1. PICK p \in can_use_combined(desc) :
          Attempted("combined", combined_to_contiguous(cache, desc, p, storage.numel))
    BY <1>4, Zenon DEF RunCombined
  <2>2. /\ combined_to_contiguous(cache, desc, p, storage.numel)
             = Run(cache, "combined", desc, p, storage.numel)
        /\ p \in Match("combined", desc)
    BY Zenon DEF Run, Match
  <2>3. Attempted("combined", Run(cache, "combined", desc, p, storage.numel))
    BY <2>1, <2>2, Zenon
  <2> QED
    BY <1>1, <2>2, <2>3, FaithfulAttempted, CasesAre, Zenon
<1>5. CASE CopyOnly
  <2>1. ASSUME NEW case, General(case) PROVE Faithful'
    BY <1>1, <2>1, FaithfulGeneral, Zenon
  <2>2. ASSUME Divides0(desc) PROVE Faithful'
    <3>1. reshaped
      BY <2>2, NothingDivided, Zenon
    <3> QED
      BY <1>1, <3>1, Zenon DEF Faithful
  <2>3. ASSUME NEW cases \in Listed,
               \E e \in FirstPlain(cache, desc, cases).copies :
                 Done(FirstPlain(cache, desc, cases).case, e)
        PROVE  Faithful'
    BY <1>1, <2>3, FaithfulFirst, Zenon
  <2> QED
    BY <1>5, <2>1, <2>2, <2>3, Zenon DEF CopyOnly
<1> QED
  BY <1>2, <1>3, <1>4, <1>5, Zenon DEF CopyStep

LEMMA FaithfulNext == Shapes /\ CacheHolds /\ Linear /\ Faithful /\ [Next]_vars => Faithful'
<1> SUFFICES ASSUME Shapes, CacheHolds, Linear, Faithful, [Next]_vars PROVE Faithful'
  OBVIOUS
<1>1. CASE UNCHANGED vars
  BY <1>1, Zenon DEF vars, Faithful
<1>2. CASE Whole \/ ViewStep \/ AsOperand \/ \E s \in Resizes : resize_(s)
  BY <1>2, OtherSteps, Zenon DEF Faithful
<1>3. CASE CopyStep
  BY <1>3, FaithfulCopy
<1> QED
  BY <1>1, <1>2, <1>3, NextSplit, Zenon

LEMMA FaithfulInit == Init => Faithful
  BY Zenon DEF Init, Faithful

\* A view that comes of the described tensor by narrowing, selecting, transposing,
\* expanding and squeezing is copied element by element, by whichever of the single
\* optimizers takes it and from the cache or not: what can_use_select and
\* can_use_indexing read off the sizes and strides alone is, of such a view, where
\* its elements are. Nor does clone divide by a stride of 0 of such a view.
THEOREM PlainCopiesExact ==
  Spec => [](copy.case # "combined" => CopyOfViewExact)
<1>1. Init => Linear /\ Faithful
  BY LinearInit, FaithfulInit
<1>2. Kept /\ Linear /\ Faithful /\ [Next]_vars => Linear' /\ Faithful'
  BY LinearNext, FaithfulNext, Zenon DEF Kept
<1>3. Spec => [](Linear /\ Faithful)
  BY <1>1, <1>2, KeptAlways, PTL DEF Spec
<1>4. Faithful => (copy.case # "combined" => CopyOfViewExact)
  BY Zenon DEF Faithful, CopyOfViewExact
<1> QED
  BY <1>3, <1>4, PTL

------------------------------------------------------------------------------
(* The cache is not seen: what is copied with it would be without it.        *)

\* What a selection lacks has size 1 when it is all of the elements: it is then
\* contiguous, as what it is selected from is.
LEMMA SelectsAll ==
  ASSUME NEW d, Based(d), can_use_permute(d) # {}, can_use_select(d) # {}
  PROVE  is_contiguous(d)
<1> DEFINE b == d.base_sizes
           s == d.sizes
           k == Lacking(d)
<1>1. DescOK(d) /\ is_contiguous(DescBase(d))
  BY Zenon DEF Based, BaseOK
<1>2. Lacks(s, b, k) /\ Lacks(d.strides, d.base_strides, k)
  BY <1>1, SelectIs, Zenon
<1>3. /\ b \in Seq(Int) /\ s \in Seq(Int) /\ Len(s) \in Nat /\ Len(b) \in Nat
      /\ DOMAIN s = 1 .. Len(s) /\ DOMAIN b = 1 .. Len(b)
      /\ Len(d.strides) = Len(s) /\ Len(d.base_strides) = Len(b)
  BY <1>1, ShapeType, Zenon DEF DescOK
<1>4. multiply_integers(s) = multiply_integers(b)
  BY Zenon DEF can_use_permute
<1> HIDE DEF b, s, k
<1>5. multiply_integers(b) = multiply_integers(s) * b[k]
  BY <1>2, <1>3, ProductLacking, Zenon DEF Lacks
<1>6. multiply_integers(s) \in Int /\ multiply_integers(s) >= 1
  <2>1. s \in Seq(Nat \ {0})
    BY <1>1, Zenon DEF DescOK, ShapeOK, s
  <2>2. \A i \in 1 .. Len(s) : s[i] >= 1
    BY <2>1
  <2> QED
    BY <1>3, <2>2, ProductPositive, ProductType, Zenon
<1>7. b[k] = 1
  <2>1. b[k] \in Int
    BY <1>2, <1>3 DEF Lacks
  <2>2. \A m, x \in Int : m >= 1 /\ m = m * x => x = 1
    OBVIOUS
  <2> QED
    BY <1>4, <1>5, <1>6, <2>1, <2>2, Zenon
<1>8. \A j \in 1 .. Len(s) :
        ComputeStrideFromShape(s)[j] = ComputeStrideFromShape(b)[IF j < k THEN j ELSE j + 1]
  BY <1>2, <1>3, <1>7, StrideWithout, Zenon
<1>9. ASSUME NEW j \in 1 .. Len(s), s[j] # 1
      PROVE  d.strides[j] = ComputeStrideFromShape(s)[j]
  <2> DEFINE i == IF j < k THEN j ELSE j + 1
  <2>1. i \in 1 .. Len(b) /\ s[j] = b[i] /\ d.strides[j] = d.base_strides[i]
    <3>1. /\ k \in 1 .. Len(b) /\ Len(s) + 1 = Len(b) /\ Len(s) \in Nat
          /\ s[j] = IF j < k THEN b[j] ELSE b[j + 1]
          /\ d.strides[j] = IF j < k THEN d.base_strides[j] ELSE d.base_strides[j + 1]
      BY <1>2, <1>3, Zenon DEF Lacks
    <3> QED
      BY <3>1
  <2>2. ComputeStrideFromShape(s)[j] = ComputeStrideFromShape(b)[i]
    BY <1>8
  <2> HIDE DEF i
  <2>3. DescBase(d).sizes = b /\ DescBase(d).strides = d.base_strides
    BY DEF DescBase, b
  <2>4. d.base_strides[i] = ComputeStrideFromShape(b)[i]
    BY <1>1, <1>3, <1>9, <2>1, <2>3, Zenon DEF is_contiguous
  <2> QED
    BY <2>1, <2>2, <2>4, Zenon
<1> QED
  BY <1>3, <1>9, Zenon DEF is_contiguous, s

\* The first case that applies copies the same with any cache.
LEMMA FirstSame ==
  ASSUME NEW c, NEW d, NEW cases
  PROVE  FirstPlain(c, d, cases).copies = FirstPlain(<<>>, d, cases).copies
<1> DEFINE able == {k \in DOMAIN cases : PlainMatch(cases[k], d) # {}}
           case == cases[Min(able)]
           q == Chosen(case, d)
           x(e) == FirstPlain(e, d, cases)
<1>1. ASSUME NEW e
      PROVE  x(e).copies = IF able = {} THEN {} ELSE {PlainCopy(case, d, q)}
  <2>1. CASE able = {}
    <3>1. x(e) = [case |-> "none", copies |-> {}, cache |-> e]
      BY <2>1, Zenon DEF FirstPlain, RunFirst
    <3> HIDE DEF x, able, case, q
    <3> QED
      BY <2>1, <3>1
  <2>2. CASE able # {}
    <3>1. x(e) = [case |-> case, copies |-> {PlainCopy(case, d, q)},
                  cache |-> Stored(e, d, case, q)]
      BY <2>2, Zenon DEF FirstPlain, RunFirst, RunCase
    <3> HIDE DEF x, able, case, q
    <3> QED
      BY <2>2, <3>1
  <2> QED
    BY <2>1, <2>2
<1> HIDE DEF able, case, q
<1> QED
  BY <1>1, Zenon

\* The cases of a copy within a combined one: those of the first copy are only
\* given when one of them applies.
Given(d, cases) ==
  \/ cases = LastCases
  \/ cases = FirstCases /\ can_be_optimize_from_default_cases(d)

Exactly(d) == Elements(d.sizes, d.strides, d.offset)

\* The copy of the first that applies is exact, when it is not a selection.
LEMMA FirstExact ==
  ASSUME NEW c, NEW d, DescOK(d), NEW cases \in Seq(Plain), NEW k \in 1 .. Len(cases),
         PlainMatch(cases[k], d) # {},
         \A j \in 1 .. Len(cases) : FirstOf(cases, d, j) => cases[j] \in ExactCases
  PROVE  FirstPlain(c, d, cases).copies = {Exactly(d)}
<1>1. ~ \A j \in 1 .. Len(cases) : PlainMatch(cases[j], d) = {}
  BY Zenon
<1>2. ASSUME NEW j \in 1 .. Len(cases), NEW p, p = Chosen(cases[j], d),
             FirstOf(cases, d, j), p \in PlainMatch(cases[j], d),
             FirstPlain(c, d, cases).copies = {PlainCopy(cases[j], d, p)}
      PROVE  FirstPlain(c, d, cases).copies = {Exactly(d)}
  <2>1. cases[j] \in ExactCases
    BY <1>2, Zenon
  <2>2. PlainCopy(cases[j], d, p) = Exactly(d)
    BY <1>2, <2>1, PlainExact, Zenon DEF Exactly
  <2> QED
    BY <1>2, <2>2, Zenon
<1> QED
  BY <1>1, <1>2, FirstPlainIs, Zenon

\* So it is, when a slice or a permutation would apply.
LEMMA GivenExact ==
  ASSUME NEW d, Based(d), NEW cases, Given(d, cases), NEW case \in Single,
         PlainMatch(case, d) # {}
  PROVE  FirstPlain(<<>>, d, cases).copies = {Exactly(d)}
<1>1. DescOK(d)
  BY Zenon DEF Based
<1>2. CASE cases = LastCases
  <2>1. /\ cases \in Seq(Plain) /\ Len(cases) = 4 /\ cases[1] = "reshape"
        /\ cases[2] = "permute" /\ cases[3] = "slice" /\ cases[4] = "select"
    BY <1>2, CasesGiven DEF LastCases
  <2>2. PICK k \in {2, 3} : cases[k] = case
    BY <2>1 DEF Single
  <2>3. k \in 1 .. Len(cases) /\ PlainMatch(cases[k], d) # {} /\ k <= 3
    BY <2>1, <2>2
  <2>4. ASSUME NEW j \in 1 .. Len(cases), FirstOf(cases, d, j) PROVE cases[j] \in ExactCases
    <3>1. j <= k
      BY <2>3, <2>4, Zenon DEF FirstOf
    <3>2. j \in {1, 2, 3}
      BY <2>1, <2>3, <3>1
    <3> QED
      BY <2>1, <3>2 DEF ExactCases
  <2> QED
    BY <1>1, <2>1, <2>3, <2>4, FirstExact, Zenon
<1>3. CASE cases = FirstCases /\ can_be_optimize_from_default_cases(d)
  <2>1. /\ cases \in Seq(Plain) /\ Len(cases) = 3 /\ cases[1] = "reshape"
        /\ cases[2] = "slice" /\ cases[3] = "select"
    BY <1>3, CasesGiven DEF FirstCases
  <2>2. \E k \in 1 .. Len(cases) : PlainMatch(cases[k], d) # {}
    <3>1. PICK x \in {"reshape", "slice", "select"} : PlainMatch(x, d) # {}
      BY <1>3, Zenon DEF can_be_optimize_from_default_cases
    <3>2. \E k \in 1 .. Len(cases) : cases[k] = x
      BY <2>1
    <3> QED
      BY <3>1, <3>2, Zenon
  <2>3. ASSUME NEW j \in 1 .. Len(cases), FirstOf(cases, d, j) PROVE cases[j] \in ExactCases
    <3>1. 1 \in 1 .. Len(cases) /\ 2 \in 1 .. Len(cases) /\ j \in {1, 2, 3}
      BY <2>1
    <3>2. j = 3 => PlainMatch("reshape", d) = {} /\ PlainMatch("slice", d) = {}
      <4>1. ~(3 <= 1) /\ ~(3 <= 2)
        OBVIOUS
      <4> QED
        BY <2>1, <2>3, <3>1, <4>1, Zenon DEF FirstOf
    <3>3. j # 3
      <4> SUFFICES ASSUME j = 3 PROVE FALSE
        OBVIOUS
      <4>1. PlainMatch("select", d) # {}
        <5>1. ASSUME PlainMatch("select", d) = {} PROVE FALSE
          <6>1. PICK x \in 1 .. Len(cases) : PlainMatch(cases[x], d) # {}
            BY <2>2
          <6>2. x \in {1, 2, 3}
            BY <2>1
          <6> QED
            BY <2>1, <3>2, <5>1, <6>1, <6>2
        <5> QED
          BY <5>1
      <4>2. case = "permute"
        BY <3>2 DEF Single
      <4>3. /\ PlainMatch("permute", d) = can_use_permute(d)
            /\ PlainMatch("select", d) = can_use_select(d)
            /\ PlainMatch("reshape", d) = check_reshape_match(d)
        BY DEF PlainMatch
      <4>4. is_contiguous(d)
        BY <4>1, <4>2, <4>3, SelectsAll, Zenon
      <4>5. check_reshape_match(d) # {}
        BY <4>4 DEF check_reshape_match
      <4> QED
        BY <3>2, <4>3, <4>5, Zenon
    <3> QED
      BY <2>1, <3>1, <3>3 DEF ExactCases
  <2> QED
    BY <1>1, <2>1, <2>2, <2>3, FirstExact, Zenon
<1> QED
  BY <1>2, <1>3, Zenon DEF Given

LEMMA GivenIs ==
  ASSUME NEW c, NEW d, NEW cases
  PROVE  LET e == c[GetHash_(d)]
             r == CopyByGivenCases(c, d, cases)
         IN  /\ ~Hit(c, d) => r.copies = FirstPlain(<<>>, d, cases).copies
             /\ (Hit(c, d) /\ e.case \in Plain) => r.copies = {PlainCopy(e.case, d, e.params)}
             /\ (Hit(c, d) /\ e.case \notin Plain) => r.copies = {}
<1> DEFINE e == c[GetHash_(d)]
           x == IF e.case \in Plain THEN {PlainCopy(e.case, d, e.params)} ELSE {}
           r == CopyByGivenCases(c, d, cases)
<1>1. CASE Hit(c, d)
  <2>1. r = [copies |-> x, cache |-> c]
    BY <1>1, Zenon DEF CopyByGivenCases
  <2> HIDE DEF r, x
  <2>2. r.copies = x
    BY <2>1
  <2> QED
    BY <1>1, <2>2, Zenon DEF r, x
<1>2. CASE ~Hit(c, d)
  <2>1. r = FirstPlain(c, d, cases)
    BY <1>2, Zenon DEF CopyByGivenCases
  <2> HIDE DEF r
  <2>2. r.copies = FirstPlain(<<>>, d, cases).copies
    BY <2>1, FirstSame, Zenon
  <2> QED
    BY <1>2, <2>2, Zenon DEF r
<1> QED
  BY <1>1, <1>2

\* A copy within a combined one, from the cache or not, is what it would be with
\* an empty cache; but for one that finds the entry of a combined copy.
LEMMA GivenSame ==
  ASSUME NEW c, NEW n, Holds(c, n, Storable), NEW d, Based(d), NEW cases, Given(d, cases)
  PROVE  LET r == CopyByGivenCases(c, d, cases)
             f == FirstPlain(<<>>, d, cases)
         IN  r.copies = {} \/ r.copies = f.copies
<1> DEFINE e == c[GetHash_(d)]
<1>1. CASE ~Hit(c, d)
  BY <1>1, GivenIs, Zenon
<1>2. CASE Hit(c, d) /\ e.case \notin Plain
  BY <1>2, GivenIs, Zenon
<1>3. CASE Hit(c, d) /\ e.case \in Plain
  <2>1. e.case \in Storable /\ e.params \in Match(e.case, d)
    BY <1>3, HitIs, Zenon
  <2>2. e.case \in Single
    <3>1. "combined" \notin Plain
      BY DEF Plain
    <3>2. e.case # "combined"
      BY <1>3, <3>1
    <3> HIDE DEF e
    <3> QED
      BY <2>1, <3>2 DEF Storable
  <2>3. e.params \in PlainMatch(e.case, d) /\ e.case \in ExactCases
    BY <2>1, <2>2, MatchSingle, Zenon
  <2>4. DescOK(d)
    BY Zenon DEF Based
  <2>5. PlainCopy(e.case, d, e.params) = Exactly(d)
    BY <2>3, <2>4, PlainExact, Zenon DEF Exactly
  <2>6. PlainMatch(e.case, d) # {}
    <3> HIDE DEF e
    <3> QED
      BY <2>3
  <2>7. FirstPlain(<<>>, d, cases).copies = {Exactly(d)}
    BY <2>2, <2>6, GivenExact, Zenon
  <2>8. CopyByGivenCases(c, d, cases).copies = {PlainCopy(e.case, d, e.params)}
    BY <1>3, GivenIs, Zenon
  <2> QED
    BY <2>5, <2>7, <2>8, Zenon
<1> QED
  BY <1>1, <1>2, <1>3, Zenon

\* With slices and permutations only in the cache there is none of these.
LEMMA GivenSingle ==
  ASSUME NEW c, NEW n, Holds(c, n, Single), NEW d, Based(d), NEW cases, Given(d, cases)
  PROVE  CopyByGivenCases(c, d, cases).copies = FirstPlain(<<>>, d, cases).copies
<1> DEFINE e == c[GetHash_(d)]
<1>1. CASE ~Hit(c, d)
  BY <1>1, GivenIs, Zenon
<1>2. CASE Hit(c, d)
  <2>1. e.case \in Single /\ e.params \in Match(e.case, d)
    BY <1>2, HitIs, Zenon
  <2>2. /\ e.params \in PlainMatch(e.case, d) /\ e.case \in ExactCases /\ e.case \in Plain
    BY <2>1, MatchSingle, Zenon
  <2>3. DescOK(d)
    BY Zenon DEF Based
  <2>4. PlainCopy(e.case, d, e.params) = Exactly(d)
    BY <2>2, <2>3, PlainExact, Zenon DEF Exactly
  <2>5. PlainMatch(e.case, d) # {}
    <3> HIDE DEF e
    <3> QED
      BY <2>2
  <2>6. FirstPlain(<<>>, d, cases).copies = {Exactly(d)}
    BY <2>1, <2>5, GivenExact, Zenon
  <2>7. CopyByGivenCases(c, d, cases).copies = {PlainCopy(e.case, d, e.params)}
    BY <1>2, <2>2, GivenIs, Zenon
  <2> QED
    BY <2>4, <2>6, <2>7, Zenon
<1> QED
  BY <1>1, <1>2

LEMMA NothingStored == Holds(<<>>, CachedMaxSize, Single)
<1>1. DOMAIN <<>> = {}
  OBVIOUS
<1>2. Cardinality(DOMAIN <<>>) <= CachedMaxSize
  <2>1. Cardinality(DOMAIN <<>>) = 0 /\ CachedMaxSize \in Nat
    BY <1>1, FS_EmptySet, CacheAssumption
  <2> QED
    BY <2>1
<1> QED
  BY <1>1, <1>2, Zenon DEF Holds

\* Two caches, the second without combined copies: the copies of the first are
\* those of the second, or none.
Fewer(A, B) == A = {} \/ A = B

LEMMA SecondSame ==
  ASSUME NEW c, NEW n, Holds(c, n, Storable), NEW k, NEW m, Holds(k, m, Single),
         NEW o, NEW s, Viewed(o), StorageOK(s)
  PROVE  Fewer(SecondCopy(c, o, s).copies, SecondCopy(k, o, s).copies)
<1> DEFINE d == SecondDesc(o, s)
<1>1. Based(d) /\ Given(d, LastCases)
  BY SecondBased, Zenon DEF Given
<1>2. /\ SecondCopy(c, o, s) = CopyByGivenCases(c, d, LastCases)
      /\ SecondCopy(k, o, s) = CopyByGivenCases(k, d, LastCases)
  BY Zenon DEF SecondCopy
<1> HIDE DEF d
<1>3. \/ CopyByGivenCases(c, d, LastCases).copies = {}
      \/ CopyByGivenCases(c, d, LastCases).copies = FirstPlain(<<>>, d, LastCases).copies
  BY <1>1, GivenSame, Zenon
<1>4. CopyByGivenCases(k, d, LastCases).copies = FirstPlain(<<>>, d, LastCases).copies
  BY <1>1, GivenSingle, Zenon
<1> QED
  BY <1>2, <1>3, <1>4, Zenon DEF Fewer

LEMMA ThroughSame ==
  ASSUME NEW c, NEW n, n \in Nat, CachedMaxSize <= n, Holds(c, n, Storable),
         NEW o, NEW i, NEW s, Viewed(o), Viewed(i), StorageOK(s),
         can_be_optimize_from_default_cases(FirstDesc(i, s))
  PROVE  Fewer(ThroughTransfer(c, o, i, s).copies, ThroughTransfer(<<>>, o, i, s).copies)
<1> DEFINE f == FirstCopy(c, i, s)
           g == FirstCopy(<<>>, i, s)
           x == SecondCopy(f.cache, o, Transfer(i))
           y == SecondCopy(g.cache, o, Transfer(i))
           t == ThroughTransfer(c, o, i, s)
           u == ThroughTransfer(<<>>, o, i, s)
<1>1. Bounds(n, Storable) /\ Bounds(CachedMaxSize, Single) /\ Holds(<<>>, CachedMaxSize, Single)
  BY CacheBounds, NothingStored, Zenon DEF Bounds
<1>2. /\ Based(FirstDesc(i, s)) /\ Holds(f.cache, n, Storable)
      /\ Holds(g.cache, CachedMaxSize, Single)
  BY <1>1, FirstCopyHolds, Zenon
<1>3. Given(FirstDesc(i, s), FirstCases)
  BY Zenon DEF Given
<1>4. /\ f.copies = {} \/ f.copies = FirstPlain(<<>>, FirstDesc(i, s), FirstCases).copies
      /\ g.copies = FirstPlain(<<>>, FirstDesc(i, s), FirstCases).copies
  <2> DEFINE d == FirstDesc(i, s)
  <2>1. /\ f.copies = CopyByGivenCases(c, d, FirstCases).copies
        /\ g.copies = CopyByGivenCases(<<>>, d, FirstCases).copies
    BY Zenon DEF FirstCopy
  <2>2. Based(d) /\ Given(d, FirstCases)
    BY <1>2, <1>3, Zenon
  <2> HIDE DEF d, f, g
  <2>3. \/ CopyByGivenCases(c, d, FirstCases).copies = {}
        \/ CopyByGivenCases(c, d, FirstCases).copies = FirstPlain(<<>>, d, FirstCases).copies
    BY <2>2, GivenSame, Zenon
  <2>4. CopyByGivenCases(<<>>, d, FirstCases).copies = FirstPlain(<<>>, d, FirstCases).copies
    BY <1>1, <2>2, GivenSingle, Zenon
  <2> QED
    BY <2>1, <2>3, <2>4, Zenon DEF d
<1>5. StorageOK(Transfer(i))
  BY TransferOK, Zenon
<1>6. Fewer(x.copies, y.copies)
  <2> HIDE DEF f, g
  <2> QED
    BY <1>2, <1>5, SecondSame, Zenon
<1>7. /\ (f.copies = {} /\ t.copies = {}) \/ (f.copies # {} /\ t.copies = Composed(f.copies, x.copies))
      /\ (g.copies = {} /\ u.copies = {}) \/ (g.copies # {} /\ u.copies = Composed(g.copies, y.copies))
  BY ThroughIs, Zenon
<1> HIDE DEF f, g, x, y, t, u
<1>8. \A A : Composed(A, {}) = {}
  BY DEF Composed
<1>9. CASE t.copies = {}
  BY <1>9, Zenon DEF Fewer, t, u
<1>10. CASE t.copies # {}
  <2>1. f.copies # {} /\ t.copies = Composed(f.copies, x.copies)
    BY <1>7, <1>10, Zenon
  <2>2. f.copies = g.copies
    BY <1>4, <2>1, Zenon
  <2>3. x.copies = y.copies
    BY <1>6, <1>8, <1>10, <2>1, Zenon DEF Fewer
  <2>4. u.copies = t.copies
    BY <1>7, <2>1, <2>2, <2>3, Zenon
  <2> QED
    BY <2>4, Zenon DEF Fewer, t, u
<1> QED
  BY <1>9, <1>10

LEMMA TwoSame ==
  ASSUME NEW c, NEW n, n \in Nat, CachedMaxSize <= n, Holds(c, n, Storable),
         NEW o, NEW i, NEW s, Viewed(o), Viewed(i), StorageOK(s)
  PROVE  Fewer(TwoCopies(c, o, i, s).copies, TwoCopies(<<>>, o, i, s).copies)
<1>1. CASE AsItIs(i, s)
  <2>1. /\ TwoCopies(c, o, i, s) = SecondCopy(c, o, Refreshed(i, s))
        /\ TwoCopies(<<>>, o, i, s) = SecondCopy(<<>>, o, Refreshed(i, s))
    BY <1>1, TwoIs, Zenon
  <2>2. StorageOK(Refreshed(i, s))
    BY <1>1, RefreshedOK, Zenon DEF AsItIs
  <2> QED
    BY <2>1, <2>2, SecondSame, NothingStored, Zenon
<1>2. CASE ~AsItIs(i, s) /\ can_be_optimize_from_default_cases(FirstDesc(i, s))
  <2>1. /\ TwoCopies(c, o, i, s) = ThroughTransfer(c, o, i, s)
        /\ TwoCopies(<<>>, o, i, s) = ThroughTransfer(<<>>, o, i, s)
    BY <1>2, TwoIs, Zenon
  <2> QED
    BY <1>2, <2>1, ThroughSame, Zenon
<1>3. CASE ~AsItIs(i, s) /\ ~can_be_optimize_from_default_cases(FirstDesc(i, s))
  <2>1. TwoCopies(c, o, i, s).copies = {}
    BY <1>3, TwoIs, Zenon
  <2> QED
    BY <2>1, Zenon DEF Fewer
<1> QED
  BY <1>1, <1>2, <1>3

LEMMA CombinedSame ==
  ASSUME NEW c, NEW n, n \in Nat, CachedMaxSize <= n, Holds(c, n, Storable),
         NEW d, Based(d), NEW p \in can_use_combined(d), NEW m \in Nat \ {0}
  PROVE  Fewer(combined_to_contiguous(c, d, p, m).copies,
               combined_to_contiguous(<<>>, d, p, m).copies)
<1> DEFINE s == WithInner(d, p, m)
           o == OuterOf(p, s)
<1>1. StorageOK(s) /\ Viewed(o) /\ Viewed(p.inner)
  BY CombinedStorage, Zenon
<1>2. /\ combined_to_contiguous(c, d, p, m).copies = TwoCopies(c, o, p.inner, s).copies
      /\ combined_to_contiguous(<<>>, d, p, m).copies = TwoCopies(<<>>, o, p.inner, s).copies
  <2>1. ASSUME NEW k
        PROVE  combined_to_contiguous(k, d, p, m).copies = TwoCopies(k, o, p.inner, s).copies
    BY CombinedRun
  <2> QED
    BY <2>1, Zenon
<1> HIDE DEF s, o
<1>3. Fewer(TwoCopies(c, o, p.inner, s).copies, TwoCopies(<<>>, o, p.inner, s).copies)
  BY <1>1, TwoSame, Zenon
<1> QED
  BY <1>2, <1>3, Zenon

LEMMA AfreshOf ==
  ASSUME NEW case, NEW p \in Match(case, desc),
         NEW e \in Run(<<>>, case, desc, p, storage.numel).copies
  PROVE  e \in Afresh(case)
  BY DEF Afresh

LEMMA RunIs ==
  ASSUME NEW case, case # "combined", NEW p
  PROVE  \A c : Run(c, case, desc, p, storage.numel).copies = {PlainCopy(case, desc, p)}
<1> TAKE c
<1>1. Run(c, case, desc, p, storage.numel)
        = [copies |-> {PlainCopy(case, desc, p)}, cache |-> c, numel |-> storage.numel]
  BY Zenon DEF Run
<1> QED
  BY <1>1

\* What an optimizer copies, with parameters that match.
LEMMA RunAfresh ==
  ASSUME Shapes, Room, CacheHolds, NEW case \in Cases, NEW p \in Match(case, desc),
         NEW e \in Run(cache, case, desc, p, storage.numel).copies
  PROVE  e \in Afresh(case)
<1>1. CASE case = "combined"
  <2> DEFINE A == combined_to_contiguous(cache, desc, p, storage.numel).copies
             B == combined_to_contiguous(<<>>, desc, p, storage.numel).copies
  <2>1. /\ Run(cache, case, desc, p, storage.numel).copies = A
        /\ Run(<<>>, case, desc, p, storage.numel).copies = B
        /\ p \in can_use_combined(desc)
    BY <1>1, Zenon DEF Run, Match
  <2>2. storage.numel \in Nat \ {0} /\ Based(desc)
    BY RoomTypes, Zenon
  <2>3. CachedMaxSize + 1 \in Nat /\ CachedMaxSize <= CachedMaxSize + 1
    BY CacheAssumption
  <2>4. Fewer(A, B)
    BY <2>1, <2>2, <2>3, CombinedSame, Zenon DEF CacheHolds
  <2> HIDE DEF A, B
  <2>5. e \in B
    BY <2>1, <2>4, Zenon DEF Fewer
  <2> QED
    BY <2>1, <2>5, AfreshOf, Zenon
<1>2. CASE case # "combined"
  <2>1. /\ Run(cache, case, desc, p, storage.numel).copies = {PlainCopy(case, desc, p)}
        /\ Run(<<>>, case, desc, p, storage.numel).copies = {PlainCopy(case, desc, p)}
    BY <1>2, RunIs, Zenon
  <2> QED
    BY <2>1, AfreshOf, Zenon
<1> QED
  BY <1>1, <1>2

Transparent ==
  copy'.case \in Plain \union {"combined"} => copy'.elements \in Afresh(copy'.case)

LEMMA TransparentOther ==
  ASSUME copy'.case \in Simple \union {"none", "divided by zero"} PROVE Transparent
<1>1. copy'.case \notin Plain \union {"combined"}
  BY DEF Simple, Plain
<1> QED
  BY <1>1, Zenon DEF Transparent

LEMMA TransparentOf ==
  ASSUME NEW case, NEW e, Done(case, e), e \in Afresh(case) PROVE Transparent
  BY DoneIs, Zenon DEF Transparent

LEMMA TransparentGeneral ==
  ASSUME NEW case \in Simple, General(case) PROVE Transparent
<1>1. copy'.case = case
  BY DoneIs, Zenon DEF General
<1> QED
  BY <1>1, TransparentOther, Zenon

LEMMA TransparentFirst ==
  ASSUME Shapes, NEW c, NEW cases \in Listed,
         \E e \in FirstPlain(c, desc, cases).copies : Done(FirstPlain(c, desc, cases).case, e)
  PROVE  Transparent
<1> DEFINE case == FirstPlain(c, desc, cases).case
<1>1. PICK e \in FirstPlain(c, desc, cases).copies : Done(case, e)
  OBVIOUS
<1>2. case \in Plain /\ \E p \in PlainMatch(case, desc) : e = PlainCopy(case, desc, p)
  BY FirstRead, Zenon
<1> HIDE DEF case
<1>3. PICK p \in PlainMatch(case, desc) : e = PlainCopy(case, desc, p)
  BY <1>2
<1>4. case # "combined"
  BY <1>2 DEF Plain
<1>5. /\ p \in Match(case, desc)
      /\ Run(<<>>, case, desc, p, storage.numel).copies = {PlainCopy(case, desc, p)}
  BY <1>4, MatchPlain, RunIs, Zenon
<1>6. e \in Afresh(case)
  BY <1>3, <1>5, AfreshOf, Zenon
<1> QED
  BY <1>1, <1>6, TransparentOf, Zenon

LEMMA TransparentAttempted ==
  ASSUME Shapes, Room, CacheHolds, NEW case \in Cases, NEW p \in Match(case, desc),
         Attempted(case, Run(cache, case, desc, p, storage.numel))
  PROVE  Transparent
<1> DEFINE run == Run(cache, case, desc, p, storage.numel)
<1>1. IF run.copies = {} THEN General("general") ELSE \E e \in run.copies : Done(case, e)
  BY Zenon DEF Attempted
<1>2. CASE General("general")
  BY <1>2, TransparentGeneral, CaseNames, Zenon
<1>3. ASSUME NEW e \in run.copies, Done(case, e) PROVE Transparent
  <2>1. e \in Afresh(case)
    BY <1>3, RunAfresh, Zenon
  <2> QED
    BY <1>3, <2>1, TransparentOf, Zenon
<1> QED
  BY <1>1, <1>2, <1>3, Zenon

LEMMA TransparentCopy ==
  ASSUME Shapes, Room, CacheHolds, CopyStep PROVE Transparent
<1>1. CASE RunCached
  <2> DEFINE e == cache[GetHash_(desc)]
  <2>1. Hit(cache, desc)
        /\ Attempted(e.case, Run(cache, e.case, desc, e.params, storage.numel))
    BY <1>1, Zenon DEF RunCached
  <2>2. e.case \in Storable /\ e.params \in Match(e.case, desc)
    BY <2>1, HitIs, Zenon DEF CacheHolds
  <2>3. e.case \in Cases
    BY <2>2, CasesAre, Zenon
  <2> HIDE DEF e
  <2> QED
    BY <2>1, <2>2, <2>3, TransparentAttempted, Zenon
<1>2. ASSUME NEW cases \in Listed, RunPlain(cases) PROVE Transparent
  <2>1. \E e \in FirstPlain(cache, desc, cases).copies :
          Done(FirstPlain(cache, desc, cases).case, e)
    BY <1>2, Zenon DEF RunPlain
  <2> QED
    BY <2>1, TransparentFirst, Zenon
<1>3. ASSUME NEW cases \in Listed, RunCombined(cases) PROVE Transparent
  <2>1. PICK p \in can_use_combined(desc) :
          Attempted("combined", combined_to_contiguous(cache, desc, p, storage.numel))
    BY <1>3, Zenon DEF RunCombined
  <2>2. /\ combined_to_contiguous(cache, desc, p, storage.numel)
             = Run(cache, "combined", desc, p, storage.numel)
        /\ p \in Match("combined", desc)
    BY Zenon DEF Run, Match
  <2>3. Attempted("combined", Run(cache, "combined", desc, p, storage.numel))
    BY <2>1, <2>2, Zenon
  <2> QED
    BY <2>2, <2>3, TransparentAttempted, CasesAre, Zenon
<1>4. CASE CopyOnly
  <2>1. ASSUME NEW case \in {"memcpy", "general"}, General(case) PROVE Transparent
    BY <2>1, TransparentGeneral, Zenon DEF Simple
  <2>2. ASSUME Done("divided by zero", <<>>) PROVE Transparent
    <3>1. copy'.case = "divided by zero"
      BY <2>2, DoneIs, Zenon
    <3>2. "divided by zero" \in Simple \union {"none", "divided by zero"}
      OBVIOUS
    <3> QED
      BY <3>1, <3>2, TransparentOther, Zenon
  <2>3. ASSUME NEW cases \in Listed,
               \E e \in FirstPlain(cache, desc, cases).copies :
                 Done(FirstPlain(cache, desc, cases).case, e)
        PROVE  Transparent
    BY <2>3, TransparentFirst, Zenon
  <2> QED
    BY <1>4, <2>1, <2>2, <2>3, Zenon DEF CopyOnly
<1> QED
  BY <1>1, <1>2, <1>3, <1>4, Zenon DEF CopyStep

LEMMA TransparentNext ==
  ASSUME Kept, Next PROVE Transparent
<1>1. Shapes /\ Room /\ CacheHolds
  BY Zenon DEF Kept
<1>2. CASE CopyStep
  BY <1>1, <1>2, TransparentCopy
<1>3. CASE Whole \/ ViewStep \/ AsOperand \/ \E s \in Resizes : resize_(s)
  <2>1. copy'.case = "none"
    BY <1>3, OtherSteps, NoCopyHolds, Zenon
  <2>2. "none" \in Simple \union {"none", "divided by zero"}
    OBVIOUS
  <2> QED
    BY <2>1, <2>2, TransparentOther, Zenon
<1> QED
  BY <1>1, <1>2, <1>3, NextSplit, Zenon

\* A copy reads what its optimizer would read of the view had nothing ever been
\* stored: the entries that copies of views store, those that the copies within a
\* combined one store, under descriptions the storage has only in the meantime, and
\* the hits of either on entries of the other make no difference.  Rests on: a hit
\* needs an equal description, of the storage too; slices and permutations, which
\* may be found where another case would have been tried first, are exact; and a
\* selection that is also a permutation is contiguous, so that it is reshaped.  (A
\* copy within a combined one that finds the entry of a combined copy is not
\* modelled any further, and copies nothing: see NeverNested.)
THEOREM CacheIsTransparent == Spec => CacheTransparent
<1>1. Kept /\ [Next]_vars => [Transparent]_vars
  BY TransparentNext, Zenon
<1>2. Spec => [][Transparent]_vars
  BY <1>1, KeptAlways, PTL DEF Spec
<1> QED
  BY <1>2, Zenon DEF CacheTransparent, Transparent

=============================================================================
