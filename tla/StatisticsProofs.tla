---------------------------- MODULE StatisticsProofs ----------------------------
(***************************************************************************)
(* The statistics of CachingAllocator, in every reachable state.           *)
(*                                                                         *)
(* StatsExact compares numbers that the code keeps by increments with      *)
(* cardinalities and sums over the heap. The sums are folds over finite    *)
(* sets; their laws (a member more, a member less, a part replaced) are    *)
(* proved first, from the least counterexample of a set of numbers, since  *)
(* the library's induction theorems cannot be cited. StatsInv states the   *)
(* counts as Tally(heap, set, number, bytes); each operation then changes  *)
(* one or two sets by one or two blocks.                                   *)
(***************************************************************************)
EXTENDS CachingAllocatorProofs

-------------------------------------------------------------------------------
\* Sums of sizes over finite sets of blocks.

\* The sum of the sizes of the blocks in S.
Bytes(h, S) == MapThenSumSet(LAMBDA p : h[p].size, S)

\* The member that the fold of MapThenSumSet takes next.
Picked(s) == CHOOSE x \in s : TRUE

\* g sums the sizes of the sets in D the way the fold does.
IsSum(h, D, g) ==
  g = [s \in D |-> IF s = {} THEN 0 ELSE h[Picked(s)].size + g[s \ {Picked(s)}]]

\* ... of every subset of S.
SumsUp(h, S, g) == IsSum(h, SUBSET S, g)

\* A set that is not empty has a picked member.
LEMMA PickedIn == ASSUME NEW s, s # {} PROVE Picked(s) \in s
BY DEF Picked

\* What the provers have for induction over finite sets.
LEMMA FiniteSetInduction ==
  ASSUME NEW S, IsFiniteSet(S), NEW G,
         \A T \in SUBSET S : (\A x \in T : T \ {x} \in G) => T \in G
  PROVE  \A T \in SUBSET S : T \in G
<1> SUFFICES ASSUME NEW T0 \in SUBSET S, T0 \notin G PROVE FALSE
  OBVIOUS
<1> DEFINE Bad == {T \in SUBSET S : T \notin G}
           N == {Cardinality(T) : T \in Bad}
<1>1. N \subseteq Nat /\ N # {}
  BY FS_Subset, FS_CardinalityType
<1>2. PICK n \in N : \A m \in N : n <= m
  BY <1>1, LeastMember
<1>3. PICK T \in Bad : Cardinality(T) = n
  OBVIOUS
<1>4. IsFiniteSet(T) /\ n \in Nat
  BY <1>1, FS_Subset
<1>5. ASSUME NEW x \in T PROVE T \ {x} \in G
  <2>1. Cardinality(T \ {x}) = n - 1
    BY <1>3, <1>4, FS_RemoveElement
  <2>2. T \ {x} \in Bad => n - 1 \in N
    BY <2>1
  <2> QED
    BY <2>2, <1>2, <1>4
<1> QED
  BY <1>5

\* Bytes is what the fold computes from any function that sums.
LEMMA BytesUnfolds ==
  ASSUME NEW h, NEW S
  PROVE  Bytes(h, S) = (CHOOSE g : SumsUp(h, S, g))[S]
BY DEF Bytes, MapThenSumSet, MapThenFoldSet, SumsUp, IsSum, Picked

\* The sets of at most n elements.
UpTo(S, n) == {s \in SUBSET S : Cardinality(s) <= n}

\* Every finite set has a function that sums over its subsets: by induction on
\* the number of elements.
LEMMA SumExists ==
  ASSUME NEW h, NEW S, IsFiniteSet(S)
  PROVE  \E g : SumsUp(h, S, g)
<1> DEFINE Bad == {n \in Nat : ~\E g : IsSum(h, UpTo(S, n), g)}
<1>1. \A s \in SUBSET S : IsFiniteSet(s) /\ Cardinality(s) \in Nat /\ Cardinality(s) <= Cardinality(S)
  BY FS_Subset, FS_CardinalityType
<1>2. 0 \notin Bad
  <2> DEFINE g == [s \in UpTo(S, 0) |-> 0]
  <2>1. \A s \in UpTo(S, 0) : s = {}
    BY <1>1, FS_EmptySet DEF UpTo
  <2>2. IsSum(h, UpTo(S, 0), g)
    BY <2>1 DEF IsSum
  <2> QED
    BY <2>2
<1>3. ASSUME NEW n \in Nat, n \notin Bad PROVE n + 1 \notin Bad
  <2>1. PICK g : IsSum(h, UpTo(S, n), g)
    BY <1>3
  <2> DEFINE k == [s \in UpTo(S, n + 1) |->
                     IF s = {} THEN 0 ELSE h[Picked(s)].size + g[s \ {Picked(s)}]]
  <2>2. \A s \in UpTo(S, n) : s \in UpTo(S, n + 1) /\ k[s] = g[s]
    <3> SUFFICES ASSUME NEW s \in UpTo(S, n) PROVE s \in UpTo(S, n + 1) /\ k[s] = g[s]
      OBVIOUS
    <3>1. s \in UpTo(S, n + 1)
      BY <1>1 DEF UpTo
    <3>2. g[s] = IF s = {} THEN 0 ELSE h[Picked(s)].size + g[s \ {Picked(s)}]
      BY <2>1 DEF IsSum
    <3> QED
      BY <3>1, <3>2
  <2>3. \A s \in UpTo(S, n + 1) : s # {} => s \ {Picked(s)} \in UpTo(S, n)
    BY <1>1, PickedIn, FS_RemoveElement DEF UpTo
  <2>4. IsSum(h, UpTo(S, n + 1), k)
    <3>1. \A s \in UpTo(S, n + 1) : s # {} => k[s \ {Picked(s)}] = g[s \ {Picked(s)}]
      BY <2>2, <2>3
    <3>2. k = [s \in UpTo(S, n + 1) |->
                     IF s = {} THEN 0 ELSE h[Picked(s)].size + k[s \ {Picked(s)}]]
      BY <3>1
    <3> QED
      BY <3>2 DEF IsSum
  <2> QED
    BY <2>4
<1>4. Bad = {}
  <2> SUFFICES ASSUME Bad # {} PROVE FALSE
    OBVIOUS
  <2>1. PICK n \in Bad : \A m \in Bad : n <= m
    BY LeastMember
  <2>2. n # 0 /\ n - 1 \in Nat /\ n - 1 \notin Bad
    BY <2>1, <1>2
  <2> QED
    BY <2>2, <1>3
<1>5. Cardinality(S) \in Nat /\ UpTo(S, Cardinality(S)) = SUBSET S
  BY <1>1, FS_CardinalityType DEF UpTo
<1>6. Cardinality(S) \notin Bad
  BY <1>4
<1> QED
  BY <1>5, <1>6 DEF SumsUp

\* Two functions that sum agree on what they share.
LEMMA SumUnique ==
  ASSUME NEW h, NEW S, NEW T, NEW f, NEW g, IsFiniteSet(T), T \subseteq S,
         SumsUp(h, S, f), SumsUp(h, T, g)
  PROVE  \A s \in SUBSET T : f[s] = g[s]
<1> DEFINE G == {s \in SUBSET T : f[s] = g[s]}
<1>1. ASSUME NEW s \in SUBSET T, \A x \in s : s \ {x} \in G PROVE s \in G
  <2>1. /\ f[s] = IF s = {} THEN 0 ELSE h[Picked(s)].size + f[s \ {Picked(s)}]
        /\ g[s] = IF s = {} THEN 0 ELSE h[Picked(s)].size + g[s \ {Picked(s)}]
    BY DEF SumsUp, IsSum
  <2> QED
    BY <2>1, <1>1, PickedIn
<1> HIDE DEF G
<1>2. \A s \in SUBSET T : s \in G
  BY <1>1, FiniteSetInduction
<1> QED
  BY <1>2 DEF G

\* The sum, one block at a time.
LEMMA BytesStep ==
  ASSUME NEW h, NEW S, IsFiniteSet(S)
  PROVE  Bytes(h, S) = IF S = {} THEN 0 ELSE h[Picked(S)].size + Bytes(h, S \ {Picked(S)})
<1> DEFINE T == S \ {Picked(S)}
           f == CHOOSE g : SumsUp(h, S, g)
           k == CHOOSE g : SumsUp(h, T, g)
<1>1. IsFiniteSet(T) /\ T \subseteq S
  BY FS_RemoveElement
<1>2. SumsUp(h, S, f) /\ SumsUp(h, T, k)
  BY <1>1, SumExists
<1>3. Bytes(h, S) = f[S] /\ Bytes(h, T) = k[T]
  BY BytesUnfolds
<1>4. f[S] = IF S = {} THEN 0 ELSE h[Picked(S)].size + f[T]
  BY <1>2 DEF SumsUp, IsSum
<1> HIDE DEF f, k, T
<1>5. f[T] = k[T]
  <2>1. \A s \in SUBSET T : f[s] = k[s]
    BY <1>1, <1>2, SumUnique
  <2> QED
    BY <2>1
<1> QED
  BY <1>3, <1>4, <1>5 DEF T

\* Sizes that can be added up.
Sized(h, S) == IsFiniteSet(S) /\ \A p \in S : h[p].size \in Int

\* A sum of integer sizes is an integer.
LEMMA BytesType ==
  ASSUME NEW h, NEW S, Sized(h, S)
  PROVE  Bytes(h, S) \in Int
<1> DEFINE G == {T \in SUBSET S : Bytes(h, T) \in Int}
<1>1. ASSUME NEW T \in SUBSET S, \A x \in T : T \ {x} \in G PROVE T \in G
  <2>1. IsFiniteSet(T)
    BY FS_Subset DEF Sized
  <2>2. Bytes(h, T) = IF T = {} THEN 0 ELSE h[Picked(T)].size + Bytes(h, T \ {Picked(T)})
    BY <2>1, BytesStep
  <2>3. T # {} => Bytes(h, T \ {Picked(T)}) \in Int /\ h[Picked(T)].size \in Int
    BY <1>1, PickedIn DEF Sized
  <2> QED
    BY <2>2, <2>3
<1> HIDE DEF G
<1>2. \A T \in SUBSET S : T \in G
  BY <1>1, FiniteSetInduction DEF Sized
<1> QED
  BY <1>2 DEF G

\* Any block may be taken out.
LEMMA BytesRemove ==
  ASSUME NEW h, NEW S, Sized(h, S), NEW p \in S
  PROVE  Bytes(h, S) = h[p].size + Bytes(h, S \ {p})
<1> DEFINE G == {T \in SUBSET S : \A x \in T : Bytes(h, T) = h[x].size + Bytes(h, T \ {x})}
<1>1. ASSUME NEW T \in SUBSET S, \A x \in T : T \ {x} \in G PROVE T \in G
  <2> SUFFICES ASSUME NEW x \in T PROVE Bytes(h, T) = h[x].size + Bytes(h, T \ {x})
    OBVIOUS
  <2> DEFINE c == Picked(T)
  <2>1. IsFiniteSet(T) /\ c \in T
    BY FS_Subset, PickedIn DEF Sized
  <2>2. Bytes(h, T) = h[c].size + Bytes(h, T \ {c})
    BY <2>1, BytesStep
  <2> HIDE DEF c
  <2>3. CASE x = c
    BY <2>2, <2>3
  <2>4. CASE x # c
    <3>1. T \ {c} \in G /\ T \ {x} \in G
      BY <1>1, <2>1
    <3>2. /\ Bytes(h, T \ {c}) = h[x].size + Bytes(h, (T \ {c}) \ {x})
          /\ Bytes(h, T \ {x}) = h[c].size + Bytes(h, (T \ {x}) \ {c})
      BY <3>1, <2>1, <2>4
    <3> DEFINE r == Bytes(h, (T \ {c}) \ {x})
    <3>3. Bytes(h, (T \ {x}) \ {c}) = r
      <4>1. (T \ {c}) \ {x} = (T \ {x}) \ {c}
        OBVIOUS
      <4> QED
        BY <4>1
    <3>4. h[c].size \in Int /\ h[x].size \in Int /\ Bytes(h, (T \ {c}) \ {x}) \in Int
      <4>1. Sized(h, (T \ {c}) \ {x})
        BY FS_Subset DEF Sized
      <4> QED
        BY <4>1, <2>1, BytesType DEF Sized
    <3> HIDE DEF r
    <3>5. Bytes(h, T) = h[c].size + (h[x].size + r) /\ Bytes(h, T \ {x}) = h[c].size + r
      BY <3>2, <3>3, <2>2, Zenon DEF r
    <3> QED
      BY <3>4, <3>5 DEF r
  <2> QED
    BY <2>3, <2>4
<1> HIDE DEF G
<1>2. \A T \in SUBSET S : T \in G
  BY <1>1, FiniteSetInduction DEF Sized
<1> QED
  BY <1>2 DEF G

\* The sum depends on the sizes of the members only.
LEMMA BytesSame ==
  ASSUME NEW h, NEW k, NEW S, Sized(h, S), \A p \in S : k[p].size = h[p].size
  PROVE  Bytes(k, S) = Bytes(h, S)
<1> DEFINE G == {T \in SUBSET S : Bytes(k, T) = Bytes(h, T)}
<1>1. ASSUME NEW T \in SUBSET S, \A x \in T : T \ {x} \in G PROVE T \in G
  <2>1. IsFiniteSet(T)
    BY FS_Subset DEF Sized
  <2>2. /\ Bytes(h, T) = IF T = {} THEN 0 ELSE h[Picked(T)].size + Bytes(h, T \ {Picked(T)})
        /\ Bytes(k, T) = IF T = {} THEN 0 ELSE k[Picked(T)].size + Bytes(k, T \ {Picked(T)})
    BY <2>1, BytesStep
  <2> QED
    BY <2>2, <1>1, PickedIn
<1> HIDE DEF G
<1>2. \A T \in SUBSET S : T \in G
  BY <1>1, FiniteSetInduction DEF Sized
<1> QED
  BY <1>2 DEF G

\* The empty set has no bytes.
LEMMA BytesNone == ASSUME NEW h PROVE Bytes(h, {}) = 0
BY BytesStep, FS_EmptySet

\* S has n blocks, of m units together.
Tally(h, S, n, m) == n = Cardinality(S) /\ m = Bytes(h, S)

\* Both counts of a tally are integers.
LEMMA TallyType ==
  ASSUME NEW h, NEW S, Sized(h, S), NEW n, NEW m, Tally(h, S, n, m)
  PROVE  n \in Nat /\ m \in Int
BY BytesType, FS_CardinalityType DEF Tally, Sized

\* The tally of no blocks.
LEMMA TallyNone == ASSUME NEW h PROVE Tally(h, {}, 0, 0) /\ Sized(h, {})
BY BytesNone, FS_EmptySet DEF Tally, Sized

\* Heaps that agree on the sizes of S give S the same tally.
LEMMA TallySame ==
  ASSUME NEW h, NEW k, NEW S, NEW n, NEW m, Sized(h, S), Tally(h, S, n, m),
         \A x \in S : k[x].size = h[x].size
  PROVE  Tally(k, S, n, m)
BY BytesSame DEF Tally

\* A block joins a set ...
LEMMA TallyAdd ==
  ASSUME NEW h, NEW k, NEW S, NEW p, NEW n, NEW m, Sized(h, S), Tally(h, S, n, m),
         p \notin S, k[p].size \in Int, \A x \in S : k[x].size = h[x].size
  PROVE  Sized(k, S \cup {p}) /\ Tally(k, S \cup {p}, n + 1, m + k[p].size)
<1>1. Sized(k, S \cup {p}) /\ IsFiniteSet(S)
  BY FS_AddElement DEF Sized
<1>2. Bytes(k, S \cup {p}) = k[p].size + Bytes(k, (S \cup {p}) \ {p})
  BY <1>1, BytesRemove
<1>3. (S \cup {p}) \ {p} = S
  OBVIOUS
<1>4. Bytes(k, S) = m /\ m \in Int
  BY TallySame, TallyType DEF Tally
<1>5. Cardinality(S \cup {p}) = n + 1
  BY <1>1, FS_AddElement DEF Tally
<1>6. Bytes(k, S \cup {p}) = k[p].size + m
  BY <1>2, <1>3, <1>4
<1> QED
  BY <1>1, <1>4, <1>5, <1>6 DEF Tally

\* A block joins a set, while the others keep their sizes.
LEMMA TallyJoin ==
  ASSUME NEW h, NEW S, NEW p, NEW n, NEW m, Sized(h, S), Tally(h, S, n, m),
         p \notin S, h[p].size \in Int
  PROVE  Sized(h, S \cup {p}) /\ Tally(h, S \cup {p}, n + 1, m + h[p].size)
<1>1. \A x \in S : h[x].size = h[x].size
  OBVIOUS
<1> QED
  BY <1>1, TallyAdd, Zenon

\* ... or leaves it, while the others keep their sizes.
LEMMA TallyRemove ==
  ASSUME NEW h, NEW k, NEW S, NEW p, NEW n, NEW m, Sized(h, S), Tally(h, S, n, m),
         p \in S, \A x \in S \ {p} : k[x].size = h[x].size
  PROVE  Sized(k, S \ {p}) /\ Tally(k, S \ {p}, n - 1, m - h[p].size)
<1>1. IsFiniteSet(S) /\ IsFiniteSet(S \ {p}) /\ h[p].size \in Int
  BY FS_RemoveElement DEF Sized
<1>2. Sized(h, S \ {p}) /\ Sized(k, S \ {p})
  BY <1>1 DEF Sized
<1>3. Bytes(h, S) = h[p].size + Bytes(h, S \ {p})
  BY BytesRemove
<1>4. Bytes(k, S \ {p}) = Bytes(h, S \ {p}) /\ Bytes(h, S \ {p}) \in Int
  BY <1>2, BytesSame, BytesType
<1>5. Cardinality(S \ {p}) = n - 1
  BY <1>1, FS_RemoveElement DEF Tally
<1>6. m - h[p].size = Bytes(k, S \ {p})
  BY <1>1, <1>3, <1>4 DEF Tally
<1> QED
  BY <1>2, <1>5, <1>6 DEF Tally

\* A set counts as much as a part of it and the rest together.
LEMMA TallySplit ==
  ASSUME NEW h, NEW S, NEW K, Sized(h, S), K \subseteq S
  PROVE  /\ Sized(h, K) /\ Sized(h, S \ K)
         /\ Bytes(h, S) = Bytes(h, K) + Bytes(h, S \ K)
         /\ Cardinality(S) = Cardinality(K) + Cardinality(S \ K)
<1>1. \A T \in SUBSET S : Sized(h, T) /\ IsFiniteSet(T)
  BY FS_Subset DEF Sized
<1> DEFINE G == {T \in SUBSET S : /\ Bytes(h, S) = Bytes(h, T) + Bytes(h, S \ T)
                                  /\ Cardinality(S) = Cardinality(T) + Cardinality(S \ T)}
<1>2. ASSUME NEW T \in SUBSET S, \A x \in T : T \ {x} \in G PROVE T \in G
  <2>1. CASE T = {}
    <3>1. S \ T = S /\ Bytes(h, T) = 0 /\ Cardinality(T) = 0
      BY <2>1, BytesNone, FS_EmptySet
    <3>2. Bytes(h, S) \in Int /\ Cardinality(S) \in Nat
      BY BytesType, FS_CardinalityType DEF Sized
    <3>3. Bytes(h, S \ T) = Bytes(h, S) /\ Cardinality(S \ T) = Cardinality(S)
      BY <3>1
    <3> QED
      BY <3>1, <3>2, <3>3
  <2>2. ASSUME NEW x \in T PROVE T \in G
    <3> DEFINE A == T \ {x}
               B == S \ T
               C == S \ A
    <3>1. A \in G /\ A \in SUBSET S /\ B \in SUBSET S /\ C \in SUBSET S
      BY <1>2, <2>2
    <3>2. /\ Bytes(h, S) = Bytes(h, A) + Bytes(h, C)
          /\ Cardinality(S) = Cardinality(A) + Cardinality(C)
      BY <3>1
    <3>3. x \in C /\ C \ {x} = B
      BY <2>2
    <3> HIDE DEF B, C
    <3>4. Bytes(h, C) = h[x].size + Bytes(h, B) /\ Bytes(h, T) = h[x].size + Bytes(h, A)
      BY <3>1, <3>3, <2>2, <1>1, BytesRemove
    <3>5. Cardinality(C) = Cardinality(B) + 1 /\ Cardinality(T) = Cardinality(A) + 1
      <4>1. IsFiniteSet(T) /\ IsFiniteSet(C)
        BY <3>1, <1>1
      <4>2. /\ Cardinality(B) = Cardinality(C) - 1 /\ Cardinality(A) = Cardinality(T) - 1
            /\ Cardinality(C) \in Nat /\ Cardinality(T) \in Nat
        BY <4>1, <3>3, <2>2, FS_RemoveElement, FS_CardinalityType
      <4> QED
        BY <4>2
    <3>6. /\ h[x].size \in Int /\ Bytes(h, A) \in Int /\ Bytes(h, B) \in Int
          /\ Cardinality(A) \in Nat /\ Cardinality(B) \in Nat
      BY <3>1, <1>1, <2>2, BytesType, FS_CardinalityType DEF Sized
    <3>7. /\ Bytes(h, S) = Bytes(h, T) + Bytes(h, B)
          /\ Cardinality(S) = Cardinality(T) + Cardinality(B)
      <4> HIDE DEF A
      <4> QED
        BY <3>2, <3>4, <3>5, <3>6
    <3> QED
      BY <3>7 DEF B
  <2> QED
    BY <2>1, <2>2
<1> HIDE DEF G
<1>3. \A T \in SUBSET S : T \in G
  BY <1>2, FiniteSetInduction DEF Sized
<1> QED
  BY <1>1, <1>3 DEF G

\* Part of a set is replaced by other blocks.
LEMMA TallySwap ==
  ASSUME NEW h, NEW k, NEW S, NEW T, NEW K, Sized(h, S), Sized(k, T),
         K \subseteq S, K \subseteq T, \A x \in K : k[x].size = h[x].size,
         NEW n, NEW m, Tally(h, S, n, m),
         NEW n1, NEW m1, Tally(h, S \ K, n1, m1), NEW n2, NEW m2, Tally(k, T \ K, n2, m2)
  PROVE  Tally(k, T, n - n1 + n2, m - m1 + m2)
<1>1. /\ Sized(h, K) /\ Sized(h, S \ K)
      /\ Bytes(h, S) = Bytes(h, K) + Bytes(h, S \ K)
      /\ Cardinality(S) = Cardinality(K) + Cardinality(S \ K)
  BY TallySplit
<1>2. /\ Sized(k, K) /\ Sized(k, T \ K)
      /\ Bytes(k, T) = Bytes(k, K) + Bytes(k, T \ K)
      /\ Cardinality(T) = Cardinality(K) + Cardinality(T \ K)
  BY TallySplit
<1>3. Bytes(k, K) = Bytes(h, K)
  BY <1>1, BytesSame
<1>4. /\ Bytes(h, K) \in Int /\ Bytes(h, S \ K) \in Int /\ Bytes(k, T \ K) \in Int
      /\ Cardinality(K) \in Nat /\ Cardinality(S \ K) \in Nat /\ Cardinality(T \ K) \in Nat
  BY <1>1, <1>2, BytesType, FS_CardinalityType DEF Sized
<1> QED
  BY <1>1, <1>2, <1>3, <1>4 DEF Tally

-------------------------------------------------------------------------------
\* The sizes of merged blocks.

\* The blocks of a heap have sizes to add up.
LEMMA HeapSized ==
  ASSUME NEW h, HeapType(h), IsFiniteSet(DOMAIN h), NEW S, S \subseteq DOMAIN h
  PROVE  Sized(h, S)
<1>1. IsFiniteSet(S)
  BY FS_Subset
<1>2. \A x \in S : h[x].size \in Int
  BY BlockType
<1> QED
  BY <1>1, <1>2 DEF Sized

\* The merged block is as large as the blocks that went into it.
LEMMA CoalesceTally ==
  ASSUME NEW sg, NEW h, Tiled(sg, h), IsFiniteSet(DOMAIN h), NEW d \in DOMAIN h
  PROVE  /\ Tally(h, Subsumed(h, d),
                  Bit(SubsumedPrev(h, d) # {}) + Bit(SubsumedNext(h, d) # {}),
                  Coalesce(h, d)[Lead(h, d)].size - h[d].size)
         /\ d \notin Subsumed(h, d) /\ Subsumed(h, d) \subseteq DOMAIN h
<1> DEFINE P == SubsumedPrev(h, d)
           N == SubsumedNext(h, d)
           q == Lead(h, d)
           g == MergePrev(h, d)
           k == Coalesce(h, d)
<1>1. HeapType(h) /\ Apart(h) /\ P \subseteq DOMAIN h /\ N \subseteq DOMAIN h
  BY DEF Tiled, SubsumedPrev, SubsumedNext, PrevSet, NextSet
<1>2. \A x \in DOMAIN h : x \in Nat /\ h[x] \in Block /\ h[x].size \in Nat /\ h[x].size > 0 /\ x < End(h, x)
  BY <1>1, BlockType
<1>3. /\ \A x \in P : x < d /\ x + h[x].size = d
      /\ \A x \in N : d < x /\ x = d + h[d].size
  BY <1>2 DEF SubsumedPrev, SubsumedNext, PrevSet, NextSet, Linked, End
<1>4. Tally(h, P, Bit(P # {}), g[q].size - h[d].size) /\ g[q].size \in Int /\ q \in DOMAIN g
  <2>1. CASE P = {}
    <3>1. g = h /\ q = d
      BY <2>1 DEF MergePrev, Lead
    <3> QED
      BY <2>1, <3>1, <1>2, TallyNone DEF Bit
  <2>2. CASE P # {}
    <3>1. q \in P
      BY <2>2 DEF Lead
    <3>2. P = {q}
      BY <3>1, <1>1, OnePrev DEF SubsumedPrev
    <3>3. q \in DOMAIN h /\ q # d /\ d \in DOMAIN h
      BY <3>1, <1>1, <1>3, <1>2
    <3>4. g = [x \in DOMAIN h \ {d} |->
                 IF x = q THEN [h[d] EXCEPT !.size = h[q].size + @] ELSE h[x]]
      BY <2>2 DEF MergePrev
    <3>5. g[q].size = h[q].size + h[d].size /\ q \in DOMAIN g
      BY <3>3, <3>4, <1>2 DEF Block
    <3>6. Tally(h, {} \cup {q}, 0 + 1, 0 + h[q].size)
      <4>1. Sized(h, {}) /\ Tally(h, {}, 0, 0) /\ q \notin {} /\ h[q].size \in Int
        BY <3>3, <1>2, TallyNone
      <4> HIDE DEF q
      <4> QED
        BY <4>1, TallyJoin, Zenon
    <3>7. Tally(h, P, 1, h[q].size)
      <4>1. P = {} \cup {q} /\ 0 + 1 = 1 /\ 0 + h[q].size = h[q].size
        BY <3>2, <3>3, <1>2
      <4> QED
        BY <3>6, <4>1
    <3> QED
      <4>1. g[q].size - h[d].size = h[q].size /\ g[q].size \in Int
        BY <3>3, <3>5, <1>2
      <4> QED
        BY <2>2, <3>5, <3>7, <4>1 DEF Bit
  <2> QED
    BY <2>1, <2>2
<1>5. SubsumedNext(g, q) = N /\ \A r \in N : g[r] = h[r]
  BY NextAfterPrev
<1>6. k = MergeNext(g, q)
  BY DEF Coalesce
<1>7. Sized(h, P)
  BY <1>1, HeapSized
<1> HIDE DEF P, N, q, g, k
<1>8. Tally(h, P \cup N, Bit(P # {}) + Bit(N # {}), k[q].size - h[d].size)
  <2>1. CASE N = {}
    <3>1. k = g /\ P \cup N = P
      BY <2>1, <1>5, <1>6 DEF MergeNext
    <3>2. Bit(P # {}) + Bit(N # {}) = Bit(P # {})
      BY <2>1 DEF Bit
    <3> QED
      BY <3>1, <3>2, <1>4
  <2>2. CASE N # {}
    <3> DEFINE r == CHOOSE x \in N : TRUE
    <3>1. r \in N /\ r \in DOMAIN h /\ r \notin P
      BY <2>2, <1>1, <1>2, <1>3
    <3>2. N = {r}
      BY <3>1, <1>3
    <3>3. k = [x \in DOMAIN g \ {r} |-> IF x = q THEN [g[q] EXCEPT !.size = @ + g[r].size] ELSE g[x]]
      BY <2>2, <1>5, <1>6 DEF MergeNext
    <3> HIDE DEF r
    <3>4. g[r].size = h[r].size
      BY <3>1, <1>5
    <3>5. q # r
      BY <3>1, <1>2, <1>3 DEF q, P, Lead
    <3>6. k[q].size = g[q].size + h[r].size
      <4>1. k[q] = [g[q] EXCEPT !.size = @ + g[r].size]
        BY <3>3, <3>5, <1>4
      <4>2. g[q] = [h[d] EXCEPT !.size = g[q].size]
        <5>1. P = {} => g[q] = h[d] /\ h[d] \in Block
          BY <1>2 DEF g, q, P, MergePrev, Lead
        <5>2. Joins(sg, h, d, MergePrev(h, d), Lead(h, d), SubsumedPrev(h, d))
          BY MergePrevJoins
        <5>3. P # {} => g[q] = [h[d] EXCEPT !.size = g[q].size]
          BY <5>2 DEF Joins, g, q
        <5> QED
          BY <5>1, <5>3 DEF Block
      <4> QED
        BY <4>1, <4>2, <3>4, <1>2 DEF Block
    <3>7. Tally(h, P \cup {r}, Bit(P # {}) + 1, (g[q].size - h[d].size) + h[r].size)
      <4>1. h[r].size \in Int
        BY <3>1, <1>2
      <4> QED
        BY <4>1, <3>1, <1>4, <1>7, TallyJoin, Zenon
    <3>8. /\ P \cup N = P \cup {r} /\ Bit(P # {}) + Bit(N # {}) = Bit(P # {}) + 1
          /\ k[q].size - h[d].size = (g[q].size - h[d].size) + h[r].size
      BY <2>2, <3>1, <3>2, <3>6, <1>2, <1>4 DEF Bit
    <3> QED
      BY <3>7, <3>8
  <2> QED
    BY <2>1, <2>2
<1>9. Subsumed(h, d) = P \cup N
  BY DEF Subsumed, P, N
<1>10. d \notin P \cup N
  BY <1>2, <1>3
<1> QED
  BY <1>1, <1>8, <1>9, <1>10 DEF P, N, q, k

-------------------------------------------------------------------------------
\* What the statistics count, and what leaves the counts alone.

-----------------------------------------------------------------------------
(* What is counted *)

\* The blocks of one pool: those the program holds, those it or an event holds, ...
UsedOf(h, act, small)   == {x \in act : h[x].small = small /\ h[x].allocated}
ActiveOf(h, act, small) == {x \in act : h[x].small = small}

\* ... those with memory behind them, ...
MappedOf(h, small) == {x \in DOMAIN h : h[x].small = small /\ h[x].mapped}

\* ... and those that are not in use and only part of a segment.
PartsOf(sg, h, act, small) ==
  {x \in DOMAIN h \ act : h[x].small = small /\ ~Whole(sg, h, x)}

\* The segments of one pool.
SegmentsOf(sg, h, small) == {a \in DOMAIN sg : h[a].small = small}

\* The blocks in use are counted exactly,
UseCounts(h, act, c, small) ==
  /\ Tally(h, UsedOf(h, act, small), c.allocation, c.allocated_bytes)
  /\ Tally(h, ActiveOf(h, act, small), c.active, c.active_bytes)

\* the mapped memory is,
MapCounts(h, c, small) == c.reserved_bytes = Bytes(h, MappedOf(h, small))

\* and so are the free parts of segments, and the segments.
PartCounts(sg, h, act, c, small) ==
  /\ Tally(h, PartsOf(sg, h, act, small), c.inactive_split, c.inactive_split_bytes)
  /\ c.segment = Cardinality(SegmentsOf(sg, h, small))

\* The statistics st agree with the segments sg, the heap h and the active blocks.
Counts(sg, h, act, st) ==
  /\ IsFiniteSet(DOMAIN h)
  /\ \A small \in BOOLEAN :
       /\ UseCounts(h, act, st[small], small)
       /\ MapCounts(h, st[small], small)
       /\ ~ExpandableSegments => PartCounts(sg, h, act, st[small], small)

\* Blocks that are not in use do not count in UseCounts.
LEMMA UseFrame ==
  ASSUME NEW h, NEW k, NEW act, NEW act2, NEW small, NEW c, NEW c2,
         HeapType(h), IsFiniteSet(DOMAIN h), act \subseteq DOMAIN h,
         UseCounts(h, act, c, small),
         ActiveOf(k, act2, small) = ActiveOf(h, act, small),
         \A x \in ActiveOf(h, act, small) :
           k[x].size = h[x].size /\ k[x].allocated = h[x].allocated,
         c2.allocation = c.allocation, c2.allocated_bytes = c.allocated_bytes,
         c2.active = c.active, c2.active_bytes = c.active_bytes
  PROVE  UseCounts(k, act2, c2, small)
<1>1. UsedOf(h, act, small) \subseteq DOMAIN h /\ ActiveOf(h, act, small) \subseteq DOMAIN h
  BY DEF UsedOf, ActiveOf
<1>2. Sized(h, UsedOf(h, act, small)) /\ Sized(h, ActiveOf(h, act, small))
  BY <1>1, HeapSized
<1>3. UsedOf(k, act2, small) = UsedOf(h, act, small)
  <2>1. /\ UsedOf(h, act, small) = {x \in ActiveOf(h, act, small) : h[x].allocated}
        /\ UsedOf(k, act2, small) = {x \in ActiveOf(k, act2, small) : k[x].allocated}
    BY DEF UsedOf, ActiveOf
  <2> QED
    BY <2>1
<1>4. \A x \in UsedOf(h, act, small) : k[x].size = h[x].size
  BY DEF UsedOf, ActiveOf
<1>5. /\ Tally(h, UsedOf(h, act, small), c.allocation, c.allocated_bytes)
      /\ Tally(h, ActiveOf(h, act, small), c.active, c.active_bytes)
  BY DEF UseCounts
<1>6. Tally(k, UsedOf(h, act, small), c.allocation, c.allocated_bytes)
  BY <1>2, <1>4, <1>5, TallySame
<1>7. Tally(k, ActiveOf(h, act, small), c.active, c.active_bytes)
  BY <1>2, <1>5, TallySame
<1> QED
  BY <1>3, <1>6, <1>7 DEF UseCounts

\* Nor unmapped ones in MapCounts ...
LEMMA MapFrame ==
  ASSUME NEW h, NEW k, NEW small, NEW c, NEW c2,
         HeapType(h), IsFiniteSet(DOMAIN h), MapCounts(h, c, small),
         MappedOf(k, small) = MappedOf(h, small),
         \A x \in MappedOf(h, small) : k[x].size = h[x].size,
         c2.reserved_bytes = c.reserved_bytes
  PROVE  MapCounts(k, c2, small)
<1>1. MappedOf(h, small) \subseteq DOMAIN h
  BY DEF MappedOf
<1>2. Sized(h, MappedOf(h, small))
  BY <1>1, HeapSized
<1> QED
  BY <1>2, BytesSame DEF MapCounts

\* ... nor blocks in use in PartCounts.
LEMMA PartFrame ==
  ASSUME NEW sg, NEW h, NEW k, NEW act, NEW act2, NEW small, NEW c, NEW c2,
         HeapType(h), IsFiniteSet(DOMAIN h), PartCounts(sg, h, act, c, small),
         PartsOf(sg, k, act2, small) = PartsOf(sg, h, act, small),
         \A x \in PartsOf(sg, h, act, small) : k[x].size = h[x].size,
         \A a \in DOMAIN sg : k[a].small = h[a].small,
         c2.inactive_split = c.inactive_split,
         c2.inactive_split_bytes = c.inactive_split_bytes,
         c2.segment = c.segment
  PROVE  PartCounts(sg, k, act2, c2, small)
<1>1. PartsOf(sg, h, act, small) \subseteq DOMAIN h
  BY DEF PartsOf
<1>2. Sized(h, PartsOf(sg, h, act, small))
  BY <1>1, HeapSized
<1>3. SegmentsOf(sg, k, small) = SegmentsOf(sg, h, small)
  BY DEF SegmentsOf
<1> QED
  BY <1>2, <1>3, TallySame DEF PartCounts

\* Fields that are not counted may change.
LEMMA CountsFrame ==
  ASSUME NEW sg, NEW h, NEW k, NEW act, NEW st, Tiled(sg, h), act \subseteq DOMAIN h,
         Counts(sg, h, act, st), DOMAIN k = DOMAIN h,
         \A x \in DOMAIN h :
           /\ k[x].size = h[x].size /\ k[x].seg = h[x].seg
           /\ k[x].small = h[x].small /\ k[x].mapped = h[x].mapped
           /\ x \in act => k[x].allocated = h[x].allocated
  PROVE  Counts(sg, k, act, st)
<1> SUFFICES ASSUME NEW small \in BOOLEAN
             PROVE  /\ UseCounts(k, act, st[small], small)
                    /\ MapCounts(k, st[small], small)
                    /\ ~ExpandableSegments => PartCounts(sg, k, act, st[small], small)
  BY DEF Counts
<1>1. HeapType(h) /\ IsFiniteSet(DOMAIN h) /\ \A a \in DOMAIN sg : a \in DOMAIN h
  BY DEF Counts, Tiled
<1>2. ActiveOf(k, act, small) = ActiveOf(h, act, small)
  BY DEF ActiveOf
<1>3. MappedOf(k, small) = MappedOf(h, small)
  BY DEF MappedOf
<1>4. PartsOf(sg, k, act, small) = PartsOf(sg, h, act, small)
  BY DEF PartsOf, Whole
<1>5. UseCounts(k, act, st[small], small)
  BY <1>1, <1>2, UseFrame DEF Counts, ActiveOf
<1>6. MapCounts(k, st[small], small)
  BY <1>1, <1>3, MapFrame DEF Counts, MappedOf
<1>7. ASSUME ~ExpandableSegments PROVE PartCounts(sg, k, act, st[small], small)
  <2>1. PartCounts(sg, h, act, st[small], small)
    BY <1>7 DEF Counts
  <2>2. \A x \in PartsOf(sg, h, act, small) : k[x].size = h[x].size
    BY DEF PartsOf
  <2>3. \A a \in DOMAIN sg : k[a].small = h[a].small
    BY <1>1
  <2> QED
    BY <2>1, <2>2, <2>3, <1>1, <1>4, PartFrame
<1> QED
  BY <1>5, <1>6, <1>7

\* The tally of one block.
LEMMA TallyOne ==
  ASSUME NEW h, NEW p, h[p].size \in Int
  PROVE  Sized(h, {p}) /\ Tally(h, {p}, 1, h[p].size)
<1>1. Sized(h, {}) /\ Tally(h, {}, 0, 0) /\ p \notin {}
  BY TallyNone
<1>2. Sized(h, {} \cup {p}) /\ Tally(h, {} \cup {p}, 0 + 1, 0 + h[p].size)
  BY <1>1, TallyJoin, Zenon
<1>3. {} \cup {p} = {p} /\ 0 + 1 = 1 /\ 0 + h[p].size = h[p].size
  OBVIOUS
<1> QED
  BY <1>2, <1>3

-----------------------------------------------------------------------------
(* free_block *)

\* What the merges do to the blocks, as far as they are counted.
CoalesceFacts(sg, h, d, c, q, gone) ==
  /\ d \in DOMAIN h /\ gone \subseteq DOMAIN h /\ d \notin gone /\ q \in gone \cup {d}
  /\ DOMAIN c = (DOMAIN h \ (gone \cup {d})) \cup {q} /\ q \in DOMAIN c
  /\ \A x \in DOMAIN c : x # q => c[x] = h[x] /\ x \notin gone \cup {d}
  /\ \A x \in gone \cup {d} : h[x].small = h[d].small /\ h[x].mapped = h[d].mapped
  /\ \A x \in gone : ~h[x].allocated /\ ~Whole(sg, h, x)
  /\ c[q].small = h[d].small /\ c[q].mapped = h[d].mapped /\ c[q].size \in Nat
  /\ \A a \in DOMAIN sg : a \in DOMAIN h /\ c[a].small = h[a].small
  /\ IsSplit(c, q) <=> ~Whole(sg, c, q)
  /\ HeapType(h) /\ HeapType(c) /\ Tiled(sg, c)

\* Coalesce, which merges a freed block with its free neighbours, does that.
LEMMA CoalesceCounted ==
  ASSUME NEW sg, NEW h, NEW d \in DOMAIN h, Tiled(sg, h)
  PROVE  CoalesceFacts(sg, h, d, Coalesce(h, d), Lead(h, d), Subsumed(h, d))
<1> DEFINE c == Coalesce(h, d)
           q == Lead(h, d)
           gone == Subsumed(h, d)
<1>1. Joins(sg, h, d, c, q, gone) /\ q \in gone \cup {d}
  BY CoalesceJoins
<1>2. \A x \in gone : /\ x \in DOMAIN h /\ x # d /\ ~h[x].allocated
                      /\ h[x].mapped = h[d].mapped
  BY SubsumedAlone
<1>3. ASSUME NEW x \in gone PROVE (Linked(h, x, d) \/ Linked(h, d, x)) /\ h[x].seg = h[d].seg
  BY <1>3 DEF Subsumed, SubsumedPrev, SubsumedNext, PrevSet, NextSet, Linked
<1>4. ASSUME NEW x \in gone PROVE ~Whole(sg, h, x)
  <2>1. IsSplit(h, x)
    BY <1>3, <1>4 DEF IsSplit, PrevSet, NextSet
  <2> QED
    BY <2>1, <1>2, <1>4, WholeAlone
<1>5. \A x \in gone \cup {d} : h[x].small = h[d].small
  <2>1. \A x \in gone \cup {d} : x \in DOMAIN h /\ h[x].seg = h[d].seg
    BY <1>2, <1>3
  <2> QED
    BY <2>1 DEF Tiled, InSegment
<1> HIDE DEF c, q, gone
<1>6. /\ DOMAIN c = (DOMAIN h \ (gone \cup {d})) \cup {q} /\ q \in DOMAIN c
      /\ \A x \in DOMAIN c : x # q => c[x] = h[x]
      /\ c[q] = [h[d] EXCEPT !.size = c[q].size] /\ Tiled(sg, c)
  BY <1>1 DEF Joins
<1>7. h[d] \in Block /\ c[q].size \in Nat /\ HeapType(h) /\ HeapType(c)
  BY <1>6, BlockType DEF Tiled
<1>8. c[q].small = h[d].small /\ c[q].mapped = h[d].mapped
  BY <1>6, <1>7 DEF Block
<1>9. \A a \in DOMAIN sg : a \in DOMAIN h /\ c[a].small = h[a].small
  <2>1. \A a \in DOMAIN sg : a \in DOMAIN h /\ a \in DOMAIN c
    BY <1>6 DEF Tiled
  <2> QED
    BY <2>1, <1>1, <1>5, <1>6, <1>8
<1>10. IsSplit(c, q) <=> ~Whole(sg, c, q)
  BY <1>6, UnsplitIsWhole, WholeAlone
<1>11. \A x \in DOMAIN c : x # q => x \notin gone \cup {d}
  BY <1>6
<1>12. CoalesceFacts(sg, h, d, c, q, gone)
  BY <1>1, <1>2, <1>4, <1>5, <1>6, <1>7, <1>8, <1>9, <1>10, <1>11 DEF CoalesceFacts
<1> QED
  BY <1>12 DEF c, q, gone

\* The memory of the merged blocks is that of the merged block.
LEMMA CoalesceMapped ==
  ASSUME NEW sg, NEW h, NEW d \in DOMAIN h, Tiled(sg, h), IsFiniteSet(DOMAIN h), NEW small
  PROVE  Bytes(Coalesce(h, d), MappedOf(Coalesce(h, d), small)) = Bytes(h, MappedOf(h, small))
<1> DEFINE c == Coalesce(h, d)
           q == Lead(h, d)
           gone == Subsumed(h, d)
           S == MappedOf(h, small)
           T == MappedOf(c, small)
           n0 == Bit(SubsumedPrev(h, d) # {}) + Bit(SubsumedNext(h, d) # {})
<1>1. CoalesceFacts(sg, h, d, c, q, gone)
  BY CoalesceCounted
<1>2. Tally(h, gone, n0, c[q].size - h[d].size)
  BY CoalesceTally
<1>3. h[d].size \in Nat
  BY BlockType DEF Tiled
<1> HIDE DEF c, q, gone, n0
<1>4. IsFiniteSet(DOMAIN c)
  <2>1. IsFiniteSet(DOMAIN h \ (gone \cup {d})) /\ IsFiniteSet({q})
    BY FS_Subset, FS_Singleton
  <2>2. IsFiniteSet((DOMAIN h \ (gone \cup {d})) \cup {q})
    BY <2>1, FS_Union
  <2> QED
    BY <2>2, <1>1 DEF CoalesceFacts
<1>5. S \subseteq DOMAIN h /\ T \subseteq DOMAIN c
  BY DEF MappedOf
<1>6. Sized(h, S) /\ Sized(c, T) /\ Sized(h, gone)
  BY <1>1, <1>4, <1>5, HeapSized DEF CoalesceFacts
<1>7. Bytes(c, T) = Bytes(h, S)
  <2>1. CASE h[d].small = small /\ h[d].mapped
    <3> DEFINE K == S \ (gone \cup {d})
               n == Cardinality(S)
               m == Bytes(h, S)
               w == c[q].size
               v == h[d].size
    <3>1. K \subseteq S /\ K \subseteq T /\ S \ K = gone \cup {d} /\ T \ K = {q}
          /\ \A x \in K : c[x].size = h[x].size
      BY <2>1, <1>1 DEF CoalesceFacts, MappedOf
    <3>2. v \in Int /\ w \in Int /\ d \notin gone
      BY <1>1, <1>3 DEF CoalesceFacts
    <3>3. Tally(h, gone \cup {d}, n0 + 1, (w - v) + v)
      BY <1>2, <1>6, <3>2, TallyJoin, Zenon
    <3>4. Tally(c, {q}, 1, w)
      BY <3>2, TallyOne
    <3>5. Tally(h, S, n, m)
      BY DEF Tally
    <3> HIDE DEF K, n, m, w, v, S, T
    <3>6. Tally(h, S \ K, n0 + 1, (w - v) + v) /\ Tally(c, T \ K, 1, w)
      BY <3>1, <3>3, <3>4
    <3>7. Tally(c, T, n - (n0 + 1) + 1, m - ((w - v) + v) + w)
      BY <3>1, <3>5, <3>6, <1>6, TallySwap, Zenon
    <3>8. m \in Int
      BY <1>6, BytesType DEF m
    <3> QED
      BY <3>2, <3>7, <3>8 DEF Tally, m
  <2>2. CASE ~(h[d].small = small /\ h[d].mapped)
    <3>1. T = S /\ \A x \in S : c[x].size = h[x].size
      BY <2>2, <1>1 DEF CoalesceFacts, MappedOf
    <3> QED
      BY <3>1, <1>6, BytesSame
  <2> QED
    BY <2>1, <2>2
<1> QED
  BY <1>7 DEF c, S, T

-------------------------------------------------------------------------------
\* free_block.

\* What free_block does to the statistics, field by field.
LEMMA FreeBlockStatsFields ==
  ASSUME NEW st \in Stats, NEW h, NEW p, h[p] \in Block
  PROVE  LET new == FreeBlockStats(st, h, p)
             s   == h[p].small
             sub == Bit(SubsumedPrev(h, p) # {}) + Bit(SubsumedNext(h, p) # {})
             w   == Coalesce(h, p)[Lead(h, p)].size
             split == IsSplit(Coalesce(h, p), Lead(h, p))
         IN  /\ \A o \in BOOLEAN : o # s => new[o] = st[o]
             /\ new[s].allocation = st[s].allocation
             /\ new[s].allocated_bytes = st[s].allocated_bytes
             /\ new[s].active = st[s].active - 1
             /\ new[s].active_bytes = st[s].active_bytes - h[p].size
             /\ new[s].segment = st[s].segment
             /\ new[s].reserved_bytes = st[s].reserved_bytes
             /\ ~ExpandableSegments =>
                  /\ new[s].inactive_split = st[s].inactive_split - sub + Bit(split)
                  /\ new[s].inactive_split_bytes =
                       st[s].inactive_split_bytes - (w - h[p].size) + (IF split THEN w ELSE 0)
<1>1. h[p].small \in BOOLEAN /\ st[h[p].small] \in Stat /\ DOMAIN st = BOOLEAN
  BY DEF Stats, Block
<1> QED
  BY <1>1 DEF FreeBlockStats, Stat

\* free_block keeps the counts: the block is no longer active, the blocks it
\* is merged with no longer parts, and the merged block is one unless it is a
\* segment.
LEMMA FreeBlockCounts ==
  ASSUME NEW sg, NEW h, NEW act, NEW st \in Stats, Tiled(sg, h), act \subseteq DOMAIN h,
         NEW d \in act, ~h[d].allocated, Subsumed(h, d) \cap act = {},
         Counts(sg, h, act, st)
  PROVE  Counts(sg, Coalesce(h, d), act \ {d}, FreeBlockStats(st, h, d))
<1> DEFINE c == Coalesce(h, d)
           q == Lead(h, d)
           gone == Subsumed(h, d)
           new == FreeBlockStats(st, h, d)
           n0 == Bit(SubsumedPrev(h, d) # {}) + Bit(SubsumedNext(h, d) # {})
           w == c[q].size
           split == IsSplit(c, q)
           s == h[d].small
<1>1. CoalesceFacts(sg, h, d, c, q, gone) /\ d \in DOMAIN h
  BY CoalesceCounted
<1>2. Tally(h, gone, n0, w - h[d].size)
  BY <1>1, CoalesceTally DEF Counts
<1>3. h[d] \in Block /\ h[d].size \in Nat /\ s \in BOOLEAN
  BY <1>1, BlockType DEF Tiled, Block
<1>4. \A small : Bytes(c, MappedOf(c, small)) = Bytes(h, MappedOf(h, small))
  BY <1>1, CoalesceMapped DEF Counts
<1>5. /\ \A o \in BOOLEAN : o # s => new[o] = st[o]
      /\ new[s].allocation = st[s].allocation
      /\ new[s].allocated_bytes = st[s].allocated_bytes
      /\ new[s].active = st[s].active - 1
      /\ new[s].active_bytes = st[s].active_bytes - h[d].size
      /\ new[s].segment = st[s].segment
      /\ new[s].reserved_bytes = st[s].reserved_bytes
      /\ ~ExpandableSegments =>
           /\ new[s].inactive_split = st[s].inactive_split - n0 + Bit(split)
           /\ new[s].inactive_split_bytes =
                st[s].inactive_split_bytes - (w - h[d].size) + (IF split THEN w ELSE 0)
  BY <1>3, FreeBlockStatsFields
<1>6. /\ IsFiniteSet(DOMAIN h)
      /\ \A o \in BOOLEAN : /\ UseCounts(h, act, st[o], o) /\ MapCounts(h, st[o], o)
                            /\ ~ExpandableSegments => PartCounts(sg, h, act, st[o], o)
  BY DEF Counts
<1> HIDE DEF c, q, gone, new, n0, w, split, s
<1>7. IsFiniteSet(DOMAIN c)
  <2>1. IsFiniteSet(DOMAIN h \ (gone \cup {d})) /\ IsFiniteSet({q})
    BY <1>6, FS_Subset, FS_Singleton
  <2>2. IsFiniteSet((DOMAIN h \ (gone \cup {d})) \cup {q})
    BY <2>1, FS_Union
  <2> QED
    BY <2>2, <1>1 DEF CoalesceFacts
<1>8. gone \cap act = {}
  BY DEF gone
<1>9. ASSUME NEW x \in act, x # d PROVE x \in DOMAIN c /\ c[x] = h[x]
  BY <1>1, <1>8, <1>9 DEF CoalesceFacts
<1>10. \A x \in gone \cup {d} : h[x].small = s
  BY <1>1 DEF CoalesceFacts, s
<1>11. ASSUME NEW o \in BOOLEAN PROVE MapCounts(c, new[o], o)
  <2>1. new[o].reserved_bytes = st[o].reserved_bytes
    BY <1>5
  <2> QED
    BY <2>1, <1>4, <1>6 DEF MapCounts
<1>12. ASSUME NEW o \in BOOLEAN, o # s
       PROVE  /\ UseCounts(c, act \ {d}, new[o], o)
              /\ ~ExpandableSegments => PartCounts(sg, c, act \ {d}, new[o], o)
  <2>1. new[o] = st[o]
    BY <1>5, <1>12
  <2>2. ActiveOf(c, act \ {d}, o) = ActiveOf(h, act, o)
    BY <1>9, <1>10, <1>12 DEF ActiveOf
  <2>3. \A x \in ActiveOf(h, act, o) : c[x] = h[x]
    BY <1>9, <1>10, <1>12 DEF ActiveOf
  <2>4. UseCounts(c, act \ {d}, new[o], o)
    BY <2>1, <2>2, <2>3, <1>1, <1>6, UseFrame DEF CoalesceFacts
  <2>5. PartsOf(sg, c, act \ {d}, o) = PartsOf(sg, h, act, o)
    BY <1>1, <1>10, <1>12 DEF PartsOf, CoalesceFacts, Whole, s
  <2>6. \A x \in PartsOf(sg, h, act, o) : c[x].size = h[x].size
    BY <1>1, <1>10, <1>12 DEF PartsOf, CoalesceFacts
  <2>7. ~ExpandableSegments => PartCounts(sg, c, act \ {d}, new[o], o)
    BY <2>1, <2>5, <2>6, <1>1, <1>6, PartFrame DEF CoalesceFacts
  <2> QED
    BY <2>4, <2>7
<1>13. UseCounts(c, act \ {d}, new[s], s)
  <2> DEFINE U == UsedOf(h, act, s)
             A == ActiveOf(h, act, s)
  <2>1. /\ Tally(h, U, st[s].allocation, st[s].allocated_bytes)
        /\ Tally(h, A, st[s].active, st[s].active_bytes)
    BY <1>3, <1>6 DEF UseCounts
  <2>2. U \subseteq DOMAIN h /\ A \subseteq DOMAIN h
    BY DEF UsedOf, ActiveOf
  <2>3. Sized(h, U) /\ Sized(h, A)
    BY <2>2, <1>1, <1>6, HeapSized DEF CoalesceFacts
  <2>4. UsedOf(c, act \ {d}, s) = U /\ \A x \in U : c[x].size = h[x].size
    BY <1>9 DEF UsedOf
  <2>5. ActiveOf(c, act \ {d}, s) = A \ {d} /\ d \in A
    BY <1>9 DEF ActiveOf, s
  <2>6. \A x \in A \ {d} : c[x].size = h[x].size
    BY <1>9 DEF ActiveOf
  <2> HIDE DEF U, A
  <2>7. Tally(c, U, st[s].allocation, st[s].allocated_bytes)
    BY <2>1, <2>3, <2>4, TallySame
  <2>8. Tally(c, A \ {d}, st[s].active - 1, st[s].active_bytes - h[d].size)
    BY <2>1, <2>3, <2>5, <2>6, TallyRemove
  <2> QED
    BY <2>4, <2>5, <2>7, <2>8, <1>5 DEF UseCounts
<1>14. ASSUME ~ExpandableSegments PROVE PartCounts(sg, c, act \ {d}, new[s], s)
  <2> DEFINE S == PartsOf(sg, h, act, s)
             T == PartsOf(sg, c, act \ {d}, s)
             K == S \ gone
             n == st[s].inactive_split
             m == st[s].inactive_split_bytes
  <2>1. Tally(h, S, n, m) /\ st[s].segment = Cardinality(SegmentsOf(sg, h, s))
    BY <1>3, <1>6, <1>14 DEF PartCounts
  <2>2. S \subseteq DOMAIN h /\ T \subseteq DOMAIN c
    BY DEF PartsOf
  <2>3. Sized(h, S) /\ Sized(c, T)
    BY <2>2, <1>1, <1>6, <1>7, HeapSized DEF CoalesceFacts
  <2>4. gone \subseteq S
    BY <1>1, <1>8, <1>10 DEF PartsOf, CoalesceFacts
  <2>5. \A x \in DOMAIN h \ (gone \cup {d}) : x \in DOMAIN c /\ x # q /\ c[x] = h[x]
    BY <1>1 DEF CoalesceFacts
  <2>6. K \subseteq T /\ \A x \in K : c[x].size = h[x].size
    BY <2>5 DEF PartsOf, Whole
  <2>7. T \ K = IF split THEN {q} ELSE {}
    <3>1. \A x \in T : x # q => x \in K
      BY <1>1 DEF PartsOf, Whole, CoalesceFacts
    <3>2. q \notin K
      BY <1>1 DEF CoalesceFacts, PartsOf
    <3>3. q \in T <=> split
      BY <1>1, <1>8 DEF CoalesceFacts, PartsOf, split, s
    <3> QED
      BY <3>1, <3>2, <3>3
  <2>8. Tally(c, T \ K, Bit(split), IF split THEN w ELSE 0)
    <3>1. w \in Int
      BY <1>1 DEF CoalesceFacts, w
    <3>2. Tally(c, {q}, 1, w)
      BY <3>1, TallyOne DEF w
    <3> QED
      BY <2>7, <3>2, TallyNone DEF Bit
  <2>9. Tally(h, S \ K, n0, w - h[d].size)
    <3>1. S \ K = gone
      BY <2>4
    <3> QED
      BY <3>1, <1>2
  <2>10. K \subseteq S
    OBVIOUS
  <2> HIDE DEF S, T, K, n, m
  <2>11. Tally(c, T, n - n0 + Bit(split), m - (w - h[d].size) + (IF split THEN w ELSE 0))
    BY <2>1, <2>3, <2>6, <2>8, <2>9, <2>10, TallySwap, Zenon
  <2>12. SegmentsOf(sg, c, s) = SegmentsOf(sg, h, s)
    BY <1>1 DEF SegmentsOf, CoalesceFacts
  <2> QED
    BY <2>1, <2>11, <2>12, <1>5, <1>14 DEF PartCounts, T, n, m
<1> QED
  <2>1. \A o \in BOOLEAN : /\ UseCounts(c, act \ {d}, new[o], o)
                           /\ MapCounts(c, new[o], o)
                           /\ ~ExpandableSegments => PartCounts(sg, c, act \ {d}, new[o], o)
    BY <1>11, <1>12, <1>13, <1>14
  <2> QED
    BY <2>1, <1>7 DEF Counts, c, new

-------------------------------------------------------------------------------
\* alloc_found_block.

\* What alloc_found_block does to the statistics, field by field.
LEMMA AllocFoundStatsFields ==
  ASSUME stats \in Stats, NEW p, blocks[p] \in Block, NEW n, NEW split \in BOOLEAN
  PROVE  LET new     == AllocFoundStats(stats, p, n, split)
             s       == blocks[p].small
             old     == stats[s]
             already == IsSplit(blocks, p)
             size    == IF split THEN n ELSE blocks[p].size
         IN  /\ \A o \in BOOLEAN : o # s => new[o] = stats[o]
             /\ new[s].allocation = old.allocation + 1
             /\ new[s].allocated_bytes = old.allocated_bytes + size
             /\ new[s].active = old.active + 1
             /\ new[s].active_bytes = old.active_bytes + size
             /\ new[s].segment = old.segment
             /\ new[s].reserved_bytes = old.reserved_bytes
             /\ ~ExpandableSegments =>
                  /\ new[s].inactive_split =
                       old.inactive_split + Bit(split /\ ~already) - Bit(~split /\ already)
                  /\ new[s].inactive_split_bytes =
                       IF already THEN old.inactive_split_bytes - size
                       ELSE IF split THEN old.inactive_split_bytes + (blocks[p].size - n)
                       ELSE old.inactive_split_bytes
<1>1. blocks[p].small \in BOOLEAN /\ stats[blocks[p].small] \in Stat /\ DOMAIN stats = BOOLEAN
  BY DEF Stats, Block
<1> QED
  BY <1>1 DEF AllocFoundStats, Stat

\* Heap k is h after block p, cut to n units if split, has been handed out.
HandsOut(h, k, p, n, split) ==
  /\ p \in DOMAIN h /\ h[p].mapped
  /\ DOMAIN k = DOMAIN h \cup (IF split THEN {p + n} ELSE {})
  /\ \A x \in DOMAIN h : x # p => k[x] = h[x]
  /\ k[p].size = IF split THEN n ELSE h[p].size
  /\ k[p].seg = h[p].seg /\ k[p].small = h[p].small /\ k[p].mapped /\ k[p].allocated
  /\ split => /\ n \in Nat /\ 0 < n /\ n < h[p].size /\ p + n \notin DOMAIN h
              /\ k[p + n].size = h[p].size - n /\ k[p + n].seg = h[p].seg
              /\ k[p + n].small = h[p].small /\ k[p + n].mapped

\* alloc_found_block hands its block out.
LEMMA AllocFoundHandsOut ==
  ASSUME HeapInv, CallInv, AllocFoundBlock
  PROVE  HandsOut(blocks, blocks', call.block, call.size,
                  should_split(blocks[call.block], call.size))
<1> DEFINE p == call.block
           n == call.size
           split == should_split(blocks[p], n)
           front == [Fresh(blocks[p], TRUE) EXCEPT !.stream = call.stream]
           h == IF split THEN SplitOff(blocks, p, n, front, blocks[p]) ELSE blocks
<1>0. pc = "found" /\ blocks' = [h EXCEPT ![p].allocated = TRUE]
  BY DEF AllocFoundBlock
<1>1. p \in DOMAIN blocks /\ n \in Nat /\ n > 0 /\ p \in Held
  BY <1>0 DEF CallInv, Searching, Call, Held
<1>2. /\ blocks[p] \in Block /\ blocks[p].size \in Nat /\ p \in Nat /\ blocks[p].mapped
  BY <1>1, Partition, BlockType DEF HeapInv, Tiled
<1>3. /\ front.seg = blocks[p].seg /\ front.small = blocks[p].small /\ front.mapped
      /\ front.size = blocks[p].size
      /\ DOMAIN front = {"size", "seg", "stream", "small", "allocated", "uses", "events", "mapped", "age"}
  BY DEF Fresh, NewBlock
<1> HIDE DEF front
<1>4. split => n < blocks[p].size
  BY <1>1, <1>2 DEF should_split, kMinBlockSize, kSmallSize
<1>5. CASE split
  <2>1. p + n \notin DOMAIN blocks
    <3>1. p + n < End(blocks, p) /\ p < p + n
      BY <1>1, <1>2, <1>4, <1>5 DEF End
    <3>2. p + n \in DOMAIN blocks => End(blocks, p) <= p + n
      BY <3>1, <1>1 DEF HeapInv, Tiled, Apart
    <3> QED
      BY <3>1, <3>2, <1>1, <1>2 DEF End
  <2>2. /\ DOMAIN h = DOMAIN blocks \cup {p + n}
        /\ \A x \in DOMAIN blocks : x # p => h[x] = blocks[x]
        /\ h[p] = [front EXCEPT !.size = n]
        /\ h[p + n] = [blocks[p] EXCEPT !.size = blocks[p].size - n]
        /\ p + n # p
    BY <2>1, <1>1, <1>2, <1>5 DEF SplitOff
  <2>3. /\ h[p].size = n /\ h[p].seg = blocks[p].seg /\ h[p].small = blocks[p].small
        /\ h[p].mapped /\ "allocated" \in DOMAIN h[p]
    BY <2>2, <1>3
  <2>4. /\ h[p + n].size = blocks[p].size - n /\ h[p + n].seg = blocks[p].seg
        /\ h[p + n].small = blocks[p].small /\ h[p + n].mapped
    BY <2>2, <1>2 DEF Block
  <2> HIDE DEF h
  <2>5. /\ DOMAIN blocks' = DOMAIN h
        /\ \A x \in DOMAIN h : x # p => blocks'[x] = h[x]
        /\ blocks'[p] = [h[p] EXCEPT !.allocated = TRUE]
    BY <1>0, <1>1, <2>2
  <2>6. /\ blocks'[p].size = n /\ blocks'[p].seg = blocks[p].seg
        /\ blocks'[p].small = blocks[p].small /\ blocks'[p].mapped /\ blocks'[p].allocated
    BY <2>3, <2>5
  <2> QED
    <3>1. /\ DOMAIN blocks' = DOMAIN blocks \cup (IF split THEN {p + n} ELSE {})
          /\ \A x \in DOMAIN blocks : x # p => blocks'[x] = blocks[x]
      BY <2>2, <2>5, <1>5
    <3>2. blocks'[p + n] = h[p + n]
      BY <2>2, <2>5, Zenon
    <3>3. /\ blocks'[p + n].size = blocks[p].size - n /\ blocks'[p + n].seg = blocks[p].seg
          /\ blocks'[p + n].small = blocks[p].small /\ blocks'[p + n].mapped
      BY <2>4, <3>2, Zenon
    <3>4. 0 < n /\ n < blocks[p].size
      BY <1>1, <1>4, <1>5
    <3> HIDE DEF p, n, split
    <3>5. blocks'[p].size = IF split THEN n ELSE blocks[p].size
      BY <2>6, <1>5
    <3>6. HandsOut(blocks, blocks', p, n, split)
      BY <2>1, <2>6, <3>1, <3>3, <3>4, <3>5, <1>1, <1>2, <1>5, Zenon DEF HandsOut
    <3> QED
      BY <3>6, Zenon DEF p, n, split
<1>6. CASE ~split
  <2>1. /\ DOMAIN blocks' = DOMAIN blocks
        /\ \A x \in DOMAIN blocks : x # p => blocks'[x] = blocks[x]
        /\ blocks'[p] = [blocks[p] EXCEPT !.allocated = TRUE]
    BY <1>0, <1>1, <1>6
  <2>2. /\ blocks'[p].size = blocks[p].size /\ blocks'[p].seg = blocks[p].seg
        /\ blocks'[p].small = blocks[p].small /\ blocks'[p].mapped /\ blocks'[p].allocated
    BY <2>1, <1>2 DEF Block
  <2> QED
    BY <2>1, <2>2, <1>1, <1>2, <1>6 DEF HandsOut
<1> QED
  BY <1>5, <1>6

\* A block handed out becomes active; what is cut off becomes a part, which
\* the whole was, or was not, before.
LEMMA HandsOutCounts ==
  ASSUME NEW sg, NEW k, NEW p, NEW n, NEW split \in BOOLEAN, stats \in Stats,
         Tiled(sg, blocks), active \subseteq DOMAIN blocks, p \notin active,
         HandsOut(blocks, k, p, n, split), HeapType(k),
         Counts(sg, blocks, active, stats)
  PROVE  Counts(sg, k, active \cup {p}, AllocFoundStats(stats, p, n, split))
<1> DEFINE h == blocks
           act2 == active \cup {p}
           new == AllocFoundStats(stats, p, n, split)
           already == IsSplit(h, p)
           size == IF split THEN n ELSE h[p].size
           rest == IF split THEN {p + n} ELSE {}
           s == h[p].small
<1>1. /\ p \in DOMAIN h /\ h[p] \in Block /\ h[p].size \in Nat /\ p \in Nat /\ s \in BOOLEAN
      /\ HeapType(h)
  BY BlockType DEF HandsOut, Tiled, Block
<1>2. /\ \A o \in BOOLEAN : o # s => new[o] = stats[o]
      /\ new[s].allocation = stats[s].allocation + 1
      /\ new[s].allocated_bytes = stats[s].allocated_bytes + size
      /\ new[s].active = stats[s].active + 1
      /\ new[s].active_bytes = stats[s].active_bytes + size
      /\ new[s].segment = stats[s].segment
      /\ new[s].reserved_bytes = stats[s].reserved_bytes
      /\ ~ExpandableSegments =>
           /\ new[s].inactive_split =
                stats[s].inactive_split + Bit(split /\ ~already) - Bit(~split /\ already)
           /\ new[s].inactive_split_bytes =
                IF already THEN stats[s].inactive_split_bytes - size
                ELSE IF split THEN stats[s].inactive_split_bytes + (h[p].size - n)
                ELSE stats[s].inactive_split_bytes
  BY <1>1, AllocFoundStatsFields
<1>3. /\ IsFiniteSet(DOMAIN h)
      /\ \A o \in BOOLEAN : /\ UseCounts(h, active, stats[o], o) /\ MapCounts(h, stats[o], o)
                            /\ ~ExpandableSegments => PartCounts(sg, h, active, stats[o], o)
  BY DEF Counts
<1>4. /\ DOMAIN k = DOMAIN h \cup rest /\ rest \cap DOMAIN h = {}
      /\ \A x \in DOMAIN h : x # p => k[x] = h[x]
      /\ k[p].size = size /\ size \in Nat /\ k[p].small = s /\ k[p].seg = h[p].seg
      /\ k[p].mapped /\ k[p].allocated /\ h[p].mapped
      /\ \A x \in rest : /\ k[x].size = h[p].size - n /\ k[x].seg = h[p].seg
                         /\ k[x].small = s /\ k[x].mapped /\ x > p
      /\ p \notin rest
      /\ split => n \in Nat
  BY <1>1 DEF HandsOut
<1> HIDE DEF h, act2, new, already, size, rest, s
<1>5. IsFiniteSet(DOMAIN k) /\ p \in DOMAIN k
  <2>1. IsFiniteSet(rest)
    BY FS_EmptySet, FS_Singleton DEF rest
  <2>2. IsFiniteSet(DOMAIN h \cup rest)
    BY <2>1, <1>3, FS_Union
  <2> QED
    BY <2>2, <1>1, <1>4
<1>6. active \subseteq DOMAIN h /\ \A x \in active : x # p /\ x \in DOMAIN h /\ k[x] = h[x]
  BY <1>4 DEF h
<1>7. h[p].small = s /\ \A x \in DOMAIN h : k[x].small = h[x].small
  BY <1>1, <1>4 DEF s
<1>8. ASSUME NEW o \in BOOLEAN, o # s
       PROVE  /\ UseCounts(k, act2, new[o], o) /\ MapCounts(k, new[o], o)
              /\ ~ExpandableSegments => PartCounts(sg, k, act2, new[o], o)
  <2>1. new[o] = stats[o]
    BY <1>2, <1>8
  <2>2. /\ ActiveOf(k, act2, o) = ActiveOf(h, active, o)
        /\ \A x \in ActiveOf(h, active, o) : k[x] = h[x]
    BY <1>4, <1>6, <1>8 DEF ActiveOf, act2
  <2>3. /\ MappedOf(k, o) = MappedOf(h, o)
        /\ \A x \in MappedOf(h, o) : k[x] = h[x]
    BY <1>4, <1>7, <1>8 DEF MappedOf
  <2>4. UseCounts(k, act2, new[o], o)
    BY <2>1, <2>2, <1>1, <1>3, <1>6, UseFrame
  <2>5. MapCounts(k, new[o], o)
    BY <2>1, <2>3, <1>1, <1>3, MapFrame
  <2>6. /\ PartsOf(sg, k, act2, o) = PartsOf(sg, h, active, o)
        /\ \A x \in PartsOf(sg, h, active, o) : k[x] = h[x]
    BY <1>4, <1>7, <1>8 DEF PartsOf, act2, Whole
  <2>7. \A a \in DOMAIN sg : k[a].small = h[a].small
    BY <1>7 DEF Tiled, h
  <2>8. ~ExpandableSegments => PartCounts(sg, k, act2, new[o], o)
    BY <2>1, <2>6, <2>7, <1>1, <1>3, PartFrame
  <2> QED
    BY <2>4, <2>5, <2>8
<1>9. UseCounts(k, act2, new[s], s)
  <2> DEFINE U == UsedOf(h, active, s)
             A == ActiveOf(h, active, s)
  <2>1. /\ Tally(h, U, stats[s].allocation, stats[s].allocated_bytes)
        /\ Tally(h, A, stats[s].active, stats[s].active_bytes)
    BY <1>1, <1>3 DEF UseCounts
  <2>2. U \subseteq DOMAIN h /\ A \subseteq DOMAIN h
    BY <1>6 DEF UsedOf, ActiveOf
  <2>3. Sized(h, U) /\ Sized(h, A)
    BY <2>2, <1>1, <1>3, HeapSized
  <2>4. UsedOf(k, act2, s) = U \cup {p} /\ ActiveOf(k, act2, s) = A \cup {p}
    BY <1>4, <1>6 DEF UsedOf, ActiveOf, act2
  <2>5. p \notin U /\ p \notin A /\ \A x \in U \cup A : k[x].size = h[x].size
    BY <1>6 DEF UsedOf, ActiveOf
  <2>6. k[p].size \in Int /\ k[p].size = size
    BY <1>4
  <2> HIDE DEF U, A
  <2>7. Tally(k, U \cup {p}, stats[s].allocation + 1, stats[s].allocated_bytes + k[p].size)
    BY <2>1, <2>3, <2>5, <2>6, TallyAdd
  <2>8. Tally(k, A \cup {p}, stats[s].active + 1, stats[s].active_bytes + k[p].size)
    BY <2>1, <2>3, <2>5, <2>6, TallyAdd
  <2> QED
    BY <2>4, <2>6, <2>7, <2>8, <1>2 DEF UseCounts
<1>10. /\ Sized(k, rest) /\ Tally(k, rest, Bit(split), IF split THEN h[p].size - n ELSE 0)
       /\ rest \subseteq DOMAIN k
  <2>1. CASE split
    <3>1. k[p + n].size = h[p].size - n /\ h[p].size - n \in Int /\ rest = {p + n}
      BY <2>1, <1>1, <1>4 DEF rest
    <3> QED
      BY <2>1, <3>1, <1>4, TallyOne DEF Bit
  <2>2. CASE ~split
    BY <2>2, <1>4, TallyNone DEF Bit, rest
  <2> QED
    BY <2>1, <2>2
<1>11. MapCounts(k, new[s], s)
  <2> DEFINE S == MappedOf(h, s)
             T == MappedOf(k, s)
             K == S \ {p}
             N == Cardinality(S)
             M == Bytes(h, S)
             b == IF split THEN h[p].size - n ELSE 0
  <2>1. S \subseteq DOMAIN h /\ T \subseteq DOMAIN k
    BY DEF MappedOf
  <2>2. Sized(h, S) /\ Sized(k, T)
    BY <2>1, <1>1, <1>3, <1>5, HeapSized
  <2>3. S \ K = {p} /\ T \ K = rest \cup {p} /\ K \subseteq S /\ K \subseteq T
    BY <1>1, <1>4, <1>7 DEF MappedOf
  <2>4. \A x \in K : k[x].size = h[x].size
    BY <1>4 DEF MappedOf
  <2>5. Tally(h, S \ K, 1, h[p].size)
    <3>1. h[p].size \in Int
      BY <1>1
    <3>2. Tally(h, {p}, 1, h[p].size)
      BY <3>1, TallyOne
    <3> HIDE DEF S, K
    <3> QED
      BY <2>3, <3>2
  <2>6. Tally(k, T \ K, Bit(split) + 1, b + size)
    <3>1. k[p].size \in Int /\ k[p].size = size /\ p \notin rest
      BY <1>4
    <3>2. Tally(k, rest \cup {p}, Bit(split) + 1, b + k[p].size)
      BY <3>1, <1>10, TallyJoin, Zenon
    <3> QED
      BY <2>3, <3>1, <3>2
  <2>7. Tally(h, S, N, M) /\ M \in Int
    BY <2>2, BytesType DEF Tally
  <2> HIDE DEF S, T, K, N, M
  <2>8. Tally(k, T, N - 1 + (Bit(split) + 1), M - h[p].size + (b + size))
    BY <2>2, <2>3, <2>4, <2>5, <2>6, <2>7, TallySwap, Zenon
  <2>9. M - h[p].size + (b + size) = M
    BY <2>7, <1>1, <1>4 DEF size
  <2> QED
    BY <2>8, <2>9, <1>1, <1>2, <1>3 DEF MapCounts, Tally, S, T, M
<1>12. ASSUME ~ExpandableSegments PROVE PartCounts(sg, k, act2, new[s], s)
  <2> DEFINE S == PartsOf(sg, h, active, s)
             T == PartsOf(sg, k, act2, s)
             K == S \ {p}
             N == stats[s].inactive_split
             M == stats[s].inactive_split_bytes
             b == IF split THEN h[p].size - n ELSE 0
             d == IF already THEN h[p].size ELSE 0
  <2>1. Tally(h, S, N, M) /\ stats[s].segment = Cardinality(SegmentsOf(sg, h, s))
    BY <1>1, <1>3, <1>12 DEF PartCounts
  <2>2. S \subseteq DOMAIN h /\ T \subseteq DOMAIN k
    BY DEF PartsOf
  <2>3. Sized(h, S) /\ Sized(k, T)
    BY <2>2, <1>1, <1>3, <1>5, HeapSized
  <2>4. p \in S <=> already
    <3>1. already <=> ~Whole(sg, h, p)
      BY <1>1, UnsplitIsWhole, WholeAlone DEF already, h
    <3> QED
      BY <3>1, <1>1, <1>7 DEF PartsOf, h
  <2>5. S \ K = IF already THEN {p} ELSE {}
    BY <2>4
  <2>6. K \subseteq T /\ \A x \in K : k[x].size = h[x].size
    BY <1>4 DEF PartsOf, Whole, act2
  <2>7. T \ K = rest
    <3>1. \A x \in T : x \in rest \/ x \in K
      BY <1>4 DEF PartsOf, Whole, act2
    <3>2. \A x \in rest : x \in T
      <4> SUFFICES ASSUME NEW x \in rest PROVE x \in T
        OBVIOUS
      <4>1. h[p].seg <= p /\ h[p].seg \in Nat
        BY <1>1, BlockType DEF Tiled, InSegment, h
      <4>2. x # k[x].seg /\ x \notin act2 /\ x \in DOMAIN k
        BY <4>1, <1>1, <1>4, <1>6 DEF act2
      <4> QED
        BY <4>2, <1>4 DEF PartsOf, Whole
    <3>3. \A x \in rest : x \notin K
      BY <1>4 DEF PartsOf
    <3> QED
      BY <3>1, <3>2, <3>3
  <2>8. Tally(h, S \ K, Bit(already), d)
    <3>1. h[p].size \in Int
      BY <1>1
    <3> QED
      BY <2>5, <3>1, TallyOne, TallyNone DEF Bit
  <2>9. Tally(k, T \ K, Bit(split), b)
    BY <2>7, <1>10
  <2>10. K \subseteq S
    OBVIOUS
  <2>11. N \in Int /\ M \in Int
    BY <2>1, <2>3, TallyType
  <2> HIDE DEF S, T, K, N, M
  <2>12. Tally(k, T, N - Bit(already) + Bit(split), M - d + b)
    BY <2>1, <2>3, <2>6, <2>8, <2>9, <2>10, TallySwap, Zenon
  <2>13. new[s].inactive_split = N - Bit(already) + Bit(split)
    BY <2>11, <1>2, <1>12 DEF Bit, N
  <2>14. new[s].inactive_split_bytes = M - d + b
    <3>1. new[s].inactive_split_bytes =
                IF already THEN M - size
                ELSE IF split THEN M + (h[p].size - n)
                ELSE M
      BY <1>2, <1>12 DEF M
    <3> QED
      BY <3>1, <2>11, <1>1, <1>4 DEF size
  <2>15. SegmentsOf(sg, k, s) = SegmentsOf(sg, h, s)
    <3>1. \A a \in DOMAIN sg : a \in DOMAIN h
      BY DEF Tiled, h
    <3> QED
      BY <3>1, <1>7 DEF SegmentsOf
  <2> QED
    BY <2>1, <2>12, <2>13, <2>14, <2>15, <1>2 DEF PartCounts, T
<1> QED
  <2>1. \A o \in BOOLEAN : /\ UseCounts(k, act2, new[o], o)
                           /\ MapCounts(k, new[o], o)
                           /\ ~ExpandableSegments => PartCounts(sg, k, act2, new[o], o)
    BY <1>8, <1>9, <1>11, <1>12
  <2> QED
    BY <2>1, <1>5 DEF Counts, act2, new

-------------------------------------------------------------------------------
\* alloc_block and release_block.

\* What the arrival or departure of a segment does to the statistics.
LEMMA SegmentStatsFields ==
  ASSUME stats \in Stats, NEW small \in BOOLEAN, NEW n, NEW size
  PROVE  LET new == SegmentStats(stats, small, n, size)
         IN  /\ \A o \in BOOLEAN : o # small => new[o] = stats[o]
             /\ new[small].allocation = stats[small].allocation
             /\ new[small].allocated_bytes = stats[small].allocated_bytes
             /\ new[small].active = stats[small].active
             /\ new[small].active_bytes = stats[small].active_bytes
             /\ new[small].inactive_split = stats[small].inactive_split
             /\ new[small].inactive_split_bytes = stats[small].inactive_split_bytes
             /\ new[small].segment = stats[small].segment + n
             /\ new[small].reserved_bytes = stats[small].reserved_bytes + n * size
<1>1. stats[small] \in Stat /\ DOMAIN stats = BOOLEAN
  BY DEF Stats
<1> QED
  BY <1>1 DEF SegmentStats, Stat

\* The counts that a whole segment, which is no part, does not enter.
LEMMA SegmentFrame ==
  ASSUME NEW sg, NEW h, NEW g, NEW k, NEW act, NEW o, NEW c, NEW e, NEW p,
         Tiled(sg, h), Tiled(g, k), IsFiniteSet(DOMAIN h), IsFiniteSet(DOMAIN k),
         act \subseteq DOMAIN h, act \subseteq DOMAIN k, p \notin act,
         DOMAIN h \ {p} = DOMAIN k \ {p}, DOMAIN sg \ {p} = DOMAIN g \ {p},
         \A x \in DOMAIN h : x # p => k[x] = h[x],
         \A a \in DOMAIN sg : a # p => g[a] = sg[a],
         p \in DOMAIN h => Whole(sg, h, p), p \in DOMAIN k => Whole(g, k, p),
         e.allocation = c.allocation, e.allocated_bytes = c.allocated_bytes,
         e.active = c.active, e.active_bytes = c.active_bytes,
         e.inactive_split = c.inactive_split,
         e.inactive_split_bytes = c.inactive_split_bytes
  PROVE  /\ UseCounts(h, act, c, o) => UseCounts(k, act, e, o)
         /\ Tally(h, PartsOf(sg, h, act, o), c.inactive_split, c.inactive_split_bytes)
              => Tally(k, PartsOf(g, k, act, o), e.inactive_split, e.inactive_split_bytes)
<1>1. HeapType(h) /\ HeapType(k)
  BY DEF Tiled
<1>2. /\ ActiveOf(k, act, o) = ActiveOf(h, act, o)
      /\ \A x \in ActiveOf(h, act, o) : k[x] = h[x]
  BY DEF ActiveOf
<1>3. UseCounts(h, act, c, o) => UseCounts(k, act, e, o)
  BY <1>1, <1>2, UseFrame
<1>4. /\ \A x \in DOMAIN h : h[x].seg \in DOMAIN sg
      /\ \A x \in DOMAIN k : k[x].seg \in DOMAIN g
  BY DEF Tiled, InSegment
<1>5. \A x \in DOMAIN h : x # p => (Whole(sg, h, x) <=> Whole(g, k, x))
  BY <1>4 DEF Whole
<1>6. PartsOf(g, k, act, o) = PartsOf(sg, h, act, o)
  BY <1>5 DEF PartsOf
<1>7. /\ PartsOf(sg, h, act, o) \subseteq DOMAIN h
      /\ \A x \in PartsOf(sg, h, act, o) : k[x].size = h[x].size
  BY DEF PartsOf
<1>8. Sized(h, PartsOf(sg, h, act, o))
  BY <1>1, <1>7, HeapSized
<1>9. Tally(h, PartsOf(sg, h, act, o), c.inactive_split, c.inactive_split_bytes)
        => Tally(k, PartsOf(g, k, act, o), e.inactive_split, e.inactive_split_bytes)
  BY <1>6, <1>7, <1>8, TallySame
<1> QED
  BY <1>3, <1>9

\* A segment goes.
LEMMA ReleaseCounts ==
  ASSUME HeapInv, HeapInv', stats \in Stats, Counts(segments, blocks, active, stats),
         NEW p \in cached, ~IsSplit(blocks, p), ReleaseBlock(p)
  PROVE  Counts(segments', blocks', active', stats')
<1> DEFINE h == blocks
           k == blocks'
           sg == segments
           g == segments'
           s == blocks[p].small
           new == stats'
           size == blocks[p].size
<1>1. /\ p \in DOMAIN h /\ p \notin active /\ h[p] \in Block /\ h[p].mapped
      /\ active \subseteq DOMAIN h /\ s \in BOOLEAN
  BY Partition DEF Block
<1>2. /\ k = [x \in DOMAIN h \ {p} |-> h[x]] /\ g = [a \in DOMAIN sg \ {p} |-> sg[a]]
      /\ active' = active /\ new = SegmentStats(stats, s, -1, size)
  BY DEF ReleaseBlock
<1>3. /\ \A o \in BOOLEAN : o # s => new[o] = stats[o]
      /\ new[s].allocation = stats[s].allocation
      /\ new[s].allocated_bytes = stats[s].allocated_bytes
      /\ new[s].active = stats[s].active
      /\ new[s].active_bytes = stats[s].active_bytes
      /\ new[s].inactive_split = stats[s].inactive_split
      /\ new[s].inactive_split_bytes = stats[s].inactive_split_bytes
      /\ new[s].segment = stats[s].segment + (-1)
      /\ new[s].reserved_bytes = stats[s].reserved_bytes + (-1) * size
  BY <1>1, <1>2, SegmentStatsFields
<1>4. /\ IsFiniteSet(DOMAIN h)
      /\ \A o \in BOOLEAN : /\ UseCounts(h, active, stats[o], o) /\ MapCounts(h, stats[o], o)
                            /\ ~ExpandableSegments => PartCounts(sg, h, active, stats[o], o)
  BY DEF Counts
<1>5. Tiled(sg, h) /\ Tiled(g, k) /\ Whole(sg, h, p) /\ p \in DOMAIN sg
  <2>1. Tiled(sg, h) /\ Tiled(g, k)
    BY DEF HeapInv
  <2> QED
    BY <2>1, <1>1, UnsplitIsWhole DEF Whole, Tiled, InSegment
<1>6. size \in Nat /\ HeapType(h)
  BY <1>1, <1>5, BlockType DEF Tiled
<1> HIDE DEF h, k, sg, g, s, new, size
<1>7. /\ DOMAIN k = DOMAIN h \ {p} /\ DOMAIN g = DOMAIN sg \ {p}
      /\ \A x \in DOMAIN k : k[x] = h[x]
      /\ \A a \in DOMAIN g : g[a] = sg[a]
      /\ p \notin DOMAIN k /\ p \notin DOMAIN g
  BY <1>2
<1>8. IsFiniteSet(DOMAIN k) /\ active \subseteq DOMAIN k
  BY <1>1, <1>4, <1>7, FS_Subset
<1>9. h[p].small = s /\ h[p].size = size
  BY DEF h, s, size
<1>10. ASSUME NEW o \in BOOLEAN
       PROVE  /\ UseCounts(k, active, new[o], o)
              /\ ~ExpandableSegments =>
                   Tally(k, PartsOf(g, k, active, o), new[o].inactive_split,
                         new[o].inactive_split_bytes)
  <2>1. /\ new[o].allocation = stats[o].allocation
        /\ new[o].allocated_bytes = stats[o].allocated_bytes
        /\ new[o].active = stats[o].active
        /\ new[o].active_bytes = stats[o].active_bytes
        /\ new[o].inactive_split = stats[o].inactive_split
        /\ new[o].inactive_split_bytes = stats[o].inactive_split_bytes
    BY <1>3
  <2>2. /\ DOMAIN h \ {p} = DOMAIN k \ {p} /\ DOMAIN sg \ {p} = DOMAIN g \ {p}
        /\ \A x \in DOMAIN h : x # p => k[x] = h[x]
        /\ \A a \in DOMAIN sg : a # p => g[a] = sg[a]
        /\ p \in DOMAIN h => Whole(sg, h, p)
        /\ p \in DOMAIN k => Whole(g, k, p)
    BY <1>5, <1>7
  <2>3. /\ UseCounts(h, active, stats[o], o) => UseCounts(k, active, new[o], o)
        /\ Tally(h, PartsOf(sg, h, active, o), stats[o].inactive_split, stats[o].inactive_split_bytes)
             => Tally(k, PartsOf(g, k, active, o), new[o].inactive_split, new[o].inactive_split_bytes)
    BY <2>1, <2>2, <1>1, <1>4, <1>5, <1>8, SegmentFrame
  <2> QED
    BY <2>3, <1>4 DEF PartCounts
<1>11. ASSUME NEW o \in BOOLEAN PROVE MapCounts(k, new[o], o)
  <2> DEFINE S == MappedOf(h, o)
  <2>1. Sized(h, S) /\ stats[o].reserved_bytes = Bytes(h, S)
    <3>1. S \subseteq DOMAIN h
      BY DEF MappedOf
    <3> QED
      BY <3>1, <1>4, <1>6, HeapSized DEF MapCounts
  <2>2. MappedOf(k, o) = S \ {p}
    BY <1>7 DEF MappedOf
  <2>3. \A x \in S \ {p} : k[x].size = h[x].size
    BY <1>7 DEF MappedOf
  <2>4. Sized(h, S \ {p})
    BY <2>1, FS_RemoveElement DEF Sized
  <2>5. p \in S <=> o = s
    BY <1>1, <1>9 DEF MappedOf
  <2> HIDE DEF S
  <2>6. Bytes(k, S \ {p}) = Bytes(h, S \ {p}) /\ Bytes(h, S \ {p}) \in Int
    BY <2>3, <2>4, BytesSame, BytesType
  <2>7. CASE o = s
    <3>1. Bytes(h, S) = size + Bytes(h, S \ {p})
      BY <2>1, <2>5, <2>7, <1>9, BytesRemove
    <3> QED
      BY <3>1, <2>1, <2>2, <2>6, <2>7, <1>3, <1>6 DEF MapCounts
  <2>8. CASE o # s
    <3>1. S \ {p} = S /\ new[o] = stats[o]
      BY <2>5, <2>8, <1>3
    <3> QED
      BY <3>1, <2>1, <2>2, <2>6 DEF MapCounts
  <2> QED
    BY <2>7, <2>8
<1>12. ASSUME NEW o \in BOOLEAN, ~ExpandableSegments
       PROVE  new[o].segment = Cardinality(SegmentsOf(g, k, o))
  <2> DEFINE S == SegmentsOf(sg, h, o)
  <2>1. stats[o].segment = Cardinality(S)
    BY <1>4, <1>12 DEF PartCounts
  <2>2. \A a \in DOMAIN sg : a \in DOMAIN h
    BY <1>5 DEF Tiled
  <2>3. IsFiniteSet(S)
    <3>1. S \subseteq DOMAIN h
      BY <2>2 DEF SegmentsOf
    <3> QED
      BY <3>1, <1>4, FS_Subset
  <2>4. SegmentsOf(g, k, o) = S \ {p}
    BY <2>2, <1>7 DEF SegmentsOf
  <2>5. p \in S <=> o = s
    BY <1>5, <1>9 DEF SegmentsOf
  <2> HIDE DEF S
  <2>6. o = s => Cardinality(S \ {p}) = Cardinality(S) - 1 /\ Cardinality(S) \in Nat
    BY <2>3, <2>5, FS_RemoveElement, FS_CardinalityType
  <2>7. o # s => S \ {p} = S /\ new[o] = stats[o]
    BY <2>5, <1>3
  <2> QED
    BY <2>1, <2>4, <2>6, <2>7, <1>3
<1>13. Counts(g, k, active, new)
  BY <1>8, <1>10, <1>11, <1>12 DEF Counts, PartCounts
<1> QED
  BY <1>2, <1>13 DEF g, k, new

\* A segment comes.
LEMMA AllocCounts ==
  ASSUME HeapInv, HeapInv', CallInv, stats \in Stats,
         Counts(segments, blocks, active, stats), NEW base \in Bases, AllocBlock(base)
  PROVE  Counts(segments', blocks', active', stats')
<1> DEFINE h == blocks
           k == blocks'
           sg == segments
           g == segments'
           s == IsSmall(call.size)
           new == stats'
           size == get_allocation_size(call.size)
           b == NewBlock(base, size, call.stream, s, TRUE)
<1>1. /\ base \in Nat /\ base \notin DOMAIN sg /\ base \notin DOMAIN h /\ size \in Nat
  BY NewBase
<1>2. /\ k = [x \in DOMAIN h \cup {base} |-> IF x = base THEN b ELSE h[x]]
      /\ g = [a \in DOMAIN sg \cup {base} |-> IF a = base THEN size ELSE sg[a]]
      /\ active' = active /\ new = SegmentStats(stats, s, 1, size)
  BY DEF AllocBlock
<1>3. s \in BOOLEAN /\ active \subseteq DOMAIN h
  BY Partition DEF IsSmall
<1>4. /\ \A o \in BOOLEAN : o # s => new[o] = stats[o]
      /\ new[s].allocation = stats[s].allocation
      /\ new[s].allocated_bytes = stats[s].allocated_bytes
      /\ new[s].active = stats[s].active
      /\ new[s].active_bytes = stats[s].active_bytes
      /\ new[s].inactive_split = stats[s].inactive_split
      /\ new[s].inactive_split_bytes = stats[s].inactive_split_bytes
      /\ new[s].segment = stats[s].segment + 1
      /\ new[s].reserved_bytes = stats[s].reserved_bytes + 1 * size
  BY <1>2, <1>3, SegmentStatsFields
<1>5. /\ IsFiniteSet(DOMAIN h)
      /\ \A o \in BOOLEAN : /\ UseCounts(h, active, stats[o], o) /\ MapCounts(h, stats[o], o)
                            /\ ~ExpandableSegments => PartCounts(sg, h, active, stats[o], o)
  BY DEF Counts
<1>6. Tiled(sg, h) /\ Tiled(g, k)
  BY DEF HeapInv
<1>7. b.size = size /\ b.small = s /\ b.seg = base /\ b.mapped
  BY DEF NewBlock
<1> HIDE DEF h, k, sg, g, s, new, size, b
<1>8. /\ DOMAIN k = DOMAIN h \cup {base} /\ DOMAIN g = DOMAIN sg \cup {base}
      /\ \A x \in DOMAIN h : k[x] = h[x]
      /\ \A a \in DOMAIN sg : g[a] = sg[a]
      /\ k[base] = b /\ g[base] = size
  BY <1>1, <1>2
<1>9. IsFiniteSet(DOMAIN k) /\ active \subseteq DOMAIN k /\ base \notin active
  BY <1>1, <1>3, <1>5, <1>8, FS_AddElement
<1>10. ASSUME NEW o \in BOOLEAN
       PROVE  /\ UseCounts(k, active, new[o], o)
              /\ ~ExpandableSegments =>
                   Tally(k, PartsOf(g, k, active, o), new[o].inactive_split,
                         new[o].inactive_split_bytes)
  <2>1. /\ new[o].allocation = stats[o].allocation
        /\ new[o].allocated_bytes = stats[o].allocated_bytes
        /\ new[o].active = stats[o].active
        /\ new[o].active_bytes = stats[o].active_bytes
        /\ new[o].inactive_split = stats[o].inactive_split
        /\ new[o].inactive_split_bytes = stats[o].inactive_split_bytes
    BY <1>4
  <2>2. /\ DOMAIN h \ {base} = DOMAIN k \ {base} /\ DOMAIN sg \ {base} = DOMAIN g \ {base}
        /\ \A x \in DOMAIN h : x # base => k[x] = h[x]
        /\ \A a \in DOMAIN sg : a # base => g[a] = sg[a]
        /\ base \in DOMAIN h => Whole(sg, h, base)
        /\ base \in DOMAIN k => Whole(g, k, base)
    BY <1>1, <1>7, <1>8 DEF Whole
  <2>3. /\ UseCounts(h, active, stats[o], o) => UseCounts(k, active, new[o], o)
        /\ Tally(h, PartsOf(sg, h, active, o), stats[o].inactive_split, stats[o].inactive_split_bytes)
             => Tally(k, PartsOf(g, k, active, o), new[o].inactive_split, new[o].inactive_split_bytes)
    BY <2>1, <2>2, <1>3, <1>5, <1>6, <1>9, SegmentFrame
  <2> QED
    BY <2>3, <1>5 DEF PartCounts
<1>11. ASSUME NEW o \in BOOLEAN PROVE MapCounts(k, new[o], o)
  <2> DEFINE S == MappedOf(h, o)
  <2>1. Sized(h, S) /\ Tally(h, S, Cardinality(S), stats[o].reserved_bytes)
    <3>1. S \subseteq DOMAIN h /\ HeapType(h)
      BY <1>6 DEF MappedOf, Tiled
    <3> QED
      BY <3>1, <1>5, HeapSized DEF MapCounts, Tally
  <2>2. MappedOf(k, o) = IF o = s THEN S \cup {base} ELSE S
    BY <1>1, <1>7, <1>8 DEF MappedOf
  <2>3. base \notin S /\ \A x \in S : k[x].size = h[x].size
    BY <1>1, <1>8 DEF MappedOf
  <2>4. k[base].size = size /\ size \in Int
    BY <1>1, <1>7, <1>8
  <2> HIDE DEF S
  <2>5. CASE o = s
    <3>1. Tally(k, S \cup {base}, Cardinality(S) + 1, stats[o].reserved_bytes + k[base].size)
      BY <2>1, <2>3, <2>4, TallyAdd
    <3>2. new[o].reserved_bytes = stats[o].reserved_bytes + k[base].size
      BY <2>4, <2>5, <1>4
    <3> QED
      BY <3>1, <3>2, <2>2, <2>5 DEF MapCounts, Tally
  <2>6. CASE o # s
    <3>1. new[o] = stats[o]
      BY <2>6, <1>4
    <3> QED
      BY <3>1, <2>1, <2>2, <2>3, <2>6, TallySame DEF MapCounts, Tally
  <2> QED
    BY <2>5, <2>6
<1>12. ASSUME NEW o \in BOOLEAN, ~ExpandableSegments
       PROVE  new[o].segment = Cardinality(SegmentsOf(g, k, o))
  <2> DEFINE S == SegmentsOf(sg, h, o)
  <2>1. stats[o].segment = Cardinality(S)
    BY <1>5, <1>12 DEF PartCounts
  <2>2. \A a \in DOMAIN sg : a \in DOMAIN h
    BY <1>6 DEF Tiled
  <2>3. IsFiniteSet(S)
    <3>1. S \subseteq DOMAIN h
      BY <2>2 DEF SegmentsOf
    <3> QED
      BY <3>1, <1>5, FS_Subset
  <2>4. SegmentsOf(g, k, o) = IF o = s THEN S \cup {base} ELSE S
    BY <2>2, <1>1, <1>7, <1>8 DEF SegmentsOf
  <2>5. base \notin S
    BY <1>1 DEF SegmentsOf
  <2> HIDE DEF S
  <2>6. Cardinality(S \cup {base}) = Cardinality(S) + 1
    BY <2>3, <2>5, FS_AddElement
  <2> QED
    BY <2>1, <2>4, <2>6, <1>4
<1>13. Counts(g, k, active, new)
  BY <1>9, <1>10, <1>11, <1>12 DEF Counts, PartCounts
<1> QED
  BY <1>2, <1>13 DEF g, k, new

-------------------------------------------------------------------------------
\* The invariant, and the effects of free and of events.

\* The bytes reserved by both pools.
ReservedBytes(st) == st[TRUE].reserved_bytes + st[FALSE].reserved_bytes

\* The inductive form of StatsExact.
StatsInv == Counts(segments, blocks, active, stats) /\ total = ReservedBytes(stats)

\* A step that changes no field that counts.
LEMMA StatsFrame ==
  ASSUME HeapInv, StatsInv, UNCHANGED <<segments, active, stats, total>>,
         DOMAIN blocks' = DOMAIN blocks,
         \A x \in DOMAIN blocks :
           /\ blocks'[x].size = blocks[x].size /\ blocks'[x].seg = blocks[x].seg
           /\ blocks'[x].small = blocks[x].small /\ blocks'[x].mapped = blocks[x].mapped
           /\ x \in active => blocks'[x].allocated = blocks[x].allocated
  PROVE  StatsInv'
<1>1. Tiled(segments, blocks) /\ active \subseteq DOMAIN blocks
  BY Partition DEF HeapInv
<1>2. Counts(segments, blocks', active, stats)
  BY <1>1, CountsFrame DEF StatsInv
<1> QED
  BY <1>2 DEF StatsInv

\* free_block, with heap h and statistics st, which agree.
LEMMA FreeBlockKeepsStats ==
  ASSUME HeapInv, NEW p \in active, NEW h, NEW st \in Stats,
         h = [blocks EXCEPT ![p] = h[p]], h[p] \in Block, Freed(blocks[p], h[p]),
         Counts(segments, h, active, st), ReservedBytes(st) = total,
         FreeBlock(h, p, st), segments' = segments, total' = total, Held = {}
  PROVE  StatsInv'
<1>1. /\ p \in DOMAIN blocks /\ DOMAIN h = DOMAIN blocks
      /\ \A x \in DOMAIN blocks : x # p => h[x] = blocks[x]
      /\ active \subseteq DOMAIN h
  BY Partition
<1>2. Tiled(segments, h)
  <2>1. HeapType(h)
    BY <1>1 DEF HeapInv, Tiled, HeapType
  <2> QED
    BY <2>1, <1>1, SameTiled DEF HeapInv, Freed
<1>3. Subsumed(h, p) \cap active = {}
  <2> SUFFICES ASSUME NEW x \in Subsumed(h, p) PROVE x \notin active
    OBVIOUS
  <2>1. x \in DOMAIN blocks /\ x # p /\ ~h[x].allocated /\ h[x].events = 0
    BY <1>1, <1>2, SubsumedAlone
  <2>2. h[x] = blocks[x]
    BY <2>1, <1>1
  <2> QED
    BY <2>1, <2>2, Partition
<1>4. ~h[p].allocated /\ h[p].small \in BOOLEAN
  BY DEF Freed, Block
<1>5. Counts(segments, Coalesce(h, p), active \ {p}, FreeBlockStats(st, h, p))
  BY <1>1, <1>2, <1>3, <1>4, FreeBlockCounts
<1>6. /\ blocks' = Coalesce(h, p) /\ active' = active \ {p}
      /\ stats' = FreeBlockStats(st, h, p)
  BY DEF FreeBlock
<1>7. \A o \in BOOLEAN : stats'[o].reserved_bytes = st[o].reserved_bytes
  BY <1>4, <1>6, FreeBlockStatsFields
<1>8. ReservedBytes(stats') = ReservedBytes(st)
  BY <1>7 DEF ReservedBytes
<1> QED
  BY <1>5, <1>6, <1>8 DEF StatsInv, ReservedBytes

\* The completion of an event, whether it frees its block or not.
LEMMA EventDoneKeepsStats ==
  ASSUME HeapInv, StatsInv, stats \in Stats, NEW p \in active, ~blocks[p].allocated,
         blocks[p].events > 0, EventDone(blocks, p),
         segments' = segments, total' = total, Held = {}
  PROVE  StatsInv'
<1> DEFINE g == [blocks EXCEPT ![p].events = blocks[p].events - 1]
<1>0. /\ p \in DOMAIN blocks /\ blocks[p] \in Block /\ blocks[p].uses = {}
      /\ blocks[p].events \in Nat /\ active \subseteq DOMAIN blocks
  BY Partition DEF Block
<1>1. /\ g = [blocks EXCEPT ![p] = g[p]] /\ g[p] \in Block
      /\ DOMAIN g = DOMAIN blocks
      /\ \A x \in DOMAIN blocks : x # p => g[x] = blocks[x]
      /\ g[p] = [blocks[p] EXCEPT !.events = blocks[p].events - 1]
      /\ g[p].events = blocks[p].events - 1
  BY <1>0 DEF Block
<1>2. IF g[p].events = 0
      THEN FreeBlock(g, p, stats)
      ELSE blocks' = g /\ UNCHANGED <<active, stats>>
  BY DEF EventDone
<1> HIDE DEF g
<1>3. /\ g[p].size = blocks[p].size /\ g[p].seg = blocks[p].seg
      /\ g[p].stream = blocks[p].stream
      /\ g[p].small = blocks[p].small /\ g[p].mapped = blocks[p].mapped
      /\ g[p].allocated = blocks[p].allocated /\ g[p].uses = {}
  BY <1>0, <1>1 DEF Block
<1>4. \A x \in DOMAIN blocks :
        /\ g[x].size = blocks[x].size /\ g[x].seg = blocks[x].seg
        /\ g[x].small = blocks[x].small /\ g[x].mapped = blocks[x].mapped
        /\ x \in active => g[x].allocated = blocks[x].allocated
  BY <1>1, <1>3
<1>5. CASE g[p].events = 0
  <2>1. Freed(blocks[p], g[p])
    BY <1>3, <1>5 DEF Freed
  <2>2. Counts(segments, g, active, stats)
    <3>1. Tiled(segments, blocks) /\ DOMAIN g = DOMAIN blocks
      BY <1>1 DEF HeapInv
    <3> QED
      BY <3>1, <1>0, <1>4, CountsFrame DEF StatsInv
  <2> QED
    BY <2>1, <2>2, <1>1, <1>2, <1>5, FreeBlockKeepsStats DEF StatsInv
<1>6. CASE g[p].events # 0
  BY <1>1, <1>2, <1>4, <1>6, StatsFrame
<1> QED
  BY <1>5, <1>6

\* The oldest event of a stream leaves its queue.
LEMMA PopEventKeepsStats ==
  ASSUME HeapInv, QueueInv, StatsInv, stats \in Stats, NEW s \in Streams,
         npu_events[s] # <<>>, PopEvent(s),
         segments' = segments, total' = total, Held = {}
  PROVE  StatsInv'
<1>1. 1 \in DOMAIN npu_events[s] /\ Head(npu_events[s]) = npu_events[s][1]
  <2>1. Len(npu_events[s]) # 0 /\ npu_events[s] \in Seq(Nat)
    BY QueueTypes, EmptySeq
  <2> QED
    BY <2>1
<1>2. EventDone(blocks, npu_events[s][1])
  BY <1>1 DEF PopEvent
<1> QED
  BY <1>1, <1>2, QueuedHasEvents, EventDoneKeepsStats

\* The effect of free on the statistics, before the block is freed.
FreeStats(small, n) ==
  [stats EXCEPT ![small] =
     [stats[small] EXCEPT !.allocation = @ - 1, !.allocated_bytes = @ - n]]

\* ... field by field.
LEMMA FreeStatsFields ==
  ASSUME stats \in Stats, NEW s \in BOOLEAN, NEW n
  PROVE  LET st == FreeStats(s, n)
         IN  /\ \A o \in BOOLEAN : o # s => st[o] = stats[o]
             /\ st[s].allocation = stats[s].allocation - 1
             /\ st[s].allocated_bytes = stats[s].allocated_bytes - n
             /\ st[s].active = stats[s].active
             /\ st[s].active_bytes = stats[s].active_bytes
             /\ st[s].segment = stats[s].segment
             /\ st[s].reserved_bytes = stats[s].reserved_bytes
             /\ st[s].inactive_split = stats[s].inactive_split
             /\ st[s].inactive_split_bytes = stats[s].inactive_split_bytes
<1>1. stats[s] \in Stat /\ DOMAIN stats = BOOLEAN
  BY DEF Stats
<1> QED
  BY <1>1 DEF FreeStats, Stat

\* What free does before it inserts events or frees the block: the block, which
\* stays active, is no longer counted as allocated.
LEMMA FreeFlagCounts ==
  ASSUME HeapInv, stats \in Stats, Counts(segments, blocks, active, stats), NEW p \in Allocated,
         NEW h, h = [blocks EXCEPT ![p].allocated = FALSE], NEW st,
         st = [stats EXCEPT ![blocks[p].small] =
                 [stats[blocks[p].small] EXCEPT !.allocation = @ - 1,
                                                !.allocated_bytes = @ - blocks[p].size]]
  PROVE  /\ st \in Stats
         /\ Counts(segments, h, active, st)
         /\ ReservedBytes(st) = ReservedBytes(stats)
<1> DEFINE s == blocks[p].small
<1>1. /\ p \in active /\ blocks[p].allocated /\ p \in DOMAIN blocks /\ blocks[p] \in Block
      /\ active \subseteq DOMAIN blocks /\ s \in BOOLEAN /\ blocks[p].size \in Nat
  BY Partition DEF Allocated, Block
<1>2. st \in Stats
  <2>1. blocks[p].size \in Int /\ blocks[p].small \in BOOLEAN
    BY <1>1
  <2> QED
    BY <2>1, FreeStatsType, Zenon
<1>3. st = FreeStats(s, blocks[p].size)
  BY Zenon DEF FreeStats
<1>4. /\ \A o \in BOOLEAN : o # s => st[o] = stats[o]
      /\ st[s].allocation = stats[s].allocation - 1
      /\ st[s].allocated_bytes = stats[s].allocated_bytes - blocks[p].size
      /\ st[s].active = stats[s].active
      /\ st[s].active_bytes = stats[s].active_bytes
      /\ st[s].segment = stats[s].segment
      /\ st[s].reserved_bytes = stats[s].reserved_bytes
      /\ st[s].inactive_split = stats[s].inactive_split
      /\ st[s].inactive_split_bytes = stats[s].inactive_split_bytes
  <2>1. s \in BOOLEAN
    BY <1>1
  <2> DEFINE f == FreeStats(s, blocks[p].size)
  <2> HIDE DEF s
  <2>2. /\ \A o \in BOOLEAN : o # s => f[o] = stats[o]
        /\ f[s].allocation = stats[s].allocation - 1
        /\ f[s].allocated_bytes = stats[s].allocated_bytes - blocks[p].size
        /\ f[s].active = stats[s].active
        /\ f[s].active_bytes = stats[s].active_bytes
        /\ f[s].segment = stats[s].segment
        /\ f[s].reserved_bytes = stats[s].reserved_bytes
        /\ f[s].inactive_split = stats[s].inactive_split
        /\ f[s].inactive_split_bytes = stats[s].inactive_split_bytes
    BY <2>1, FreeStatsFields, Zenon
  <2> HIDE DEF f
  <2>3. st = f
    BY <1>3 DEF f
  <2> QED
    BY <2>2, <2>3
<1>5. /\ DOMAIN h = DOMAIN blocks /\ \A x \in DOMAIN blocks : x # p => h[x] = blocks[x]
      /\ h[p] = [blocks[p] EXCEPT !.allocated = FALSE]
  BY <1>1
<1>6. /\ ~h[p].allocated /\ h[p].size = blocks[p].size /\ h[p].seg = blocks[p].seg
      /\ h[p].small = s /\ h[p].mapped = blocks[p].mapped
  BY <1>1, <1>5 DEF Block
<1>7. \A x \in DOMAIN blocks :
        /\ h[x].size = blocks[x].size /\ h[x].seg = blocks[x].seg
        /\ h[x].small = blocks[x].small /\ h[x].mapped = blocks[x].mapped
  BY <1>5, <1>6
<1>8. HeapType(blocks) /\ \A a \in DOMAIN segments : a \in DOMAIN blocks
  BY DEF HeapInv, Tiled
<1>9. /\ IsFiniteSet(DOMAIN blocks)
      /\ \A o \in BOOLEAN :
           /\ UseCounts(blocks, active, stats[o], o) /\ MapCounts(blocks, stats[o], o)
           /\ ~ExpandableSegments => PartCounts(segments, blocks, active, stats[o], o)
  BY DEF Counts
<1> HIDE DEF s
<1>10. ASSUME NEW o \in BOOLEAN PROVE MapCounts(h, st[o], o)
  <2>1. MappedOf(h, o) = MappedOf(blocks, o)
    BY <1>5, <1>7 DEF MappedOf
  <2>2. \A x \in MappedOf(blocks, o) : h[x].size = blocks[x].size
    BY <1>7 DEF MappedOf
  <2>3. st[o].reserved_bytes = stats[o].reserved_bytes
    BY <1>4
  <2> QED
    BY <2>1, <2>2, <2>3, <1>8, <1>9, MapFrame
<1>11. ASSUME NEW o \in BOOLEAN, ~ExpandableSegments
       PROVE  PartCounts(segments, h, active, st[o], o)
  <2>1. PartsOf(segments, h, active, o) = PartsOf(segments, blocks, active, o)
    BY <1>5, <1>7 DEF PartsOf, Whole
  <2>2. \A x \in PartsOf(segments, blocks, active, o) : h[x].size = blocks[x].size
    BY <1>7 DEF PartsOf
  <2>3. \A a \in DOMAIN segments : h[a].small = blocks[a].small
    BY <1>7, <1>8
  <2>4. /\ st[o].inactive_split = stats[o].inactive_split
        /\ st[o].inactive_split_bytes = stats[o].inactive_split_bytes
        /\ st[o].segment = stats[o].segment
    BY <1>4
  <2>5. PartCounts(segments, blocks, active, stats[o], o)
    BY <1>9, <1>11
  <2> QED
    BY <2>1, <2>2, <2>3, <2>4, <2>5, <1>8, <1>9, PartFrame
<1>12. ASSUME NEW o \in BOOLEAN PROVE UseCounts(h, active, st[o], o)
  <2> DEFINE U == UsedOf(blocks, active, o)
             A == ActiveOf(blocks, active, o)
  <2>1. /\ Tally(blocks, U, stats[o].allocation, stats[o].allocated_bytes)
        /\ Tally(blocks, A, stats[o].active, stats[o].active_bytes)
    BY <1>9 DEF UseCounts
  <2>2. U \subseteq DOMAIN blocks /\ A \subseteq DOMAIN blocks
    BY <1>1 DEF UsedOf, ActiveOf
  <2>3. Sized(blocks, U) /\ Sized(blocks, A)
    BY <2>2, <1>8, <1>9, HeapSized
  <2>4. ActiveOf(h, active, o) = A /\ UsedOf(h, active, o) = U \ {p}
    BY <1>1, <1>5, <1>6, <1>7 DEF ActiveOf, UsedOf
  <2>5. p \in U <=> o = s
    BY <1>1 DEF UsedOf, s
  <2>6. \A x \in U \cup A : h[x].size = blocks[x].size
    BY <2>2, <1>7
  <2> HIDE DEF U, A
  <2>7. Tally(h, A, st[o].active, st[o].active_bytes)
    <3>1. st[o].active = stats[o].active /\ st[o].active_bytes = stats[o].active_bytes
      BY <1>4
    <3> QED
      BY <3>1, <2>1, <2>3, <2>6, TallySame
  <2>8. Tally(h, U \ {p}, st[o].allocation, st[o].allocated_bytes)
    <3>1. CASE o = s
      <4>1. \A x \in U \ {p} : h[x].size = blocks[x].size
        BY <2>6
      <4>2. Tally(h, U \ {p}, stats[o].allocation - 1, stats[o].allocated_bytes - blocks[p].size)
        BY <4>1, <3>1, <2>1, <2>3, <2>5, TallyRemove
      <4> QED
        BY <4>2, <3>1, <1>4
    <3>2. CASE o # s
      <4>1. U \ {p} = U /\ st[o] = stats[o]
        BY <3>2, <2>5, <1>4
      <4> QED
        BY <4>1, <2>1, <2>3, <2>6, TallySame
    <3> QED
      BY <3>1, <3>2
  <2> QED
    BY <2>4, <2>7, <2>8 DEF UseCounts
<1>13. Counts(segments, h, active, st)
  BY <1>5, <1>9, <1>10, <1>11, <1>12 DEF Counts
<1>14. ReservedBytes(st) = ReservedBytes(stats)
  BY <1>4 DEF ReservedBytes
<1> QED
  BY <1>2, <1>13, <1>14

-------------------------------------------------------------------------------
\* Every step keeps the counts.

\* Sums of three numbers.
LEMMA Shuffle == \A a, b, c \in Int : (a + c) + b = (a + b) + c /\ a + (b + c) = (a + b) + c
  OBVIOUS

\* Bytes added to the reserved bytes of one pool are added to those of both.
LEMMA ReservedAdds == ASSUME NEW st, NEW st2, NEW d \in Int, NEW small \in BOOLEAN,
   \A o \in BOOLEAN : st[o].reserved_bytes \in Int,
   st2[small].reserved_bytes = st[small].reserved_bytes + d,
   \A o \in BOOLEAN : o # small => st2[o] = st[o]
  PROVE ReservedBytes(st2) = ReservedBytes(st) + d
<1>1. CASE small = TRUE
  <2>1. st2[TRUE].reserved_bytes = st[TRUE].reserved_bytes + d
    BY <1>1
  <2>2. st2[FALSE].reserved_bytes = st[FALSE].reserved_bytes
    BY <1>1
  <2>3. ReservedBytes(st2) = (st[TRUE].reserved_bytes + d) + st[FALSE].reserved_bytes
    BY <2>1, <2>2, Zenon DEF ReservedBytes
  <2>4. st[TRUE].reserved_bytes \in Int /\ st[FALSE].reserved_bytes \in Int
    OBVIOUS
  <2> QED
    BY <2>3, <2>4, Shuffle, Zenon DEF ReservedBytes
<1>2. CASE small = FALSE
  <2>1. st2[FALSE].reserved_bytes = st[FALSE].reserved_bytes + d
    BY <1>2
  <2>2. st2[TRUE].reserved_bytes = st[TRUE].reserved_bytes
    BY <1>2
  <2>3. ReservedBytes(st2) = st[TRUE].reserved_bytes + (st[FALSE].reserved_bytes + d)
    BY <2>1, <2>2, Zenon DEF ReservedBytes
  <2>4. st[TRUE].reserved_bytes \in Int /\ st[FALSE].reserved_bytes \in Int
    OBVIOUS
  <2> QED
    BY <2>3, <2>4, Shuffle, Zenon DEF ReservedBytes
<1> QED
  BY <1>1, <1>2

\* should_split answers yes or no.
LEMMA SplitDecides ==
  ASSUME NEW b, NEW n
  PROVE  should_split(b, n) \in BOOLEAN
<1>1. CASE b.small \/ ExpandableSegments
  <2>1. should_split(b, n) = (b.size - n >= kMinBlockSize)
    BY <1>1 DEF should_split
  <2> QED
    BY <2>1
<1>2. CASE ~(b.small \/ ExpandableSegments)
  <2>1. should_split(b, n) = (BelowMaxSplit(n) /\ b.size - n > kSmallSize)
    BY <1>2 DEF should_split
  <2> QED
    BY <2>1
<1> QED
  BY <1>1, <1>2

\* alloc_found_block.
LEMMA AllocFoundKeepsStats ==
  ASSUME HeapInv, HeapInv', CallInv, stats \in Stats, StatsInv, AllocFoundBlock
  PROVE  StatsInv'
<1> DEFINE p == call.block
           n == call.size
           split == should_split(blocks[p], n)
<1>1. HandsOut(blocks, blocks', p, n, split)
  BY AllocFoundHandsOut
<1>2. /\ active' = active \cup {p} /\ stats' = AllocFoundStats(stats, p, n, split)
      /\ UNCHANGED <<segments, total>>
      /\ pc = "found"
  BY DEF AllocFoundBlock
<1>3. /\ p \notin active /\ active \subseteq DOMAIN blocks /\ p \in DOMAIN blocks
      /\ blocks[p] \in Block
  BY <1>1, <1>2, Partition DEF Held, HandsOut
<1>4. split \in BOOLEAN
  BY SplitDecides
<1>5. Tiled(segments, blocks) /\ HeapType(blocks')
  BY DEF HeapInv, Tiled
<1> HIDE DEF p, n, split
<1>6. Counts(segments, blocks', active \cup {p}, AllocFoundStats(stats, p, n, split))
  BY <1>1, <1>3, <1>4, <1>5, HandsOutCounts DEF StatsInv
<1>7. \A o \in BOOLEAN : stats'[o].reserved_bytes = stats[o].reserved_bytes
  BY <1>2, <1>3, <1>4, AllocFoundStatsFields
<1>8. ReservedBytes(stats') = ReservedBytes(stats)
  BY <1>7 DEF ReservedBytes
<1> QED
  BY <1>2, <1>6, <1>8 DEF StatsInv, ReservedBytes

\* free.
LEMMA FreeKeepsStats ==
  ASSUME HeapInv, QueueInv, stats \in Stats, StatsInv, NEW p \in active, Free(p)
  PROVE  StatsInv'
<1> DEFINE h == [blocks EXCEPT ![p].allocated = FALSE]
           st == [stats EXCEPT ![blocks[p].small] =
                    [stats[blocks[p].small] EXCEPT !.allocation = @ - 1,
                                                   !.allocated_bytes = @ - blocks[p].size]]
<1>0. /\ pc = "idle" /\ Held = {} /\ p \in Allocated /\ UNCHANGED <<segments, total>>
  BY DEF Free, Held
<1>1. /\ p \in DOMAIN blocks /\ blocks[p] \in Block /\ blocks[p].events = 0
      /\ active \subseteq DOMAIN blocks
  BY <1>0, Partition DEF QueueInv, EventsOfActive, Allocated
<1>2. /\ h = [blocks EXCEPT ![p] = h[p]] /\ h[p] \in Block /\ DOMAIN h = DOMAIN blocks
      /\ \A x \in DOMAIN blocks : x # p => h[x] = blocks[x]
  BY <1>1 DEF Block
<1>3. st \in Stats /\ Counts(segments, h, active, st) /\ ReservedBytes(st) = ReservedBytes(stats)
  <2>1. Counts(segments, blocks, active, stats)
    BY DEF StatsInv
  <2>2. /\ h = [blocks EXCEPT ![p].allocated = FALSE]
        /\ st = [stats EXCEPT ![blocks[p].small] =
                   [stats[blocks[p].small] EXCEPT !.allocation = @ - 1,
                                                  !.allocated_bytes = @ - blocks[p].size]]
    OBVIOUS
  <2> HIDE DEF h, st
  <2> QED
    BY <1>0, <2>1, <2>2, FreeFlagCounts
<1>4. CASE blocks[p].uses = {}
  <2>1. Freed(blocks[p], h[p])
    BY <1>1, <1>4 DEF Freed, Block
  <2>2. FreeBlock(h, p, st)
    BY <1>4 DEF Free
  <2> HIDE DEF h, st
  <2> QED
    BY <2>1, <2>2, <1>0, <1>2, <1>3, FreeBlockKeepsStats DEF StatsInv
<1>5. CASE blocks[p].uses # {}
  <2>1. /\ blocks' = [h EXCEPT ![p].uses = {},
                               ![p].events = @ + Cardinality(blocks[p].uses)]
        /\ active' = active /\ stats' = st
    BY <1>5, Zenon DEF Free
  <2>2. Tiled(segments, h)
    <3>1. HeapType(h)
      BY <1>1, <1>2 DEF HeapInv, Tiled, HeapType
    <3>2. /\ h[p].size = blocks[p].size /\ h[p].seg = blocks[p].seg
          /\ h[p].stream = blocks[p].stream /\ h[p].small = blocks[p].small
      BY <1>1 DEF Block
    <3> HIDE DEF h
    <3> QED
      BY <3>1, <3>2, <1>2, SameTiled DEF HeapInv
  <2> HIDE DEF h, st
  <2>3. /\ DOMAIN blocks' = DOMAIN h
        /\ \A x \in DOMAIN h : x # p => blocks'[x] = h[x]
        /\ blocks'[p].size = h[p].size /\ blocks'[p].seg = h[p].seg
        /\ blocks'[p].small = h[p].small /\ blocks'[p].mapped = h[p].mapped
        /\ blocks'[p].allocated = h[p].allocated
    BY <2>1, <1>1, <1>2 DEF Block
  <2>4. \A x \in DOMAIN h :
          /\ blocks'[x].size = h[x].size /\ blocks'[x].seg = h[x].seg
          /\ blocks'[x].small = h[x].small /\ blocks'[x].mapped = h[x].mapped
          /\ x \in active => blocks'[x].allocated = h[x].allocated
    BY <2>3
  <2>5. Counts(segments, blocks', active, st)
    BY <2>2, <2>3, <2>4, <1>1, <1>2, <1>3, CountsFrame
  <2> QED
    BY <2>1, <2>5, <1>0, <1>3 DEF StatsInv, ReservedBytes
<1> QED
  BY <1>4, <1>5

\* The steps that do not depend on where segments come from.
LEMMA SharedKeepsStats ==
  ASSUME SharedInv, HeapInv', StatsInv, Program \/ CommonStep \/ Device
  PROVE  StatsInv'
<1>0. HeapInv /\ QueueInv /\ CallInv /\ stats \in Stats
  BY DEF SharedInv, CountInv, Stats
<1>1. ASSUME UNCHANGED <<segments, blocks, active, stats, total>> PROVE StatsInv'
  BY <1>1 DEF StatsInv
<1>2. CASE Program
  <2>1. ASSUME NEW bytes, NEW s, Malloc(bytes, s) PROVE StatsInv'
    BY <2>1, <1>1 DEF Malloc, heapVars
  <2>2. ASSUME NEW p \in active, Free(p) PROVE StatsInv'
    BY <2>2, <1>0, FreeKeepsStats
  <2>3. ASSUME NEW p \in active, NEW s \in Streams, RecordStream(p, s) PROVE StatsInv'
    <3>1. /\ blocks' = [blocks EXCEPT ![p].uses = @ \cup {s}]
          /\ UNCHANGED <<segments, active, stats, total>>
          /\ p \in DOMAIN blocks /\ blocks[p] \in Block
      BY <2>3, <1>0, Partition DEF RecordStream
    <3>2. /\ DOMAIN blocks' = DOMAIN blocks
          /\ \A x \in DOMAIN blocks : x # p => blocks'[x] = blocks[x]
          /\ blocks'[p].size = blocks[p].size /\ blocks'[p].seg = blocks[p].seg
          /\ blocks'[p].small = blocks[p].small /\ blocks'[p].mapped = blocks[p].mapped
          /\ blocks'[p].allocated = blocks[p].allocated
      BY <3>1 DEF Block
    <3> QED
      BY <3>1, <3>2, <1>0, StatsFrame
  <2>4. ASSUME NEW p \in active, NEW s \in Streams, EraseStream(p, s) PROVE StatsInv'
    <3> DEFINE h == [blocks EXCEPT ![p].uses = @ \ {s}]
               queued  == {i \in DOMAIN npu_events[s] : npu_events[s][i] = p}
    <3>1. /\ pc = "idle" /\ Held = {} /\ UNCHANGED <<segments, total>>
          /\ p \in DOMAIN blocks /\ blocks[p] \in Block
      BY <2>4, <1>0, Partition DEF EraseStream, Held
    <3>2. CASE queued = {}
      <4>1. blocks' = h /\ UNCHANGED <<active, stats>>
        BY <2>4, <3>2 DEF EraseStream
      <4>2. /\ DOMAIN blocks' = DOMAIN blocks
            /\ \A x \in DOMAIN blocks : x # p => blocks'[x] = blocks[x]
            /\ blocks'[p].size = blocks[p].size /\ blocks'[p].seg = blocks[p].seg
            /\ blocks'[p].small = blocks[p].small /\ blocks'[p].mapped = blocks[p].mapped
            /\ blocks'[p].allocated = blocks[p].allocated
        BY <3>1, <4>1 DEF Block
      <4> QED
        BY <3>1, <4>1, <4>2, <1>0, StatsFrame
    <3>3. CASE queued # {}
      <4>1. EventDone(h, p)
        BY <2>4, <3>3 DEF EraseStream
      <4>2. ~blocks[p].allocated /\ blocks[p].events > 0
        BY <3>3, <1>0, QueuedHasEvents
      <4>3. h = blocks
        <5>1. blocks[p].uses = {}
          BY <4>2, <3>1, <1>0, Partition
        <5>2. [blocks[p] EXCEPT !.uses = {}] = blocks[p]
          BY <3>1, <5>1 DEF Block
        <5>3. blocks = [x \in DOMAIN blocks |-> blocks[x]]
          BY <1>0 DEF HeapInv, Tiled, HeapType
        <5> QED
          BY <3>1, <5>1, <5>2, <5>3
      <4>4. EventDone(blocks, p)
        BY <4>1, <4>3
      <4> QED
        BY <4>2, <4>4, <3>1, <1>0, EventDoneKeepsStats
    <3> QED
      BY <3>2, <3>3
  <2>5. ASSUME EmptyCache PROVE StatsInv'
    BY <2>5, <1>1 DEF EmptyCache, heapVars
  <2>6. ASSUME NEW limit, SetMemoryFraction(limit) PROVE StatsInv'
    BY <2>6, <1>1 DEF SetMemoryFraction, heapVars
  <2> QED
    BY <1>2, <2>1, <2>2, <2>3, <2>4, <2>5, <2>6 DEF Program
<1>3. CASE CommonStep
  <2>1. ASSUME NEW s \in Streams, ProcessEvents(s) PROVE StatsInv'
    <3>1. Held = {} /\ UNCHANGED <<segments, total>>
      BY <2>1 DEF ProcessEvents, Held
    <3>2. CASE npu_events[s] # <<>> /\ completed[s] > 0
      <4>1. PopEvent(s)
        BY <2>1, <3>2 DEF ProcessEvents
      <4> QED
        BY <4>1, <3>1, <3>2, <1>0, PopEventKeepsStats
    <3>3. CASE ~(npu_events[s] # <<>> /\ completed[s] > 0)
      BY <2>1, <3>1, <3>3, <1>1 DEF ProcessEvents, heapVars
    <3> QED
      BY <3>2, <3>3
  <2>2. ASSUME NEW s \in Streams, SynchronizeEvent(s) PROVE StatsInv'
    BY <2>2, <1>0, PopEventKeepsStats DEF SynchronizeEvent, Held
  <2>3. ASSUME NoFreeBlock \/ \E p \in cached : GetFreeBlock(p) PROVE StatsInv'
    <3>1. /\ blocks' = Aged \/ \E p \in cached : blocks' = [Aged EXCEPT ![p].age = 0]
          /\ UNCHANGED <<segments, active, stats, total>>
      BY <2>3 DEF NoFreeBlock, GetFreeBlock
    <3>2. /\ DOMAIN Aged = DOMAIN blocks
          /\ \A x \in DOMAIN blocks :
               /\ Aged[x] \in Block
               /\ Aged[x] = [blocks[x] EXCEPT !.age = Aged[x].age]
               /\ blocks[x] \in Block
      BY <1>0, AgedType, Partition
    <3>3. \A x \in DOMAIN blocks :
            /\ Aged[x].size = blocks[x].size /\ Aged[x].seg = blocks[x].seg
            /\ Aged[x].small = blocks[x].small /\ Aged[x].mapped = blocks[x].mapped
            /\ Aged[x].allocated = blocks[x].allocated
      BY <3>2 DEF Block
    <3>4. /\ DOMAIN blocks' = DOMAIN blocks
          /\ \A x \in DOMAIN blocks :
               /\ blocks'[x].size = blocks[x].size /\ blocks'[x].seg = blocks[x].seg
               /\ blocks'[x].small = blocks[x].small /\ blocks'[x].mapped = blocks[x].mapped
               /\ blocks'[x].allocated = blocks[x].allocated
      <4>1. CASE blocks' = Aged
        BY <4>1, <3>2, <3>3
      <4>2. ASSUME NEW p \in cached, blocks' = [Aged EXCEPT ![p].age = 0]
            PROVE  /\ DOMAIN blocks' = DOMAIN blocks
                   /\ \A x \in DOMAIN blocks :
                        /\ blocks'[x].size = Aged[x].size /\ blocks'[x].seg = Aged[x].seg
                        /\ blocks'[x].small = Aged[x].small /\ blocks'[x].mapped = Aged[x].mapped
                        /\ blocks'[x].allocated = Aged[x].allocated
        BY <4>2, <3>2 DEF Block
      <4> QED
        BY <4>1, <4>2, <3>1, <3>3
    <3> QED
      BY <3>1, <3>4, <1>0, StatsFrame
  <2>4. ASSUME AllocFoundBlock PROVE StatsInv'
    BY <2>4, <1>0, AllocFoundKeepsStats
  <2>5. ASSUME OutOfMemory PROVE StatsInv'
    BY <2>5, <1>1 DEF OutOfMemory, Return, heapVars
  <2> QED
    BY <1>3, <2>1, <2>2, <2>3, <2>4, <2>5 DEF CommonStep
<1>4. CASE Device
  BY <1>4, <1>1 DEF Device, DeviceRuns, heapVars
<1> QED
  BY <1>2, <1>3, <1>4

\* Every step.
LEMMA NextKeepsStats ==
  ASSUME IInv, IInv', StatsInv, [Next]_vars
  PROVE  StatsInv'
<1>0. /\ SharedInv /\ HeapInv' /\ SegmentCall
      /\ HeapInv /\ QueueInv /\ CallInv /\ CountInv /\ stats \in Stats
  BY DEF IInv, SharedInv, CountInv, Stats
<1>1. ASSUME UNCHANGED <<segments, blocks, active, stats, total>> PROVE StatsInv'
  BY <1>1 DEF StatsInv
<1>2. CASE Program \/ CommonStep \/ Device
  BY <1>0, <1>2, SharedKeepsStats
<1>3. ASSUME NEW small \in BOOLEAN, NEW n \in {1, -1}, NEW size \in Int,
             stats' = SegmentStats(stats, small, n, size), total' = total + n * size,
             Counts(segments', blocks', active', stats')
      PROVE  StatsInv'
  <2>1. /\ \A o \in BOOLEAN : o # small => stats'[o] = stats[o]
        /\ stats'[small].reserved_bytes = stats[small].reserved_bytes + n * size
    BY <1>0, <1>3, SegmentStatsFields
  <2>2. \A o \in BOOLEAN : stats[o].reserved_bytes \in Int
    BY <1>0 DEF Stats, Stat
  <2>3. n * size \in Int
    BY <1>3
  <2>4. ReservedBytes(stats') = ReservedBytes(stats) + n * size
    BY <2>1, <2>2, <2>3, <1>3, ReservedAdds, Zenon
  <2> QED
    BY <2>4, <1>3 DEF StatsInv, ReservedBytes
<1>4. CASE SegmentStep
  <2>1. ASSUME NEW p,
               \/ p \in call.targets /\ CollectBlock(p)
               \/ p \in cached /\ (ReleaseFitting(p) \/ ReleaseLargest(p) \/ ReleaseCached(p))
        PROVE  StatsInv'
    <3>1. p \in cached /\ ReleaseBlock(p)
      BY <2>1, <1>0 DEF CollectBlock, ReleaseFitting, ReleaseLargest, ReleaseCached,
         SegmentCall, Unsplit
    <3>2. /\ p \in DOMAIN blocks /\ blocks[p].small \in BOOLEAN /\ blocks[p].size \in Int
      BY <3>1, <1>0, Partition DEF Block
    <3>3. ~IsSplit(blocks, p)
      BY <1>0, <2>1, ReleasedUnsplit
    <3>4. Counts(segments', blocks', active', stats')
      BY <3>1, <3>3, <1>0, ReleaseCounts DEF StatsInv
    <3>5. /\ stats' = SegmentStats(stats, blocks[p].small, -1, blocks[p].size)
          /\ total' = total + (-1) * blocks[p].size
      BY <3>1, <3>2, <1>0 DEF ReleaseBlock, CountInv
    <3> QED
      BY <3>2, <3>4, <3>5, <1>3
  <2>2. ASSUME \/ CollectRound \/ CollectDone \/ ReleaseSomeDone \/ ReleaseAllDone
               \/ WithinLimit \/ AllocBlockFails
        PROVE  StatsInv'
    BY <2>2, <1>1 DEF CollectRound, CollectDone, ReleaseSomeDone, ReleaseAllDone,
         WithinLimit, AllocBlockFails, heapVars
  <2>3. ASSUME NEW base \in Bases, AllocBlock(base) PROVE StatsInv'
    <3> DEFINE size == get_allocation_size(call.size)
               small == IsSmall(call.size)
    <3>1. size \in Int /\ small \in BOOLEAN
      BY <2>3, <1>0, NewBase DEF IsSmall
    <3>2. Counts(segments', blocks', active', stats')
      BY <2>3, <1>0, AllocCounts DEF StatsInv
    <3>3. stats' = SegmentStats(stats, small, 1, size) /\ total' = total + size
      BY <2>3 DEF AllocBlock
    <3> HIDE DEF size, small
    <3>4. total' = total + 1 * size
      BY <3>1, <3>3
    <3> QED
      BY <3>1, <3>2, <3>3, <3>4, <1>3
  <2> QED
    BY <1>4, <2>1, <2>2, <2>3 DEF SegmentStep
<1>5. CASE UNCHANGED vars
  BY <1>5, <1>1 DEF vars
<1> QED
  BY <1>2, <1>4, <1>5 DEF Next

\* The counts are what StatsExact counts.
LEMMA CountsAreExact == HeapInv /\ StatsInv => StatsExact
<1> SUFFICES ASSUME HeapInv, StatsInv, NEW small \in BOOLEAN
             PROVE  LET in(S)    == {p \in S : blocks[p].small = small}
                        idle     == in(DOMAIN blocks \ active)
                        split    == {p \in idle : IsSplit(blocks, p)}
                        mapped   == {p \in in(DOMAIN blocks) : blocks[p].mapped}
                        st       == stats[small]
                    IN  /\ st.allocation = Cardinality(in(Allocated))
                        /\ st.allocated_bytes = SizeSum(in(Allocated))
                        /\ st.active = Cardinality(in(active))
                        /\ st.active_bytes = SizeSum(in(active))
                        /\ st.reserved_bytes = SizeSum(mapped)
                        /\ ~ExpandableSegments =>
                             /\ st.inactive_split = Cardinality(split)
                             /\ st.inactive_split_bytes = SizeSum(split)
                             /\ st.segment = Cardinality({a \in DOMAIN segments : a \in in(DOMAIN blocks)})
                        /\ total = stats[TRUE].reserved_bytes + stats[FALSE].reserved_bytes
  BY DEF StatsExact
<1> DEFINE in(S) == {p \in S : blocks[p].small = small}
           split == {p \in in(DOMAIN blocks \ active) : IsSplit(blocks, p)}
           mapped == {p \in in(DOMAIN blocks) : blocks[p].mapped}
           bases == {a \in DOMAIN segments : a \in in(DOMAIN blocks)}
<1>1. Tiled(segments, blocks) /\ active \subseteq DOMAIN blocks
  BY Partition DEF HeapInv
<1>2. /\ UseCounts(blocks, active, stats[small], small)
      /\ MapCounts(blocks, stats[small], small)
      /\ ~ExpandableSegments => PartCounts(segments, blocks, active, stats[small], small)
      /\ total = stats[TRUE].reserved_bytes + stats[FALSE].reserved_bytes
  BY DEF StatsInv, Counts, ReservedBytes
<1>3. in(Allocated) = UsedOf(blocks, active, small) /\ in(active) = ActiveOf(blocks, active, small)
  BY DEF UsedOf, ActiveOf, Allocated
<1>4. mapped = MappedOf(blocks, small)
  BY DEF MappedOf
<1>5. split = PartsOf(segments, blocks, active, small)
  <2>1. \A p \in DOMAIN blocks : IsSplit(blocks, p) <=> ~Whole(segments, blocks, p)
    BY <1>1, UnsplitIsWhole, WholeAlone
  <2> QED
    BY <2>1 DEF PartsOf
<1>6. bases = SegmentsOf(segments, blocks, small)
  BY <1>1 DEF SegmentsOf, Tiled
<1>7. /\ SizeSum(UsedOf(blocks, active, small)) = Bytes(blocks, UsedOf(blocks, active, small))
      /\ SizeSum(ActiveOf(blocks, active, small)) = Bytes(blocks, ActiveOf(blocks, active, small))
      /\ SizeSum(MappedOf(blocks, small)) = Bytes(blocks, MappedOf(blocks, small))
      /\ SizeSum(PartsOf(segments, blocks, active, small)) =
           Bytes(blocks, PartsOf(segments, blocks, active, small))
  BY Zenon DEF SizeSum, Bytes
<1> HIDE DEF in, split, mapped, bases
<1>8. /\ stats[small].allocation = Cardinality(in(Allocated))
      /\ stats[small].allocated_bytes = SizeSum(in(Allocated))
      /\ stats[small].active = Cardinality(in(active))
      /\ stats[small].active_bytes = SizeSum(in(active))
      /\ stats[small].reserved_bytes = SizeSum(mapped)
  BY <1>2, <1>3, <1>4, <1>7 DEF UseCounts, MapCounts, Tally
<1>9. ~ExpandableSegments =>
        /\ stats[small].inactive_split = Cardinality(split)
        /\ stats[small].inactive_split_bytes = SizeSum(split)
        /\ stats[small].segment = Cardinality(bases)
  BY <1>2, <1>5, <1>6, <1>7 DEF PartCounts, Tally
<1> QED
  BY <1>2, <1>8, <1>9, Zenon DEF in, split, mapped, bases

\* Nothing is counted at first.
LEMMA InitStats == Init => StatsInv
<1> SUFFICES ASSUME Init PROVE StatsInv
  OBVIOUS
<1>1. /\ DOMAIN blocks = {} /\ active = {} /\ DOMAIN segments = {} /\ total = 0
      /\ \A o \in BOOLEAN :
           /\ stats[o].allocation = 0 /\ stats[o].allocated_bytes = 0
           /\ stats[o].active = 0 /\ stats[o].active_bytes = 0
           /\ stats[o].inactive_split = 0 /\ stats[o].inactive_split_bytes = 0
           /\ stats[o].segment = 0 /\ stats[o].reserved_bytes = 0
  BY DEF Init, NoStat
<1>2. \A o : /\ UsedOf(blocks, active, o) = {} /\ ActiveOf(blocks, active, o) = {}
             /\ MappedOf(blocks, o) = {} /\ PartsOf(segments, blocks, active, o) = {}
             /\ SegmentsOf(segments, blocks, o) = {}
  BY <1>1 DEF UsedOf, ActiveOf, MappedOf, PartsOf, SegmentsOf
<1>3. Cardinality({}) = 0 /\ IsFiniteSet({}) /\ Tally(blocks, {}, 0, 0) /\ Bytes(blocks, {}) = 0
  BY FS_EmptySet, TallyNone, BytesNone
<1>4. \A o \in BOOLEAN : /\ UseCounts(blocks, active, stats[o], o)
                         /\ MapCounts(blocks, stats[o], o)
                         /\ PartCounts(segments, blocks, active, stats[o], o)
  BY <1>1, <1>2, <1>3 DEF UseCounts, MapCounts, PartCounts
<1>5. total = ReservedBytes(stats)
  <2>1. stats[TRUE].reserved_bytes = 0 /\ stats[FALSE].reserved_bytes = 0
    BY <1>1
  <2> QED
    BY <1>1, <2>1 DEF ReservedBytes
<1> QED
  BY <1>1, <1>3, <1>4, <1>5 DEF StatsInv, Counts

\* In every reachable state the statistics of both pools are exactly what the heap
\* holds: the blocks and bytes allocated, active, reserved, idle in split segments,
\* and the segments; and the memory that set_fraction limits is the sum of the
\* reserved bytes. The code keeps each number by increments and decrements spread
\* over malloc, free, free_block, alloc_block and release_block.
THEOREM StatisticsExact == Spec => []StatsExact
<1>1. IInv /\ IInv' /\ StatsInv /\ [Next]_vars => StatsInv'
  BY NextKeepsStats
<1>2. IInv /\ StatsInv => StatsExact
  BY CountsAreExact DEF IInv, SharedInv
<1> QED
  BY <1>1, <1>2, InitStats, InitIInv, NextKeepsIInv, PTL DEF Spec

-------------------------------------------------------------------------------
\* The limit.

\* Between alloc_block's test and memAlloc there is room for the new segment.
TestedLimit ==
  Obtaining /\ allowed # None => total + get_allocation_size(call.size) <= allowed

\* A step during which no other thread moves the limit.
OneThreadStep == Next /\ (pc # "idle" => allowed' = allowed)

\* The bytes of two sets that share nothing add up.
LEMMA BytesUnion ==
  ASSUME NEW h, NEW S, IsFiniteSet(S), NEW T, IsFiniteSet(T), S \cap T = {},
         Sized(h, S), Sized(h, T)
  PROVE  Bytes(h, S \cup T) = Bytes(h, S) + Bytes(h, T)
<1> DEFINE G == {A \in SUBSET S : Bytes(h, A \cup T) = Bytes(h, A) + Bytes(h, T)}
<1>1. ASSUME NEW A \in SUBSET S, \A x \in A : A \ {x} \in G PROVE A \in G
  <2>1. CASE A = {}
    <3>1. Bytes(h, A) = 0 /\ A \cup T = T /\ Bytes(h, T) \in Int
      BY <2>1, BytesNone, BytesType
    <3> QED
      BY <3>1
  <2>2. ASSUME NEW x \in A PROVE A \in G
    <3>0. IsFiniteSet(A) /\ IsFiniteSet(A \cup T) /\ Sized(h, A) /\ Sized(h, A \cup T)
      BY FS_Subset, FS_Union DEF Sized
    <3>6. Bytes(h, A \ {x}) \in Int /\ h[x].size \in Int /\ Bytes(h, T) \in Int
      <4>1. Sized(h, A \ {x})
        BY <3>0, FS_Subset DEF Sized
      <4> QED
        BY <2>2, <3>0, <4>1, BytesType DEF Sized
    <3>1. A \ {x} \in G /\ (A \cup T) \ {x} = (A \ {x}) \cup T
      BY <1>1, <2>2
    <3>2. /\ Bytes(h, A) = h[x].size + Bytes(h, A \ {x})
          /\ Bytes(h, A \cup T) = h[x].size + Bytes(h, (A \cup T) \ {x})
      BY <2>2, <3>0, BytesRemove
    <3>3. Bytes(h, (A \ {x}) \cup T) = Bytes(h, A \ {x}) + Bytes(h, T)
      BY <3>1
    <3>4. Bytes(h, A \cup T) = h[x].size + (Bytes(h, A \ {x}) + Bytes(h, T))
      BY <3>1, <3>2, <3>3, Zenon
    <3>5. Bytes(h, A \cup T) = Bytes(h, A) + Bytes(h, T)
      BY <3>6, <3>2, <3>4
    <3> QED
      BY <3>5
  <2> QED
    BY <2>1, <2>2
<1> HIDE DEF G
<1>2. \A A \in SUBSET S : A \in G
  BY <1>1, FiniteSetInduction
<1>3. S \in G
  BY <1>2
<1> QED
  BY <1>3 DEF G

\* What is counted from the blocks is the total that alloc_block tests.
LEMMA ObtainedIsTotal ==
  ASSUME HeapInv, StatsInv
  PROVE  Obtained = total
<1> DEFINE S == MappedOf(blocks, TRUE)
           T == MappedOf(blocks, FALSE)
           M == {p \in DOMAIN blocks : blocks[p].mapped}
<1>1. \A p \in DOMAIN blocks : blocks[p].small \in BOOLEAN
  BY Partition DEF Block
<1>2. M = S \cup T /\ S \cap T = {}
  BY <1>1 DEF MappedOf
<1>3. Sized(blocks, S) /\ Sized(blocks, T)
  <2>1. HeapType(blocks) /\ IsFiniteSet(DOMAIN blocks)
    BY DEF HeapInv, Tiled, StatsInv, Counts
  <2>2. S \subseteq DOMAIN blocks /\ T \subseteq DOMAIN blocks
    BY DEF MappedOf
  <2> HIDE DEF S, T
  <2> QED
    BY <2>1, <2>2, HeapSized
<1>4. total = Bytes(blocks, S) + Bytes(blocks, T)
  BY DEF StatsInv, Counts, MapCounts, ReservedBytes
<1>5. Obtained = Bytes(blocks, M)
  BY Zenon DEF Obtained, SizeSum, Bytes
<1> HIDE DEF S, T, M
<1>6. Bytes(blocks, S \cup T) = Bytes(blocks, S) + Bytes(blocks, T)
  BY <1>2, <1>3, BytesUnion DEF Sized
<1> QED
  BY <1>2, <1>4, <1>5, <1>6, Zenon

\* memAlloc is what makes the total grow.
LEMMA TotalGrows ==
  ASSUME IInv, Next, total' > total
  PROVE  \E base \in Bases : AllocBlock(base)
<1>0. /\ CallInv /\ CountInv /\ SegmentCall /\ total \in Int
  BY DEF IInv, SharedInv, CountInv
<1>1. ASSUME NEW p, p \in cached, ReleaseBlock(p) PROVE FALSE
  <2>1. blocks[p].size \in Nat
    BY <1>1, Partition DEF IInv, SharedInv, Block
  <2>2. total' = total - blocks[p].size
    BY <1>1 DEF ReleaseBlock
  <2> QED
    BY <1>0, <2>1, <2>2
<1>2. CASE Program \/ CommonStep \/ Device
  BY <1>0, <1>2, TargetsKept
<1>3. CASE SegmentStep
  <2>1. ASSUME NEW p \in call.targets, CollectBlock(p) PROVE FALSE
    BY <1>0, <2>1, <1>1 DEF CollectBlock, SegmentCall, Unsplit
  <2>2. ASSUME NEW p \in cached, ReleaseFitting(p) \/ ReleaseLargest(p) \/ ReleaseCached(p)
        PROVE  FALSE
    BY <2>2, <1>1 DEF ReleaseFitting, ReleaseLargest, ReleaseCached
  <2>3. ASSUME \/ CollectRound \/ CollectDone \/ ReleaseSomeDone \/ ReleaseAllDone
               \/ WithinLimit \/ AllocBlockFails
        PROVE  total' = total
    BY <2>3 DEF CollectRound, CollectDone, ReleaseSomeDone, ReleaseAllDone,
       WithinLimit, AllocBlockFails
  <2> QED
    BY <1>0, <1>3, <2>1, <2>2, <2>3 DEF SegmentStep
<1> QED
  BY <1>2, <1>3 DEF Next

\* What the test found stays so until memAlloc.
LEMMA TestedKept ==
  ASSUME IInv, TestedLimit, [OneThreadStep]_vars
  PROVE  TestedLimit'
<1>0. CallInv /\ CountInv
  BY DEF IInv, SharedInv
<1>1. ASSUME UNCHANGED <<total, allowed, pc, call>> PROVE TestedLimit'
  BY <1>1 DEF TestedLimit, Obtaining
<1>2. ASSUME pc' \notin {"obtain", "reobtain", "last_obtain"} PROVE TestedLimit'
  BY <1>2 DEF TestedLimit, Obtaining
<1>3. CASE Next /\ (pc # "idle" => allowed' = allowed)
  <2>1. CASE Program \/ CommonStep \/ Device
    <3>1. total' = total /\ ((pc' = pc /\ call' = call) \/ pc' \notin {"obtain", "reobtain", "last_obtain"})
      BY <1>0, <2>1, TargetsKept
    <3>2. pc' \in {"obtain", "reobtain", "last_obtain"} => allowed' = allowed
      BY <1>3, <3>1
    <3> QED
      BY <1>1, <1>2, <3>1, <3>2
  <2>2. CASE SegmentStep
    <3>1. CASE WithinLimit
      <4>1. ~OverLimit /\ UNCHANGED <<total, allowed, call>>
        BY <3>1 DEF WithinLimit, Goto
      <4>2. total \in Int /\ (allowed # None => allowed \in Int)
        BY <1>0 DEF CountInv
      <4>3. get_allocation_size(call.size) \in Int
        <5>1. call.size \in Nat
          BY <1>0 DEF CallInv, Call
        <5> QED
          BY <5>1 DEF get_allocation_size, kSmallSize, kSmallBuffer,
             kMinLargeAlloc, kLargeBuffer, kRoundLarge
      <4>4. allowed # None => total + get_allocation_size(call.size) <= allowed
        BY <4>1, <4>2, <4>3 DEF OverLimit
      <4> QED
        BY <4>1, <4>4 DEF TestedLimit
    <3>2. ASSUME NEW p, CollectBlock(p) \/ ReleaseFitting(p) \/ ReleaseLargest(p) \/ ReleaseCached(p)
          PROVE  TestedLimit'
      BY <3>2, <1>2 DEF CollectBlock, ReleaseFitting, ReleaseLargest, ReleaseCached, Goto
    <3>3. CASE CollectRound \/ CollectDone \/ ReleaseSomeDone \/ ReleaseAllDone
      BY <3>3, <1>2 DEF CollectRound, CollectDone, ReleaseSomeDone, ReleaseAllDone,
         AfterRelease, Goto, Return
    <3>4. ASSUME NEW base \in Bases, AllocBlock(base) PROVE TestedLimit'
      BY <3>4, <1>2 DEF AllocBlock
    <3>5. CASE AllocBlockFails
      BY <3>5, <1>2 DEF AllocBlockFails, Allocating, Obtaining, Goto
    <3> QED
      BY <2>2, <3>1, <3>2, <3>3, <3>4, <3>5 DEF SegmentStep
  <2> QED
    BY <1>3, <2>1, <2>2 DEF Next
<1>4. CASE UNCHANGED vars
  BY <1>1, <1>4 DEF vars
<1> QED
  BY <1>3, <1>4 DEF OneThreadStep

\* alloc_block tests the total that it keeps by increments, before it obtains a
\* segment of a size that it rounds itself. As long as no other thread moves the
\* limit in between, the sum of the blocks grows within the limit only.
THEOREM LimitRespected == OneThreadSpec => LimitHeld
<1>1. Init => TestedLimit
  BY DEF Init, TestedLimit, Obtaining
<1>2. IInv /\ IInv' /\ StatsInv /\ [OneThreadStep]_vars => IInv' /\ StatsInv'
  BY NextKeepsStats DEF OneThreadStep
<1>3. IInv /\ TestedLimit /\ [OneThreadStep]_vars => TestedLimit'
  BY TestedKept
<1>4. ASSUME IInv, IInv', StatsInv, StatsInv', TestedLimit, [OneThreadStep]_vars
      PROVE  [Obtained' > Obtained /\ allowed # None => Obtained' <= allowed]_vars
  <2> SUFFICES ASSUME Next, Obtained' > Obtained, allowed # None
               PROVE  Obtained' <= allowed
    BY <1>4 DEF OneThreadStep
  <2>1. Obtained = total
    BY <1>4, ObtainedIsTotal DEF IInv, SharedInv
  <2>2. Obtained' = total'
    <3>1. HeapInv' /\ StatsInv' => (Obtained = total)'
      BY ObtainedIsTotal, PTL
    <3> QED
      BY <1>4, <3>1 DEF IInv, SharedInv
  <2>3. PICK base \in Bases : AllocBlock(base)
    BY <1>4, <2>1, <2>2, TotalGrows
  <2> QED
    BY <1>4, <2>2, <2>3 DEF AllocBlock, TestedLimit
<1>5. OneThreadSpec => [](IInv /\ StatsInv /\ TestedLimit)
  <2>1. OneThreadSpec <=> Init /\ [][OneThreadStep]_vars
    BY Zenon DEF OneThreadSpec, OneThreadStep
  <2>2. IInv /\ [OneThreadStep]_vars => IInv'
    BY NextKeepsIInv DEF OneThreadStep
  <2> QED
    BY <1>1, <1>2, <1>3, <2>1, <2>2, InitStats, InitIInv, PTL
<1> QED
  BY <1>4, <1>5, PTL DEF OneThreadSpec, OneThreadStep, LimitHeld

===============================================================================
