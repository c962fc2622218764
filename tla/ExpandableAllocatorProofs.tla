---------------------- MODULE ExpandableAllocatorProofs ---------------------
(***************************************************************************)
(* The safety of ExpandableAllocator, for every value of its constants.    *)
(***************************************************************************)
EXTENDS ExpandableAllocator, StatisticsProofs, PromiseProofs

-----------------------------------------------------------------------------
(* Chunks *)

\* x is the boundary of a chunk in the segment of b.
OnGrid(b, x) == (x - b.seg) % ChunkSize(b.small) = 0

\* k is the size of a chunk: there are two.
IsChunk(k) == k = 4096 \/ k = 40960

LEMMA ChunkSizes ==
  ASSUME NEW small
  PROVE  /\ IsChunk(ChunkSize(small))
         /\ ChunkSize(small) \in Nat /\ ChunkSize(small) > 0
BY DEF ChunkSize, kSmallBuffer, kLargeBuffer, IsChunk

\* Division by a chunk size, down and up.
LEMMA Division ==
  ASSUME NEW k, IsChunk(k), NEW y \in Nat
  PROVE  /\ k * (y \div k) \in Nat /\ k * (y \div k) <= y /\ y < k * (y \div k) + k
         /\ (k * (y \div k)) % k = 0
         /\ k * ((y + k - 1) \div k) \in Nat /\ y <= k * ((y + k - 1) \div k)
         /\ k * ((y + k - 1) \div k) < y + k
         /\ (k * ((y + k - 1) \div k)) % k = 0
         /\ y % k = 0 => k * (y \div k) = y /\ k * ((y + k - 1) \div k) = y
<1>1. CASE k = 4096
  BY <1>1
<1>2. CASE k = 40960
  BY <1>2
<1> QED
  BY <1>1, <1>2 DEF IsChunk

\* Two multiples of a chunk size ...
LEMMA MultiplesApart ==
  ASSUME NEW k, IsChunk(k), NEW y \in Nat, NEW z \in Nat, y % k = 0, z % k = 0
  PROVE  /\ y < z => y + k <= z
         /\ (y + z) % k = 0
<1>1. CASE k = 4096
  BY <1>1
<1>2. CASE k = 40960
  BY <1>2
<1> QED
  BY <1>1, <1>2 DEF IsChunk

\* ... how many chunks lie between them ...
LEMMA MultiplesBetween ==
  ASSUME NEW k, IsChunk(k), NEW y \in Nat, NEW z \in Nat, y % k = 0, z % k = 0, y <= z
  PROVE  /\ z \div k - y \div k \in Nat
         /\ k * (z \div k - y \div k) = z - y
<1>1. CASE k = 4096
  BY <1>1
<1>2. CASE k = 40960
  BY <1>2
<1> QED
  BY <1>1, <1>2 DEF IsChunk

\* ... and which.
LEMMA MultipleOf ==
  ASSUME NEW k, IsChunk(k), NEW y \in Nat, NEW z \in Nat, y % k = 0, z % k = 0,
         NEW i \in Int, i \in y \div k .. z \div k - 1
  PROVE  k * i \in Nat /\ y <= k * i /\ k * i < z /\ (k * i) % k = 0
<1>1. CASE k = 4096
  BY <1>1
<1>2. CASE k = 40960
  BY <1>2
<1> QED
  BY <1>1, <1>2 DEF IsChunk

LEMMA MultipleIndex ==
  ASSUME NEW k, IsChunk(k), NEW y \in Nat, NEW z \in Nat, y % k = 0, z % k = 0,
         NEW x \in Nat, y <= x, x < z, x % k = 0
  PROVE  x \div k \in y \div k .. z \div k - 1 /\ x = k * (x \div k)
<1>1. CASE k = 4096
  BY <1>1
<1>2. CASE k = 40960
  BY <1>2
<1> QED
  BY <1>1, <1>2 DEF IsChunk

\* An address is on the grid if its distance from the segment's base is.
LEMMA GridDistance ==
  ASSUME NEW b \in Block, NEW w \in Int
  PROVE  OnGrid(b, b.seg + w) <=> w % ChunkSize(b.small) = 0
<1>1. (b.seg + w) - b.seg = w
  BY DEF Block
<1>2. OnGrid(b, b.seg + w) <=> ((b.seg + w) - b.seg) % ChunkSize(b.small) = 0
  BY DEF OnGrid
<1> QED
  BY <1>1, <1>2, Zenon

\* segmentLeft and segmentRight find the boundaries around an address.
LEMMA Boundaries ==
  ASSUME NEW b \in Block, NEW x \in Nat, b.seg <= x
  PROVE  /\ BoundaryBefore(b, x) \in Nat /\ BoundaryAfter(b, x) \in Nat
         /\ b.seg <= BoundaryBefore(b, x) /\ BoundaryBefore(b, x) <= x
         /\ x < BoundaryBefore(b, x) + ChunkSize(b.small)
         /\ x <= BoundaryAfter(b, x)
         /\ BoundaryAfter(b, x) < x + ChunkSize(b.small)
         /\ OnGrid(b, BoundaryBefore(b, x)) /\ OnGrid(b, BoundaryAfter(b, x))
         /\ OnGrid(b, x) => BoundaryBefore(b, x) = x /\ BoundaryAfter(b, x) = x
<1> DEFINE k == ChunkSize(b.small)
           y == x - b.seg
           lo == k * (y \div k)
           hi == k * ((y + k - 1) \div k)
<1>1. b.seg \in Nat /\ y \in Nat
  BY DEF Block
<1>2. IsChunk(k) /\ k \in Nat /\ k > 0
  BY ChunkSizes
<1>3. BoundaryBefore(b, x) = b.seg + lo /\ BoundaryAfter(b, x) = b.seg + hi
  BY DEF BoundaryBefore, BoundaryAfter
<1>5. /\ lo \in Nat /\ lo <= y /\ y < lo + k /\ lo % k = 0
      /\ hi \in Nat /\ y <= hi /\ hi < y + k /\ hi % k = 0
      /\ y % k = 0 => lo = y /\ hi = y
  <2> HIDE DEF y, k
  <2> QED
    BY <1>1, <1>2, Division, Zenon
<1>6. OnGrid(b, x) => y % k = 0
  BY DEF OnGrid
<1> HIDE DEF lo, hi
<1>7. OnGrid(b, b.seg + lo) /\ OnGrid(b, b.seg + hi)
  BY <1>5, GridDistance
<1>8. x = b.seg + y
  BY <1>1
<1> HIDE DEF k, y
<1> QED
  BY <1>1, <1>2, <1>3, <1>5, <1>6, <1>7, <1>8 DEF k

\* Two boundaries are a chunk apart.
LEMMA GridStep ==
  ASSUME NEW b \in Block, NEW x \in Nat, NEW y \in Nat, b.seg <= x,
         OnGrid(b, x), OnGrid(b, y), x < y
  PROVE  x + ChunkSize(b.small) <= y
<1> DEFINE k == ChunkSize(b.small)
<1>1. b.seg \in Nat /\ x - b.seg \in Nat /\ y - b.seg \in Nat
  BY DEF Block
<1>2. (x - b.seg) % k = 0 /\ (y - b.seg) % k = 0 /\ x - b.seg < y - b.seg
  BY <1>1 DEF OnGrid
<1>3. IsChunk(k) /\ k \in Nat /\ k > 0
  BY ChunkSizes
<1> HIDE DEF k
<1>4. x - b.seg + k <= y - b.seg
  BY <1>1, <1>2, <1>3, MultiplesApart
<1> QED
  BY <1>1, <1>3, <1>4 DEF k

\* What Chunks enumerates.
LEMMA ChunksMembers ==
  ASSUME NEW b \in Block, NEW lo \in Nat, NEW hi \in Nat, b.seg <= lo, lo <= hi,
         OnGrid(b, lo), OnGrid(b, hi)
  PROVE  Chunks(b, lo, hi) = {c \in Nat : lo <= c /\ c < hi /\ OnGrid(b, c)}
<1> DEFINE k == ChunkSize(b.small)
           y == lo - b.seg
           z == hi - b.seg
<1>0. b.seg \in Nat /\ y \in Nat /\ z \in Nat /\ y % k = 0 /\ z % k = 0
  BY DEF Block, OnGrid
<1>1. IsChunk(k) /\ k \in Nat /\ k > 0
  BY ChunkSizes
<1>2. Chunks(b, lo, hi) = {b.seg + k * i : i \in y \div k .. z \div k - 1}
  BY DEF Chunks
<1>3. \A w \in Int : OnGrid(b, b.seg + w) <=> w % k = 0
  BY GridDistance
<1>4. lo = b.seg + y /\ hi = b.seg + z
  BY <1>0
<1>5. y \div k \in Int /\ z \div k \in Int
  BY <1>0, <1>1
<1> HIDE DEF k, y, z
<1>6. ASSUME NEW i \in y \div k .. z \div k - 1
      PROVE  /\ b.seg + k * i \in Nat /\ lo <= b.seg + k * i /\ b.seg + k * i < hi
             /\ OnGrid(b, b.seg + k * i)
  <2>1. k * i \in Nat /\ y <= k * i /\ k * i < z /\ (k * i) % k = 0
    <3>1. i \in Int
      BY <1>5
    <3> QED
      BY <3>1, <1>0, <1>1, MultipleOf, Zenon
  <2> DEFINE w == k * i
  <2> HIDE DEF w
  <2>2. b.seg + w \in Nat /\ lo <= b.seg + w /\ b.seg + w < hi
    BY <2>1, <1>0, <1>4 DEF w
  <2>3. w \in Int /\ w % k = 0
    BY <2>1 DEF w
  <2>4. OnGrid(b, b.seg + w)
    BY <2>3, <1>3, Zenon
  <2> QED
    BY <2>2, <2>4 DEF w
<1>7. ASSUME NEW c \in Nat, lo <= c, c < hi, OnGrid(b, c)
      PROVE  \E i \in y \div k .. z \div k - 1 : c = b.seg + k * i
  <2> DEFINE x == c - b.seg
  <2>0. x \in Nat /\ y <= x /\ x < z /\ c = b.seg + x
    BY <1>0, <1>4, <1>7
  <2>1. x % k = 0
    BY <1>7 DEF OnGrid, k
  <2> HIDE DEF x
  <2>2. x \div k \in y \div k .. z \div k - 1 /\ x = k * (x \div k)
    BY <2>0, <2>1, <1>0, <1>1, MultipleIndex, Zenon
  <2> QED
    BY <2>0, <2>2
<1> QED
  BY <1>2, <1>6, <1>7

\* ... and how many there are.
LEMMA ChunksCount ==
  ASSUME NEW b \in Block, NEW lo \in Nat, NEW hi \in Nat, b.seg <= lo, lo <= hi,
         OnGrid(b, lo), OnGrid(b, hi)
  PROVE  /\ IsFiniteSet(Chunks(b, lo, hi))
         /\ Cardinality(Chunks(b, lo, hi)) \in Nat
         /\ ChunkSize(b.small) * Cardinality(Chunks(b, lo, hi)) = hi - lo
<1> DEFINE k == ChunkSize(b.small)
           m == (lo - b.seg) \div k
           n == (hi - b.seg) \div k
           I == m .. n - 1
           T == Chunks(b, lo, hi)
           f == [i \in I |-> b.seg + k * i]
<1>0. b.seg \in Nat
  BY DEF Block
<1>1. m \in Int /\ n \in Int /\ m <= n /\ k * (n - m) = hi - lo
  <2> DEFINE y == lo - b.seg
             z == hi - b.seg
  <2>1. /\ y \in Nat /\ z \in Nat /\ y <= z /\ z - y = hi - lo
        /\ y % k = 0 /\ z % k = 0
    BY <1>0 DEF OnGrid
  <2>2. IsChunk(k) /\ k \in Nat /\ k > 0
    BY ChunkSizes
  <2> HIDE DEF y, z, k
  <2>3. z \div k - y \div k \in Nat /\ k * (z \div k - y \div k) = z - y
    BY <2>1, <2>2, MultiplesBetween, Zenon
  <2>4. y \div k \in Int /\ z \div k \in Int
    BY <2>1, <2>2
  <2> QED
    BY <2>1, <2>3, <2>4 DEF y, z
<1>2. T = {b.seg + k * i : i \in I}
  BY DEF Chunks
<1>3. IsChunk(k) /\ k \in Nat /\ k > 0
  BY ChunkSizes
<1> HIDE DEF k, m, n, T
<1>4. IsFiniteSet(I) /\ Cardinality(I) = n - m
  <2> DEFINE l == n - 1
  <2>1. m \in Int /\ l \in Int /\ (m <= l \/ m > l) /\ l = n - 1
    BY <1>1
  <2> HIDE DEF l
  <2>2. IsFiniteSet(m .. l) /\ Cardinality(m .. l) = IF m > l THEN 0 ELSE l - m + 1
    BY <2>1, FS_Interval
  <2>3. Cardinality(m .. l) = n - m
    BY <2>1, <2>2, <1>1
  <2> QED
    BY <2>1, <2>2, <2>3
<1>5. f \in Surjection(I, T)
  BY <1>2 DEF Surjection
<1>6. f \in Injection(I, T)
  <2>1. f \in [I -> T]
    BY <1>2
  <2>2. ASSUME NEW i \in I, NEW j \in I, f[i] = f[j] PROVE i = j
    <3>1. b.seg + k * i = b.seg + k * j /\ i \in Int /\ j \in Int
      BY <1>1, <2>2
    <3> QED
      BY <3>1, <1>0, <1>3
  <2> QED
    BY <2>1, <2>2 DEF Injection, IsInjective
<1> HIDE DEF f, I
<1>7. IsFiniteSet(T) /\ Cardinality(T) = Cardinality(I)
  BY <1>4, <1>5, <1>6, FS_Surjection
<1> QED
  BY <1>1, <1>4, <1>7 DEF T, k

\* A segment reserves whole chunks, and more than the device has.
LEMMA ReservedRange ==
  ASSUME NEW small
  PROVE  /\ ReservedSize(small) \in Nat /\ ReservedSize(small) > DeviceMemory
         /\ ReservedSize(small) % ChunkSize(small) = 0
<1> DEFINE k == ChunkSize(small)
           y == DeviceMemory + DeviceMemory \div 8
<1>1. DeviceMemory \in Nat /\ DeviceMemory > 0
  BY EnvironmentAssumption
<1>2. y \in Nat /\ y > 0 /\ (y > DeviceMemory \/ DeviceMemory < 8)
  BY <1>1
<1>3. IsChunk(k) /\ k \in Nat /\ k > 0
  BY ChunkSizes
<1>4. ReservedSize(small) = k * ((y + k - 1) \div k)
  BY DEF ReservedSize
<1> HIDE DEF k, y
<1>5. /\ k * ((y + k - 1) \div k) \in Nat /\ y <= k * ((y + k - 1) \div k)
      /\ (k * ((y + k - 1) \div k)) % k = 0
  BY <1>2, <1>3, Division, Zenon
<1> DEFINE size == k * ((y + k - 1) \div k)
<1> HIDE DEF size
<1>6. size \in Nat /\ y <= size
  BY <1>5 DEF size
<1> QED
  <2>2. ReservedSize(small) = size
    BY <1>4 DEF size
  <2>3. size % k = 0
    BY <1>5 DEF size
  <2>5. size >= 4096
    <3>1. CASE k = 4096
      BY <3>1, <2>3, <1>2, <1>6
    <3>2. CASE k = 40960
      BY <3>2, <2>3, <1>2, <1>6
    <3> QED
      BY <3>1, <3>2, <1>3 DEF IsChunk
  <2>1. size \in Nat /\ size > DeviceMemory
    BY <1>1, <1>2, <1>6, <2>5
  <2>4. ReservedSize(small) % k = 0
    BY <2>2, <2>3, Zenon
  <2> QED
    BY <2>1, <2>2, <2>4, Zenon DEF k

-----------------------------------------------------------------------------
(* Mapping or unmapping part of a block *)

\* The blocks of h that nothing holds, mapped (m) or unmapped (~m).
Idle(h, m) ==
  {x \in DOMAIN h : /\ h[x].mapped = m
                    /\ ~h[x].allocated /\ h[x].events = 0 /\ h[x].uses = {}}

\* No two of them are neighbours.
IdleApart(h, m) == \A x, y \in Idle(h, m) : ~Linked(h, x, y)

\* The addresses that belong to unmapped blocks.
UnmappedAt(h, x) == \E p \in DOMAIN h : ~h[p].mapped /\ p <= x /\ x < End(h, p)

\* h is h0 after the addresses of block p from lo to hi have become a block of
\* their own, mapped or unmapped.
Carved(h0, h, p, lo, hi, m) ==
  /\ DOMAIN h = DOMAIN h0 \cup {lo} \cup (IF hi < End(h0, p) THEN {hi} ELSE {})
  /\ h[lo] = [h0[p] EXCEPT !.mapped = m, !.size = hi - lo]
  /\ p < lo => h[p] = [Fresh(h0[p], ~m) EXCEPT !.size = lo - p]
  /\ hi < End(h0, p) => h[hi] = [Fresh(h0[p], ~m) EXCEPT !.size = End(h0, p) - hi]
  /\ \A x \in DOMAIN h0 : x # p => h[x] = h0[x]

\* What MapBlock and UnmapBlock do to the heap before they merge.
Carve(h0, p, lo, hi, m) ==
  LET b   == h0[p]
      now == [b EXCEPT !.mapped = m]
      h1  == IF p < lo THEN SplitOff(h0, p, lo - p, Fresh(b, ~m), now)
                       ELSE [h0 EXCEPT ![p] = now]
  IN  IF hi < End(h0, p) THEN SplitOff(h1, lo, hi - lo, now, Fresh(b, ~m)) ELSE h1

LEMMA CarveTiled ==
  ASSUME NEW sg, NEW h0, Tiled(sg, h0), NEW p \in DOMAIN h0, NEW m \in BOOLEAN,
         NEW lo \in Nat, NEW hi \in Nat, p <= lo, lo < hi, hi <= End(h0, p)
  PROVE  /\ Tiled(sg, Carve(h0, p, lo, hi, m))
         /\ Carved(h0, Carve(h0, p, lo, hi, m), p, lo, hi, m)
         /\ lo \in DOMAIN h0 => lo = p
         /\ hi < End(h0, p) => hi \notin DOMAIN h0
<1> DEFINE b == h0[p]
           now == [b EXCEPT !.mapped = m]
           other == Fresh(b, ~m)
           h1 == IF p < lo THEN SplitOff(h0, p, lo - p, other, now)
                           ELSE [h0 EXCEPT ![p] = now]
           h == IF hi < End(h0, p) THEN SplitOff(h1, lo, hi - lo, now, other) ELSE h1
<1>1. /\ p \in Nat /\ b \in Block /\ b.size \in Nat /\ b.size > 0
      /\ End(h0, p) = p + b.size /\ End(h0, p) \in Nat
  BY BlockType DEF Tiled, End
<1>2. now \in Block /\ other \in Block
  BY <1>1 DEF Fresh, NewBlock, Block
<1>3. /\ now.seg = b.seg /\ now.stream = b.stream /\ now.small = b.small /\ now.size = b.size
      /\ other.seg = b.seg /\ other.stream = b.stream /\ other.small = b.small
  BY <1>1 DEF Fresh, NewBlock, Block
<1>4. /\ Tiled(sg, h1)
      /\ DOMAIN h1 = DOMAIN h0 \cup {lo}
      /\ h1[lo] = [now EXCEPT !.size = End(h0, p) - lo]
      /\ p < lo => h1[p] = [other EXCEPT !.size = lo - p]
      /\ \A x \in DOMAIN h0 : x # p => h1[x] = h0[x]
      /\ lo \in DOMAIN h0 => lo = p
  <2>1. CASE p < lo
    <3> DEFINE n == lo - p
    <3>1. n \in Nat /\ 0 < n /\ n < b.size /\ p + n = lo /\ b.size - n = End(h0, p) - lo
      BY <1>1, <2>1
    <3> HIDE DEF n, now, other
    <3>2. p + n \notin DOMAIN h0 /\ Tiled(sg, SplitOff(h0, p, n, other, now))
      BY <1>2, <1>3, <3>1, SplitTiled
    <3>3. h1 = SplitOff(h0, p, n, other, now)
      BY <2>1 DEF n
    <3>4. /\ DOMAIN h1 = DOMAIN h0 \cup {lo}
          /\ h1[lo] = [now EXCEPT !.size = End(h0, p) - lo]
          /\ h1[p] = [other EXCEPT !.size = n]
          /\ \A x \in DOMAIN h0 : x # p => h1[x] = h0[x]
      BY <3>1, <3>2, <3>3, <2>1 DEF SplitOff
    <3> QED
      BY <3>1, <3>2, <3>3, <3>4 DEF n
  <2>2. CASE ~(p < lo)
    <3>1. lo = p /\ h1 = [h0 EXCEPT ![p] = now]
      BY <2>2, <1>1
    <3>2. DOMAIN h1 = DOMAIN h0 /\ h1[p] = now /\ \A x \in DOMAIN h0 : x # p => h1[x] = h0[x]
      BY <3>1
    <3>3. HeapType(h1)
      <4>1. h1 \in [DOMAIN h0 -> Block]
        BY <3>1, <1>2 DEF Tiled, HeapType
      <4> QED
        BY <4>1, <3>2 DEF Tiled, HeapType
    <3>4. Tiled(sg, h1)
      <4> HIDE DEF h1, now
      <4> QED
        BY <3>2, <3>3, <1>3, SameTiled
    <3>5. now = [now EXCEPT !.size = End(h0, p) - lo]
      <4>1. End(h0, p) - lo = now.size
        BY <1>1, <1>3, <3>1
      <4> HIDE DEF now
      <4>2. now = [now EXCEPT !.size = now.size]
        BY <1>2 DEF Block
      <4> QED
        BY <4>1, <4>2
    <3> QED
      BY <3>1, <3>2, <3>4, <3>5, <2>2
  <2> QED
    BY <2>1, <2>2
<1> HIDE DEF h1
<1>5. /\ h1[lo] = [b EXCEPT !.mapped = m, !.size = End(h0, p) - lo]
      /\ h1[lo].size = End(h0, p) - lo
      /\ h1[lo].seg = b.seg /\ h1[lo].stream = b.stream /\ h1[lo].small = b.small
  BY <1>1, <1>4 DEF Block
<1>6. CASE hi < End(h0, p)
  <2> DEFINE n == hi - lo
  <2>1. n \in Nat /\ 0 < n /\ n < h1[lo].size /\ lo + n = hi /\ h1[lo].size - n = End(h0, p) - hi
    BY <1>1, <1>5, <1>6
  <2>2. lo \in DOMAIN h1
    BY <1>4
  <2> HIDE DEF n, now, other
  <2>3. lo + n \notin DOMAIN h1 /\ Tiled(sg, SplitOff(h1, lo, n, now, other))
    BY <1>2, <1>3, <1>4, <1>5, <2>1, <2>2, SplitTiled
  <2>4. h = SplitOff(h1, lo, n, now, other)
    BY <1>6 DEF n
  <2>5. /\ DOMAIN h = DOMAIN h1 \cup {hi}
        /\ h[lo] = [now EXCEPT !.size = hi - lo]
        /\ h[hi] = [other EXCEPT !.size = End(h0, p) - hi]
        /\ \A x \in DOMAIN h1 : x # lo => h[x] = h1[x]
    BY <2>1, <2>2, <2>3, <2>4 DEF SplitOff, n
  <2>6. Carved(h0, h, p, lo, hi, m)
    <3> HIDE DEF h
    <3>1. h[lo] = [b EXCEPT !.mapped = m, !.size = hi - lo]
      BY <2>5 DEF now
    <3>2. p < lo => h[p] = [other EXCEPT !.size = lo - p]
      BY <2>5, <1>1, <1>4
    <3>3. \A x \in DOMAIN h0 : x # p => h[x] = h0[x]
      BY <2>5, <1>4
    <3>4. DOMAIN h = DOMAIN h0 \cup {lo} \cup (IF hi < End(h0, p) THEN {hi} ELSE {})
      BY <2>5, <1>4, <1>6
    <3>5. h[hi] = [other EXCEPT !.size = End(h0, p) - hi]
      BY <2>5
    <3> QED
      BY <3>1, <3>2, <3>3, <3>4, <3>5, Zenon DEF Carved, other, b
  <2>7. hi \notin DOMAIN h0
    BY <2>1, <2>3, <1>4
  <2> QED
    BY <2>3, <2>4, <2>6, <2>7, <1>4 DEF Carve, h, h1, now, other
<1>7. CASE ~(hi < End(h0, p))
  <2>1. hi = End(h0, p) /\ h = h1
    BY <1>7, <1>1
  <2>2. Carved(h0, h, p, lo, hi, m)
    BY <2>1, <1>1, <1>4, <1>5, <1>7 DEF Carved
  <2> QED
    BY <2>1, <2>2, <1>4, <1>7 DEF Carve, h, h1, now, other
<1> QED
  BY <1>6, <1>7

\* h is what Carve makes of a heap whose idle blocks are merged.
CarveOf(sg, h0, h, p, lo, hi, m) ==
  /\ Tiled(sg, h0) /\ Tiled(sg, h)
  /\ m \in BOOLEAN /\ p \in Idle(h0, ~m) /\ lo \in Nat /\ hi \in Nat
  /\ p <= lo /\ lo < hi /\ hi <= End(h0, p)
  /\ Carved(h0, h, p, lo, hi, m)
  /\ lo \in DOMAIN h0 => lo = p
  /\ hi < End(h0, p) => hi \notin DOMAIN h0
  /\ IdleApart(h0, TRUE) /\ IdleApart(h0, FALSE)

LEMMA CarveIsOf ==
  ASSUME NEW sg, NEW h0, Tiled(sg, h0), NEW m \in BOOLEAN, NEW p \in Idle(h0, ~m),
         NEW lo \in Nat, NEW hi \in Nat, p <= lo, lo < hi, hi <= End(h0, p),
         IdleApart(h0, TRUE), IdleApart(h0, FALSE)
  PROVE  CarveOf(sg, h0, Carve(h0, p, lo, hi, m), p, lo, hi, m)
<1>1. p \in DOMAIN h0
  BY DEF Idle
<1>2. /\ Tiled(sg, Carve(h0, p, lo, hi, m))
      /\ Carved(h0, Carve(h0, p, lo, hi, m), p, lo, hi, m)
      /\ lo \in DOMAIN h0 => lo = p
      /\ hi < End(h0, p) => hi \notin DOMAIN h0
  BY <1>1, CarveTiled
<1> QED
  BY <1>2 DEF CarveOf

\* The blocks of the cut heap, one by one.
LEMMA CarvePieces ==
  ASSUME NEW sg, NEW h0, NEW h, NEW p, NEW lo, NEW hi, NEW m,
         CarveOf(sg, h0, h, p, lo, hi, m)
  PROVE  /\ p \in DOMAIN h0 /\ p \in Nat /\ End(h0, p) \in Nat /\ lo \in DOMAIN h
         /\ \A x \in DOMAIN h0 : x # p => x \in DOMAIN h /\ x # lo /\ h[x] = h0[x]
         /\ \A x \in DOMAIN h : \/ x \in DOMAIN h0 /\ x # p
                                \/ x = lo
                                \/ x = p /\ p < lo
                                \/ x = hi /\ hi < End(h0, p)
         /\ End(h, lo) = hi
         /\ h[lo].seg = h0[p].seg /\ h[lo].stream = h0[p].stream /\ h[lo].small = h0[p].small
         /\ lo \in Idle(h, m) /\ h[lo].mapped = m
         /\ p < lo => /\ p \in Idle(h, ~m) /\ h[p].mapped # m /\ End(h, p) = lo
                      /\ h[p].seg = h0[p].seg
                      /\ h[p].stream = h0[p].stream /\ h[p].small = h0[p].small
         /\ hi < End(h0, p) =>
              /\ hi \in Idle(h, ~m) /\ h[hi].mapped # m /\ End(h, hi) = End(h0, p)
              /\ h[hi].seg = h0[p].seg
<1> DEFINE b == h0[p]
<1>1. /\ p \in DOMAIN h0 /\ p \in Nat /\ b \in Block /\ b.size \in Nat
      /\ End(h0, p) = p + b.size /\ End(h0, p) \in Nat
  BY BlockType DEF CarveOf, Tiled, Idle, End
<1>2. /\ lo \in Nat /\ hi \in Nat /\ p <= lo /\ lo < hi /\ hi <= End(h0, p) /\ m \in BOOLEAN
      /\ lo \in DOMAIN h0 => lo = p
      /\ hi < End(h0, p) => hi \notin DOMAIN h0
      /\ ~b.allocated /\ b.events = 0 /\ b.uses = {}
  BY DEF CarveOf, Idle
<1>3. Carved(h0, h, p, lo, hi, m)
  BY DEF CarveOf
<1>4. /\ h[lo].size = hi - lo /\ h[lo].seg = b.seg /\ h[lo].stream = b.stream
      /\ h[lo].small = b.small /\ h[lo].mapped = m
      /\ ~h[lo].allocated /\ h[lo].events = 0 /\ h[lo].uses = {}
  BY <1>1, <1>2, <1>3 DEF Carved, Block
<1>5. ASSUME p < lo
      PROVE  /\ h[p].size = lo - p /\ h[p].seg = b.seg /\ h[p].mapped = ~m
             /\ h[p].stream = b.stream /\ h[p].small = b.small
             /\ ~h[p].allocated /\ h[p].events = 0 /\ h[p].uses = {}
  BY <1>5, <1>3 DEF Carved, Fresh, NewBlock
<1>6. ASSUME hi < End(h0, p)
      PROVE  /\ h[hi].size = End(h0, p) - hi /\ h[hi].seg = b.seg /\ h[hi].mapped = ~m
             /\ ~h[hi].allocated /\ h[hi].events = 0 /\ h[hi].uses = {}
  BY <1>6, <1>3 DEF Carved, Fresh, NewBlock
<1>7. /\ lo \in DOMAIN h
      /\ \A x \in DOMAIN h0 : x # p => x \in DOMAIN h /\ x # lo /\ h[x] = h0[x]
      /\ hi < End(h0, p) => hi \in DOMAIN h
      /\ p \in DOMAIN h
  BY <1>1, <1>2, <1>3 DEF Carved
<1>8. \A x \in DOMAIN h : \/ x \in DOMAIN h0 /\ x # p
                          \/ x = lo
                          \/ x = p /\ p < lo
                          \/ x = hi /\ hi < End(h0, p)
  BY <1>1, <1>2, <1>3 DEF Carved
<1>9. End(h, lo) = hi
  BY <1>2, <1>4 DEF End
<1>10. p < lo => End(h, p) = lo
  BY <1>1, <1>2, <1>5 DEF End
<1>11. hi < End(h0, p) => End(h, hi) = End(h0, p)
  BY <1>1, <1>2, <1>6 DEF End
<1> HIDE DEF b
<1>12. lo \in Idle(h, m)
  BY <1>4, <1>7 DEF Idle
<1>13. p < lo => p \in Idle(h, ~m) /\ h[p].mapped # m
  BY <1>2, <1>5, <1>7 DEF Idle
<1>14. hi < End(h0, p) => hi \in Idle(h, ~m) /\ h[hi].mapped # m
  BY <1>2, <1>6, <1>7 DEF Idle
<1> QED
  BY <1>1, <1>4, <1>5, <1>6, <1>7, <1>8, <1>9, <1>10, <1>11, <1>12, <1>13, <1>14 DEF b

\* What try_merge_blocks finds around the new block was idle before, and of the
\* same kind.
LEMMA CarveSubsumed ==
  ASSUME NEW sg, NEW h0, NEW h, NEW p, NEW lo, NEW hi, NEW m,
         CarveOf(sg, h0, h, p, lo, hi, m)
  PROVE  /\ Subsumed(h, lo) \subseteq Idle(h0, m)
         /\ p \notin Idle(h0, m)
         /\ Idle(h, m) = Idle(h0, m) \cup {lo}
         /\ Idle(h, ~m) = (Idle(h0, ~m) \ {p})
                            \cup (IF p < lo THEN {p} ELSE {})
                            \cup (IF hi < End(h0, p) THEN {hi} ELSE {})
<1>1. /\ lo \in DOMAIN h /\ lo \in Idle(h, m) /\ h[lo].mapped = m
      /\ \A x \in DOMAIN h0 : x # p => x \in DOMAIN h /\ x # lo /\ h[x] = h0[x]
      /\ \A x \in DOMAIN h : \/ x \in DOMAIN h0 /\ x # p
                             \/ x = lo
                             \/ x = p /\ p < lo
                             \/ x = hi /\ hi < End(h0, p)
      /\ p < lo => p \in Idle(h, ~m) /\ h[p].mapped # m
      /\ hi < End(h0, p) => hi \in Idle(h, ~m) /\ h[hi].mapped # m
  BY CarvePieces
<1>2. m \in BOOLEAN /\ p \in Idle(h0, ~m)
  BY DEF CarveOf
<1>3. p \notin Idle(h0, m) /\ h0[p].mapped = ~m
  BY <1>2 DEF Idle
<1>4. ASSUME NEW r \in Subsumed(h, lo) PROVE r \in Idle(h0, m)
  <2>1. r \in DOMAIN h /\ r # lo /\ ~h[r].allocated /\ h[r].events = 0 /\ h[r].mapped = m
    BY <1>1, <1>4, SubsumedAlone DEF CarveOf
  <2>2. h[r].uses = {}
    BY <1>4 DEF Subsumed, SubsumedPrev, SubsumedNext, Mergeable
  <2>3. r \in DOMAIN h0 /\ h0[r] = h[r]
    BY <1>1, <2>1
  <2> QED
    BY <2>1, <2>2, <2>3 DEF Idle
<1>5. Idle(h, m) = Idle(h0, m) \cup {lo}
  BY <1>1, <1>2, <1>3 DEF Idle
<1>6. Idle(h, ~m) = (Idle(h0, ~m) \ {p}) \cup (IF p < lo THEN {p} ELSE {})
                       \cup (IF hi < End(h0, p) THEN {hi} ELSE {})
  <2>1. ASSUME NEW x \in Idle(h, ~m)
        PROVE  x \in (Idle(h0, ~m) \ {p}) \/ (x = p /\ p < lo) \/ (x = hi /\ hi < End(h0, p))
    BY <1>1, <1>2, <2>1 DEF Idle
  <2>2. ASSUME NEW x \in Idle(h0, ~m), x # p PROVE x \in Idle(h, ~m)
    BY <1>1, <2>2 DEF Idle
  <2> QED
    BY <1>1, <2>1, <2>2
<1> QED
  BY <1>3, <1>4, <1>5, <1>6

\* The blocks of the other kind stay apart ...
LEMMA CarveOthersApart ==
  ASSUME NEW sg, NEW h0, NEW h, NEW p, NEW lo, NEW hi, NEW m,
         CarveOf(sg, h0, h, p, lo, hi, m)
  PROVE  IdleApart(h, ~m)
<1> SUFFICES ASSUME NEW x \in Idle(h, ~m), NEW y \in Idle(h, ~m), Linked(h, x, y)
             PROVE  FALSE
  BY DEF IdleApart
<1>1. /\ p \in DOMAIN h0 /\ p \in Nat /\ End(h0, p) \in Nat
      /\ \A z \in DOMAIN h0 : z # p => h[z] = h0[z]
      /\ End(h, lo) = hi /\ lo \notin Idle(h, ~m)
      /\ p < lo => End(h, p) = lo /\ h[p].seg = h0[p].seg
      /\ hi < End(h0, p) => End(h, hi) = End(h0, p) /\ h[hi].seg = h0[p].seg
  <2>1. m \in BOOLEAN
    BY DEF CarveOf
  <2>2. h[lo].mapped = m
    BY CarvePieces
  <2> QED
    BY CarvePieces, <2>1, <2>2 DEF Idle
<1>2. /\ Tiled(sg, h0) /\ m \in BOOLEAN /\ lo \in Nat /\ hi \in Nat /\ p <= lo /\ lo < hi
      /\ p \in Idle(h0, ~m) /\ \A v, w \in Idle(h0, ~m) : ~Linked(h0, v, w)
  BY DEF CarveOf, IdleApart
<1>3. ASSUME NEW z \in Idle(h, ~m)
      PROVE  z \in (Idle(h0, ~m) \ {p}) \/ (z = p /\ p < lo) \/ (z = hi /\ hi < End(h0, p))
  BY CarveSubsumed
<1>4. End(h, x) = y /\ h[x].seg = h[y].seg
  BY DEF Linked
<1>5. ASSUME NEW z \in Idle(h0, ~m), z # p
      PROVE  /\ z \in Nat /\ End(h, z) \in Nat /\ End(h, z) > z
             /\ z \in DOMAIN h0 /\ h[z] = h0[z] /\ End(h, z) = End(h0, z)
             /\ End(h, z) <= p \/ End(h0, p) <= z
  <2>1. z \in DOMAIN h0 /\ z \in Nat /\ End(h0, z) \in Nat /\ End(h0, z) > z
    BY <1>2, BlockType DEF Idle, Tiled
  <2>2. h[z] = h0[z] /\ End(h, z) = End(h0, z)
    BY <1>1, <1>5, <2>1 DEF End
  <2> QED
    BY <2>1, <2>2, <1>1, <1>2, <1>5 DEF Tiled, Apart
<1>6. CASE x = p /\ p < lo
  BY <1>6, <1>1, <1>4
<1>7. CASE x = hi /\ hi < End(h0, p)
  <2>1. y = End(h0, p) /\ h[y].seg = h0[p].seg
    BY <1>7, <1>1, <1>4
  <2>2. y \in Idle(h0, ~m) /\ y # p
    BY <2>1, <1>1, <1>2, <1>3, <1>7
  <2> QED
    BY <2>1, <2>2, <1>2, <1>5 DEF Linked
<1>8. CASE x \in Idle(h0, ~m) /\ x # p
  <2>1. CASE y = p /\ p < lo
    <3>1. Linked(h0, x, p)
      BY <2>1, <1>1, <1>4, <1>5, <1>8 DEF Linked
    <3> QED
      BY <3>1, <1>2, <1>8
  <2>2. CASE y = hi /\ hi < End(h0, p)
    BY <2>2, <1>1, <1>2, <1>4, <1>5, <1>8
  <2>3. CASE y \in Idle(h0, ~m) /\ y # p
    <3>1. Linked(h0, x, y)
      BY <2>3, <1>4, <1>5, <1>8 DEF Linked
    <3> QED
      BY <3>1, <1>2, <1>8, <2>3
  <2> QED
    BY <2>1, <2>2, <2>3, <1>3
<1> QED
  BY <1>3, <1>6, <1>7, <1>8

\* ... and merging keeps those of this kind apart: g is h after the new block
\* has subsumed the blocks S, and is now the block at q.
Merged(sg, h0, h, p, lo, m, g, q, S) ==
  /\ Tiled(sg, g)
  /\ q \in DOMAIN g
  /\ DOMAIN g = (DOMAIN h \ (S \cup {lo})) \cup {q}
  /\ \A x \in DOMAIN g : x # q => g[x] = h[x]
  /\ q \in S \cup {lo}
  /\ Idle(g, m) = (Idle(h0, m) \ S) \cup {q}
  /\ Idle(g, ~m) = Idle(h, ~m)
  /\ IdleApart(g, TRUE) /\ IdleApart(g, FALSE)
  /\ g[q].seg = h0[p].seg /\ g[q].stream = h0[p].stream
  /\ g[q].small = h0[p].small /\ g[q].mapped = m

LEMMA CarveIdle ==
  ASSUME NEW sg, NEW h0, NEW h, NEW p, NEW lo, NEW hi, NEW m,
         CarveOf(sg, h0, h, p, lo, hi, m)
  PROVE  Merged(sg, h0, h, p, lo, m, Coalesce(h, lo), Lead(h, lo), Subsumed(h, lo))
<1> DEFINE g == Coalesce(h, lo)
           q == Lead(h, lo)
           S == Subsumed(h, lo)
           F == Idle(h0, m)
<1>1. /\ lo \in DOMAIN h /\ lo \in Idle(h, m)
      /\ h[lo].seg = h0[p].seg /\ h[lo].stream = h0[p].stream
      /\ h[lo].small = h0[p].small /\ h[lo].mapped = m
      /\ \A x \in DOMAIN h0 : x # p => x \in DOMAIN h /\ x # lo /\ h[x] = h0[x]
  BY CarvePieces
<1>2. Tiled(sg, h) /\ m \in BOOLEAN /\ \A x, y \in F : ~Linked(h0, x, y)
  BY DEF CarveOf, IdleApart
<1>3. /\ S \subseteq F /\ p \notin F
      /\ Idle(h, m) = F \cup {lo}
  BY CarveSubsumed
<1>4. Joins(sg, h, lo, g, q, S) /\ q \in S \cup {lo}
  BY <1>1, <1>2, CoalesceJoins
<1>5. ASSUME NEW x \in F
      PROVE  x \in DOMAIN h0 /\ x \in DOMAIN h /\ x # p /\ x # lo /\ h[x] = h0[x]
  BY <1>1, <1>3, <1>5 DEF Idle
<1>6. \A x, y \in F : ~Linked(h, x, y)
  BY <1>2, <1>5 DEF Linked, End
<1>7. \A x \in F : Mergeable(h, lo, x)
  BY <1>1, <1>5 DEF Mergeable, Idle
<1>8. F \subseteq DOMAIN h /\ lo \notin F
  BY <1>5
<1> HIDE DEF F
<1>9. \A x, y \in (F \ S) \cup {q} : ~Linked(g, x, y)
  BY <1>1, <1>2, <1>3, <1>6, <1>7, <1>8, CoalesceSeparates
<1>10. /\ Tiled(sg, g) /\ q \in DOMAIN g
       /\ DOMAIN g = (DOMAIN h \ (S \cup {lo})) \cup {q}
       /\ \A x \in DOMAIN g : x # q => g[x] = h[x]
       /\ g[q] = [h[lo] EXCEPT !.size = g[q].size]
  BY <1>4 DEF Joins
<1> HIDE DEF g, q, S
<1>11. /\ g[q].seg = h[lo].seg /\ g[q].stream = h[lo].stream /\ g[q].small = h[lo].small
       /\ g[q].mapped = h[lo].mapped /\ g[q].allocated = h[lo].allocated
       /\ g[q].events = h[lo].events /\ g[q].uses = h[lo].uses
  <2>1. h[lo] \in Block
    BY <1>1, <1>2, BlockType DEF Tiled
  <2> QED
    BY <2>1, <1>10 DEF Block
<1>12. q \in Idle(g, m)
  BY <1>1, <1>10, <1>11 DEF Idle
<1>13. Idle(g, m) = (F \ S) \cup {q}
  <2>1. ASSUME NEW x \in Idle(g, m), x # q PROVE x \in F \ S
    <3>1. x \in DOMAIN h /\ x \notin S /\ x # lo /\ x \in Idle(h, m)
      BY <2>1, <1>10 DEF Idle
    <3> QED
      BY <3>1, <1>3
  <2>2. ASSUME NEW x \in F \ S, x # q PROVE x \in Idle(g, m)
    <3>1. x \in DOMAIN h /\ x # lo /\ x \in Idle(h, m)
      BY <1>3, <1>5
    <3>2. x \in DOMAIN g /\ g[x] = h[x]
      BY <3>1, <2>2, <1>10
    <3> QED
      BY <3>1, <3>2 DEF Idle
  <2> QED
    BY <2>1, <2>2, <1>12
<1>14. /\ Idle(g, ~m) = Idle(h, ~m)
       /\ \A x \in Idle(h, ~m) : x \in DOMAIN g /\ g[x] = h[x]
  <2>1. ASSUME NEW x \in Idle(g, ~m) PROVE x \in Idle(h, ~m)
    <3>1. x # q
      BY <1>1, <1>2, <1>11 DEF Idle
    <3> QED
      BY <3>1, <1>10 DEF Idle
  <2>2. ASSUME NEW x \in Idle(h, ~m) PROVE x \in Idle(g, ~m) /\ x \in DOMAIN g /\ g[x] = h[x]
    <3>1. x \in DOMAIN h /\ x \notin Idle(h, m)
      BY <1>2 DEF Idle
    <3>2. x \notin S \cup {lo}
      BY <3>1, <1>1, <1>3
    <3>3. x \in DOMAIN g /\ g[x] = h[x]
      BY <3>1, <3>2, <1>4, <1>10 DEF S, q
    <3> QED
      BY <3>3 DEF Idle
  <2> QED
    BY <2>1, <2>2
<1>15. IdleApart(g, ~m)
  BY <1>14, CarveOthersApart DEF IdleApart, Linked, End
<1>16. IdleApart(g, m)
  BY <1>9, <1>13 DEF IdleApart
<1>17. IdleApart(g, TRUE) /\ IdleApart(g, FALSE)
  <2>1. CASE m = TRUE
    BY <2>1, <1>15, <1>16
  <2>2. CASE m = FALSE
    BY <2>2, <1>15, <1>16
  <2> QED
    BY <2>1, <2>2, <1>2
<1>18. q \in S \cup {lo}
  BY <1>4 DEF q, S
<1> QED
  <2>1. g[q].seg = h0[p].seg /\ g[q].stream = h0[p].stream
        /\ g[q].small = h0[p].small /\ g[q].mapped = m
    BY <1>1, <1>11
  <2>2. Idle(g, m) = (Idle(h0, m) \ S) \cup {q}
    BY <1>13 DEF F
  <2>3. Merged(sg, h0, h, p, lo, m, g, q, S)
    BY <1>10, <1>14, <1>17, <1>18, <2>1, <2>2, Zenon DEF Merged
  <2> QED
    BY <2>3 DEF g, q, S

\* Where the merged block begins and ends.
MergedExtent(h0, p, lo, hi, m, g, q) ==
  /\ q \in Nat /\ q <= lo /\ End(g, q) \in Nat /\ hi <= End(g, q)
  /\ q = lo \/ (q \in Idle(h0, m) /\ End(h0, q) = lo /\ h0[q].seg = h0[p].seg)
  /\ \/ End(g, q) = hi
     \/ hi \in Idle(h0, m) /\ End(g, q) = End(h0, hi) /\ h0[hi].seg = h0[p].seg
  /\ \A x \in Idle(h0, m) : lo = p /\ Linked(h0, x, p) => x = q
  /\ \A x \in Idle(h0, m) :
       hi = End(h0, p) /\ Linked(h0, p, x) => End(g, q) = End(h0, x)

LEMMA CarveExtent ==
  ASSUME NEW sg, NEW h0, NEW h, NEW p, NEW lo, NEW hi, NEW m,
         CarveOf(sg, h0, h, p, lo, hi, m)
  PROVE  MergedExtent(h0, p, lo, hi, m, Coalesce(h, lo), Lead(h, lo))
<1> DEFINE g == Coalesce(h, lo)
           q == Lead(h, lo)
           S == Subsumed(h, lo)
<1>1. /\ p \in DOMAIN h0 /\ p \in Nat /\ End(h0, p) \in Nat /\ lo \in DOMAIN h
      /\ End(h, lo) = hi /\ h[lo].seg = h0[p].seg /\ h[lo].mapped = m
      /\ \A x \in DOMAIN h0 : x # p => x \in DOMAIN h /\ x # lo /\ h[x] = h0[x]
  BY CarvePieces
<1>2. /\ Tiled(sg, h) /\ Tiled(sg, h0) /\ lo \in Nat /\ hi \in Nat /\ lo < hi
  BY DEF CarveOf
<1>3. S \subseteq Idle(h0, m) /\ p \notin Idle(h0, m)
  BY CarveSubsumed
<1>4. ASSUME NEW x \in Idle(h0, m)
      PROVE  /\ x \in DOMAIN h /\ x # lo /\ h[x] = h0[x] /\ End(h, x) = End(h0, x)
             /\ x \in Nat /\ End(h0, x) \in Nat /\ End(h0, x) > x
             /\ Mergeable(h, lo, x)
  <2>1. x \in DOMAIN h0 /\ x # p
    BY <1>3, <1>4 DEF Idle
  <2>2. x \in DOMAIN h /\ x # lo /\ h[x] = h0[x] /\ End(h, x) = End(h0, x)
    BY <1>1, <2>1 DEF End
  <2>3. x \in Nat /\ End(h0, x) \in Nat /\ End(h0, x) > x
    BY <1>2, <2>1, BlockType DEF Tiled
  <2> QED
    BY <2>2, <2>3, <1>1, <1>4 DEF Mergeable, Idle
<1>5. /\ q = lo \/ (q \in S /\ End(h, q) = lo)
      /\ \A r \in S : r = q \/ r = hi
      /\ \/ hi \in S /\ End(g, q) = End(h, hi)
         \/ hi \notin S /\ End(g, q) = hi
  BY <1>1, <1>2, CoalesceExtent
<1>6. /\ \A x \in Idle(h0, m) : Linked(h, x, lo) \/ Linked(h, lo, x) => x \in S
      /\ \A x \in S : h[x].seg = h[lo].seg
  BY <1>4 DEF Subsumed, SubsumedPrev, SubsumedNext, PrevSet, NextSet, Linked
<1> HIDE DEF g, q, S
<1>13. \A x \in S : h0[x].seg = h0[p].seg
  BY <1>1, <1>3, <1>4, <1>6
<1>7. ASSUME NEW x \in Idle(h0, m), lo = p, Linked(h0, x, p) PROVE x = q
  <2>1. Linked(h, x, lo)
    BY <1>1, <1>4, <1>7 DEF Linked
  <2>2. x < lo
    BY <1>4, <1>7 DEF Linked
  <2> QED
    BY <2>1, <2>2, <1>2, <1>4, <1>5, <1>6
<1>8. ASSUME NEW x \in Idle(h0, m), hi = End(h0, p), Linked(h0, p, x)
      PROVE  End(g, q) = End(h0, x)
  <2>1. x = hi /\ Linked(h, lo, x)
    BY <1>1, <1>4, <1>8 DEF Linked
  <2> QED
    BY <2>1, <1>4, <1>5, <1>6
<1>9. q = lo \/ (q \in Idle(h0, m) /\ End(h0, q) = lo /\ h0[q].seg = h0[p].seg)
  BY <1>3, <1>4, <1>5, <1>13
<1>10. q \in Nat /\ q <= lo
  BY <1>2, <1>4, <1>9
<1>11. \/ End(g, q) = hi
       \/ hi \in Idle(h0, m) /\ End(g, q) = End(h0, hi) /\ h0[hi].seg = h0[p].seg
  BY <1>3, <1>4, <1>5, <1>13
<1>12. End(g, q) \in Nat /\ hi <= End(g, q)
  BY <1>2, <1>4, <1>11
<1> QED
  <2>1. MergedExtent(h0, p, lo, hi, m, g, q)
    BY <1>7, <1>8, <1>9, <1>10, <1>11, <1>12, Zenon DEF MergedExtent
  <2> QED
    BY <2>1 DEF g, q

\* Merging changes no address from mapped to unmapped or back ...
LEMMA CoalesceUnmappedAt ==
  ASSUME NEW sg, NEW h, Tiled(sg, h), NEW d \in DOMAIN h, NEW x \in Nat
  PROVE  UnmappedAt(Coalesce(h, d), x) <=> UnmappedAt(h, x)
<1> DEFINE g == Coalesce(h, d)
           q == Lead(h, d)
           S == Subsumed(h, d)
<1>1. Joins(sg, h, d, g, q, S) /\ q \in S \cup {d}
  BY CoalesceJoins
<1>2. /\ q = d \/ (q \in S /\ End(h, q) = d)
      /\ \A r \in S : r = q \/ r = End(h, d)
      /\ \/ End(h, d) \in S /\ End(g, q) = End(h, End(h, d))
         \/ End(h, d) \notin S /\ End(g, q) = End(h, d)
  BY CoalesceExtent
<1>3. \A r \in S : r \in DOMAIN h /\ h[r].mapped = h[d].mapped
  BY SubsumedAlone
<1> HIDE DEF g, q, S
<1>4. /\ DOMAIN g = (DOMAIN h \ (S \cup {d})) \cup {q} /\ q \in DOMAIN g
      /\ \A y \in DOMAIN g : y # q => g[y] = h[y] /\ End(g, y) = End(h, y)
      /\ g[q].mapped = h[d].mapped
  <2>1. g[q] = [h[d] EXCEPT !.size = g[q].size] /\ h[d] \in Block
    BY <1>1, BlockType DEF Joins, Tiled
  <2>2. g[q].mapped = h[d].mapped
    BY <2>1 DEF Block
  <2> QED
    BY <1>1, <2>2 DEF Joins, End
<1>5. \A y \in DOMAIN h : y \in Nat /\ End(h, y) \in Nat /\ End(h, y) > y
  BY BlockType DEF Tiled
<1>6. ASSUME UnmappedAt(g, x) PROVE UnmappedAt(h, x)
  <2>1. PICK y \in DOMAIN g : ~g[y].mapped /\ y <= x /\ x < End(g, y)
    BY <1>6 DEF UnmappedAt
  <2>2. CASE y # q
    BY <2>1, <2>2, <1>1, <1>3, <1>4 DEF UnmappedAt
  <2>3. CASE y = q
    <3>1. ~h[d].mapped /\ q <= x /\ x < End(g, q)
      BY <2>1, <2>3, <1>4
    <3>2. CASE x < d
      <4>1. q \in S /\ End(h, q) = d /\ q \in DOMAIN h /\ ~h[q].mapped
        BY <3>1, <3>2, <1>2, <1>3, <1>5
      <4> QED
        BY <4>1, <3>1, <3>2 DEF UnmappedAt
    <3>3. CASE d <= x /\ x < End(h, d)
      BY <3>1, <3>3 DEF UnmappedAt
    <3>4. CASE End(h, d) <= x
      <4>1. End(h, d) \in S /\ x < End(h, End(h, d))
        BY <3>1, <3>4, <1>2, <1>5
      <4> QED
        BY <4>1, <3>1, <3>4, <1>3 DEF UnmappedAt
    <3> QED
      BY <3>2, <3>3, <3>4, <1>5
  <2> QED
    BY <2>2, <2>3
<1>7. ASSUME UnmappedAt(h, x) PROVE UnmappedAt(g, x)
  <2>1. PICK y \in DOMAIN h : ~h[y].mapped /\ y <= x /\ x < End(h, y)
    BY <1>7 DEF UnmappedAt
  <2>2. CASE y \notin S \cup {d}
    <3>1. y \in DOMAIN g /\ y # q
      BY <2>2, <1>1, <1>4
    <3> QED
      BY <3>1, <2>1, <1>4 DEF UnmappedAt
  <2>3. CASE y \in S \cup {d}
    <3>1. ~g[q].mapped
      BY <2>1, <2>3, <1>3, <1>4
    <3>2. q <= y /\ End(h, y) <= End(g, q)
      BY <2>3, <1>2, <1>3, <1>5
    <3>3. q <= x /\ x < End(g, q)
      <4>1. q \in Nat /\ End(g, q) \in Nat
        BY <1>2, <1>3, <1>5
      <4> QED
        BY <4>1, <3>2, <2>1, <1>5
    <3> QED
      BY <3>1, <3>3, <1>4 DEF UnmappedAt
  <2> QED
    BY <2>2, <2>3
<1> QED
  BY <1>6, <1>7 DEF g

\* ... and cutting those from lo to hi.
LEMMA CarveUnmappedAt ==
  ASSUME NEW sg, NEW h0, NEW h, NEW p, NEW lo, NEW hi, NEW m,
         CarveOf(sg, h0, h, p, lo, hi, m), NEW x \in Nat
  PROVE  UnmappedAt(Coalesce(h, lo), x) <=>
           IF m THEN UnmappedAt(h0, x) /\ ~(lo <= x /\ x < hi)
                ELSE UnmappedAt(h0, x) \/ (lo <= x /\ x < hi)
<1>1. /\ p \in DOMAIN h0 /\ p \in Nat /\ End(h0, p) \in Nat /\ lo \in DOMAIN h
      /\ \A y \in DOMAIN h0 : y # p => y \in DOMAIN h /\ h[y] = h0[y] /\ End(h, y) = End(h0, y)
      /\ \A y \in DOMAIN h : \/ y \in DOMAIN h0 /\ y # p
                             \/ y = lo
                             \/ y = p /\ p < lo
                             \/ y = hi /\ hi < End(h0, p)
      /\ End(h, lo) = hi /\ h[lo].mapped = m
      /\ p < lo => p \in DOMAIN h /\ h[p].mapped # m /\ End(h, p) = lo
      /\ hi < End(h0, p) => hi \in DOMAIN h /\ h[hi].mapped # m /\ End(h, hi) = End(h0, p)
  BY CarvePieces DEF Idle, End
<1>2. /\ Tiled(sg, h0) /\ Tiled(sg, h) /\ m \in BOOLEAN /\ lo \in Nat /\ hi \in Nat
      /\ p <= lo /\ lo < hi /\ hi <= End(h0, p) /\ h0[p].mapped = ~m
  BY DEF CarveOf, Idle
<1>3. UnmappedAt(Coalesce(h, lo), x) <=> UnmappedAt(h, x)
  BY <1>1, <1>2, CoalesceUnmappedAt
<1>4. \A y \in DOMAIN h0 : /\ y \in Nat /\ End(h0, y) \in Nat /\ h0[y].mapped \in BOOLEAN
                           /\ y # p => End(h0, y) <= p \/ End(h0, p) <= y
  <2>1. \A y \in DOMAIN h0 : y \in Nat /\ End(h0, y) \in Nat /\ h0[y].mapped \in BOOLEAN
    BY <1>2, BlockType DEF Tiled, Block
  <2> QED
    BY <2>1, <1>1, <1>2 DEF Tiled, Apart
<1>5. \A y \in DOMAIN h : h[y].mapped \in BOOLEAN
  BY <1>2, BlockType DEF Tiled, Block
<1>6. CASE m
  <2>0. /\ ~h0[p].mapped /\ h[lo].mapped
        /\ p < lo => ~h[p].mapped
        /\ hi < End(h0, p) => ~h[hi].mapped
    <3>1. m = TRUE
      BY <1>2, <1>6
    <3> QED
      BY <3>1, <1>1, <1>2, <1>5, Zenon
  <2>1. ASSUME UnmappedAt(h, x) PROVE UnmappedAt(h0, x) /\ ~(lo <= x /\ x < hi)
    <3>1. PICK y \in DOMAIN h : ~h[y].mapped /\ y <= x /\ x < End(h, y)
      BY <2>1 DEF UnmappedAt
    <3>2. CASE y \in DOMAIN h0 /\ y # p
      BY <3>1, <3>2, <1>1, <1>2, <1>4 DEF UnmappedAt
    <3>3. CASE y = lo
      BY <2>0, <3>1, <3>3
    <3>4. CASE y = p /\ p < lo
      <4>1. ~h0[p].mapped /\ p <= x /\ x < lo /\ x < End(h0, p)
        BY <2>0, <3>1, <3>4, <1>1, <1>2
      <4> QED
        BY <4>1, <1>1, <1>2 DEF UnmappedAt
    <3>5. CASE y = hi /\ hi < End(h0, p)
      <4>1. ~h0[p].mapped /\ p <= x /\ hi <= x /\ x < End(h0, p)
        BY <2>0, <3>1, <3>5, <1>1, <1>2
      <4> QED
        BY <4>1, <1>1, <1>2 DEF UnmappedAt
    <3> QED
      BY <3>2, <3>3, <3>4, <3>5, <1>1
  <2>2. ASSUME UnmappedAt(h0, x), ~(lo <= x /\ x < hi) PROVE UnmappedAt(h, x)
    <3>1. PICK y \in DOMAIN h0 : ~h0[y].mapped /\ y <= x /\ x < End(h0, y)
      BY <2>2 DEF UnmappedAt
    <3>2. CASE y # p
      BY <3>1, <3>2, <1>1 DEF UnmappedAt
    <3>3. CASE y = p /\ x < lo
      <4>1. p < lo /\ p \in DOMAIN h /\ ~h[p].mapped /\ End(h, p) = lo
        BY <2>0, <3>1, <3>3, <1>1, <1>2
      <4> QED
        BY <4>1, <3>1, <3>3 DEF UnmappedAt
    <3>4. CASE y = p /\ hi <= x
      <4>1. hi < End(h0, p) /\ hi \in DOMAIN h /\ ~h[hi].mapped /\ End(h, hi) = End(h0, p)
        BY <2>0, <3>1, <3>4, <1>1, <1>2
      <4> QED
        BY <4>1, <3>1, <3>4 DEF UnmappedAt
    <3> QED
      BY <3>2, <3>3, <3>4, <2>2, <1>2
  <2> QED
    BY <2>1, <2>2, <1>3, <1>6
<1>7. CASE ~m
  <2>1. ASSUME UnmappedAt(h, x), ~(lo <= x /\ x < hi) PROVE UnmappedAt(h0, x)
    <3>1. PICK y \in DOMAIN h : ~h[y].mapped /\ y <= x /\ x < End(h, y)
      BY <2>1 DEF UnmappedAt
    <3>2. y \in DOMAIN h0 /\ y # p
      BY <3>1, <2>1, <1>1, <1>2, <1>5, <1>7
    <3> QED
      BY <3>1, <3>2, <1>1 DEF UnmappedAt
  <2>2. ASSUME UnmappedAt(h0, x) PROVE UnmappedAt(h, x)
    <3>1. PICK y \in DOMAIN h0 : ~h0[y].mapped /\ y <= x /\ x < End(h0, y)
      BY <2>2 DEF UnmappedAt
    <3>2. y # p
      BY <3>1, <1>2, <1>7
    <3> QED
      BY <3>1, <3>2, <1>1 DEF UnmappedAt
  <2>3. ASSUME lo <= x, x < hi PROVE UnmappedAt(h, x)
    BY <2>3, <1>1, <1>7 DEF UnmappedAt
  <2> QED
    BY <2>1, <2>2, <2>3, <1>3, <1>7
<1> QED
  BY <1>6, <1>7

\* What is left of the old blocks.
MergedRest(sg, h0, p, g, q, S) ==
  /\ \A x \in DOMAIN h0 : x # p /\ x \notin S =>
       x \in DOMAIN g /\ x # q /\ g[x] = h0[x]
  /\ \A x \in DOMAIN g :
       x \in Idle(g, TRUE) \cup Idle(g, FALSE) \/ (x \in DOMAIN h0 /\ g[x] = h0[x])
  /\ \A a \in DOMAIN sg : g[a].stream = h0[a].stream /\ g[a].small = h0[a].small

LEMMA CarveRest ==
  ASSUME NEW sg, NEW h0, NEW h, NEW p, NEW lo, NEW hi, NEW m,
         CarveOf(sg, h0, h, p, lo, hi, m)
  PROVE  MergedRest(sg, h0, p, Coalesce(h, lo), Lead(h, lo), Subsumed(h, lo))
<1> DEFINE g == Coalesce(h, lo)
           q == Lead(h, lo)
           S == Subsumed(h, lo)
<1>1. /\ p \in DOMAIN h0 /\ lo \in DOMAIN h
      /\ \A x \in DOMAIN h0 : x # p => x \in DOMAIN h /\ x # lo /\ h[x] = h0[x]
      /\ \A x \in DOMAIN h : \/ x \in DOMAIN h0 /\ x # p
                             \/ x = lo
                             \/ x = p /\ p < lo
                             \/ x = hi /\ hi < End(h0, p)
      /\ p < lo => /\ p \in Idle(h, ~m) /\ h[p].seg = h0[p].seg
                   /\ h[p].stream = h0[p].stream /\ h[p].small = h0[p].small
      /\ hi < End(h0, p) => hi \in Idle(h, ~m)
  BY CarvePieces
<1>2. /\ Tiled(sg, h0) /\ m \in BOOLEAN
      /\ hi < End(h0, p) => hi \notin DOMAIN h0
  BY DEF CarveOf
<1>3. Merged(sg, h0, h, p, lo, m, g, q, S)
  BY CarveIdle
<1>8. /\ Tiled(sg, g) /\ q \in DOMAIN g
      /\ DOMAIN g = (DOMAIN h \ (S \cup {lo})) \cup {q}
      /\ \A x \in DOMAIN g : x # q => g[x] = h[x]
      /\ q \in S \cup {lo}
      /\ q \in Idle(g, m) /\ Idle(g, ~m) = Idle(h, ~m)
      /\ g[q].seg = h0[p].seg /\ g[q].stream = h0[p].stream
      /\ g[q].small = h0[p].small
  <2> HIDE DEF g, q, S
  <2> QED
    BY <1>3 DEF Merged
<1> HIDE DEF g, q, S
<1>4. \A x \in DOMAIN h0 : x # p /\ x \notin S => x \in DOMAIN g /\ x # q /\ g[x] = h0[x]
  BY <1>1, <1>8
<1>5. Idle(g, m) \cup Idle(g, ~m) = Idle(g, TRUE) \cup Idle(g, FALSE)
  <2>1. CASE m = TRUE
    BY <2>1
  <2>2. CASE m = FALSE
    BY <2>2
  <2> QED
    BY <2>1, <2>2, <1>2
<1>6. ASSUME NEW x \in DOMAIN g
      PROVE  x \in Idle(g, m) \cup Idle(g, ~m) \/ (x \in DOMAIN h0 /\ g[x] = h0[x])
  BY <1>1, <1>8
<1>7. ASSUME NEW a \in DOMAIN sg
      PROVE  g[a].stream = h0[a].stream /\ g[a].small = h0[a].small
  <2>1. a \in DOMAIN g /\ g[a].seg = a /\ a \in DOMAIN h0 /\ h0[a].seg = a
    BY <1>2, <1>8 DEF Tiled
  <2>2. /\ h0[p].stream = h0[h0[p].seg].stream
        /\ h0[p].small = h0[h0[p].seg].small
    BY <1>1, <1>2 DEF Tiled, InSegment
  <2>3. CASE a = q
    BY <2>1, <2>2, <2>3, <1>8
  <2>4. CASE a # q /\ a = p
    <3>1. g[a] = h[a] /\ a \in DOMAIN h /\ a # lo
      BY <2>1, <2>4, <1>8
    <3> QED
      BY <3>1, <2>4, <1>1, <1>2
  <2>5. CASE a # q /\ a # p
    BY <2>1, <2>5, <1>1, <1>8
  <2> QED
    BY <2>3, <2>4, <2>5
<1> QED
  <2>1. MergedRest(sg, h0, p, g, q, S)
    BY <1>4, <1>5, <1>6, <1>7 DEF MergedRest
  <2> QED
    BY <2>1 DEF g, q, S

-----------------------------------------------------------------------------
(* The invariant *)

\* Neighbouring unmapped blocks are one.
SeparateUnmapped == \A p, q \in Unmapped : ~Linked(blocks, p, q)

\* The segments have the size that was reserved for their pool.
Reserved == \A a \in DOMAIN segments : segments[a] = ReservedSize(blocks[a].small)

\* Unmapped blocks are whole chunks.
Aligned ==
  \A p \in Unmapped : OnGrid(blocks[p], p) /\ OnGrid(blocks[p], End(blocks, p))

\* Address x lies in the segment at a ...
Within(a, x) == a <= x /\ x < a + segments[a]

\* ... where a chunk of it begins.
GridAt(x) == \E a \in DOMAIN segments : Within(a, x) /\ OnGrid(blocks[a], x)

\* A chunk is mapped where no block says that none is.
HandlesInv ==
  /\ unmapped = Unmapped
  /\ handles = {x \in Nat : GridAt(x) /\ ~UnmappedAt(blocks, x)}

\* The mapped chunks of the small and of the large segments ...
MappedChunks(small) ==
  {x \in handles : \E a \in DOMAIN segments : blocks[a].small = small /\ Within(a, x)}

\* ... are what total_allocated_memory counts.
TotalInv ==
  /\ IsFiniteSet(handles)
  /\ total = ChunkSize(TRUE) * Cardinality(MappedChunks(TRUE))
               + ChunkSize(FALSE) * Cardinality(MappedChunks(FALSE))

PhysicalInv ==
  /\ SegmentsApart
  /\ Reserved
  /\ SeparateUnmapped
  /\ Aligned
  /\ HandlesInv
  /\ TotalInv

\* The steps of the other mode are not taken, and release_blocks goes through
\* the blocks that were cached when it began.
CallSteps ==
  /\ pc \notin {"collect", "release_some", "realloc"}
  /\ call.targets \subseteq IF pc = "unmap" THEN cached ELSE {}

\* The memory that try_allocate_expandable_block is after lies in the segment,
\* unless the segment is new and too small for it, and nothing holds any of it.
Target == call.block + call.size

Candidate ==
  Mapping =>
    /\ call.block \in cached \cup Unmapped
    /\ blocks[call.block].stream = call.stream
    /\ blocks[call.block].small = IsSmall(call.size)
    /\ \/ Target <= blocks[call.block].seg + segments[blocks[call.block].seg]
       \/ call.block \in Unmapped /\ Whole(segments, blocks, call.block)
    /\ \A q \in active :
         blocks[q].seg = blocks[call.block].seg /\ call.block <= q => Target <= q

\* A segment only goes after the device was waited for.
SynchronizedE == pc \in {"release_all", "unmap", "retry", "remap"} => unsynced = {}

\* No chunk lies in block p as a whole.
Chunkless(p) ==
  BoundaryAfter(blocks[p], p) >= BoundaryBefore(blocks[p], End(blocks, p))

\* After release_blocks no cached block has a chunk for itself: a retry that
\* then maps a chunk maps enough.
LastResortE ==
  /\ pc \in {"unmap", "retry", "remap", "oom"} => NoEvents
  /\ pc = "unmap" => \A p \in cached \ call.targets : Chunkless(p)
  /\ pc \in {"retry", "oom"} => \A p \in cached : Chunkless(p)
  /\ pc = "remap" => Mapped \/ \A p \in cached : Chunkless(p)

PhaseInv ==
  /\ CallSteps
  /\ Candidate
  /\ UnsyncedHeld
  /\ SynchronizedE
  /\ LastResortE

EInv == SharedInv /\ Separate /\ PhysicalInv /\ PhaseInv

\* Neither max_split_size nor the garbage collection goes with this mode.
LEMMA Mode == MaxSplitSize = None /\ ~GcEnabled
BY ModeAssumption, ConfigAssumption

\* While no block is in the hands of malloc, the free blocks are the cached and
\* the unmapped ones.
LEMMA IdleBlocks ==
  ASSUME HeapInv, pc # "found"
  PROVE  /\ Idle(blocks, TRUE) = cached /\ Idle(blocks, FALSE) = Unmapped
         /\ Separate => IdleApart(blocks, TRUE)
         /\ SeparateUnmapped => IdleApart(blocks, FALSE)
<1>1. /\ DOMAIN blocks = cached \cup active \cup Unmapped
      /\ (cached \cup active) \cap Unmapped = {}
      /\ cached \cap active = {}
      /\ \A p \in DOMAIN blocks :
           /\ blocks[p] \in Block
           /\ p \in active => blocks[p].allocated \/ blocks[p].events > 0
           /\ p \notin active => ~blocks[p].allocated /\ blocks[p].events = 0
           /\ ~blocks[p].allocated => blocks[p].uses = {}
           /\ p \in Unmapped <=> ~blocks[p].mapped
  BY Partition DEF Held
<1>2. \A p \in DOMAIN blocks : blocks[p].mapped \in BOOLEAN
  BY <1>1 DEF Block
<1>3. \A p \in DOMAIN blocks : p \in Idle(blocks, TRUE) <=> p \in cached
  BY <1>1, <1>2 DEF Idle
<1>4. \A p \in DOMAIN blocks : p \in Idle(blocks, FALSE) <=> p \in Unmapped
  BY <1>1, <1>2 DEF Idle
<1>5. Idle(blocks, TRUE) = cached /\ Idle(blocks, FALSE) = Unmapped
  <2>1. Idle(blocks, TRUE) \subseteq DOMAIN blocks /\ Idle(blocks, FALSE) \subseteq DOMAIN blocks
    BY DEF Idle
  <2> QED
    BY <2>1, <1>1, <1>3, <1>4
<1> QED
  BY <1>5 DEF Separate, SeparateUnmapped, IdleApart

\* ... and the other way round.
LEMMA IdlePartition ==
  ASSUME HeapInv, pc # "found", pc' # "found", Tiled(segments, blocks)', active' = active,
         cached' = Idle(blocks, TRUE)',
         \A x \in active : x \in (DOMAIN blocks)' /\ blocks'[x] = blocks[x],
         \A x \in (DOMAIN blocks)' :
           \/ x \in Idle(blocks, TRUE)' \cup Idle(blocks, FALSE)'
           \/ x \in DOMAIN blocks /\ blocks'[x] = blocks[x]
  PROVE  HeapInv'
<1>1. /\ DOMAIN blocks = cached \cup active \cup Unmapped
      /\ \A p \in DOMAIN blocks :
           /\ p \in active => blocks[p].allocated \/ blocks[p].events > 0
           /\ p \notin active => ~blocks[p].allocated /\ blocks[p].events = 0
           /\ ~blocks[p].allocated => blocks[p].uses = {}
           /\ p \in Unmapped <=> ~blocks[p].mapped
      /\ (cached \cup active) \cap Unmapped = {}
  BY Partition DEF Held
<1>2. \A x \in DOMAIN blocks' : blocks'[x].mapped \in BOOLEAN /\ blocks'[x].events \in Nat
  BY BlockType DEF Tiled, Block
<1>3. ASSUME NEW x \in active
      PROVE  /\ x \in DOMAIN blocks' /\ blocks'[x] = blocks[x] /\ blocks'[x].mapped
             /\ blocks'[x].allocated \/ blocks'[x].events > 0
             /\ x \notin Idle(blocks, TRUE)' \cup Idle(blocks, FALSE)'
  <2>1. x \in DOMAIN blocks' /\ blocks'[x] = blocks[x] /\ x \in DOMAIN blocks /\ x \notin Unmapped
    BY <1>1, <1>3
  <2>2. blocks[x].mapped /\ (blocks[x].allocated \/ blocks[x].events > 0)
    BY <2>1, <1>1, <1>3
  <2> QED
    BY <2>1, <2>2 DEF Idle
<1>4. ASSUME NEW x \in DOMAIN blocks', x \notin active
      PROVE  x \in Idle(blocks, TRUE)' \cup Idle(blocks, FALSE)'
  <2>1. CASE x \in DOMAIN blocks /\ blocks'[x] = blocks[x]
    BY <2>1, <1>1, <1>2, <1>4 DEF Idle
  <2> QED
    BY <2>1, <1>4
<1>5. {p \in DOMAIN blocks' : blocks'[p].mapped} = cached' \cup active'
  <2>1. ASSUME NEW x \in DOMAIN blocks', blocks'[x].mapped, x \notin active
        PROVE  x \in cached'
    BY <2>1, <1>4 DEF Idle
  <2>2. \A x \in cached' : x \in DOMAIN blocks' /\ blocks'[x].mapped
    BY DEF Idle
  <2> QED
    BY <2>1, <2>2, <1>3
<1>6. cached' \cap active' = {}
  BY <1>3
<1>7. ASSUME NEW x \in DOMAIN blocks'
      PROVE  /\ x \in active' <=> blocks'[x].allocated \/ blocks'[x].events > 0
             /\ ~blocks'[x].allocated => blocks'[x].uses = {}
  <2>1. CASE x \in active
    BY <2>1, <1>1, <1>3
  <2>2. CASE x \notin active
    <3>1. x \in Idle(blocks, TRUE)' \/ x \in Idle(blocks, FALSE)'
      BY <2>2, <1>4
    <3>2. ~blocks'[x].allocated /\ blocks'[x].events = 0 /\ blocks'[x].uses = {}
      BY <3>1 DEF Idle
    <3> QED
      BY <3>2, <2>2
  <2> QED
    BY <2>1, <2>2
<1>8. PoolsPartition'
  BY <1>5, <1>6, <1>7 DEF PoolsPartition
<1> QED
  BY <1>8, Mode DEF HeapInv, SplitBounded, SmallSegments

\* The physical memory stays as it is.
LEMMA PhysicalFrame ==
  ASSUME HeapInv, HeapInv', PhysicalInv, SameSegments, SameUnmapped,
         UNCHANGED <<unmapped, handles, total>>
  PROVE  PhysicalInv'
<1>1. /\ segments' = segments
      /\ Unmapped' = Unmapped /\ \A p \in Unmapped : blocks'[p] = blocks[p]
      /\ \A a \in DOMAIN segments : blocks'[a].small = blocks[a].small
  BY DEF SameSegments, SameUnmapped
<1>2. \A a \in DOMAIN segments : blocks'[a].seg = blocks[a].seg
  BY <1>1 DEF HeapInv, Tiled
<1>3. \A p \in Unmapped : End(blocks, p)' = End(blocks, p)
  BY <1>1 DEF End
<1>4. SegmentsApart' /\ Reserved'
  BY <1>1 DEF PhysicalInv, SegmentsApart, Reserved
<1>5. SeparateUnmapped' /\ Aligned'
  BY <1>1, <1>3 DEF PhysicalInv, SeparateUnmapped, Aligned, Linked, OnGrid
<1>6. \A x \in Nat : UnmappedAt(blocks, x)' <=> UnmappedAt(blocks, x)
  <2>1. \A x : UnmappedAt(blocks, x) <=> \E p \in Unmapped : p <= x /\ x < End(blocks, p)
    BY DEF UnmappedAt, Unmapped
  <2>2. \A x : UnmappedAt(blocks, x)' <=> \E p \in Unmapped' : p <= x /\ x < End(blocks, p)'
    BY DEF UnmappedAt, Unmapped
  <2> QED
    BY <2>1, <2>2, <1>1, <1>3
<1>7. \A x : GridAt(x)' <=> GridAt(x)
  BY <1>1, <1>2 DEF GridAt, Within, OnGrid
<1>8. HandlesInv'
  BY <1>1, <1>6, <1>7 DEF PhysicalInv, HandlesInv
<1>9. \A small : MappedChunks(small)' = MappedChunks(small)
  BY <1>1 DEF MappedChunks, Within
<1>10. TotalInv'
  BY <1>9 DEF PhysicalInv, TotalInv
<1> QED
  BY <1>4, <1>5, <1>8, <1>10 DEF PhysicalInv

-----------------------------------------------------------------------------
(* The steps of CachingAllocator *)

LEMMA SharedKeepsE ==
  ASSUME EInv, Program \/ CommonStep \/ Device, UNCHANGED <<unmapped, handles>>
  PROVE  EInv' /\ [Memory!Next]_(Memory!vars)
<1>1. SharedInv /\ SegmentsApart /\ UnsyncedHeld /\ Separate
  BY DEF EInv, PhysicalInv, PhaseInv
<1>2. SharedInv' /\ SameUnmapped
  BY <1>1, ProgramKeeps, CommonKeeps, DeviceStepKeeps DEF Device
<1>3. Separate'
  BY <1>1, <1>2, SharedKeepsSeparate DEF SharedInv
<1>4. SyncKept /\ [Memory!Next]_(Memory!vars)
  BY <1>1, <1>2, SharedSeen
<1>5. /\ segments' = segments /\ total' = total
      /\ \/ UNCHANGED <<blocks, cached, active, npu_events, pc, call>>
         \/ /\ pc \in {"idle", "process_events", "release_all", "found", "oom"}
            /\ pc' \in {"idle", "process_events", "collect", "alloc", "release_all", "found"}
            /\ call'.targets \subseteq call.targets
            /\ pc' = "collect" => Collecting /\ pc = "process_events"
            /\ pc' = "release_all" => pc \in {"idle", "release_all"}
  BY <1>1, TargetsKept DEF SharedInv
<1>6. PhysicalInv'
  BY <1>1, <1>2, <1>4, <1>5, PhysicalFrame DEF EInv, SharedInv, SyncKept
<1>7. UnsyncedHeld'
  BY <1>4 DEF SyncKept
<1>8. SynchronizedE'
  <2>1. /\ \/ unsynced' = unsynced
           \/ unsynced' = {}
           \/ pc = "idle" /\ UNCHANGED <<pc, call>>
        /\ pc' = "release_all" => pc = "release_all" \/ unsynced' = {}
    BY <1>4 DEF SyncKept
  <2>2. SynchronizedE
    BY DEF EInv, PhaseInv
  <2> QED
    BY <1>5, <2>1, <2>2 DEF SynchronizedE
<1>9. CASE UNCHANGED <<blocks, cached, active, npu_events, pc, call>>
  <2>1. CallSteps' /\ Candidate' /\ LastResortE'
    BY <1>2, <1>5, <1>9 DEF EInv, PhaseInv, CallSteps, Candidate, LastResortE, SameUnmapped,
       Mapping, Target, Whole, NoEvents, Chunkless, Mapped, BoundaryAfter, BoundaryBefore, End
  <2> QED
    BY <1>2, <1>3, <1>4, <1>6, <1>7, <1>8, <2>1 DEF EInv, PhaseInv
<1>10. CASE /\ pc \in {"idle", "process_events", "release_all", "found", "oom"}
            /\ pc' \in {"idle", "process_events", "collect", "alloc", "release_all", "found"}
            /\ call'.targets \subseteq call.targets
            /\ pc' = "collect" => Collecting
  <2>1. CallSteps'
    <3>1. call.targets = {}
      BY <1>10 DEF EInv, PhaseInv, CallSteps
    <3> QED
      BY <3>1, <1>10, Mode DEF CallSteps, Collecting
  <2>2. Candidate' /\ LastResortE'
    BY <1>10 DEF Candidate, Mapping, LastResortE
  <2> QED
    BY <1>2, <1>3, <1>4, <1>6, <1>7, <1>8, <2>1, <2>2 DEF EInv, PhaseInv
<1> QED
  BY <1>5, <1>9, <1>10

-----------------------------------------------------------------------------
(* The steps that leave the blocks alone *)

LEMMA ControlStep ==
  ASSUME EInv, UNCHANGED <<segments, heapVars, total, allowed, unmapped, handles>>,
         UNCHANGED eventVars \/ DeviceSynchronize, pc # "found", pc' # "found",
         CallInv', CallSteps', Candidate', SynchronizedE', LastResortE'
  PROVE  EInv' /\ [Memory!Next]_(Memory!vars)
<1>1. /\ UNCHANGED <<segments, blocks, cached, active, stats, total, allowed>>
      /\ HeapInv /\ QueueInv /\ CountInv /\ Separate /\ PhysicalInv
      /\ SegmentsApart /\ UnsyncedHeld
  BY DEF heapVars, EInv, SharedInv, PhysicalInv, PhaseInv
<1>2. HeapInv' /\ SameUnmapped
  BY <1>1, HeapFrame
<1>3. QueueInv'
  BY <1>1, QueueQuiet
<1>4. unsynced' = unsynced \/ unsynced' = {}
  BY DEF eventVars, DeviceSynchronize
<1>5. CountInv'
  <2>1. stats' \in Stats /\ total' \in Int
    BY <1>1 DEF CountInv, Stats
  <2> QED
    BY <1>1, <1>4, <2>1, CountFrame
<1>6. SameSegments
  BY <1>1, SameBlocks
<1>7. PhysicalInv'
  BY <1>1, <1>2, <1>6, PhysicalFrame
<1>8. UnsyncedHeld'
  BY <1>1, <1>4, <1>6, SyncFrame
<1>9. Separate'
  BY <1>1 DEF Separate, Held, Linked, End
<1>10. Live' = Live /\ Uses' = Uses
  BY <1>1, HeldFrame DEF Allocated
<1>11. [Memory!Next]_(Memory!vars)
  <2>1. CASE UNCHANGED eventVars
    BY <2>1, <1>10, UnseenStutters DEF Unseen, eventVars
  <2>2. CASE DeviceSynchronize
    BY <2>2, <1>10, SynchronizeSeen
  <2> QED
    BY <2>1, <2>2
<1> QED
  BY <1>2, <1>3, <1>5, <1>7, <1>8, <1>9, <1>11 DEF EInv, SharedInv, PhaseInv

\* What a step that only moves the candidate does to the call.
LEMMA CandidateCall ==
  ASSUME CallInv, NEW p \in Nat \cup {None}, call' = [call EXCEPT !.block = p]
  PROVE  /\ call' \in Call /\ call'.op = call.op /\ call'.size = call.size
         /\ call'.stream = call.stream /\ call'.targets = call.targets /\ call'.block = p
BY DEF CallInv, Call

LEMMA ExpandFailsKeeps ==
  ASSUME EInv, ExpandFails
  PROVE  EInv' /\ [Memory!Next]_(Memory!vars)
<1>1. CallInv /\ CallSteps /\ SynchronizedE /\ LastResortE
  BY DEF EInv, SharedInv, PhaseInv
<1>2. /\ UNCHANGED <<segments, heapVars, total, allowed, unmapped, handles>>
      /\ call' = [call EXCEPT !.block = None]
      /\ \/ pc \in {"alloc", "map"} /\ pc' = "release_all" /\ DeviceSynchronize
         \/ /\ pc \in {"realloc", "retry", "remap"} /\ pc' = "oom" /\ UNCHANGED eventVars
            /\ pc = "remap" => ~Mapped
  BY DEF ExpandFails, Allocating, Mapping
<1>3. /\ call' \in Call /\ call'.op = call.op /\ call'.size = call.size
      /\ call'.stream = call.stream /\ call'.targets = call.targets
  BY <1>1, <1>2, CandidateCall
<1>4. CallInv'
  BY <1>1, <1>2, <1>3 DEF CallInv, Steps, Searching
<1>5. CallSteps'
  BY <1>1, <1>2, <1>3 DEF CallSteps, heapVars
<1>6. Candidate'
  BY <1>2 DEF Candidate, Mapping
<1>7. SynchronizedE'
  BY <1>2 DEF SynchronizedE, DeviceSynchronize
<1>8. LastResortE'
  <2>1. CASE pc' = "release_all"
    BY <2>1 DEF LastResortE
  <2>2. CASE pc' = "oom"
    <3>1. NoEvents /\ \A p \in cached : Chunkless(p)
      BY <2>2, <1>1, <1>2 DEF LastResortE, CallSteps
    <3> QED
      BY <3>1, <2>2, <1>2 DEF LastResortE, heapVars, eventVars, NoEvents, Chunkless,
         BoundaryAfter, BoundaryBefore, End
  <2> QED
    BY <2>1, <2>2, <1>2
<1> QED
  BY <1>2, <1>4, <1>5, <1>6, <1>7, <1>8, ControlStep

LEMMA GatherKeeps ==
  ASSUME EInv, GatherToUnmap
  PROVE  EInv' /\ [Memory!Next]_(Memory!vars)
<1>1. CallInv /\ CallSteps /\ SynchronizedE /\ LastResortE /\ HeapInv
  BY DEF EInv, SharedInv, PhaseInv
<1>2. /\ UNCHANGED <<segments, heapVars, eventVars, total, allowed, unmapped, handles>>
      /\ pc = "release_all" /\ pc' = "unmap" /\ NoEvents
      /\ call' = [call EXCEPT !.targets = cached]
  BY DEF GatherToUnmap
<1>3. cached \subseteq Nat
  BY <1>1, Partition DEF HeapInv, Tiled, HeapType
<1>4. /\ call' \in Call /\ call'.op = call.op /\ call'.size = call.size
      /\ call'.stream = call.stream /\ call'.targets = cached /\ cached' = cached
  BY <1>1, <1>2, <1>3 DEF CallInv, Call, heapVars
<1>5. CallInv'
  BY <1>1, <1>2, <1>4 DEF CallInv, Steps, Searching
<1>6. CallSteps' /\ Candidate' /\ SynchronizedE'
  BY <1>1, <1>2, <1>4 DEF CallSteps, Candidate, Mapping, SynchronizedE, eventVars
<1>7. LastResortE'
  BY <1>2, <1>4 DEF LastResortE, NoEvents, eventVars
<1> QED
  BY <1>2, <1>5, <1>6, <1>7, ControlStep

LEMMA UnmapDoneKeeps ==
  ASSUME EInv, UnmapDone
  PROVE  EInv' /\ [Memory!Next]_(Memory!vars)
<1>1. CallInv /\ CallSteps /\ SynchronizedE /\ LastResortE /\ HeapInv
  BY DEF EInv, SharedInv, PhaseInv
<1>2. /\ UNCHANGED <<segments, heapVars, eventVars, total, allowed, unmapped, handles>>
      /\ pc = "unmap" /\ call.targets = {}
      /\ \/ call.op = "malloc" /\ pc' = "retry" /\ call' = call
         \/ pc' = "idle" /\ call' = NoCall
  BY DEF UnmapDone, AfterRelease, Goto, Return
<1>3. CallInv'
  <2>1. CASE pc' = "retry" /\ call' = call /\ call.op = "malloc"
    BY <2>1, <1>1 DEF CallInv, Steps, Searching
  <2>2. CASE pc' = "idle" /\ call' = NoCall
    <3>1. call'.op = "none"
      BY <2>2 DEF NoCall
    <3> QED
      BY <3>1, <2>2, NoCallType DEF CallInv, Steps, Searching
  <2> QED
    BY <2>1, <2>2, <1>2
<1>4. CallSteps' /\ Candidate' /\ SynchronizedE'
  BY <1>1, <1>2 DEF CallSteps, Candidate, Mapping, SynchronizedE, eventVars, NoCall
<1>5. LastResortE'
  <2>1. NoEvents /\ \A p \in cached : Chunkless(p)
    BY <1>1, <1>2 DEF LastResortE
  <2> QED
    BY <2>1, <1>2 DEF LastResortE, heapVars, eventVars, NoEvents, Chunkless,
       BoundaryAfter, BoundaryBefore, End
<1> QED
  BY <1>2, <1>3, <1>4, <1>5, ControlStep

-----------------------------------------------------------------------------
(* Finding and reserving room *)

LEMMA LeastIsMin ==
  ASSUME NEW S, S \subseteq Nat, S # {}
  PROVE  Min(S) \in S /\ \A x \in S : Min(S) <= x
BY LeastMember DEF Min

\* A run that is long enough is a candidate.
LEMMA RunIsCandidate ==
  ASSUME EInv, pc # "found", NEW p \in Roomy
  PROVE  LET s == RunStart(p)
         IN  /\ s \in cached \cup Unmapped /\ s \in Nat
             /\ blocks[s].stream = call.stream
             /\ blocks[s].small = IsSmall(call.size)
             /\ s + call.size <= blocks[s].seg + segments[blocks[s].seg]
             /\ \A q \in active :
                  blocks[q].seg = blocks[s].seg /\ s <= q => s + call.size <= q
<1> DEFINE s == RunStart(p)
           base == blocks[s].seg
           stops == {q \in DOMAIN blocks : blocks[q].seg = base /\ q > s /\ ~Allocatable(q)}
           reach == Reach(s)
<1>1. /\ Tiled(segments, blocks) /\ HeapInv /\ call.size \in Nat
      /\ unmapped = Unmapped
  BY DEF EInv, SharedInv, HeapInv, CallInv, Call, PhysicalInv, HandlesInv
<1>2. /\ DOMAIN blocks = cached \cup active \cup Unmapped
      /\ (cached \cup active) \cap Unmapped = {}
      /\ \A q \in DOMAIN blocks :
           /\ q \in active => blocks[q].allocated \/ blocks[q].events > 0
           /\ q \notin active => ~blocks[q].allocated /\ blocks[q].events = 0
  BY <1>1, Partition DEF Held
<1>3. /\ p \in Unmapped /\ p \in DOMAIN blocks
      /\ blocks[p].small = IsSmall(call.size) /\ blocks[p].stream = call.stream
      /\ reach - s >= call.size
  BY <1>1 DEF Roomy, Unmapped
<1>4. \A q \in active : ~Allocatable(q)
  <2> SUFFICES ASSUME NEW q \in active, Allocatable(q) PROVE FALSE
    OBVIOUS
  <2>1. ~blocks[q].allocated /\ blocks[q].events = 0 /\ q \in DOMAIN blocks
    BY <1>2 DEF Allocatable
  <2> QED
    BY <2>1, <1>2
<1>5. s \in DOMAIN blocks /\ s \notin active /\ blocks[s].seg = blocks[p].seg
  <2> DEFINE before == {q \in PrevSet(blocks, p) : Allocatable(q)}
  <2>1. CASE before = {}
    <3>1. s = p
      BY <2>1 DEF RunStart
    <3> QED
      BY <3>1, <1>2, <1>3
  <2>2. CASE before # {}
    <3>1. s \in before
      BY <2>2 DEF RunStart
    <3> QED
      BY <3>1, <1>4 DEF PrevSet, Linked
  <2> QED
    BY <2>1, <2>2
<1> HIDE DEF s
<1>6. /\ s \in Nat /\ base \in DOMAIN segments /\ base \in Nat /\ segments[base] \in Nat
      /\ s < base + segments[base]
      /\ \A q \in DOMAIN blocks : blocks[q].seg = base => q \in Nat /\ q < base + segments[base]
  <2>1. ASSUME NEW q \in DOMAIN blocks
        PROVE  /\ q \in Nat /\ blocks[q].seg \in DOMAIN segments /\ blocks[q].seg \in Nat
               /\ segments[blocks[q].seg] \in Nat
               /\ q < blocks[q].seg + segments[blocks[q].seg]
    <3>1. /\ q \in Nat /\ End(blocks, q) \in Nat /\ End(blocks, q) > q
          /\ blocks[q].seg \in Nat
      BY <1>1, BlockType DEF Tiled
    <3>2. /\ blocks[q].seg \in DOMAIN segments /\ segments[blocks[q].seg] \in Nat
          /\ End(blocks, q) <= blocks[q].seg + segments[blocks[q].seg]
      BY <1>1 DEF Tiled, InSegment
    <3> QED
      BY <3>1, <3>2
  <2> QED
    BY <2>1, <1>5
<1>7. reach = IF stops = {} THEN base + segments[base] ELSE Min(stops)
  BY DEF Reach
<1>8. /\ reach \in Nat /\ reach <= base + segments[base]
      /\ \A q \in stops : reach <= q
  <2>1. CASE stops = {}
    BY <2>1, <1>6, <1>7
  <2>2. CASE stops # {}
    <3>1. stops \subseteq Nat
      BY <1>6
    <3>2. reach \in stops /\ \A q \in stops : reach <= q
      BY <3>1, <2>2, <1>7, LeastIsMin
    <3> QED
      BY <3>1, <3>2, <1>6
  <2> QED
    BY <2>1, <2>2
<1>9. s + call.size <= reach
  BY <1>1, <1>3, <1>6, <1>8
<1>10. s + call.size <= base + segments[base]
  BY <1>1, <1>6, <1>8, <1>9
<1>11. ASSUME NEW q \in active, blocks[q].seg = base, s <= q
       PROVE  s + call.size <= q
  <2>1. q \in DOMAIN blocks /\ q \in Nat /\ q # s
    BY <1>2, <1>5, <1>6, <1>11
  <2>2. q \in stops
    BY <2>1, <1>4, <1>6, <1>11
  <2> QED
    BY <2>1, <2>2, <1>1, <1>6, <1>8, <1>9
<1>12. blocks[s].stream = call.stream /\ blocks[s].small = IsSmall(call.size)
  BY <1>1, <1>3, <1>5 DEF Tiled, InSegment
<1>13. s \in cached \cup Unmapped
  BY <1>2, <1>5
<1> QED
  BY <1>6, <1>10, <1>11, <1>12, <1>13 DEF s

LEMMA FindRoomKeeps ==
  ASSUME EInv, NEW p \in unmapped, FindRoom(p)
  PROVE  EInv' /\ [Memory!Next]_(Memory!vars)
<1> DEFINE s == RunStart(p)
<1>1. CallInv /\ CallSteps /\ SynchronizedE /\ LastResortE
  BY DEF EInv, SharedInv, PhaseInv
<1>2. /\ UNCHANGED <<segments, heapVars, eventVars, total, allowed, unmapped, handles>>
      /\ p \in Roomy /\ call' = [call EXCEPT !.block = s]
      /\ \/ pc = "alloc" /\ pc' = "map"
         \/ pc = "retry" /\ pc' = "remap"
  BY <1>1 DEF FindRoom, StartMapping, Allocating, CallSteps
<1>3. UNCHANGED <<blocks, cached, active>>
  BY <1>2 DEF heapVars
<1>4. /\ s \in cached \cup Unmapped /\ s \in Nat
      /\ blocks[s].stream = call.stream
      /\ blocks[s].small = IsSmall(call.size)
      /\ s + call.size <= blocks[s].seg + segments[blocks[s].seg]
      /\ \A q \in active :
           blocks[q].seg = blocks[s].seg /\ s <= q => s + call.size <= q
  BY <1>2, RunIsCandidate
<1> HIDE DEF s
<1>5. /\ call' \in Call /\ call'.op = call.op /\ call'.size = call.size
      /\ call'.stream = call.stream /\ call'.targets = call.targets /\ call'.block = s
  BY <1>1, <1>2, <1>4, CandidateCall
<1>6. CallInv'
  BY <1>1, <1>2, <1>5 DEF CallInv, Steps, Searching
<1>7. CallSteps' /\ SynchronizedE'
  BY <1>1, <1>2, <1>3, <1>5 DEF CallSteps, SynchronizedE, eventVars
<1>8. Candidate'
  <2>1. Unmapped' = Unmapped
    BY <1>3 DEF Unmapped
  <2> QED
    BY <2>1, <1>2, <1>3, <1>4, <1>5 DEF Candidate, Target
<1>9. LastResortE'
  <2>1. CASE pc' = "map"
    BY <2>1 DEF LastResortE
  <2>2. CASE pc' = "remap"
    <3>1. NoEvents /\ \A x \in cached : Chunkless(x)
      BY <2>2, <1>1, <1>2 DEF LastResortE
    <3> QED
      BY <3>1, <2>2, <1>2, <1>3 DEF LastResortE, eventVars, NoEvents, Chunkless,
         BoundaryAfter, BoundaryBefore, End
  <2> QED
    BY <2>1, <2>2, <1>2
<1> QED
  BY <1>2, <1>6, <1>7, <1>8, <1>9, ControlStep

\* The new range of addresses, and the heap with it.
RangeReserved(base, size, small) ==
  /\ base \in Nat /\ size \in Nat /\ size > 0 /\ size = ReservedSize(small)
  /\ small = IsSmall(call.size) /\ small \in BOOLEAN
  /\ base \notin DOMAIN segments /\ base \notin DOMAIN blocks
  /\ Clear(base, size)
  /\ DOMAIN segments' = DOMAIN segments \cup {base}
  /\ segments'[base] = size
  /\ \A a \in DOMAIN segments : segments'[a] = segments[a]
  /\ DOMAIN blocks' = DOMAIN blocks \cup {base}
  /\ blocks'[base] = NewBlock(base, size, call.stream, small, FALSE)
  /\ \A x \in DOMAIN blocks : blocks'[x] = blocks[x]
  /\ Tiled(segments', blocks')
  /\ OnGrid(blocks'[base], base) /\ OnGrid(blocks'[base], base + size)

LEMMA ReservedHeap ==
  ASSUME EInv, NEW base \in Bases, ReserveSegment(base)
  PROVE  \E size, small : RangeReserved(base, size, small)
<1> DEFINE small == IsSmall(call.size)
           size == ReservedSize(small)
           b == NewBlock(base, size, call.stream, small, FALSE)
<1>1. /\ Allocating /\ Clear(base, size)
      /\ segments' = [a \in DOMAIN segments \cup {base} |->
                        IF a = base THEN size ELSE segments[a]]
      /\ blocks' = [x \in DOMAIN blocks \cup {base} |-> IF x = base THEN b ELSE blocks[x]]
  BY DEF ReserveSegment
<1>2. size \in Nat /\ size > 0 /\ size % ChunkSize(small) = 0
  <2>1. /\ size \in Nat /\ size > DeviceMemory
        /\ size % ChunkSize(small) = 0
    BY ReservedRange
  <2> QED
    BY <2>1, EnvironmentAssumption
<1>3. base \in Nat
  BY EnvironmentAssumption
<1>4. Tiled(segments, blocks) /\ call.stream \in Streams /\ small \in BOOLEAN
  BY <1>1 DEF EInv, SharedInv, HeapInv, CallInv, Call, Allocating, Searching, IsSmall
<1>5. b \in Block /\ b.size = size /\ b.seg = base /\ b.small = small
  BY <1>2, <1>3, <1>4 DEF NewBlock, Block
<1>6. \A a \in DOMAIN segments : a + segments[a] <= base \/ base + size <= a
  BY <1>1 DEF Clear
<1> HIDE DEF b, size, small
<1>7. base \notin DOMAIN blocks /\ Tiled(segments', blocks')
  <2> DEFINE t == [a \in DOMAIN segments \cup {base} |->
                     IF a = base THEN size ELSE segments[a]]
             g == [x \in DOMAIN blocks \cup {base} |->
                     IF x = base THEN b ELSE blocks[x]]
  <2>1. size \in Nat /\ size > 0 /\ Tiled(segments, blocks) /\ base \in Nat
        /\ b \in Block /\ b.size = size /\ b.seg = base
    BY <1>2, <1>3, <1>4, <1>5
  <2>2. base \notin DOMAIN blocks /\ Tiled(t, g)
    BY <2>1, <1>6, NewTiled
  <2> QED
    BY <2>2, <1>1
<1>8. base \notin DOMAIN segments
  BY <1>4, <1>7 DEF Tiled
<1>9. OnGrid(b, base) /\ OnGrid(b, base + size)
  <2>1. OnGrid(b, b.seg + 0) /\ OnGrid(b, b.seg + size)
    <3>1. 0 % ChunkSize(small) = 0
      <4>1. CASE ChunkSize(small) = 4096
        BY <4>1
      <4>2. CASE ChunkSize(small) = 40960
        BY <4>2
      <4> QED
        BY <4>1, <4>2, ChunkSizes DEF IsChunk
    <3> QED
      BY <3>1, <1>2, <1>5, GridDistance
  <2> QED
    BY <2>1, <1>3, <1>5
<1>10. DOMAIN segments' = DOMAIN segments \cup {base} /\ DOMAIN blocks' = DOMAIN blocks \cup {base}
  BY <1>1
<1>11. /\ segments'[base] = size /\ \A a \in DOMAIN segments : segments'[a] = segments[a]
       /\ blocks'[base] = b /\ \A x \in DOMAIN blocks : blocks'[x] = blocks[x]
  BY <1>1, <1>7, <1>8
<1>12. b = NewBlock(base, size, call.stream, small, FALSE) /\ size = ReservedSize(small)
       /\ small = IsSmall(call.size)
  BY DEF b, size, small
<1>13. RangeReserved(base, size, small)
  BY <1>1, <1>2, <1>3, <1>4, <1>7, <1>8, <1>9, <1>10, <1>11, <1>12 DEF RangeReserved
<1> QED
  BY <1>13

LEMMA ReserveShared ==
  ASSUME EInv, NEW base \in Bases, ReserveSegment(base)
  PROVE  /\ SharedInv' /\ Separate'
         /\ Unmapped' = Unmapped \cup {base}
         /\ Live' = Live /\ Uses' = Uses
<1> PICK size, small : RangeReserved(base, size, small)
  BY ReservedHeap
<1>1. /\ base \in Nat /\ base \notin DOMAIN segments /\ base \notin DOMAIN blocks
      /\ DOMAIN blocks' = DOMAIN blocks \cup {base}
      /\ blocks'[base] = NewBlock(base, size, call.stream, small, FALSE)
      /\ \A x \in DOMAIN blocks : blocks'[x] = blocks[x]
      /\ Tiled(segments', blocks')
  BY DEF RangeReserved
<1>2. /\ UNCHANGED <<cached, active, stats, eventVars, total, allowed>>
      /\ call' = [call EXCEPT !.block = base]
      /\ \/ pc = "alloc" /\ pc' = "map"
         \/ pc \in {"realloc", "retry"} /\ pc' = "remap"
  BY DEF ReserveSegment, StartMapping, Allocating
<1>3. HeapInv /\ QueueInv /\ CallInv /\ CountInv /\ Separate
  BY DEF EInv, SharedInv
<1>4. /\ ~blocks'[base].allocated /\ blocks'[base].events = 0 /\ blocks'[base].uses = {}
      /\ blocks'[base].mapped = FALSE
  BY <1>1 DEF NewBlock
<1>5. cached \cup active \cup Unmapped = DOMAIN blocks /\ cached = Idle(blocks, TRUE)
  BY <1>2, <1>3, Partition, IdleBlocks DEF Held
<1>6. Idle(blocks, TRUE)' = cached /\ base \in Idle(blocks, FALSE)'
  BY <1>1, <1>4, <1>5 DEF Idle
<1>7. HeapInv'
  <2>1. \A x \in active : x \in DOMAIN blocks' /\ blocks'[x] = blocks[x]
    BY <1>1, <1>5
  <2>2. \A x \in DOMAIN blocks' :
          \/ x \in Idle(blocks, TRUE)' \cup Idle(blocks, FALSE)'
          \/ x \in DOMAIN blocks /\ blocks'[x] = blocks[x]
    BY <1>1, <1>6
  <2> QED
    BY <2>1, <2>2, <1>1, <1>2, <1>3, <1>6, IdlePartition
<1>8. QueueInv'
  <2>1. UNCHANGED <<npu_events, completed, work>>
    BY <1>2 DEF eventVars
  <2> QED
    BY <2>1, <1>1, <1>2, <1>3, <1>5, QueueFrame
<1>9. CallInv'
  <2>1. /\ call' \in Call /\ call'.op = call.op /\ call'.size = call.size
        /\ call'.stream = call.stream
    BY <1>1, <1>2, <1>3, CandidateCall
  <2> QED
    BY <2>1, <1>2, <1>3 DEF CallInv, Steps, Searching
<1>10. CountInv'
  BY <1>2, <1>3 DEF CountInv, eventVars
<1>11. Separate'
  <2>1. Held = {} /\ Held' = {}
    BY <1>2 DEF Held
  <2>2. cached' = cached /\ \A x \in cached : blocks'[x] = blocks[x]
    BY <1>1, <1>2, <1>5
  <2>3. \A x, y \in cached : Linked(blocks, x, y)' => Linked(blocks, x, y)
    BY <2>2 DEF Linked, End
  <2> QED
    BY <2>1, <2>2, <2>3, <1>3 DEF Separate
<1>12. Unmapped' = Unmapped \cup {base}
  BY <1>1, <1>4 DEF Unmapped
<1>13. Live' = Live /\ Uses' = Uses
  <2>1. Allocated' = Allocated
    BY <1>1, <1>2, <1>5 DEF Allocated
  <2>2. \A x \in Allocated : blocks'[x] = blocks[x]
    BY <1>1, <1>5 DEF Allocated
  <2> QED
    BY <2>1, <2>2, HeldFrame
<1> QED
  BY <1>7, <1>8, <1>9, <1>10, <1>11, <1>12, <1>13 DEF SharedInv

LEMMA ReservePhysical ==
  ASSUME EInv, NEW base \in Bases, ReserveSegment(base)
  PROVE  PhysicalInv'
<1> PICK size, small : RangeReserved(base, size, small)
  BY ReservedHeap
<1>1. /\ base \in Nat /\ size \in Nat /\ size > 0 /\ size = ReservedSize(small)
      /\ base \notin DOMAIN segments /\ base \notin DOMAIN blocks
      /\ Clear(base, size)
      /\ DOMAIN segments' = DOMAIN segments \cup {base}
      /\ segments'[base] = size
      /\ \A a \in DOMAIN segments : segments'[a] = segments[a]
      /\ DOMAIN blocks' = DOMAIN blocks \cup {base}
      /\ blocks'[base] = NewBlock(base, size, call.stream, small, FALSE)
      /\ \A x \in DOMAIN blocks : blocks'[x] = blocks[x]
      /\ OnGrid(blocks'[base], base) /\ OnGrid(blocks'[base], base + size)
  BY DEF RangeReserved
<1>2. Unmapped' = Unmapped \cup {base}
  BY ReserveShared
<1>3. unmapped' = unmapped \cup {base} /\ handles' = handles /\ total' = total
  BY DEF ReserveSegment
<1>4. PhysicalInv /\ Tiled(segments, blocks)
  BY DEF EInv, SharedInv, HeapInv
<1>5. /\ blocks'[base].seg = base /\ blocks'[base].size = size
      /\ blocks'[base].small = small /\ End(blocks, base)' = base + size
      /\ ReservedSize(blocks'[base].small) = size
      /\ blocks'[base].mapped = FALSE
  BY <1>1 DEF NewBlock, End
<1>6. \A a \in DOMAIN segments : a + segments[a] <= base \/ base + size <= a
  BY <1>1 DEF Clear
<1>7. \A a \in DOMAIN segments : a \in DOMAIN blocks /\ a \in Nat /\ segments[a] \in Nat
  BY <1>4 DEF Tiled
<1>8. Unmapped \subseteq DOMAIN blocks /\ \A x \in DOMAIN blocks : End(blocks, x)' = End(blocks, x)
  BY <1>1 DEF Unmapped, End
<1>9. SegmentsApart'
  <2> SUFFICES ASSUME NEW a \in DOMAIN segments', NEW c \in DOMAIN segments', a < c
               PROVE  a + segments'[a] <= c
    BY DEF SegmentsApart
  <2>1. CASE a = base
    BY <2>1, <1>1, <1>5, <1>6, <1>7
  <2>2. CASE c = base
    BY <2>2, <1>1, <1>5, <1>6, <1>7
  <2>3. CASE a # base /\ c # base
    BY <2>3, <1>1, <1>4 DEF PhysicalInv, SegmentsApart
  <2> QED
    BY <2>1, <2>2, <2>3
<1>10. Reserved'
  BY <1>1, <1>4, <1>5, <1>7 DEF PhysicalInv, Reserved
<1>11. SeparateUnmapped'
  <2> SUFFICES ASSUME NEW x \in Unmapped', NEW y \in Unmapped', Linked(blocks, x, y)'
               PROVE  FALSE
    BY DEF SeparateUnmapped
  <2>1. End(blocks, x)' = y /\ blocks'[x].seg = blocks'[y].seg
    BY DEF Linked
  <2>2. \A z \in Unmapped : z \in DOMAIN blocks /\ blocks'[z].seg # base
    <3>1. \A z \in Unmapped : z \in DOMAIN blocks /\ blocks'[z] = blocks[z]
      BY <1>1, <1>8
    <3>2. \A z \in DOMAIN blocks : blocks[z].seg \in DOMAIN segments
      BY <1>4 DEF Tiled, InSegment
    <3> QED
      BY <3>1, <3>2, <1>1
  <2>3. CASE x = base
    <3>1. y = base + size /\ blocks'[y].seg = base
      BY <2>1, <2>3, <1>5 DEF End
    <3>2. y \in Unmapped
      BY <3>1, <1>1, <1>2
    <3> QED
      BY <3>1, <3>2, <2>2
  <2>4. CASE x \in Unmapped
    <3>1. y \in Unmapped
      BY <2>1, <2>2, <2>4, <1>2, <1>5
    <3>2. Linked(blocks, x, y)
      BY <3>1, <2>1, <2>4, <1>1, <1>8 DEF Linked
    <3> QED
      BY <3>1, <3>2, <2>4, <1>4 DEF PhysicalInv, SeparateUnmapped
  <2> QED
    BY <2>3, <2>4, <1>2
<1>12. Aligned'
  BY <1>1, <1>2, <1>4, <1>5, <1>8 DEF PhysicalInv, Aligned
<1>13. \A x \in Nat : GridAt(x)' <=> GridAt(x) \/ (base <= x /\ x < base + size
                                                   /\ OnGrid(blocks'[base], x))
  BY <1>1, <1>7 DEF GridAt, Within
<1>14. \A x \in Nat : UnmappedAt(blocks, x)' <=> UnmappedAt(blocks, x)
                                                  \/ (base <= x /\ x < base + size)
  BY <1>1, <1>5, <1>8 DEF UnmappedAt
<1>15. \A x \in Nat : GridAt(x) => ~(base <= x /\ x < base + size)
  BY <1>1, <1>6, <1>7 DEF GridAt, Within
<1>16. HandlesInv'
  BY <1>2, <1>3, <1>4, <1>13, <1>14, <1>15 DEF PhysicalInv, HandlesInv
<1>17. \A s : MappedChunks(s)' = MappedChunks(s)
  <2>1. \A x \in handles : x \in Nat /\ ~(base <= x /\ x < base + size)
    BY <1>4, <1>15 DEF PhysicalInv, HandlesInv
  <2> SUFFICES ASSUME NEW s PROVE MappedChunks(s)' = MappedChunks(s)
    OBVIOUS
  <2>2. ASSUME NEW x \in handles
        PROVE  (\E a \in DOMAIN segments' : blocks'[a].small = s /\ Within(a, x)')
                 <=> (\E a \in DOMAIN segments : blocks[a].small = s /\ Within(a, x))
    BY <2>1, <1>1, <1>7 DEF Within
  <2> QED
    BY <2>2, <1>3 DEF MappedChunks
<1>18. TotalInv'
  BY <1>3, <1>4, <1>17 DEF PhysicalInv, TotalInv
<1> QED
  BY <1>9, <1>10, <1>11, <1>12, <1>16, <1>18 DEF PhysicalInv

LEMMA ReserveKeeps ==
  ASSUME EInv, NEW base \in Bases, ReserveSegment(base)
  PROVE  EInv' /\ [Memory!Next]_(Memory!vars)
<1> PICK size, small : RangeReserved(base, size, small)
  BY ReservedHeap
<1>1. /\ base \in Nat /\ size \in Nat
      /\ base \notin DOMAIN segments /\ base \notin DOMAIN blocks
      /\ DOMAIN segments' = DOMAIN segments \cup {base} /\ segments'[base] = size
      /\ \A a \in DOMAIN segments : segments'[a] = segments[a]
      /\ blocks'[base] = NewBlock(base, size, call.stream, small, FALSE)
      /\ \A x \in DOMAIN blocks : blocks'[x] = blocks[x]
      /\ small = IsSmall(call.size)
  BY DEF RangeReserved
<1>2. /\ SharedInv' /\ Separate' /\ PhysicalInv'
      /\ Unmapped' = Unmapped \cup {base}
      /\ Live' = Live /\ Uses' = Uses
  BY ReserveShared, ReservePhysical
<1>3. /\ CallInv /\ CallSteps /\ SynchronizedE /\ LastResortE /\ UnsyncedHeld
      /\ Tiled(segments, blocks) /\ HeapInv
  BY DEF EInv, SharedInv, PhaseInv, HeapInv
<1>4. /\ UNCHANGED <<cached, active, eventVars>>
      /\ call' = [call EXCEPT !.block = base]
      /\ \/ pc = "alloc" /\ pc' = "map"
         \/ pc = "retry" /\ pc' = "remap"
  BY <1>3 DEF ReserveSegment, StartMapping, Allocating, CallSteps
<1>5. /\ blocks'[base].seg = base /\ blocks'[base].size = size
      /\ blocks'[base].small = small /\ blocks'[base].stream = call.stream
  BY <1>1 DEF NewBlock
<1>6. /\ call'.size = call.size /\ call'.stream = call.stream
      /\ call'.targets = call.targets /\ call'.block = base
  BY <1>1, <1>3, <1>4, CandidateCall
<1>7. \A x \in cached \cup active : x \in DOMAIN blocks
  BY <1>3, Partition
<1>8. CallSteps' /\ SynchronizedE'
  BY <1>3, <1>4, <1>6 DEF CallSteps, SynchronizedE, eventVars
<1>9. Candidate'
  <2>1. base \in Unmapped' /\ Whole(segments, blocks, base)'
    BY <1>1, <1>2, <1>5 DEF Whole
  <2>2. \A q \in active' : blocks'[q].seg # base
    BY <1>1, <1>3, <1>4, <1>7 DEF Tiled, InSegment
  <2> QED
    BY <2>1, <2>2, <1>1, <1>5, <1>6 DEF Candidate
<1>10. UnsyncedHeld'
  <2>1. unsynced' = unsynced
    BY <1>4 DEF eventVars
  <2>2. \A a \in DOMAIN segments : a \in DOMAIN blocks
    BY <1>3 DEF Tiled
  <2> QED
    BY <2>1, <2>2, <1>1, <1>3 DEF UnsyncedHeld
<1>11. LastResortE'
  <2>1. CASE pc' = "map"
    BY <2>1 DEF LastResortE
  <2>2. CASE pc' = "remap"
    <3>1. NoEvents /\ \A x \in cached : Chunkless(x)
      BY <2>2, <1>3, <1>4 DEF LastResortE
    <3>2. NoEvents'
      BY <3>1, <1>4 DEF NoEvents, eventVars
    <3>3. \A x \in cached' : Chunkless(x)'
      BY <3>1, <1>1, <1>4, <1>7 DEF Chunkless, BoundaryAfter, BoundaryBefore, End
    <3> QED
      BY <3>2, <3>3, <2>2 DEF LastResortE
  <2> QED
    BY <2>1, <2>2, <1>4
<1>12. [Memory!Next]_(Memory!vars)
  BY <1>2, <1>4, UnseenStutters DEF Unseen, eventVars
<1> QED
  BY <1>2, <1>8, <1>9, <1>10, <1>11, <1>12 DEF EInv, PhaseInv

-----------------------------------------------------------------------------
(* Memory is mapped or unmapped *)

\* A boundary of a segment is one for all of its blocks.
LEMMA BySegment ==
  ASSUME NEW sg, NEW h, Tiled(sg, h), NEW p \in DOMAIN h, NEW x
  PROVE  /\ h[p].seg \in DOMAIN sg /\ h[p].seg \in DOMAIN h
         /\ OnGrid(h[p], x) <=> OnGrid(h[h[p].seg], x)
<1>1. /\ h[p].seg \in DOMAIN sg /\ h[p].small = h[h[p].seg].small
      /\ h[p].seg \in DOMAIN h /\ h[h[p].seg].seg = h[p].seg
  BY DEF Tiled, InSegment
<1> QED
  BY <1>1 DEF OnGrid

\* The chunks between two boundaries in a block, and nothing else, begin there.
LEMMA ChunksOfBlock ==
  ASSUME Tiled(segments, blocks), SegmentsApart, NEW p \in DOMAIN blocks,
         NEW lo \in Nat, NEW hi \in Nat, p <= lo, lo < hi, hi <= End(blocks, p),
         OnGrid(blocks[p], lo), OnGrid(blocks[p], hi), NEW x \in Nat
  PROVE  /\ x \in Chunks(blocks[p], lo, hi) <=> GridAt(x) /\ lo <= x /\ x < hi
         /\ lo <= x /\ x < hi =>
              /\ \A a \in DOMAIN segments : Within(a, x) <=> a = blocks[p].seg
              /\ UnmappedAt(blocks, x) <=> ~blocks[p].mapped
<1> DEFINE b == blocks[p]
<1>1. /\ p \in Nat /\ b \in Block /\ b.seg \in Nat /\ End(blocks, p) \in Nat
      /\ b.seg \in DOMAIN segments /\ b.seg <= p
      /\ End(blocks, p) <= b.seg + segments[b.seg] /\ segments[b.seg] \in Nat
  BY BlockType DEF Tiled, InSegment
<1>2. x \in Chunks(b, lo, hi) <=> lo <= x /\ x < hi /\ OnGrid(b, x)
  BY <1>1, ChunksMembers
<1>3. ASSUME lo <= x, x < hi
      PROVE  \A a \in DOMAIN segments : Within(a, x) <=> a = b.seg
  <2>1. Within(b.seg, x)
    BY <1>1, <1>3 DEF Within
  <2>2. ASSUME NEW a \in DOMAIN segments, Within(a, x), a # b.seg PROVE FALSE
    <3>1. a \in Nat /\ segments[a] \in Nat
      BY DEF Tiled
    <3>2. CASE a < b.seg
      <4>1. a + segments[a] <= b.seg
        BY <3>2, <1>1 DEF SegmentsApart
      <4> QED
        BY <4>1, <3>1, <2>2, <1>1, <1>3 DEF Within
    <3>3. CASE b.seg < a
      <4>1. b.seg + segments[b.seg] <= a
        BY <3>3, <1>1 DEF SegmentsApart
      <4> QED
        BY <4>1, <3>1, <2>2, <1>1, <1>3 DEF Within
    <3> QED
      BY <3>1, <3>2, <3>3, <2>2, <1>1
  <2> QED
    BY <2>1, <2>2
<1>4. OnGrid(b, x) <=> OnGrid(blocks[b.seg], x)
  BY BySegment
<1>5. ASSUME lo <= x, x < hi PROVE GridAt(x) <=> OnGrid(b, x)
  BY <1>1, <1>3, <1>4, <1>5 DEF GridAt
<1>6. ASSUME lo <= x, x < hi PROVE UnmappedAt(blocks, x) <=> ~b.mapped
  <2>1. p <= x /\ x < End(blocks, p)
    BY <1>1, <1>6
  <2>2. ASSUME NEW r \in DOMAIN blocks, r <= x, x < End(blocks, r) PROVE r = p
    <3>1. r \in Nat /\ End(blocks, r) \in Nat
      BY BlockType DEF Tiled
    <3>2. /\ r < p => End(blocks, r) <= p
          /\ p < r => End(blocks, p) <= r
      BY DEF Tiled, Apart
    <3> QED
      BY <3>1, <3>2, <2>1, <2>2, <1>1
  <2> QED
    BY <2>1, <2>2 DEF UnmappedAt
<1> QED
  BY <1>2, <1>3, <1>5, <1>6

\* Sums of whole chunks.
LEMMA Weighted ==
  ASSUME NEW k, IsChunk(k), NEW j, IsChunk(j), NEW m \in Int, NEW n \in Int, NEW c \in Int
  PROVE  /\ k * (m + c) + j * n = (k * m + j * n) + k * c
         /\ k * (m - c) + j * n = (k * m + j * n) - k * c
         /\ k * m + j * n = j * n + k * m
<1>1. CASE k = 4096 /\ j = 4096
  BY <1>1
<1>2. CASE k = 4096 /\ j = 40960
  BY <1>2
<1>3. CASE k = 40960 /\ j = 4096
  BY <1>3
<1>4. CASE k = 40960 /\ j = 40960
  BY <1>4
<1> QED
  BY <1>1, <1>2, <1>3, <1>4 DEF IsChunk

\* total_allocated_memory when chunks of one pool come or go.
LEMMA TotalFollows ==
  ASSUME TotalInv, NEW s \in BOOLEAN, NEW C, IsFiniteSet(C), NEW w \in Nat,
         ChunkSize(s) * Cardinality(C) = w,
         MappedChunks(~s)' = MappedChunks(~s),
         \/ /\ C \cap handles = {} /\ handles' = handles \cup C
            /\ MappedChunks(s)' = MappedChunks(s) \cup C /\ total' = total + w
         \/ /\ C \subseteq MappedChunks(s) /\ handles' = handles \ C
            /\ MappedChunks(s)' = MappedChunks(s) \ C /\ total' = total - w
  PROVE  TotalInv'
<1> DEFINE M == MappedChunks(s)
           N == MappedChunks(~s)
           k == ChunkSize(s)
           j == ChunkSize(~s)
           M1 == MappedChunks(s)'
<1>1. /\ IsFiniteSet(handles) /\ M \subseteq handles /\ N \subseteq handles
      /\ IsFiniteSet(M) /\ IsFiniteSet(N)
  BY FS_Subset DEF TotalInv, MappedChunks
<1>2. /\ Cardinality(M) \in Nat /\ Cardinality(N) \in Nat /\ Cardinality(C) \in Nat
      /\ k \in Nat /\ j \in Nat /\ IsChunk(k) /\ IsChunk(j)
  BY <1>1, FS_CardinalityType, ChunkSizes
<1>3. total = k * Cardinality(M) + j * Cardinality(N)
  <2>1. CASE s = TRUE
    BY <2>1 DEF TotalInv
  <2>2. CASE s = FALSE
    <3>1. total = j * Cardinality(N) + k * Cardinality(M)
      BY <2>2 DEF TotalInv
    <3> HIDE DEF j, k, M, N
    <3> QED
      BY <3>1, <1>2, Weighted
  <2> QED
    BY <2>1, <2>2
<1>4. IsFiniteSet(handles')
  <2>1. IsFiniteSet(handles \cup C)
    BY <1>1, FS_Union
  <2>2. IsFiniteSet(handles \ C)
    BY <1>1, FS_Difference
  <2> QED
    BY <2>1, <2>2
<1>5. total' = k * Cardinality(M1) + j * Cardinality(N)
  <2>1. CASE /\ C \cap handles = {} /\ M1 = M \cup C /\ total' = total + w
    <3>1. M \cap C = {}
      BY <2>1, <1>1
    <3>2. Cardinality(M \cup C) = Cardinality(M) + Cardinality(C)
      <4>1. Cardinality(M \cup C) = Cardinality(M) + Cardinality(C) - Cardinality(M \cap C)
        BY <1>1, FS_Union
      <4>2. Cardinality(M \cap C) = 0
        BY <3>1, FS_EmptySet
      <4> HIDE DEF M
      <4> QED
        BY <4>1, <4>2, <1>2
    <3>3. total' = k * (Cardinality(M) + Cardinality(C)) + j * Cardinality(N)
      <4> HIDE DEF j, k, M, N, M1
      <4>1. k * (Cardinality(M) + Cardinality(C)) + j * Cardinality(N)
              = (k * Cardinality(M) + j * Cardinality(N)) + k * Cardinality(C)
        BY <1>2, Weighted
      <4>2. k * Cardinality(C) = w
        BY DEF k
      <4>3. total' = total + w
        BY <2>1
      <4> QED
        BY <4>1, <4>2, <4>3, <1>3, Zenon
    <3> QED
      BY <3>2, <3>3, <2>1
  <2>2. CASE /\ C \subseteq M /\ M1 = M \ C /\ total' = total - w
    <3>1. M \cap C = C
      BY <2>2
    <3>2. Cardinality(M \ C) = Cardinality(M) - Cardinality(C)
      <4>1. Cardinality(M \ C) = Cardinality(M) - Cardinality(M \cap C)
        BY <1>1, FS_Difference
      <4> QED
        BY <4>1, <3>1
    <3>3. total' = k * (Cardinality(M) - Cardinality(C)) + j * Cardinality(N)
      <4> HIDE DEF j, k, M, N, M1
      <4>1. k * (Cardinality(M) - Cardinality(C)) + j * Cardinality(N)
              = (k * Cardinality(M) + j * Cardinality(N)) - k * Cardinality(C)
        BY <1>2, Weighted
      <4>2. k * Cardinality(C) = w
        BY DEF k
      <4>3. total' = total - w
        BY <2>2
      <4> QED
        BY <4>1, <4>2, <4>3, <1>3, Zenon
    <3> QED
      BY <3>2, <3>3, <2>2
  <2> QED
    BY <2>1, <2>2
<1>6. total' = ChunkSize(TRUE) * Cardinality(MappedChunks(TRUE)')
                 + ChunkSize(FALSE) * Cardinality(MappedChunks(FALSE)')
  <2>1. CASE s = TRUE
    <3>1. ~s = FALSE
      BY <2>1
    <3> QED
      BY <2>1, <3>1, <1>5
  <2>2. CASE s = FALSE
    <3>1. ~s = TRUE
      BY <2>2
    <3>2. total' = ChunkSize(FALSE) * Cardinality(MappedChunks(FALSE)')
                     + ChunkSize(TRUE) * Cardinality(MappedChunks(TRUE)')
      BY <2>2, <3>1, <1>5
    <3>3. /\ Cardinality(MappedChunks(FALSE)') \in Int
          /\ Cardinality(MappedChunks(TRUE)') \in Int
      <4>1. ASSUME NEW t PROVE Cardinality(MappedChunks(t)') \in Int
        <5>1. MappedChunks(t)' \subseteq handles'
          BY DEF MappedChunks
        <5>2. IsFiniteSet(MappedChunks(t)')
          BY <5>1, <1>4, FS_Subset
        <5> QED
          BY <5>2, FS_CardinalityType
      <4> QED
        BY <4>1
    <3>4. IsChunk(ChunkSize(FALSE)) /\ IsChunk(ChunkSize(TRUE))
      BY ChunkSizes
    <3> DEFINE c1 == Cardinality(MappedChunks(FALSE)')
               c2 == Cardinality(MappedChunks(TRUE)')
               k1 == ChunkSize(FALSE)
               k2 == ChunkSize(TRUE)
    <3>5. /\ c1 \in Int /\ c2 \in Int /\ IsChunk(k1) /\ IsChunk(k2)
          /\ total' = k1 * c1 + k2 * c2
      BY <3>2, <3>3, <3>4
    <3> HIDE DEF c1, c2, k1, k2
    <3>6. k1 * c1 + k2 * c2 = k2 * c2 + k1 * c1
      BY <3>5, Weighted
    <3>7. total' = k2 * c2 + k1 * c1
      BY <3>5, <3>6, Zenon
    <3> QED
      BY <3>7, Zenon DEF c1, c2, k1, k2
  <2> QED
    BY <2>1, <2>2
<1> QED
  BY <1>4, <1>6 DEF TotalInv

\* The addresses of block p from lo to hi become mapped (m) or unmapped, and are
\* merged with their neighbours of that kind.
Moved(h, p, lo, hi, m) ==
  /\ CarveOf(segments, blocks, h, p, lo, hi, m)
  /\ OnGrid(blocks[p], lo) /\ OnGrid(blocks[p], hi)
  /\ segments' = segments /\ active' = active
  /\ blocks' = Coalesce(h, lo)
  /\ cached' = Idle(blocks', TRUE)
  /\ unmapped' = Idle(blocks', FALSE)
  /\ handles' = IF m THEN handles \cup Chunks(blocks[p], lo, hi)
                     ELSE handles \ Chunks(blocks[p], lo, hi)
  /\ total' = IF m THEN total + (hi - lo) ELSE total - (hi - lo)

\* The blocks in the hands of the program are not idle.
LEMMA ActiveNotIdle ==
  ASSUME HeapInv, NEW x \in active
  PROVE  x \in DOMAIN blocks /\ x \notin Idle(blocks, TRUE) /\ x \notin Idle(blocks, FALSE)
<1>1. x \in DOMAIN blocks /\ (blocks[x].allocated \/ blocks[x].events > 0)
  BY Partition
<1> QED
  BY <1>1 DEF Idle

LEMMA MovedHeap ==
  ASSUME EInv, pc # "found", pc' # "found",
         NEW h, NEW p, NEW lo, NEW hi, NEW m, Moved(h, p, lo, hi, m)
  PROVE  /\ HeapInv' /\ Separate' /\ SeparateUnmapped'
         /\ SameSegments
         /\ Unmapped' = Idle(blocks', FALSE)
         /\ \A x \in active : x \in DOMAIN blocks' /\ blocks'[x] = blocks[x]
<1> DEFINE q == Lead(h, lo)
           S == Subsumed(h, lo)
<1>1. /\ HeapInv /\ Tiled(segments, blocks)
  BY DEF EInv, SharedInv, HeapInv
<1>2. /\ CarveOf(segments, blocks, h, p, lo, hi, m)
      /\ segments' = segments /\ active' = active
      /\ blocks' = Coalesce(h, lo) /\ cached' = Idle(blocks', TRUE)
  BY DEF Moved
<1>3. p \in Idle(blocks, ~m) /\ m \in BOOLEAN
  BY <1>2 DEF CarveOf
<1>4. S \subseteq Idle(blocks, m)
  BY <1>2, CarveSubsumed
<1>5. Merged(segments, blocks, h, p, lo, m, blocks', q, S)
  BY <1>2, CarveIdle
<1>6. MergedRest(segments, blocks, p, blocks', q, S)
  BY <1>2, CarveRest
<1> HIDE DEF q, S
<1>7. \A x \in active : x \in DOMAIN blocks' /\ blocks'[x] = blocks[x]
  <2> SUFFICES ASSUME NEW x \in active PROVE x \in DOMAIN blocks' /\ blocks'[x] = blocks[x]
    OBVIOUS
  <2>1. x \in DOMAIN blocks /\ x # p /\ x \notin S
    <3>1. x \in DOMAIN blocks /\ x \notin Idle(blocks, TRUE) /\ x \notin Idle(blocks, FALSE)
      BY <1>1, ActiveNotIdle
    <3> QED
      BY <3>1, <1>3, <1>4
  <2> QED
    BY <2>1, <1>6 DEF MergedRest
<1>8. Tiled(segments, blocks)'
  BY <1>2, <1>5 DEF Merged
<1>9. HeapInv'
  <2>1. \A x \in DOMAIN blocks' :
          \/ x \in Idle(blocks, TRUE)' \cup Idle(blocks, FALSE)'
          \/ x \in DOMAIN blocks /\ blocks'[x] = blocks[x]
    BY <1>6 DEF MergedRest
  <2> QED
    BY <2>1, <1>1, <1>2, <1>7, <1>8, IdlePartition
<1>10. IdleApart(blocks', TRUE) /\ IdleApart(blocks', FALSE)
  BY <1>5 DEF Merged
<1>11. Unmapped' = Idle(blocks', FALSE)
  <2>1. PoolsPartition'
    BY <1>9 DEF HeapInv
  <2>2. \A x \in DOMAIN blocks' : /\ x \in active' => blocks'[x].mapped
                                  /\ x \in active' <=> blocks'[x].allocated
                                                       \/ blocks'[x].events > 0
                                  /\ ~blocks'[x].allocated => blocks'[x].uses = {}
                                  /\ blocks'[x].events \in Nat /\ blocks'[x].mapped \in BOOLEAN
    BY <2>1, <1>8, BlockType DEF PoolsPartition, Tiled, Block
  <2> QED
    BY <2>2 DEF Unmapped, Idle
<1>12. Separate'
  <2>1. Held' = {}
    BY DEF Held
  <2> QED
    BY <2>1, <1>2, <1>10 DEF Separate, IdleApart
<1>13. SeparateUnmapped'
  BY <1>10, <1>11 DEF SeparateUnmapped, IdleApart
<1>14. SameSegments
  BY <1>2, <1>6 DEF MergedRest, SameSegments
<1> QED
  BY <1>7, <1>9, <1>11, <1>12, <1>13, <1>14

\* What the step does to the chunks between lo and hi, and to no others.
LEMMA MovedChunks ==
  ASSUME EInv, pc # "found", pc' # "found",
         NEW h, NEW p, NEW lo, NEW hi, NEW m, Moved(h, p, lo, hi, m)
  PROVE  HandlesInv' /\ TotalInv'
<1> DEFINE b == blocks[p]
           C == Chunks(b, lo, hi)
           w == hi - lo
<1>1. /\ Tiled(segments, blocks) /\ SegmentsApart /\ HandlesInv /\ TotalInv
  BY DEF EInv, SharedInv, HeapInv, PhysicalInv
<1>2. /\ CarveOf(segments, blocks, h, p, lo, hi, m)
      /\ OnGrid(b, lo) /\ OnGrid(b, hi)
      /\ segments' = segments /\ blocks' = Coalesce(h, lo)
      /\ unmapped' = Idle(blocks', FALSE)
      /\ handles' = IF m THEN handles \cup C ELSE handles \ C
      /\ total' = IF m THEN total + w ELSE total - w
  BY DEF Moved
<1>3. /\ p \in DOMAIN blocks /\ b.mapped = ~m /\ m \in BOOLEAN /\ lo \in Nat /\ hi \in Nat
      /\ p <= lo /\ lo < hi /\ hi <= End(blocks, p)
  BY <1>2 DEF CarveOf, Idle
<1>4. /\ b \in Block /\ p \in Nat /\ b.seg \in DOMAIN segments /\ b.seg \in Nat /\ b.seg <= p
      /\ b.small \in BOOLEAN /\ b.small = blocks[b.seg].small
  <2>1. b \in Block /\ p \in Nat /\ b.seg \in Nat
    BY <1>1, <1>3, BlockType DEF Tiled
  <2> QED
    BY <2>1, <1>1, <1>3 DEF Tiled, InSegment, Block
<1>5. \A x \in Nat :
        /\ x \in C <=> GridAt(x) /\ lo <= x /\ x < hi
        /\ lo <= x /\ x < hi =>
             /\ \A a \in DOMAIN segments : Within(a, x) <=> a = b.seg
             /\ UnmappedAt(blocks, x) <=> m
  BY <1>1, <1>2, <1>3, ChunksOfBlock
<1> PICK s \in BOOLEAN : s = b.small
  BY <1>4
<1>6. /\ C \subseteq Nat /\ IsFiniteSet(C) /\ w \in Nat
      /\ ChunkSize(s) * Cardinality(C) = w
  <2>1. b.seg <= lo /\ lo <= hi /\ w \in Nat
    BY <1>3, <1>4
  <2>2. C = {c \in Nat : lo <= c /\ c < hi /\ OnGrid(b, c)}
    BY <2>1, <1>2, <1>3, <1>4, ChunksMembers
  <2>3. IsFiniteSet(C) /\ ChunkSize(s) * Cardinality(C) = hi - lo
    BY <2>1, <1>2, <1>3, <1>4, ChunksCount
  <2> HIDE DEF C
  <2> QED
    BY <2>1, <2>2, <2>3
<1> HIDE DEF C, w
<1>7. /\ Unmapped' = Idle(blocks', FALSE) /\ SameSegments /\ Tiled(segments, blocks)'
  BY MovedHeap DEF HeapInv
<1>8. \A a \in DOMAIN segments : blocks'[a].small = blocks[a].small /\ blocks'[a].seg = blocks[a].seg
  BY <1>1, <1>2, <1>7 DEF SameSegments, Tiled
<1>9. \A x : GridAt(x)' <=> GridAt(x)
  BY <1>2, <1>8 DEF GridAt, Within, OnGrid
<1>10. \A x \in Nat : UnmappedAt(blocks', x) <=>
                        IF m THEN UnmappedAt(blocks, x) /\ ~(lo <= x /\ x < hi)
                             ELSE UnmappedAt(blocks, x) \/ (lo <= x /\ x < hi)
  BY <1>2, CarveUnmappedAt
<1>11. HandlesInv'
  <2>1. handles' = {x \in Nat : GridAt(x) /\ ~UnmappedAt(blocks', x)}
    <3>1. handles = {x \in Nat : GridAt(x) /\ ~UnmappedAt(blocks, x)}
      BY <1>1 DEF HandlesInv
    <3>2. CASE m
      <4>1. ASSUME NEW x \in Nat
            PROVE  x \in handles' <=> GridAt(x) /\ ~UnmappedAt(blocks', x)
        BY <3>1, <3>2, <1>2, <1>5, <1>10
      <4>2. handles' \subseteq Nat
        BY <3>1, <3>2, <1>2, <1>6
      <4> QED
        BY <4>1, <4>2
    <3>3. CASE ~m
      <4>1. ASSUME NEW x \in Nat
            PROVE  x \in handles' <=> GridAt(x) /\ ~UnmappedAt(blocks', x)
        BY <3>1, <3>3, <1>2, <1>5, <1>10
      <4>2. handles' \subseteq Nat
        BY <3>1, <3>3, <1>2
      <4> QED
        BY <4>1, <4>2
    <3> QED
      BY <3>2, <3>3
  <2> QED
    BY <2>1, <1>2, <1>7, <1>9 DEF HandlesInv
<1>12. TotalInv'
  <2> DEFINE In(t, x) == \E a \in DOMAIN segments : blocks[a].small = t /\ Within(a, x)
  <2>1. \A t : /\ MappedChunks(t)' = {x \in handles' : In(t, x)}
               /\ MappedChunks(t) = {x \in handles : In(t, x)}
    BY <1>2, <1>8 DEF MappedChunks, Within
  <2>2. \A x \in C : In(s, x) /\ ~In(~s, x)
    BY <1>4, <1>5, <1>6
  <2> HIDE DEF In
  <2>3. MappedChunks(~s)' = MappedChunks(~s)
    BY <2>1, <2>2, <1>2, <1>3
  <2>4. CASE m
    <3>1. C \cap handles = {}
      BY <2>4, <1>1, <1>5, <1>6 DEF HandlesInv
    <3>2. handles' = handles \cup C /\ total' = total + w
      BY <2>4, <1>2
    <3>3. MappedChunks(s)' = MappedChunks(s) \cup C
      BY <2>1, <2>2, <3>2
    <3> QED
      BY <3>1, <3>2, <3>3, <2>3, <1>1, <1>4, <1>6, TotalFollows
  <2>5. CASE ~m
    <3>1. C \subseteq handles
      BY <2>5, <1>1, <1>5, <1>6 DEF HandlesInv
    <3>2. handles' = handles \ C /\ total' = total - w
      BY <2>5, <1>2
    <3>3. MappedChunks(s)' = MappedChunks(s) \ C /\ C \subseteq MappedChunks(s)
      BY <2>1, <2>2, <3>1, <3>2
    <3> QED
      BY <3>2, <3>3, <2>3, <1>1, <1>4, <1>6, TotalFollows
  <2> QED
    BY <2>4, <2>5
<1> QED
  BY <1>11, <1>12

\* Where the block is cut there are boundaries, and merging keeps to them.
LEMMA MovedAligned ==
  ASSUME EInv, pc # "found", pc' # "found",
         NEW h, NEW p, NEW lo, NEW hi, NEW m, Moved(h, p, lo, hi, m)
  PROVE  Aligned'
<1> DEFINE q == Lead(h, lo)
           S == Subsumed(h, lo)
           On(a, x) == OnGrid(blocks[a], x)
<1>1. /\ Tiled(segments, blocks) /\ Aligned /\ HeapInv /\ Unmapped = Idle(blocks, FALSE)
  BY IdleBlocks DEF EInv, SharedInv, HeapInv, PhysicalInv
<1>2. /\ CarveOf(segments, blocks, h, p, lo, hi, m)
      /\ OnGrid(blocks[p], lo) /\ OnGrid(blocks[p], hi)
      /\ segments' = segments /\ blocks' = Coalesce(h, lo)
  BY DEF Moved
<1>3. /\ Unmapped' = Idle(blocks', FALSE) /\ SameSegments /\ Tiled(segments, blocks')
  BY <1>2, MovedHeap DEF HeapInv
<1>4. /\ p \in DOMAIN blocks /\ m \in BOOLEAN /\ p \in Idle(blocks, ~m)
  BY <1>2 DEF CarveOf, Idle
<1>5. Merged(segments, blocks, h, p, lo, m, blocks', q, S)
  BY <1>2, CarveIdle
<1>6. MergedExtent(blocks, p, lo, hi, m, blocks', q)
  BY <1>2, CarveExtent
<1>7. /\ S \subseteq Idle(blocks, m)
      /\ Idle(h, ~m) = (Idle(blocks, ~m) \ {p})
                         \cup (IF p < lo THEN {p} ELSE {})
                         \cup (IF hi < End(blocks, p) THEN {hi} ELSE {})
  BY <1>2, CarveSubsumed
<1>8. MergedRest(segments, blocks, p, blocks', q, S)
  BY <1>2, CarveRest
<1> HIDE DEF q, S
<1>9. \A a \in DOMAIN segments : /\ blocks'[a].small = blocks[a].small
                                 /\ blocks'[a].seg = blocks[a].seg
  BY <1>1, <1>2, <1>3 DEF SameSegments, Tiled
<1>10. /\ \A x \in DOMAIN blocks : \A y :
            blocks[x].seg \in DOMAIN segments /\ (OnGrid(blocks[x], y) <=> On(blocks[x].seg, y))
       /\ \A x \in DOMAIN blocks' : \A y : OnGrid(blocks'[x], y) <=> On(blocks'[x].seg, y)
  <2>1. ASSUME NEW x \in DOMAIN blocks', NEW y
        PROVE  OnGrid(blocks'[x], y) <=> On(blocks'[x].seg, y)
    <3>1. /\ blocks'[x].seg \in DOMAIN segments
          /\ OnGrid(blocks'[x], y) <=> OnGrid(blocks'[blocks'[x].seg], y)
      BY <1>3, BySegment
    <3> QED
      BY <3>1, <1>9 DEF OnGrid
  <2> QED
    BY <2>1, <1>1, BySegment
<1>11. \A x \in Unmapped : On(blocks[x].seg, x) /\ On(blocks[x].seg, End(blocks, x))
  BY <1>1, <1>10 DEF Aligned, Unmapped
<1>12. On(blocks[p].seg, lo) /\ On(blocks[p].seg, hi)
  BY <1>2, <1>4, <1>10
<1>13. ASSUME NEW x \in DOMAIN blocks, x # p, x \notin S
       PROVE  blocks'[x] = blocks[x] /\ End(blocks', x) = End(blocks, x)
  BY <1>8, <1>13 DEF MergedRest, End
<1> HIDE DEF On
<1>14. CASE m = TRUE
  <2>1. Unmapped' = (Unmapped \ {p}) \cup (IF p < lo THEN {p} ELSE {})
                      \cup (IF hi < End(blocks, p) THEN {hi} ELSE {})
    BY <1>1, <1>3, <1>5, <1>7, <1>14 DEF Merged
  <2>2. q \notin Unmapped'
    BY <1>3, <1>5, <1>14 DEF Merged, Idle
  <2>3. \A x \in Unmapped' : x \in DOMAIN blocks' /\ blocks'[x] = h[x]
    BY <2>2, <1>3, <1>5 DEF Merged, Idle
  <2>4. ASSUME NEW x \in Unmapped, x # p
        PROVE  /\ On(blocks'[x].seg, x) /\ On(blocks'[x].seg, End(blocks', x))
    <3>1. x \in DOMAIN blocks /\ x \notin S
      BY <2>4, <1>1, <1>7, <1>14 DEF Idle
    <3> QED
      BY <3>1, <2>4, <1>11, <1>13
  <2>5. ASSUME p < lo, p \in Unmapped'
        PROVE  /\ On(blocks'[p].seg, p) /\ On(blocks'[p].seg, End(blocks', p))
    <3>1. End(h, p) = lo /\ h[p].seg = blocks[p].seg
      BY <2>5, <1>2, CarvePieces
    <3>2. p \in Unmapped
      BY <1>1, <1>4, <1>14
    <3> QED
      BY <3>1, <3>2, <2>3, <2>5, <1>11, <1>12 DEF End
  <2>6. ASSUME hi < End(blocks, p), hi \in Unmapped'
        PROVE  /\ On(blocks'[hi].seg, hi) /\ On(blocks'[hi].seg, End(blocks', hi))
    <3>1. End(h, hi) = End(blocks, p) /\ h[hi].seg = blocks[p].seg
      BY <2>6, <1>2, CarvePieces
    <3>2. p \in Unmapped
      BY <1>1, <1>4, <1>14
    <3> QED
      BY <3>1, <3>2, <2>3, <2>6, <1>11, <1>12 DEF End
  <2>7. \A x \in Unmapped' : On(blocks'[x].seg, x) /\ On(blocks'[x].seg, End(blocks', x))
    BY <2>1, <2>4, <2>5, <2>6
  <2> QED
    BY <2>3, <2>7, <1>10 DEF Aligned
<1>15. CASE m = FALSE
  <2>1. Unmapped' = (Unmapped \ S) \cup {q} /\ blocks'[q].seg = blocks[p].seg
    BY <1>1, <1>3, <1>5, <1>15 DEF Merged
  <2>2. ASSUME NEW x \in Unmapped, x \notin S
        PROVE  /\ On(blocks'[x].seg, x) /\ On(blocks'[x].seg, End(blocks', x))
    <3>1. x \in DOMAIN blocks /\ x # p
      BY <2>2, <1>1, <1>4, <1>15 DEF Idle
    <3> QED
      BY <3>1, <2>2, <1>11, <1>13
  <2>3. On(blocks'[q].seg, q)
    <3>1. q = lo \/ (q \in Unmapped /\ blocks[q].seg = blocks[p].seg)
      BY <1>1, <1>6, <1>15 DEF MergedExtent
    <3> QED
      BY <3>1, <2>1, <1>11, <1>12
  <2>4. On(blocks'[q].seg, End(blocks', q))
    <3>1. \/ End(blocks', q) = hi
          \/ /\ hi \in Unmapped /\ End(blocks', q) = End(blocks, hi)
             /\ blocks[hi].seg = blocks[p].seg
      BY <1>1, <1>6, <1>15 DEF MergedExtent
    <3> QED
      BY <3>1, <2>1, <1>11, <1>12
  <2>5. \A x \in Unmapped' : On(blocks'[x].seg, x) /\ On(blocks'[x].seg, End(blocks', x))
    BY <2>1, <2>2, <2>3, <2>4
  <2>6. \A x \in Unmapped' : x \in DOMAIN blocks'
    BY <1>3 DEF Idle
  <2> QED
    BY <2>5, <2>6, <1>10 DEF Aligned
<1> QED
  BY <1>4, <1>14, <1>15

LEMMA MovedPhysical ==
  ASSUME EInv, pc # "found", pc' # "found",
         NEW h, NEW p, NEW lo, NEW hi, NEW m, Moved(h, p, lo, hi, m)
  PROVE  PhysicalInv'
<1>1. SegmentsApart /\ Reserved /\ segments' = segments /\ SameSegments
  BY MovedHeap DEF EInv, PhysicalInv, Moved
<1>2. SegmentsApart' /\ Reserved'
  BY <1>1 DEF SegmentsApart, Reserved, SameSegments
<1>3. SeparateUnmapped' /\ Aligned' /\ HandlesInv' /\ TotalInv'
  BY MovedHeap, MovedAligned, MovedChunks
<1> QED
  BY <1>2, <1>3 DEF PhysicalInv

-----------------------------------------------------------------------------
(* map_block *)

\* What is to be mapped next: addresses of an unmapped block, the candidate or
\* the one behind it, and all of it that the candidate still needs.
MapArea(p, hi) ==
  /\ p = ToMap /\ hi = BoundaryAfter(blocks[p], p + Wanted)
  /\ p \in Unmapped /\ p \in Nat /\ hi \in Nat /\ p < hi /\ hi <= End(blocks, p)
  /\ OnGrid(blocks[p], p) /\ OnGrid(blocks[p], hi)
  /\ blocks[p].seg = blocks[call.block].seg
  /\ p = call.block \/ (call.block \in cached /\ Linked(blocks, call.block, p))
  /\ hi = End(blocks, p) \/ Target <= hi

LEMMA ToMapUnmapped ==
  ASSUME EInv, Mapping, ~Mapped
  PROVE  /\ ToMap \in Unmapped
         /\ blocks[ToMap].seg = blocks[call.block].seg
         /\ ToMap = call.block \/ (call.block \in cached /\ Linked(blocks, call.block, ToMap))
         /\ call.block \in Nat /\ call.size \in Nat /\ ToMap < Target
         /\ Wanted = Min({Target - ToMap, blocks[ToMap].size})
<1> DEFINE c == call.block
<1>1. /\ HeapInv /\ Tiled(segments, blocks) /\ Separate /\ Candidate
      /\ call \in Call /\ pc # "found" /\ call.op = "malloc" /\ call.size > 0
  BY DEF EInv, SharedInv, HeapInv, PhaseInv, CallInv, Mapping, Searching
<1>2. /\ DOMAIN blocks = cached \cup active \cup Unmapped
      /\ \A x \in DOMAIN blocks : x \in Unmapped <=> ~blocks[x].mapped
      /\ (cached \cup active) \cap Unmapped = {}
  BY <1>1, Partition DEF Held
<1>3. /\ c \in cached \cup Unmapped /\ c \in DOMAIN blocks
      /\ \/ Target <= blocks[c].seg + segments[blocks[c].seg]
         \/ c \in Unmapped
      /\ \A q \in active : blocks[q].seg = blocks[c].seg /\ c <= q => Target <= q
  BY <1>1, <1>2 DEF Candidate
<1>4. /\ c \in Nat /\ call.size \in Nat /\ blocks[c].size \in Nat
      /\ End(blocks, c) \in Nat /\ End(blocks, c) > c
  BY <1>1, <1>3, BlockType DEF Call, Tiled
<1>5. CASE c \in Unmapped
  <2>1. ToMap = c /\ Wanted = Min({call.size - 0, blocks[c].size})
    BY <1>2, <1>3, <1>5 DEF ToMap, Wanted
  <2>2. Target - c = call.size - 0 /\ c < Target
    BY <1>1, <1>4 DEF Target
  <2> QED
    BY <2>1, <2>2, <1>4, <1>5
<1>6. CASE c \notin Unmapped
  <2>1. /\ c \in cached /\ ToMap = End(blocks, c) /\ blocks[c].mapped
        /\ Wanted = Min({call.size - blocks[c].size, blocks[ToMap].size})
    BY <1>2, <1>3, <1>6 DEF ToMap, Wanted
  <2>2. blocks[c].size < call.size
    BY <2>1, <1>4 DEF Mapped
  <2>3. ToMap < Target /\ Target - ToMap = call.size - blocks[c].size
    BY <2>1, <2>2, <1>4 DEF Target, End
  <2>4. ToMap \in DOMAIN blocks /\ Linked(blocks, c, ToMap)
    <3>1. End(blocks, c) # blocks[c].seg + segments[blocks[c].seg]
      <4>1. /\ Target <= blocks[c].seg + segments[blocks[c].seg]
            /\ blocks[c].seg \in Nat /\ segments[blocks[c].seg] \in Nat /\ Target \in Nat
        BY <1>1, <1>3, <1>4, <1>6, BlockType DEF Tiled, InSegment, Target
      <4> QED
        BY <4>1, <2>1, <2>3, <1>4
    <3> QED
      BY <3>1, <2>1, <1>1, <1>3 DEF Tiled, ToEnd
  <2>5. blocks[ToMap].seg = blocks[c].seg
    BY <2>4 DEF Linked
  <2>6. ToMap \notin active
    <3>1. c <= ToMap /\ ~(Target <= ToMap)
      BY <2>1, <2>3, <1>4 DEF Target
    <3> QED
      BY <3>1, <2>5, <1>3
  <2>7. ToMap \notin cached
    BY <2>1, <2>4, <1>1 DEF Separate
  <2> QED
    BY <2>1, <2>3, <2>4, <2>5, <2>6, <2>7, <1>2, <1>4
<1> QED
  BY <1>5, <1>6

LEMMA MapAreaExists ==
  ASSUME EInv, Mapping, ~Mapped
  PROVE  \E p, hi : MapArea(p, hi)
<1> DEFINE p == ToMap
           b == blocks[p]
           e == End(blocks, p)
           w == Wanted
           hi == BoundaryAfter(b, p + w)
<1>1. /\ p \in Unmapped /\ b.seg = blocks[call.block].seg
      /\ p = call.block \/ (call.block \in cached /\ Linked(blocks, call.block, p))
      /\ call.block \in Nat /\ call.size \in Nat /\ p < Target
      /\ w = Min({Target - p, b.size})
  BY ToMapUnmapped
<1>2. Tiled(segments, blocks) /\ Aligned
  BY DEF EInv, SharedInv, HeapInv, PhysicalInv
<1>3. /\ p \in Nat /\ b \in Block /\ b.size \in Nat /\ b.size > 0 /\ b.seg \in Nat
      /\ b.seg <= p /\ e \in Nat /\ e = p + b.size
      /\ OnGrid(b, p) /\ OnGrid(b, e)
  <2>1. p \in DOMAIN blocks
    BY <1>1 DEF Unmapped
  <2>2. /\ p \in Nat /\ b \in Block /\ b.size \in Nat /\ b.size > 0 /\ b.seg \in Nat
        /\ e \in Nat
    BY <2>1, <1>2, BlockType DEF Tiled
  <2> QED
    BY <2>1, <2>2, <1>1, <1>2 DEF Tiled, InSegment, Aligned, End
<1>4. Target \in Nat
  BY <1>1 DEF Target
<1> HIDE DEF p, b, e, w
<1>5. /\ w \in Nat /\ 0 < w /\ w <= b.size
      /\ w = Target - p \/ w = b.size
  <2>1. /\ Target - p \in Nat /\ Target - p > 0
    BY <1>1, <1>3, <1>4
  <2>2. {Target - p, b.size} \subseteq Nat /\ {Target - p, b.size} # {}
    BY <2>1, <1>3
  <2>3. w \in {Target - p, b.size} /\ \A x \in {Target - p, b.size} : w <= x
    BY <2>2, <1>1, LeastIsMin
  <2> QED
    BY <2>1, <2>3, <1>3
<1>6. /\ p + w \in Nat /\ b.seg <= p + w /\ p + w <= e
  BY <1>3, <1>5
<1>7. /\ hi \in Nat /\ p + w <= hi /\ hi < p + w + ChunkSize(b.small) /\ OnGrid(b, hi)
      /\ OnGrid(b, p + w) => hi = p + w
  BY <1>3, <1>6, Boundaries
<1> HIDE DEF hi
<1>8. hi <= e
  <2> SUFFICES ASSUME e < hi PROVE FALSE
    BY <1>3, <1>7
  <2>1. e + ChunkSize(b.small) <= hi
    BY <1>3, <1>6, <1>7, GridStep
  <2> QED
    BY <2>1, <1>3, <1>6, <1>7, ChunkSizes
<1>9. hi = e \/ Target <= hi
  <2>1. CASE w = b.size
    BY <2>1, <1>3, <1>7
  <2>2. CASE w = Target - p
    BY <2>2, <1>3, <1>4, <1>7
  <2> QED
    BY <2>1, <2>2, <1>5
<1>10. p < hi
  BY <1>3, <1>5, <1>7
<1> QED
  <2>1. MapArea(p, hi)
    BY <1>1, <1>3, <1>7, <1>8, <1>9, <1>10 DEF MapArea, p, b, e, w, hi
  <2> QED
    BY <2>1

\* map_block ever only meets unmapped blocks: what HeapInv and Candidate are for.
LEMMA CandidateMaps == EInv => MapsUnmappedOnly
BY ToMapUnmapped DEF MapsUnmappedOnly, EInv, PhysicalInv, HandlesInv

\* The heap that MapBlock merges in.
LEMMA MapCarves ==
  ASSUME EInv, MapBlock, NEW p, NEW hi, MapArea(p, hi)
  PROVE  /\ blocks' = Coalesce(Carve(blocks, p, p, hi, TRUE), p)
         /\ call' = [call EXCEPT !.block = Lead(Carve(blocks, p, p, hi, TRUE), p)]
         /\ Moved(Carve(blocks, p, p, hi, TRUE), p, p, hi, TRUE)
         /\ pc \in {"map", "remap"} /\ pc' = pc
<1> DEFINE b == blocks[p]
           now == [b EXCEPT !.mapped = TRUE]
           n == hi - p
           h == IF n < b.size
                THEN SplitOff(blocks, p, n, now, Fresh(b, FALSE))
                ELSE [blocks EXCEPT ![p] = now]
           g == Carve(blocks, p, p, hi, TRUE)
           q == Lead(g, p)
           S == Subsumed(g, p)
<1>1. /\ p = ToMap /\ hi = BoundaryAfter(blocks[p], p + Wanted)
      /\ p \in Unmapped /\ p \in Nat /\ hi \in Nat /\ p < hi /\ hi <= End(blocks, p)
      /\ OnGrid(b, p) /\ OnGrid(b, hi)
  BY DEF MapArea
<1>2. /\ Tiled(segments, blocks) /\ HeapInv /\ Separate /\ SeparateUnmapped
      /\ unmapped = Unmapped
  BY DEF EInv, SharedInv, HeapInv, PhysicalInv, HandlesInv
<1>3. /\ p \in DOMAIN blocks /\ b.size \in Nat /\ b \in Block /\ End(blocks, p) = p + b.size
  <2>1. p \in DOMAIN blocks
    BY <1>1 DEF Unmapped
  <2> QED
    BY <2>1, <1>2, BlockType DEF Tiled, End
<1>4. /\ pc \in {"map", "remap"} /\ pc' = pc
      /\ segments' = segments /\ active' = active
      /\ blocks' = Coalesce(h, p) /\ call' = [call EXCEPT !.block = Lead(h, p)]
      /\ unmapped' = (unmapped \ {p}) \cup (IF n < b.size THEN {hi} ELSE {})
      /\ cached' = (cached \ Subsumed(h, p)) \cup {Lead(h, p)}
      /\ handles' = handles \cup Chunks(b, p, hi)
      /\ total' = total + n
  <2>1. /\ Mapping /\ UNCHANGED <<segments, active, pc>>
        /\ blocks' = Coalesce(h, p)
        /\ call' = [call EXCEPT !.block = Lead(h, p)]
        /\ unmapped' = (unmapped \ {p}) \cup (IF n < b.size THEN {hi} ELSE {})
        /\ cached' = (cached \ Subsumed(h, p)) \cup {Lead(h, p)}
        /\ handles' = handles \cup Chunks(b, p, hi)
        /\ total' = total + n
    BY <1>1 DEF MapBlock
  <2> HIDE DEF h, b, n
  <2> QED
    BY <2>1 DEF Mapping
<1>5. n < b.size <=> hi < End(blocks, p)
  BY <1>1, <1>3
<1>6. h = g
  <2> DEFINE h1 == [blocks EXCEPT ![p] = now]
  <2>1. g = IF hi < End(blocks, p) THEN SplitOff(h1, p, n, now, Fresh(b, FALSE)) ELSE h1
    <3>1. ~(p < p)
      BY <1>1
    <3> QED
      BY <3>1, Zenon DEF Carve
  <2>2. CASE ~(n < b.size)
    BY <2>1, <2>2, <1>5
  <2>3. CASE n < b.size
    <3>1. DOMAIN h1 = DOMAIN blocks /\ h1[p] = now /\ now.size = b.size
          /\ \A x \in DOMAIN blocks : x # p => h1[x] = blocks[x]
      BY <1>3 DEF Block
    <3>2. SplitOff(h1, p, n, now, Fresh(b, FALSE)) = SplitOff(blocks, p, n, now, Fresh(b, FALSE))
      <4> HIDE DEF h1, now, n, b
      <4> QED
        BY <3>1 DEF SplitOff, b
    <3> QED
      BY <2>1, <2>3, <3>2, <1>5
  <2> QED
    BY <2>2, <2>3, Zenon
<1>7. /\ Idle(blocks, TRUE) = cached /\ Idle(blocks, FALSE) = Unmapped
      /\ IdleApart(blocks, TRUE) /\ IdleApart(blocks, FALSE)
  BY <1>2, <1>4, IdleBlocks
<1> HIDE DEF h, g
<1>8. CarveOf(segments, blocks, g, p, p, hi, TRUE)
  <2>1. PICK m \in BOOLEAN : m = TRUE
    OBVIOUS
  <2>2. p \in Idle(blocks, ~m) /\ p <= p
    <3>1. ~m = FALSE
      BY <2>1
    <3>2. p \in Idle(blocks, FALSE)
      BY <1>1, <1>7, Zenon
    <3>3. p <= p
      BY <1>1
    <3> QED
      BY <3>1, <3>2, <3>3, Zenon
  <2>3. CarveOf(segments, blocks, Carve(blocks, p, p, hi, m), p, p, hi, m)
    BY <2>1, <2>2, <1>1, <1>2, <1>7, CarveIsOf
  <2> QED
    BY <2>1, <2>3, Zenon DEF g
<1>9. Merged(segments, blocks, g, p, p, TRUE, Coalesce(g, p), q, S)
  BY <1>8, CarveIdle
<1>10. Idle(g, FALSE) = (Idle(blocks, FALSE) \ {p})
                           \cup (IF hi < End(blocks, p) THEN {hi} ELSE {})
  <2>1. PICK m \in BOOLEAN : m = TRUE
    OBVIOUS
  <2>2. PICK lo : lo = p
    OBVIOUS
  <2>3. CarveOf(segments, blocks, g, p, lo, hi, m)
    BY <2>1, <2>2, <1>8, Zenon
  <2>4. Idle(g, ~m) = (Idle(blocks, ~m) \ {p})
                        \cup (IF p < lo THEN {p} ELSE {})
                        \cup (IF hi < End(blocks, p) THEN {hi} ELSE {})
    BY <2>3, CarveSubsumed
  <2>5. ~m = FALSE /\ ~(p < lo)
    BY <2>1, <2>2, <1>1
  <2>6. Idle(g, FALSE) = (Idle(blocks, FALSE) \ {p})
                           \cup (IF p < lo THEN {p} ELSE {})
                           \cup (IF hi < End(blocks, p) THEN {hi} ELSE {})
    BY <2>4, <2>5, Zenon
  <2> QED
    BY <2>5, <2>6
<1>11. cached' = Idle(blocks', TRUE)
  BY <1>4, <1>6, <1>7, <1>9 DEF Merged
<1>12. unmapped' = Idle(blocks', FALSE)
  <2>1. Idle(blocks', FALSE) = Idle(g, FALSE)
    BY <1>4, <1>6, <1>9 DEF Merged
  <2> QED
    BY <2>1, <1>2, <1>4, <1>5, <1>7, <1>10
<1>13. Moved(g, p, p, hi, TRUE)
  BY <1>1, <1>4, <1>6, <1>8, <1>11, <1>12 DEF Moved
<1> QED
  BY <1>4, <1>6, <1>13 DEF g

\* The candidate lies in its segment: it would be too small for the request
\* only if it were the whole of a new segment, which the device cannot fill.
LEMMA TargetInside ==
  ASSUME EInv, NEW p, NEW hi, MapArea(p, hi), Mapping, total + (hi - p) <= DeviceMemory
  PROVE  Target <= blocks[call.block].seg + segments[blocks[call.block].seg]
<1> DEFINE c == call.block
           a == blocks[c].seg
<1>1. /\ Candidate /\ Tiled(segments, blocks) /\ Reserved /\ TotalInv /\ call \in Call
      /\ HeapInv /\ pc # "found"
  BY DEF EInv, SharedInv, HeapInv, PhaseInv, PhysicalInv, CallInv, Mapping
<1> SUFFICES ASSUME ~(Target <= a + segments[a]) PROVE FALSE
  OBVIOUS
<1>2. c \in Unmapped /\ Whole(segments, blocks, c)
  BY <1>1 DEF Candidate
<1>3. /\ c \in DOMAIN blocks /\ c \in Nat /\ End(blocks, c) \in Nat
      /\ a = c /\ c \in DOMAIN segments /\ blocks[c].size = segments[c]
      /\ End(blocks, c) = c + segments[c] /\ segments[c] \in Nat
  <2>1. c \in DOMAIN blocks
    BY <1>2 DEF Unmapped
  <2> QED
    BY <2>1, <1>1, <1>2, BlockType DEF Whole, Tiled, InSegment, End
<1>4. p = c
  <2>1. c \notin cached
    BY <1>1, <1>2, Partition
  <2> QED
    BY <2>1 DEF MapArea
<1>5. hi = End(blocks, c)
  <2>1. hi \in Nat /\ hi <= End(blocks, p) /\ (hi = End(blocks, p) \/ Target <= hi)
    BY DEF MapArea
  <2>2. Target \in Nat
    BY <1>1, <1>3 DEF Target, Call
  <2> QED
    BY <2>1, <2>2, <1>3, <1>4
<1>6. segments[c] > DeviceMemory
  BY <1>1, <1>3, ReservedRange DEF Reserved
<1>7. total >= 0 /\ total \in Int
  <2>1. \A s : MappedChunks(s) \subseteq handles /\ IsFiniteSet(handles)
    BY <1>1 DEF TotalInv, MappedChunks
  <2>2. \A s : Cardinality(MappedChunks(s)) \in Nat
    BY <2>1, FS_Subset, FS_CardinalityType
  <2>3. IsChunk(ChunkSize(TRUE)) /\ IsChunk(ChunkSize(FALSE))
    BY ChunkSizes
  <2> DEFINE m == Cardinality(MappedChunks(TRUE))
             n == Cardinality(MappedChunks(FALSE))
             k == ChunkSize(TRUE)
             j == ChunkSize(FALSE)
  <2>4. m \in Nat /\ n \in Nat /\ total = k * m + j * n
    BY <2>2, <1>1 DEF TotalInv
  <2>5. IsChunk(k) /\ IsChunk(j)
    BY <2>3
  <2> HIDE DEF m, n, k, j
  <2>6. k * m \in Nat
    BY <2>4, <2>5 DEF IsChunk
  <2>7. j * n \in Nat
    BY <2>4, <2>5 DEF IsChunk
  <2> QED
    BY <2>4, <2>6, <2>7
<1> QED
  BY <1>3, <1>4, <1>5, <1>6, <1>7, EnvironmentAssumption

\* Once mapped, the candidate is where it was or begins with a free block right
\* before that; nothing that is held is in its way.
LEMMA MapCandidate ==
  ASSUME EInv, MapBlock, NEW p, NEW hi, MapArea(p, hi)
  PROVE  /\ Candidate'
         /\ call'.block \in Nat /\ blocks'[call'.block].mapped
         /\ Target' \in Nat /\ Target' <= Target
<1> DEFINE c == call.block
           h == Carve(blocks, p, p, hi, TRUE)
           q == Lead(h, p)
           a == blocks[c].seg
<1>1. /\ HeapInv /\ Tiled(segments, blocks) /\ Candidate
      /\ call \in Call /\ pc # "found" /\ SeparateUnmapped /\ Separate
  BY DEF EInv, SharedInv, HeapInv, PhaseInv, PhysicalInv, CallInv, MapBlock, Mapping
<1>2. /\ blocks' = Coalesce(h, p) /\ call' = [call EXCEPT !.block = q]
      /\ Moved(h, p, p, hi, TRUE)
      /\ pc \in {"map", "remap"} /\ pc' = pc
  BY MapCarves
<1>4. /\ CarveOf(segments, blocks, h, p, p, hi, TRUE)
      /\ segments' = segments /\ active' = active /\ cached' = Idle(blocks', TRUE)
  BY <1>2 DEF Moved
<1>5. /\ Merged(segments, blocks, h, p, p, TRUE, blocks', q, Subsumed(h, p))
      /\ MergedExtent(blocks, p, p, hi, TRUE, blocks', q)
  BY <1>2, <1>4, CarveIdle, CarveExtent
<1>6. \A x \in active : x \in DOMAIN blocks' /\ blocks'[x] = blocks[x]
  BY <1>2, MovedHeap
<1>7. /\ Idle(blocks, TRUE) = cached /\ Idle(blocks, FALSE) = Unmapped
      /\ DOMAIN blocks = cached \cup active \cup Unmapped
  BY <1>1, <1>2, IdleBlocks, Partition DEF Held
<1> HIDE DEF h, q
<1>8. /\ q \in Nat /\ q <= p /\ p \in Nat /\ c \in Nat /\ call.size \in Nat
      /\ q = p \/ (q \in cached /\ End(blocks, q) = p)
      /\ c \in DOMAIN blocks /\ p \in DOMAIN blocks /\ blocks[p].seg = a
      /\ q \in cached' /\ blocks'[q].seg = a /\ blocks'[q].mapped
      /\ blocks'[q].stream = blocks[p].stream /\ blocks'[q].small = blocks[p].small
  <2>1. /\ q \in Nat /\ q <= p
        /\ q = p \/ (q \in cached /\ End(blocks, q) = p)
    BY <1>5, <1>7 DEF MergedExtent
  <2>2. p \in Unmapped /\ p \in Nat /\ blocks[p].seg = a
    BY DEF MapArea
  <2>3. c \in cached \cup Unmapped
    BY <1>1, <1>2 DEF Candidate, Mapping
  <2>4. c \in Nat /\ call.size \in Nat
    BY <2>3, <1>1, <1>7, BlockType DEF Call, Tiled
  <2>5. /\ q \in cached' /\ blocks'[q].seg = a /\ blocks'[q].mapped
        /\ blocks'[q].stream = blocks[p].stream /\ blocks'[q].small = blocks[p].small
    BY <2>2, <1>4, <1>5 DEF Merged, Idle
  <2> QED
    BY <2>1, <2>2, <2>3, <2>4, <2>5, <1>7
<1>3. /\ call' \in Call /\ call'.size = call.size /\ call'.stream = call.stream
      /\ call'.block = q
  <2>1. CallInv
    BY DEF EInv, SharedInv
  <2> QED
    BY <2>1, <1>2, <1>8, CandidateCall
<1>9. q <= c /\ \A x \in active : x >= q /\ blocks[x].seg = a => x >= c
  <2>1. CASE p = c
    <3>1. ASSUME NEW x \in active, x >= q, blocks[x].seg = a, x < c PROVE FALSE
      <4>1. x \in Nat /\ x \in DOMAIN blocks
        BY <1>1, <1>7, BlockType DEF Tiled
      <4>2. q # p /\ q \in cached /\ q \in DOMAIN blocks /\ End(blocks, q) = p
        BY <4>1, <3>1, <2>1, <1>7, <1>8
      <4>3. x # q
        BY <4>2, <3>1, <1>1, Partition
      <4>4. End(blocks, q) <= x
        BY <4>1, <4>2, <4>3, <3>1, <1>1, <1>8 DEF Tiled, Apart
      <4> QED
        BY <4>1, <4>2, <4>4, <3>1, <2>1, <1>8
    <3>2. \A x \in active : x \in Nat
      BY <1>1, <1>7, BlockType DEF Tiled
    <3> QED
      BY <3>1, <3>2, <2>1, <1>8
  <2>2. CASE p # c
    <3>1. c \in Idle(blocks, TRUE) /\ Linked(blocks, c, p)
      BY <2>2, <1>7 DEF MapArea
    <3>2. q = c
      BY <3>1, <1>5 DEF MergedExtent
    <3> QED
      BY <3>2, <1>8
  <2> QED
    BY <2>1, <2>2
<1>10. Target <= a + segments[a]
  <2>1. Mapping /\ total + (hi - p) <= DeviceMemory
    BY DEF MapBlock, MapArea
  <2> QED
    BY <2>1, TargetInside
<1>11. /\ Target' = q + call.size /\ Target = c + call.size
       /\ Target' \in Nat /\ Target \in Nat /\ Target' <= Target
  BY <1>2, <1>3, <1>8, <1>9 DEF Target
<1>12. /\ a \in Nat /\ segments[a] \in Nat
       /\ blocks[p].stream = blocks[c].stream /\ blocks[p].small = blocks[c].small
  BY <1>1, <1>8, BlockType DEF Tiled, InSegment
<1>13. Target' <= blocks'[q].seg + segments'[blocks'[q].seg]
  BY <1>4, <1>8, <1>10, <1>11, <1>12
<1>14. ASSUME NEW x \in active', blocks'[x].seg = blocks'[q].seg, q <= x
       PROVE  Target' <= x
  <2>1. x \in active /\ blocks[x].seg = a /\ x \in DOMAIN blocks /\ x \in Nat
    BY <1>1, <1>4, <1>6, <1>7, <1>8, <1>14, BlockType DEF Tiled
  <2>2. c <= x
    BY <2>1, <1>8, <1>9, <1>14
  <2>3. Target <= x
    BY <2>1, <2>2, <1>1, <1>2 DEF Candidate, Mapping
  <2> QED
    BY <2>1, <2>3, <1>11
<1>15. /\ blocks[c].stream = call.stream /\ blocks[c].small = IsSmall(call.size)
  BY <1>1, <1>2 DEF Candidate, Mapping
<1>16. Candidate'
  BY <1>3, <1>8, <1>12, <1>13, <1>14, <1>15 DEF Candidate
<1> QED
  BY <1>3, <1>8, <1>11, <1>16 DEF Idle

\* When no cached block has a chunk for itself, one call of map_block is enough:
\* what is mapped and the cached block behind it reach as far as the request.
LEMMA MapReaches ==
  ASSUME EInv, MapBlock, NEW p, NEW hi, MapArea(p, hi), \A x \in cached : Chunkless(x)
  PROVE  Mapped'
<1> DEFINE c == call.block
           h == Carve(blocks, p, p, hi, TRUE)
           q == Lead(h, p)
           a == blocks[c].seg
           v == End(blocks, p)
           w == End(blocks, v)
<1>1. /\ HeapInv /\ Tiled(segments, blocks) /\ Candidate /\ call \in Call /\ CallInv
      /\ pc # "found" /\ SeparateUnmapped /\ Separate /\ Aligned
  BY DEF EInv, SharedInv, HeapInv, PhaseInv, PhysicalInv, CallInv, MapBlock, Mapping
<1>2. /\ blocks' = Coalesce(h, p) /\ call' = [call EXCEPT !.block = q]
      /\ Moved(h, p, p, hi, TRUE)
      /\ Mapping /\ pc' # "found"
  BY MapCarves DEF Mapping
<1>3. CarveOf(segments, blocks, h, p, p, hi, TRUE)
  BY <1>2 DEF Moved
<1>4. MergedExtent(blocks, p, p, hi, TRUE, blocks', q)
  BY <1>2, <1>3, CarveExtent
<1>5. /\ Target' \in Nat /\ Target' <= Target /\ blocks'[call'.block].mapped
      /\ call'.block \in Nat
  BY MapCandidate
<1>6. /\ Idle(blocks, TRUE) = cached
      /\ DOMAIN blocks = cached \cup active \cup Unmapped
  BY <1>1, <1>2, IdleBlocks, Partition DEF Held, Mapping
<1> HIDE DEF h, q
<1>7. /\ q \in Nat /\ End(blocks', q) \in Nat /\ hi <= End(blocks', q)
      /\ \A x \in cached : hi = v /\ Linked(blocks, p, x) => End(blocks', q) = End(blocks, x)
  BY <1>4, <1>6 DEF MergedExtent
<1>8. /\ call' \in Call /\ call'.size = call.size /\ call'.block = q
  BY <1>1, <1>2, <1>7, CandidateCall
<1>9. /\ p \in Unmapped /\ p \in DOMAIN blocks /\ p \in Nat /\ hi \in Nat /\ v \in Nat /\ p < v
      /\ blocks[p].seg = a /\ c \in Nat /\ c <= p /\ call.size \in Nat /\ Target \in Nat
      /\ hi = v \/ Target <= hi
  <2>1. /\ p \in Unmapped /\ p \in Nat /\ hi \in Nat /\ p < hi
        /\ blocks[p].seg = a /\ (hi = v \/ Target <= hi)
        /\ p = c \/ (c \in cached /\ Linked(blocks, c, p))
    BY DEF MapArea
  <2>2. p \in DOMAIN blocks /\ v \in Nat /\ p < v
    BY <2>1, <1>1, BlockType DEF Tiled, Unmapped
  <2>3. c \in Nat /\ c <= p
    <3>1. ASSUME c \in cached, Linked(blocks, c, p) PROVE c \in Nat /\ c <= p
      BY <3>1, <1>1, <1>6, BlockType DEF Tiled, Linked
    <3> QED
      BY <3>1, <2>1
  <2> QED
    BY <2>1, <2>2, <2>3, <1>1 DEF Target, Call
<1>10. /\ Target <= a + segments[a] /\ a \in Nat /\ segments[a] \in Nat
  <2>1. total + (hi - p) <= DeviceMemory
    BY DEF MapBlock, MapArea
  <2>2. a \in Nat /\ segments[a] \in Nat
    BY <1>1, <1>9, BlockType DEF Tiled, InSegment
  <2> QED
    BY <2>1, <2>2, <1>2, TargetInside
<1>11. \A x \in active : blocks[x].seg = a /\ c <= x => Target <= x
  BY <1>1, <1>2 DEF Candidate
<1> HIDE DEF c, a, v, w
<1>12. End(blocks', q) >= Target
  <2> SUFFICES ASSUME End(blocks', q) < Target PROVE FALSE
    BY <1>7, <1>9
  <2>1. hi = v /\ v < Target
    BY <1>7, <1>9
  <2>2. /\ v \in DOMAIN blocks /\ Linked(blocks, p, v) /\ blocks[v].seg = a
    <3>1. End(blocks, p) # blocks[p].seg + segments[blocks[p].seg]
      BY <2>1, <1>9, <1>10 DEF v
    <3>2. End(blocks, p) \in DOMAIN blocks /\ Linked(blocks, p, End(blocks, p))
      BY <3>1, <1>1, <1>9 DEF Tiled, ToEnd
    <3> QED
      BY <3>2, <1>9 DEF v, Linked
  <2>3. v \in cached
    <3>1. v \notin active
      BY <2>1, <2>2, <1>9, <1>11
    <3>2. v \notin Unmapped
      BY <2>2, <1>1, <1>9 DEF SeparateUnmapped
    <3> QED
      BY <3>1, <3>2, <2>2, <1>6
  <2>4. End(blocks', q) = w
    BY <2>1, <2>2, <2>3, <1>7 DEF w
  <2>5. w \in Nat /\ v < w /\ v \in Nat /\ blocks[v] \in Block
    BY <2>2, <1>1, BlockType DEF Tiled, w
  <2>6. w \in DOMAIN blocks /\ Linked(blocks, v, w) /\ blocks[w].seg = a
    <3>1. End(blocks, v) # blocks[v].seg + segments[blocks[v].seg]
      <4>1. w < Target
        BY <2>4
      <4>2. w < a + segments[a]
        BY <4>1, <2>5, <1>9, <1>10
      <4> QED
        BY <4>2, <2>2, <2>5, <1>10 DEF w
    <3>2. End(blocks, v) \in DOMAIN blocks /\ Linked(blocks, v, End(blocks, v))
      BY <3>1, <2>2, <1>1 DEF Tiled, ToEnd
    <3> QED
      BY <3>2, <2>2 DEF w, Linked
  <2>7. w \in Unmapped
    <3>1. w \notin active
      BY <2>4, <2>5, <2>6, <1>9, <1>11
    <3>2. w \notin cached
      BY <2>3, <2>6, <1>1 DEF Separate
    <3> QED
      BY <3>1, <3>2, <2>6, <1>6
  <2>8. OnGrid(blocks[v], v) /\ OnGrid(blocks[v], w)
    <3>1. OnGrid(blocks[p], v) /\ OnGrid(blocks[w], w)
      BY <2>7, <1>1, <1>9 DEF Aligned, v
    <3>2. /\ blocks[p].small = blocks[a].small /\ blocks[v].small = blocks[a].small
          /\ blocks[w].small = blocks[a].small
      BY <2>2, <2>6, <1>1, <1>9 DEF Tiled, InSegment
    <3> QED
      BY <3>1, <3>2, <2>2, <2>6, <1>9 DEF OnGrid
  <2>9. BoundaryAfter(blocks[v], v) = v /\ BoundaryBefore(blocks[v], w) = w
    <3>1. blocks[v].seg <= v /\ blocks[v].seg <= w /\ blocks[v].seg \in Nat
      BY <2>2, <2>5, <1>1, BlockType DEF Tiled, InSegment
    <3> QED
      BY <3>1, <2>5, <2>8, Boundaries
  <2> QED
    BY <2>3, <2>5, <2>9 DEF Chunkless, w
<1>13. blocks'[q].size >= call.size
  <2>1. Target' = q + call.size
    BY <1>8 DEF Target
  <2>2. End(blocks', q) = q + blocks'[q].size /\ blocks'[q].size \in Nat
    <3>1. Tiled(segments, blocks)'
      BY <1>2, MovedHeap DEF HeapInv, Mapping
    <3>2. Merged(segments, blocks, h, p, p, TRUE, Coalesce(h, p), q, Subsumed(h, p))
      BY <1>3, CarveIdle DEF q
    <3>3. q \in DOMAIN blocks'
      BY <3>2, <1>2 DEF Merged
    <3> QED
      BY <3>1, <3>3, BlockType DEF Tiled, End
  <2> QED
    BY <2>1, <2>2, <1>5, <1>7, <1>9, <1>12
<1> QED
  BY <1>5, <1>8, <1>13 DEF Mapped

LEMMA MapBlockKeeps ==
  ASSUME EInv, MapBlock
  PROVE  EInv' /\ [Memory!Next]_(Memory!vars)
<1>1. PICK p, hi : MapArea(p, hi)
  BY MapAreaExists DEF MapBlock
<1> DEFINE h == Carve(blocks, p, p, hi, TRUE)
           n == hi - p
<1>2. /\ blocks' = Coalesce(h, p) /\ call' = [call EXCEPT !.block = Lead(h, p)]
      /\ Moved(h, p, p, hi, TRUE)
      /\ pc \in {"map", "remap"} /\ pc' = pc
  BY <1>1, MapCarves
<1>3. /\ HeapInv /\ QueueInv /\ CallInv /\ CountInv /\ SegmentsApart
      /\ UnsyncedHeld /\ CallSteps /\ SynchronizedE /\ LastResortE
  BY DEF EInv, SharedInv, PhysicalInv, PhaseInv
<1>4. /\ HeapInv' /\ Separate' /\ SameSegments /\ PhysicalInv'
      /\ \A x \in active : x \in DOMAIN blocks' /\ blocks'[x] = blocks[x]
  BY <1>2, MovedHeap, MovedPhysical
<1>5. /\ Candidate' /\ call'.block \in Nat
  BY <1>1, MapCandidate
<1> HIDE DEF h, n
<1>6. /\ UNCHANGED <<eventVars, allowed>> /\ ~Mapped /\ active' = active
  BY DEF MapBlock
<1>7. /\ n \in Int /\ blocks[p].small \in BOOLEAN
      /\ total' = total + n
      /\ stats' = [stats EXCEPT ![blocks[p].small].reserved_bytes = @ + n]
  <2>1. /\ hi \in Nat /\ p \in Nat /\ p \in DOMAIN blocks
        /\ p = ToMap /\ hi = BoundaryAfter(blocks[p], p + Wanted)
    BY <1>1 DEF MapArea, Unmapped
  <2>2. blocks[p].small \in BOOLEAN
    BY <2>1, <1>3, BlockType DEF HeapInv, Tiled, Block
  <2> QED
    BY <2>1, <2>2 DEF MapBlock, n
<1>8. QueueInv'
  BY <1>3, <1>4, <1>6, QueueFrame DEF eventVars
<1>9. /\ call' \in Call /\ call'.op = call.op /\ call'.size = call.size
      /\ call'.stream = call.stream /\ call'.targets = call.targets
  <2>1. Lead(h, p) \in Nat
    <3>1. Lead(h, p) \in DOMAIN blocks'
      <4>1. CarveOf(segments, blocks, h, p, p, hi, TRUE)
        BY <1>2 DEF Moved
      <4>2. Merged(segments, blocks, h, p, p, TRUE, Coalesce(h, p), Lead(h, p), Subsumed(h, p))
        BY <4>1, CarveIdle
      <4> QED
        BY <4>2, <1>2 DEF Merged
    <3> QED
      BY <3>1, <1>4, BlockType DEF HeapInv, Tiled
  <2> QED
    BY <2>1, <1>2, <1>3, CandidateCall
<1>10. CallInv'
  BY <1>2, <1>3, <1>9 DEF CallInv, Steps, Searching
<1>11. CountInv'
  <2>1. stats' \in Stats /\ total' \in Int
    BY <1>3, <1>7 DEF CountInv, Stats, Stat
  <2> QED
    BY <2>1, <1>3, <1>6, CountFrame DEF eventVars
<1>12. UnsyncedHeld'
  BY <1>3, <1>4, <1>6, SyncFrame DEF eventVars
<1>13. CallSteps' /\ SynchronizedE'
  BY <1>2, <1>3, <1>6, <1>9 DEF CallSteps, SynchronizedE, eventVars
<1>14. LastResortE'
  <2>1. CASE pc = "map"
    BY <2>1, <1>2 DEF LastResortE
  <2>2. CASE pc = "remap"
    <3>1. NoEvents /\ \A x \in cached : Chunkless(x)
      BY <2>2, <1>3, <1>6 DEF LastResortE
    <3>2. NoEvents'
      BY <3>1, <1>6 DEF NoEvents, eventVars
    <3>3. Mapped'
      BY <3>1, <1>1, MapReaches
    <3> QED
      BY <3>2, <3>3, <2>2, <1>2 DEF LastResortE
  <2> QED
    BY <2>1, <2>2, <1>2
<1>15. [Memory!Next]_(Memory!vars)
  <2>1. Allocated' = Allocated /\ \A x \in Allocated : blocks'[x] = blocks[x]
    BY <1>4, <1>6 DEF Allocated
  <2>2. Live' = Live /\ Uses' = Uses
    BY <2>1, HeldFrame
  <2> QED
    BY <2>2, <1>6, UnseenStutters DEF Unseen, eventVars
<1> QED
  BY <1>4, <1>5, <1>8, <1>10, <1>11, <1>12, <1>13, <1>14, <1>15
     DEF EInv, SharedInv, PhaseInv

\* The block that has been mapped is taken out of its pool.
LEMMA MapDoneKeeps ==
  ASSUME EInv, MapDone
  PROVE  EInv' /\ [Memory!Next]_(Memory!vars)
<1>1. /\ HeapInv /\ QueueInv /\ CallInv /\ CountInv /\ Separate /\ PhysicalInv
      /\ UnsyncedHeld /\ CallSteps /\ Candidate /\ SegmentsApart
  BY DEF EInv, SharedInv, PhysicalInv, PhaseInv
<1>2. /\ pc \in {"map", "remap"} /\ pc' = "found" /\ Mapped
      /\ cached' = cached \ {call.block}
      /\ UNCHANGED <<segments, blocks, active, stats, eventVars, total, allowed,
                     call, unmapped, handles>>
  BY DEF MapDone, Mapping
<1>3. /\ blocks[call.block].mapped /\ blocks[call.block].size >= call.size
      /\ blocks[call.block].stream = call.stream
      /\ blocks[call.block].small = IsSmall(call.size)
      /\ call.block \in cached
  <2>1. call.block \in cached \/ call.block \in Unmapped
    BY <1>1, <1>2 DEF Candidate, Mapping
  <2> QED
    BY <2>1, <1>1, <1>2 DEF Candidate, Mapping, Mapped, Unmapped
<1>4. (cached \cup Held)' = cached \cup Held /\ (cached \cap Held)' = {}
  BY <1>2, <1>3 DEF Held
<1>5. HeapInv' /\ SameUnmapped
  <2>1. /\ DOMAIN blocks' = DOMAIN blocks /\ HeapType(blocks)'
        /\ \A x \in DOMAIN blocks : ~blocks[x].allocated => blocks[x].uses = {}
    BY <1>1, <1>2, Partition DEF HeapInv, Tiled
  <2> QED
    BY <2>1, <1>1, <1>2, <1>4, SameHeapKeeps
<1>6. QueueInv'
  BY <1>1, <1>2, QueueQuiet DEF eventVars
<1>7. CallInv'
  <2>1. call.block \in DOMAIN blocks
    BY <1>1, <1>3, Partition
  <2> QED
    BY <2>1, <1>1, <1>2, <1>3, Mode DEF CallInv, Steps, Searching
<1>8. CountInv'
  BY <1>1, <1>2 DEF CountInv, eventVars
<1>9. Separate'
  BY <1>1, <1>2, <1>4 DEF Separate, Linked, End
<1>10. SameSegments
  BY <1>2, SameBlocks
<1>11. PhysicalInv'
  BY <1>1, <1>2, <1>5, <1>10, PhysicalFrame
<1>12. UnsyncedHeld'
  BY <1>1, <1>2, <1>10, SyncFrame DEF eventVars
<1>13. CallSteps' /\ Candidate' /\ SynchronizedE' /\ LastResortE'
  BY <1>1, <1>2 DEF CallSteps, Candidate, Mapping, SynchronizedE, LastResortE
<1>14. [Memory!Next]_(Memory!vars)
  <2>1. Live' = Live /\ Uses' = Uses
    BY <1>2, HeldFrame DEF Allocated
  <2> QED
    BY <2>1, <1>2, UnseenStutters DEF Unseen, eventVars
<1> QED
  BY <1>5, <1>6, <1>7, <1>8, <1>9, <1>11, <1>12, <1>13, <1>14 DEF EInv, SharedInv, PhaseInv

-----------------------------------------------------------------------------
(* unmap_block *)

\* The chunks that lie entirely in the cached block p.
UnmapSpan(p, lo, hi) ==
  /\ lo = BoundaryAfter(blocks[p], p) /\ hi = BoundaryBefore(blocks[p], End(blocks, p))
  /\ p \in cached /\ p \in Nat /\ lo \in Nat /\ hi \in Nat
  /\ p <= lo /\ lo < hi /\ hi <= End(blocks, p)
  /\ OnGrid(blocks[p], lo) /\ OnGrid(blocks[p], hi)

\* They, and what they are merged with, are all of the segment, which is released.
Dropped(h, p, lo, hi) ==
  /\ CarveOf(segments, blocks, h, p, lo, hi, FALSE)
  /\ OnGrid(blocks[p], lo) /\ OnGrid(blocks[p], hi)
  /\ Whole(segments, Coalesce(h, lo), Lead(h, lo))
  /\ segments' = [a \in DOMAIN segments \ {Lead(h, lo)} |-> segments[a]]
  /\ active' = active
  /\ blocks' = [x \in DOMAIN Coalesce(h, lo) \ {Lead(h, lo)} |-> Coalesce(h, lo)[x]]
  /\ cached' = Idle(Coalesce(h, lo), TRUE)
  /\ unmapped' = Idle(Coalesce(h, lo), FALSE) \ {Lead(h, lo)}
  /\ handles' = handles \ Chunks(blocks[p], lo, hi)
  /\ total' = total - (hi - lo)

LEMMA UnmapCarves ==
  ASSUME EInv, NEW p \in call.targets, UnmapBlock(p), NEW lo, NEW hi, UnmapSpan(p, lo, hi)
  PROVE  \/ Moved(Carve(blocks, p, lo, hi, FALSE), p, lo, hi, FALSE)
         \/ Dropped(Carve(blocks, p, lo, hi, FALSE), p, lo, hi)
<1> DEFINE b == blocks[p]
           gone == [b EXCEPT !.mapped = FALSE]
           h1 == IF p < lo THEN SplitOff(blocks, p, lo - p, Fresh(b, TRUE), gone)
                           ELSE [blocks EXCEPT ![p] = gone]
           h == IF hi < End(blocks, p)
                THEN SplitOff(h1, lo, hi - lo, gone, Fresh(b, TRUE))
                ELSE h1
           g == Carve(blocks, p, lo, hi, FALSE)
           q == Lead(g, lo)
           S == Subsumed(g, lo)
           k == Coalesce(g, lo)
           pieces == (IF p < lo THEN {p} ELSE {})
                       \cup (IF hi < End(blocks, p) THEN {hi} ELSE {})
<1>1. /\ lo = BoundaryAfter(blocks[p], p) /\ hi = BoundaryBefore(blocks[p], End(blocks, p))
      /\ p \in cached /\ p \in Nat /\ lo \in Nat /\ hi \in Nat
      /\ p <= lo /\ lo < hi /\ hi <= End(blocks, p)
      /\ OnGrid(b, lo) /\ OnGrid(b, hi)
  BY DEF UnmapSpan
<1>2. /\ Tiled(segments, blocks) /\ HeapInv /\ Separate /\ SeparateUnmapped
      /\ unmapped = Unmapped
  BY DEF EInv, SharedInv, HeapInv, PhysicalInv, HandlesInv
<1>3. p \in DOMAIN blocks /\ b.seg \in DOMAIN segments
  <2>1. p \in DOMAIN blocks
    BY <1>1, <1>2, Partition
  <2> QED
    BY <2>1, <1>2 DEF Tiled, InSegment
<1>4. /\ pc = "unmap" /\ active' = active
      /\ handles' = handles \ Chunks(b, lo, hi)
      /\ cached' = (cached \ {p}) \cup pieces
      /\ total' = total - (hi - lo)
      /\ \/ /\ ~IsSplit(Coalesce(h, lo), Lead(h, lo))
            /\ segments' = [a \in DOMAIN segments \ {b.seg} |-> segments[a]]
            /\ blocks' = [x \in DOMAIN Coalesce(h, lo) \ {Lead(h, lo)} |-> Coalesce(h, lo)[x]]
            /\ unmapped' = unmapped \ Subsumed(h, lo)
         \/ /\ blocks' = Coalesce(h, lo)
            /\ unmapped' = (unmapped \ Subsumed(h, lo)) \cup {Lead(h, lo)}
            /\ segments' = segments
  <2>1. ~(lo >= hi)
    BY <1>1
  <2>2. UnmapBlock(p)
    OBVIOUS
  <2> QED
    BY <2>1, <2>2, <1>1, ZenonT(60) DEF UnmapBlock
<1>5. h = g
  <2>1. PICK m \in BOOLEAN : m = FALSE
    OBVIOUS
  <2>2. ~m = TRUE
    BY <2>1
  <2>3. Carve(blocks, p, lo, hi, m) = h
    BY <2>1, <2>2, Zenon DEF Carve
  <2> QED
    BY <2>1, <2>3, Zenon
<1>6. /\ Idle(blocks, TRUE) = cached /\ Idle(blocks, FALSE) = Unmapped
      /\ IdleApart(blocks, TRUE) /\ IdleApart(blocks, FALSE)
  BY <1>2, <1>4, IdleBlocks
<1> HIDE DEF h, g, b
<1>7. PICK m \in BOOLEAN : m = FALSE
  OBVIOUS
<1>8. ~m = TRUE
  BY <1>7
<1>9. CarveOf(segments, blocks, g, p, lo, hi, m)
  <2>1. p \in Idle(blocks, ~m)
    BY <1>1, <1>6, <1>8, Zenon
  <2>2. CarveOf(segments, blocks, Carve(blocks, p, lo, hi, m), p, lo, hi, m)
    BY <2>1, <1>1, <1>2, <1>6, CarveIsOf
  <2> QED
    BY <2>2, <1>7, Zenon DEF g
<1>10. Merged(segments, blocks, g, p, lo, m, k, q, S)
  BY <1>9, CarveIdle
<1>11. Idle(g, ~m) = (Idle(blocks, ~m) \ {p}) \cup (IF p < lo THEN {p} ELSE {})
                       \cup (IF hi < End(blocks, p) THEN {hi} ELSE {})
  BY <1>9, CarveSubsumed
<1>12. lo \in DOMAIN blocks => lo = p
  BY <1>9 DEF CarveOf
<1> HIDE DEF q, S, k
<1>13. /\ Tiled(segments, k) /\ q \in DOMAIN k /\ q \in S \cup {lo} /\ k[q].seg = b.seg
       /\ Idle(k, m) = (Idle(blocks, m) \ S) \cup {q}
       /\ Idle(k, ~m) = Idle(g, ~m)
  BY <1>10 DEF Merged, b
<1>14. cached' = Idle(k, TRUE)
  <2>1. Idle(k, ~m) = Idle(k, TRUE) /\ Idle(blocks, ~m) = cached
    BY <1>6, <1>8, Zenon
  <2> QED
    BY <2>1, <1>4, <1>11, <1>13
<1>15. Idle(k, FALSE) = (unmapped \ S) \cup {q}
  BY <1>2, <1>6, <1>7, <1>13, Zenon
<1>16. q \notin unmapped \ S
  <2>1. lo \notin unmapped
    <3>1. p \notin Unmapped
      BY <1>1, <1>2, Partition
    <3> QED
      BY <3>1, <1>2, <1>12 DEF Unmapped
  <2> QED
    BY <2>1, <1>13
<1>17. CarveOf(segments, blocks, g, p, lo, hi, FALSE)
  BY <1>7, <1>9, Zenon
<1>18. CASE /\ blocks' = Coalesce(h, lo)
            /\ unmapped' = (unmapped \ Subsumed(h, lo)) \cup {Lead(h, lo)}
            /\ segments' = segments
  <2>1. blocks' = k /\ unmapped' = Idle(blocks', FALSE) /\ cached' = Idle(blocks', TRUE)
    BY <1>5, <1>14, <1>15, <1>18 DEF k, q, S
  <2> QED
    BY <2>1, <1>1, <1>4, <1>17, <1>18 DEF Moved, b, g, k
<1>19. CASE /\ ~IsSplit(Coalesce(h, lo), Lead(h, lo))
            /\ segments' = [a \in DOMAIN segments \ {b.seg} |-> segments[a]]
            /\ blocks' = [x \in DOMAIN Coalesce(h, lo) \ {Lead(h, lo)} |-> Coalesce(h, lo)[x]]
            /\ unmapped' = unmapped \ Subsumed(h, lo)
  <2>1. Whole(segments, k, q) /\ q = b.seg
    <3>1. ~IsSplit(k, q)
      BY <1>5, <1>19 DEF k, q
    <3>2. Whole(segments, k, q)
      BY <3>1, <1>13, UnsplitIsWhole
    <3> QED
      BY <3>2, <1>13 DEF Whole
  <2>2. unmapped' = Idle(k, FALSE) \ {q}
    BY <1>5, <1>15, <1>16, <1>19 DEF S
  <2>3. blocks' = [x \in DOMAIN k \ {q} |-> k[x]]
    BY <1>5, <1>19 DEF k, q
  <2>4. segments' = [a \in DOMAIN segments \ {q} |-> segments[a]]
    BY <2>1, <1>19
  <2> QED
    BY <2>1, <2>2, <2>3, <2>4, <1>1, <1>4, <1>14, <1>17 DEF Dropped, b, g, k, q
<1> QED
  BY <1>4, <1>18, <1>19 DEF g

\* The segment that is released takes one unmapped block with it, and nothing else.
DroppedFacts(k, q) ==
  /\ Tiled(segments, k) /\ q \in DOMAIN k /\ k[q].seg = q /\ q \in DOMAIN segments
  /\ q \in Idle(k, FALSE)
  /\ DOMAIN blocks' = DOMAIN k \ {q}
  /\ \A x \in DOMAIN k : x # q => blocks'[x] = k[x] /\ k[x].seg # q
  /\ DOMAIN segments' = DOMAIN segments \ {q}
  /\ \A a \in DOMAIN segments : a # q => segments'[a] = segments[a]
  /\ Tiled(segments, blocks)'
  /\ Idle(blocks', TRUE) = Idle(k, TRUE) /\ Idle(blocks', FALSE) = Idle(k, FALSE) \ {q}
  /\ \A a \in DOMAIN segments : a # q =>
       /\ a \in DOMAIN k
       /\ blocks'[a].stream = blocks[a].stream /\ blocks'[a].small = blocks[a].small
       /\ blocks'[a].seg = blocks[a].seg

LEMMA DroppedSegment ==
  ASSUME EInv, NEW h, NEW p, NEW lo, NEW hi, Dropped(h, p, lo, hi)
  PROVE  DroppedFacts(Coalesce(h, lo), Lead(h, lo))
<1> DEFINE q == Lead(h, lo)
           S == Subsumed(h, lo)
           k == Coalesce(h, lo)
<1>1. /\ CarveOf(segments, blocks, h, p, lo, hi, FALSE) /\ Whole(segments, k, q)
      /\ segments' = [a \in DOMAIN segments \ {q} |-> segments[a]]
      /\ blocks' = [x \in DOMAIN k \ {q} |-> k[x]]
  BY DEF Dropped
<1>2. Merged(segments, blocks, h, p, lo, FALSE, k, q, S)
  BY <1>1, CarveIdle
<1>3. MergedRest(segments, blocks, p, k, q, S)
  BY <1>1, CarveRest
<1> HIDE DEF q, S, k
<1>4. /\ Tiled(segments, k) /\ q \in DOMAIN k /\ q \in Idle(k, FALSE)
      /\ Tiled(segments, blocks)
  BY <1>2 DEF Merged, EInv, SharedInv, HeapInv
<1>5. k[q].seg = q /\ q \in DOMAIN segments /\ k[q].size = segments[q]
  BY <1>1, <1>4 DEF Whole, Tiled, InSegment
<1>6. ASSUME NEW x \in DOMAIN k, x # q PROVE k[x].seg # q
  <2> SUFFICES ASSUME k[x].seg = q PROVE FALSE
    OBVIOUS
  <2>1. /\ x \in Nat /\ q \in Nat /\ q <= x /\ End(k, x) <= q + segments[q] /\ End(k, x) > x
        /\ End(k, x) \in Nat /\ segments[q] \in Nat
    BY <1>4, <1>5, BlockType DEF Tiled, InSegment
  <2>2. End(k, q) = q + segments[q]
    BY <1>5 DEF End
  <2>3. End(k, q) <= x
    BY <2>1, <1>4, <1>6 DEF Tiled, Apart
  <2> QED
    BY <2>1, <2>2, <2>3
<1>7. /\ DOMAIN blocks' = DOMAIN k \ {q} /\ \A x \in DOMAIN k : x # q => blocks'[x] = k[x]
      /\ DOMAIN segments' = DOMAIN segments \ {q}
      /\ \A a \in DOMAIN segments : a # q => segments'[a] = segments[a]
  BY <1>1
<1>8. Tiled(segments, blocks)'
  BY <1>1, <1>4, ReleaseTiled
<1>9. q \notin Idle(k, TRUE)
  BY <1>4 DEF Idle
<1>10. Idle(blocks', TRUE) = Idle(k, TRUE) /\ Idle(blocks', FALSE) = Idle(k, FALSE) \ {q}
  BY <1>7, <1>9 DEF Idle
<1>11. ASSUME NEW a \in DOMAIN segments, a # q
       PROVE  /\ a \in DOMAIN k /\ blocks'[a].stream = blocks[a].stream
              /\ blocks'[a].small = blocks[a].small /\ blocks'[a].seg = blocks[a].seg
  <2>1. a \in DOMAIN k /\ k[a].seg = a /\ blocks[a].seg = a
    BY <1>4 DEF Tiled
  <2> QED
    BY <2>1, <1>3, <1>7, <1>11 DEF MergedRest
<1> QED
  <2>1. DroppedFacts(k, q)
    BY <1>4, <1>5, <1>6, <1>7, <1>8, <1>10, <1>11 DEF DroppedFacts
  <2> QED
    BY <2>1 DEF k, q

LEMMA DroppedHeap ==
  ASSUME EInv, pc # "found", pc' # "found",
         NEW h, NEW p, NEW lo, NEW hi, Dropped(h, p, lo, hi)
  PROVE  /\ HeapInv' /\ Separate' /\ SeparateUnmapped'
         /\ Unmapped' = Idle(blocks', FALSE)
         /\ \A x \in active : x \in DOMAIN blocks' /\ blocks'[x] = blocks[x]
<1> DEFINE q == Lead(h, lo)
           S == Subsumed(h, lo)
           k == Coalesce(h, lo)
<1>1. /\ HeapInv /\ Tiled(segments, blocks)
  BY DEF EInv, SharedInv, HeapInv
<1>2. /\ CarveOf(segments, blocks, h, p, lo, hi, FALSE)
      /\ active' = active /\ cached' = Idle(k, TRUE) /\ unmapped' = Idle(k, FALSE) \ {q}
  BY DEF Dropped
<1>3. DroppedFacts(k, q)
  BY DroppedSegment
<1>4. Merged(segments, blocks, h, p, lo, FALSE, k, q, S)
  BY <1>2, CarveIdle
<1>5. MergedRest(segments, blocks, p, k, q, S)
  BY <1>2, CarveRest
<1>6. S \subseteq Idle(blocks, FALSE)
  BY <1>2, CarveSubsumed
<1>7. p \in Idle(blocks, TRUE)
  <2>1. p \in Idle(blocks, ~FALSE)
    BY <1>2 DEF CarveOf
  <2> QED
    BY <2>1
<1> HIDE DEF q, S, k
<1>8. ASSUME NEW x \in active PROVE x \in DOMAIN blocks' /\ blocks'[x] = blocks[x]
  <2>1. x \in DOMAIN blocks /\ x # p /\ x \notin S
    <3>1. x \in DOMAIN blocks /\ x \notin Idle(blocks, TRUE) /\ x \notin Idle(blocks, FALSE)
      BY <1>1, <1>8, ActiveNotIdle
    <3> QED
      BY <3>1, <1>6, <1>7
  <2>2. x \in DOMAIN k /\ x # q /\ k[x] = blocks[x]
    BY <2>1, <1>5 DEF MergedRest
  <2> QED
    BY <2>2, <1>3 DEF DroppedFacts
<1>9. Tiled(segments, blocks)' /\ cached' = Idle(blocks', TRUE)
      /\ Idle(blocks', FALSE) = Idle(k, FALSE) \ {q}
  BY <1>2, <1>3 DEF DroppedFacts
<1>10. HeapInv'
  <2>1. ASSUME NEW x \in DOMAIN blocks'
        PROVE  \/ x \in Idle(blocks', TRUE) \cup Idle(blocks', FALSE)
               \/ x \in DOMAIN blocks /\ blocks'[x] = blocks[x]
    <3>1. x \in DOMAIN k /\ x # q /\ blocks'[x] = k[x]
      BY <2>1, <1>3 DEF DroppedFacts
    <3>2. x \in Idle(k, TRUE) \cup Idle(k, FALSE) \/ (x \in DOMAIN blocks /\ k[x] = blocks[x])
      BY <3>1, <1>5 DEF MergedRest
    <3> QED
      BY <3>1, <3>2, <1>3 DEF DroppedFacts
  <2> QED
    BY <2>1, <1>1, <1>2, <1>8, <1>9, IdlePartition
<1>11. IdleApart(blocks', TRUE) /\ IdleApart(blocks', FALSE)
  <2>1. IdleApart(k, TRUE) /\ IdleApart(k, FALSE)
    BY <1>4 DEF Merged
  <2>2. \A x \in DOMAIN blocks' : x \in DOMAIN k /\ blocks'[x] = k[x]
    BY <1>3 DEF DroppedFacts
  <2>3. \A x, y \in DOMAIN blocks' : Linked(blocks', x, y) => Linked(k, x, y)
    BY <2>2 DEF Linked, End
  <2>4. \A x \in Idle(blocks', TRUE) : x \in DOMAIN blocks' /\ x \in Idle(k, TRUE)
    BY <1>3 DEF DroppedFacts, Idle
  <2>5. \A x \in Idle(blocks', FALSE) : x \in DOMAIN blocks' /\ x \in Idle(k, FALSE)
    BY <1>3 DEF DroppedFacts, Idle
  <2> QED
    BY <2>1, <2>3, <2>4, <2>5 DEF IdleApart
<1>12. Unmapped' = Idle(blocks', FALSE)
  <2>1. PoolsPartition'
    BY <1>10 DEF HeapInv
  <2>2. \A x \in DOMAIN blocks' : /\ x \in active' => blocks'[x].mapped
                                  /\ x \in active' <=> blocks'[x].allocated
                                                       \/ blocks'[x].events > 0
                                  /\ ~blocks'[x].allocated => blocks'[x].uses = {}
                                  /\ blocks'[x].events \in Nat /\ blocks'[x].mapped \in BOOLEAN
    BY <2>1, <1>9, BlockType DEF PoolsPartition, Tiled, Block
  <2> QED
    BY <2>2 DEF Unmapped, Idle
<1>13. Separate'
  <2>1. Held' = {}
    BY DEF Held
  <2> QED
    BY <2>1, <1>9, <1>11 DEF Separate, IdleApart
<1>14. SeparateUnmapped'
  BY <1>11, <1>12 DEF SeparateUnmapped, IdleApart
<1> QED
  BY <1>8, <1>10, <1>12, <1>13, <1>14

\* An address lies in one segment at most.
LEMMA WithinOne ==
  ASSUME Tiled(segments, blocks), SegmentsApart, NEW x \in Nat,
         NEW a \in DOMAIN segments, NEW c \in DOMAIN segments, Within(a, x), Within(c, x)
  PROVE  a = c
<1>1. a \in Nat /\ c \in Nat /\ segments[a] \in Nat /\ segments[c] \in Nat
  BY DEF Tiled
<1>2. CASE a < c
  <2>1. a + segments[a] <= c
    BY <1>2 DEF SegmentsApart
  <2> QED
    BY <2>1, <1>1 DEF Within
<1>3. CASE c < a
  <2>1. c + segments[c] <= a
    BY <1>3 DEF SegmentsApart
  <2> QED
    BY <2>1, <1>1 DEF Within
<1> QED
  BY <1>1, <1>2, <1>3

\* Of the segment that is released no chunk is left, of the others nothing changes.
LEMMA DroppedChunks ==
  ASSUME EInv, pc # "found", pc' # "found",
         NEW h, NEW p, NEW lo, NEW hi, Dropped(h, p, lo, hi)
  PROVE  HandlesInv' /\ TotalInv'
<1> DEFINE b == blocks[p]
           C == Chunks(b, lo, hi)
           w == hi - lo
           k == Coalesce(h, lo)
           q == Lead(h, lo)
<1>1. /\ Tiled(segments, blocks) /\ SegmentsApart /\ HandlesInv /\ TotalInv
  BY DEF EInv, SharedInv, HeapInv, PhysicalInv
<1>2. /\ CarveOf(segments, blocks, h, p, lo, hi, FALSE)
      /\ OnGrid(b, lo) /\ OnGrid(b, hi)
      /\ unmapped' = Idle(k, FALSE) \ {q}
      /\ handles' = handles \ C
      /\ total' = total - w
      /\ Whole(segments, k, q)
  BY DEF Dropped
<1>3. /\ p \in DOMAIN blocks /\ b.mapped /\ lo \in Nat /\ hi \in Nat
      /\ p <= lo /\ lo < hi /\ hi <= End(blocks, p)
  <2>1. p \in Idle(blocks, ~FALSE)
    BY <1>2 DEF CarveOf
  <2>2. p \in Idle(blocks, TRUE)
    BY <2>1
  <2> QED
    BY <2>2, <1>2 DEF CarveOf, Idle
<1>4. /\ b \in Block /\ p \in Nat /\ b.seg \in DOMAIN segments /\ b.seg \in Nat /\ b.seg <= p
      /\ b.small \in BOOLEAN /\ b.small = blocks[b.seg].small
  <2>1. b \in Block /\ p \in Nat /\ b.seg \in Nat
    BY <1>1, <1>3, BlockType DEF Tiled
  <2> QED
    BY <2>1, <1>1, <1>3 DEF Tiled, InSegment, Block
<1>5. \A x \in Nat :
        /\ x \in C <=> GridAt(x) /\ lo <= x /\ x < hi
        /\ lo <= x /\ x < hi =>
             /\ \A a \in DOMAIN segments : Within(a, x) <=> a = b.seg
             /\ ~UnmappedAt(blocks, x)
  BY <1>1, <1>2, <1>3, ChunksOfBlock
<1> PICK s \in BOOLEAN : s = b.small
  BY <1>4
<1>6. /\ C \subseteq Nat /\ IsFiniteSet(C) /\ w \in Nat
      /\ ChunkSize(s) * Cardinality(C) = w
  <2>1. b.seg <= lo /\ lo <= hi /\ w \in Nat
    BY <1>3, <1>4
  <2>2. C = {c \in Nat : lo <= c /\ c < hi /\ OnGrid(b, c)}
    BY <2>1, <1>2, <1>3, <1>4, ChunksMembers
  <2>3. IsFiniteSet(C) /\ ChunkSize(s) * Cardinality(C) = hi - lo
    BY <2>1, <1>2, <1>3, <1>4, ChunksCount
  <2> HIDE DEF C
  <2> QED
    BY <2>1, <2>2, <2>3
<1> HIDE DEF C, w
<1>7. DroppedFacts(k, q)
  BY DroppedSegment
<1>8. Merged(segments, blocks, h, p, lo, FALSE, k, q, Subsumed(h, lo))
  BY <1>2, CarveIdle
<1>9. /\ Unmapped' = Idle(blocks', FALSE) /\ unmapped' = Idle(blocks', FALSE)
  BY <1>2, <1>7, DroppedHeap DEF DroppedFacts
<1>10. \A x \in Nat : UnmappedAt(k, x) <=> UnmappedAt(blocks, x) \/ (lo <= x /\ x < hi)
  <2>1. PICK m \in BOOLEAN : m = FALSE
    OBVIOUS
  <2>2. CarveOf(segments, blocks, h, p, lo, hi, m)
    BY <2>1, <1>2, Zenon
  <2> QED
    BY <2>1, <2>2, CarveUnmappedAt
<1> HIDE DEF k, q
<1>11. /\ q = b.seg /\ q \in DOMAIN k /\ ~k[q].mapped /\ End(k, q) = q + segments[q]
       /\ DOMAIN blocks' = DOMAIN k \ {q} /\ DOMAIN segments' = DOMAIN segments \ {q}
       /\ \A x \in DOMAIN k : x # q => blocks'[x] = k[x]
       /\ \A a \in DOMAIN segments : a # q =>
            /\ segments'[a] = segments[a]
            /\ blocks'[a].small = blocks[a].small /\ blocks'[a].seg = blocks[a].seg
  BY <1>2, <1>7, <1>8 DEF DroppedFacts, Merged, Whole, Idle, End
<1>12. ASSUME NEW x
       PROVE  /\ \A a : a \in DOMAIN segments' /\ Within(a, x)'
                          <=> a \in DOMAIN segments /\ a # q /\ Within(a, x)
              /\ GridAt(x)' <=> \E a \in DOMAIN segments : a # q /\ Within(a, x) /\ OnGrid(blocks[a], x)
  BY <1>11 DEF GridAt, Within, OnGrid
<1>13. ASSUME NEW x \in Nat
       PROVE  UnmappedAt(k, x) <=> Within(q, x) \/ UnmappedAt(blocks', x)
  BY <1>11 DEF UnmappedAt, Within, End
<1>14. \A x \in handles :
         /\ x \in Nat /\ GridAt(x) /\ ~UnmappedAt(blocks, x)
         /\ x \in C <=> Within(q, x)
  <2> SUFFICES ASSUME NEW x \in handles
               PROVE  /\ x \in Nat /\ GridAt(x) /\ ~UnmappedAt(blocks, x)
                      /\ x \in C <=> Within(q, x)
    OBVIOUS
  <2>1. x \in Nat /\ GridAt(x) /\ ~UnmappedAt(blocks, x)
    BY <1>1 DEF HandlesInv
  <2>2. Within(q, x) => x \in C
    BY <2>1, <1>5, <1>10, <1>13
  <2>3. x \in C => Within(q, x)
    BY <2>1, <1>4, <1>5, <1>11
  <2> QED
    BY <2>1, <2>2, <2>3
<1>15. HandlesInv'
  <2>1. ASSUME NEW x \in handles, x \notin C
        PROVE  x \in Nat /\ GridAt(x)' /\ ~UnmappedAt(blocks', x)
    <3>1. x \in Nat /\ GridAt(x) /\ ~UnmappedAt(blocks, x) /\ ~Within(q, x)
      BY <2>1, <1>14
    <3>2. GridAt(x)'
      <4>1. PICK a \in DOMAIN segments : Within(a, x) /\ OnGrid(blocks[a], x)
        BY <3>1 DEF GridAt
      <4> QED
        BY <4>1, <3>1, <1>12
    <3>3. ~UnmappedAt(k, x)
      <4>1. ~(lo <= x /\ x < hi)
        BY <2>1, <3>1, <1>5
      <4> QED
        BY <4>1, <3>1, <1>10
    <3> QED
      BY <3>1, <3>2, <3>3, <1>13
  <2>2. ASSUME NEW x \in Nat, GridAt(x)', ~UnmappedAt(blocks', x)
        PROVE  x \in handles /\ x \notin C
    <3>1. PICK a \in DOMAIN segments : a # q /\ Within(a, x) /\ OnGrid(blocks[a], x)
      BY <2>2, <1>12
    <3>2. ~Within(q, x)
      BY <3>1, <1>1, <1>4, <1>11, WithinOne
    <3>3. ~UnmappedAt(k, x)
      BY <3>2, <2>2, <1>13
    <3>4. GridAt(x)
      BY <3>1 DEF GridAt
    <3>5. x \in handles
      BY <3>3, <3>4, <1>1, <1>10 DEF HandlesInv
    <3> QED
      BY <3>2, <3>5, <1>14
  <2>3. handles' = {x \in Nat : GridAt(x)' /\ ~UnmappedAt(blocks', x)}
    BY <2>1, <2>2, <1>2
  <2> QED
    BY <2>3, <1>9 DEF HandlesInv
<1>16. TotalInv'
  <2> DEFINE In(t, x) == \E a \in DOMAIN segments : blocks[a].small = t /\ Within(a, x)
             In1(t, x) == \E a \in DOMAIN segments : a # q /\ blocks[a].small = t /\ Within(a, x)
  <2>1. \A t : /\ MappedChunks(t)' = {x \in handles' : In1(t, x)}
               /\ MappedChunks(t) = {x \in handles : In(t, x)}
    BY <1>11, <1>12 DEF MappedChunks
  <2>2. C \subseteq handles
    BY <1>1, <1>5, <1>6 DEF HandlesInv
  <2>3. \A x \in C : In(s, x) /\ ~In(~s, x)
    BY <1>4, <1>5, <1>6
  <2>4. \A x \in handles' : \A t : In1(t, x) <=> In(t, x)
    <3> SUFFICES ASSUME NEW x \in handles', NEW t PROVE In1(t, x) <=> In(t, x)
      OBVIOUS
    <3>1. ~Within(q, x)
      BY <1>2, <1>14
    <3> QED
      BY <3>1
  <2> HIDE DEF In, In1
  <2>5. MappedChunks(~s)' = MappedChunks(~s)
    BY <2>1, <2>3, <2>4, <1>2
  <2>6. MappedChunks(s)' = MappedChunks(s) \ C /\ C \subseteq MappedChunks(s)
    BY <2>1, <2>2, <2>3, <2>4, <1>2
  <2> QED
    BY <2>5, <2>6, <1>1, <1>2, <1>6, TotalFollows
<1> QED
  BY <1>15, <1>16

LEMMA DroppedPhysical ==
  ASSUME EInv, pc # "found", pc' # "found",
         NEW h, NEW p, NEW lo, NEW hi, Dropped(h, p, lo, hi)
  PROVE  PhysicalInv'
<1> DEFINE q == Lead(h, lo)
           S == Subsumed(h, lo)
           k == Coalesce(h, lo)
<1>1. /\ HeapInv /\ Tiled(segments, blocks) /\ SegmentsApart /\ Reserved /\ Aligned
      /\ Unmapped = Idle(blocks, FALSE)
  BY IdleBlocks DEF EInv, SharedInv, HeapInv, PhysicalInv
<1>2. CarveOf(segments, blocks, h, p, lo, hi, FALSE)
  BY DEF Dropped
<1>3. DroppedFacts(k, q) /\ Unmapped' = Idle(blocks', FALSE)
  BY DroppedSegment, DroppedHeap
<1>4. Merged(segments, blocks, h, p, lo, FALSE, k, q, S)
  BY <1>2, CarveIdle
<1>5. MergedRest(segments, blocks, p, k, q, S)
  BY <1>2, CarveRest
<1>6. p \in Idle(blocks, TRUE)
  <2>1. p \in Idle(blocks, ~FALSE)
    BY <1>2 DEF CarveOf
  <2> QED
    BY <2>1
<1> HIDE DEF q, S, k
<1>7. SegmentsApart' /\ Reserved'
  BY <1>1, <1>3 DEF DroppedFacts, SegmentsApart, Reserved
<1>8. Aligned'
  <2> SUFFICES ASSUME NEW x \in Unmapped'
               PROVE  OnGrid(blocks'[x], x) /\ OnGrid(blocks'[x], End(blocks', x))
    BY DEF Aligned
  <2>1. x \in Idle(k, FALSE) /\ x # q
    BY <1>3 DEF DroppedFacts
  <2>2. x \in Idle(blocks, FALSE) /\ x \notin S
    BY <2>1, <1>4 DEF Merged
  <2>3. x \in DOMAIN blocks /\ x # p /\ x \in Unmapped
    BY <2>2, <1>1, <1>6 DEF Idle
  <2>4. x \in DOMAIN k /\ k[x] = blocks[x]
    BY <2>2, <2>3, <1>5 DEF MergedRest
  <2>5. blocks'[x] = blocks[x]
    BY <2>1, <2>4, <1>3 DEF DroppedFacts
  <2> QED
    BY <2>3, <2>5, <1>1 DEF Aligned, End
<1> QED
  BY <1>7, <1>8, DroppedHeap, DroppedChunks DEF PhysicalInv

\* The pieces of p that stay mapped, and the blocks that are not touched.
UnmapRest(p, lo, hi, k) ==
  /\ \A x \in cached : x # p => x \in DOMAIN k /\ k[x] = blocks[x]
  /\ p < lo => /\ p \in DOMAIN k /\ End(k, p) = lo
               /\ k[p].seg = blocks[p].seg /\ k[p].small = blocks[p].small
  /\ hi < End(blocks, p) =>
       /\ hi \in DOMAIN k /\ End(k, hi) = End(blocks, p)
       /\ k[hi].seg = blocks[p].seg /\ k[hi].small = blocks[p].small

LEMMA UnmapPieces ==
  ASSUME Tiled(segments, blocks), Idle(blocks, TRUE) = cached,
         NEW h, NEW p, NEW lo, NEW hi, CarveOf(segments, blocks, h, p, lo, hi, FALSE)
  PROVE  /\ UnmapRest(p, lo, hi, Coalesce(h, lo))
         /\ \A x \in cached : x # p => x # Lead(h, lo)
         /\ p < lo => p # Lead(h, lo)
         /\ hi < End(blocks, p) => hi # Lead(h, lo)
<1> DEFINE q == Lead(h, lo)
           S == Subsumed(h, lo)
           k == Coalesce(h, lo)
<1>1. PICK m \in BOOLEAN : m = FALSE
  OBVIOUS
<1>2. ~m = TRUE
  BY <1>1
<1>3. CarveOf(segments, blocks, h, p, lo, hi, m)
  BY <1>1, Zenon
<1>4. /\ p \in DOMAIN blocks
      /\ p < lo => /\ p \in Idle(h, ~m) /\ h[p].mapped # m /\ End(h, p) = lo
                   /\ h[p].seg = blocks[p].seg /\ h[p].small = blocks[p].small
      /\ hi < End(blocks, p) =>
           /\ hi \in Idle(h, ~m) /\ h[hi].mapped # m /\ End(h, hi) = End(blocks, p)
           /\ h[hi].seg = blocks[p].seg
  BY <1>3, CarvePieces
<1>5. Merged(segments, blocks, h, p, lo, m, k, q, S)
  BY <1>3, CarveIdle
<1>6. MergedRest(segments, blocks, p, k, q, S)
  BY <1>3, CarveRest
<1>7. S \subseteq Idle(blocks, m)
  BY <1>3, CarveSubsumed
<1> HIDE DEF q, S, k
<1>8. /\ Tiled(segments, k) /\ k[q].mapped = m /\ Idle(k, ~m) = Idle(h, ~m)
      /\ \A x \in DOMAIN k : x # q => k[x] = h[x]
  BY <1>5 DEF Merged
<1>9. ASSUME NEW x \in Idle(h, ~m), h[x].mapped # m
      PROVE  x \in DOMAIN k /\ x # q /\ k[x] = h[x]
  <2>1. x \in DOMAIN k /\ k[x].mapped = ~m
    BY <1>8, <1>9 DEF Idle
  <2>2. x # q
    BY <2>1, <1>1, <1>2, <1>8
  <2> QED
    BY <2>1, <2>2, <1>8
<1>10. ASSUME NEW x \in cached, x # p PROVE x \in DOMAIN k /\ x # q /\ k[x] = blocks[x]
  <2>1. x \in DOMAIN blocks /\ x \notin S
    BY <1>1, <1>7, <1>10 DEF Idle
  <2> QED
    BY <2>1, <1>6, <1>10 DEF MergedRest
<1>11. ASSUME p < lo
       PROVE  /\ p \in DOMAIN k /\ p # q /\ End(k, p) = lo
              /\ k[p].seg = blocks[p].seg /\ k[p].small = blocks[p].small
  <2>1. p \in DOMAIN k /\ p # q /\ k[p] = h[p]
    BY <1>4, <1>9, <1>11
  <2> QED
    BY <2>1, <1>4, <1>11 DEF End
<1>12. ASSUME hi < End(blocks, p)
       PROVE  /\ hi \in DOMAIN k /\ hi # q /\ End(k, hi) = End(blocks, p)
              /\ k[hi].seg = blocks[p].seg /\ k[hi].small = blocks[p].small
  <2>1. hi \in DOMAIN k /\ hi # q /\ k[hi] = h[hi]
    BY <1>4, <1>9, <1>12
  <2>2. k[hi].seg = blocks[p].seg /\ End(k, hi) = End(blocks, p)
    BY <2>1, <1>4, <1>12 DEF End
  <2>3. k[hi].small = k[blocks[p].seg].small /\ blocks[p].small = blocks[blocks[p].seg].small
        /\ blocks[p].seg \in DOMAIN segments
    BY <2>1, <2>2, <1>4, <1>8 DEF Tiled, InSegment
  <2> QED
    BY <2>1, <2>2, <2>3, <1>6 DEF MergedRest
<1> QED
  <2>1. UnmapRest(p, lo, hi, k)
    BY <1>10, <1>11, <1>12 DEF UnmapRest
  <2> QED
    BY <2>1, <1>10, <1>11, <1>12 DEF k, q

\* Merged or released, what is left is as the invariant wants it.
LEMMA UnmapHeap ==
  ASSUME EInv, NEW p \in call.targets, UnmapBlock(p), NEW lo, NEW hi, UnmapSpan(p, lo, hi)
  PROVE  /\ HeapInv' /\ Separate' /\ PhysicalInv' /\ active' = active
         /\ \A x \in active : x \in DOMAIN blocks' /\ blocks'[x] = blocks[x]
         /\ UnmapRest(p, lo, hi, blocks')
<1> DEFINE h == Carve(blocks, p, lo, hi, FALSE)
<1>1. Moved(h, p, lo, hi, FALSE) \/ Dropped(h, p, lo, hi)
  BY UnmapCarves
<1>2. pc = "unmap" /\ pc' = pc
  BY DEF UnmapBlock
<1>3. Tiled(segments, blocks) /\ Idle(blocks, TRUE) = cached
  BY <1>2, IdleBlocks DEF EInv, SharedInv, HeapInv
<1> HIDE DEF h
<1>4. CASE Moved(h, p, lo, hi, FALSE)
  <2>1. /\ HeapInv' /\ Separate' /\ PhysicalInv'
        /\ \A x \in active : x \in DOMAIN blocks' /\ blocks'[x] = blocks[x]
    BY <1>2, <1>4, MovedHeap, MovedPhysical
  <2>2. UnmapRest(p, lo, hi, blocks')
    BY <1>3, <1>4, UnmapPieces DEF Moved
  <2> QED
    BY <2>1, <2>2, <1>4 DEF Moved
<1>5. CASE Dropped(h, p, lo, hi)
  <2>1. /\ HeapInv' /\ Separate' /\ PhysicalInv'
        /\ \A x \in active : x \in DOMAIN blocks' /\ blocks'[x] = blocks[x]
    BY <1>2, <1>5, DroppedHeap, DroppedPhysical
  <2>2. UnmapRest(p, lo, hi, blocks')
    <3> DEFINE k == Coalesce(h, lo)
               q == Lead(h, lo)
    <3>1. DroppedFacts(k, q)
      BY <1>5, DroppedSegment
    <3>2. /\ UnmapRest(p, lo, hi, k)
          /\ \A x \in cached : x # p => x # q
          /\ p < lo => p # q
          /\ hi < End(blocks, p) => hi # q
      BY <1>3, <1>5, UnmapPieces DEF Dropped
    <3> HIDE DEF k, q
    <3>3. \A x \in DOMAIN k : x # q => x \in DOMAIN blocks' /\ blocks'[x] = k[x]
      BY <3>1 DEF DroppedFacts
    <3> QED
      BY <3>2, <3>3 DEF UnmapRest, End
  <2> QED
    BY <2>1, <2>2, <1>5 DEF Dropped
<1> QED
  BY <1>1, <1>4, <1>5

\* What stays mapped of p has no chunk for itself.
LEMMA PiecesChunkless ==
  ASSUME Tiled(segments, blocks), NEW p \in DOMAIN blocks, NEW lo, NEW hi,
         UnmapSpan(p, lo, hi), UnmapRest(p, lo, hi, blocks')
  PROVE  /\ p < lo => Chunkless(p)'
         /\ hi < End(blocks, p) => Chunkless(hi)'
<1> DEFINE b == blocks[p]
           e == End(blocks, p)
<1>1. /\ lo = BoundaryAfter(b, p) /\ hi = BoundaryBefore(b, e)
      /\ lo \in Nat /\ hi \in Nat /\ p \in Nat /\ p <= lo /\ lo < hi
      /\ OnGrid(b, lo) /\ OnGrid(b, hi)
  BY DEF UnmapSpan
<1>2. b \in Block /\ b.seg \in Nat /\ b.seg <= p
  BY BlockType DEF Tiled, InSegment
<1>3. BoundaryBefore(b, lo) = lo /\ BoundaryAfter(b, hi) = hi
  BY <1>1, <1>2, Boundaries
<1> HIDE DEF b, e
<1>4. \A c, x : c.seg = b.seg /\ c.small = b.small =>
                  BoundaryBefore(c, x) = BoundaryBefore(b, x) /\ BoundaryAfter(c, x) = BoundaryAfter(b, x)
  BY DEF BoundaryBefore, BoundaryAfter
<1>5. ASSUME p < lo PROVE Chunkless(p)'
  <2>1. End(blocks', p) = lo /\ blocks'[p].seg = b.seg /\ blocks'[p].small = b.small
    BY <1>5 DEF UnmapRest, b
  <2>2. BoundaryAfter(blocks'[p], p) = lo /\ BoundaryBefore(blocks'[p], End(blocks', p)) = lo
    BY <2>1, <1>1, <1>3, <1>4
  <2> QED
    BY <2>2, <1>1 DEF Chunkless
<1>6. ASSUME hi < End(blocks, p) PROVE Chunkless(hi)'
  <2>1. End(blocks', hi) = e /\ blocks'[hi].seg = b.seg /\ blocks'[hi].small = b.small
    BY <1>6 DEF UnmapRest, b, e
  <2>2. BoundaryAfter(blocks'[hi], hi) = hi /\ BoundaryBefore(blocks'[hi], End(blocks', hi)) = hi
    BY <2>1, <1>1, <1>3, <1>4
  <2> QED
    BY <2>2, <1>1 DEF Chunkless
<1> QED
  BY <1>5, <1>6

\* unmapHandles waits for the stream of the segment in vain: release_blocks is
\* only reached when the device and every event have been waited for.
LEMMA UnmapSynchronized ==
  ASSUME EInv, NEW p \in call.targets, UnmapBlock(p)
  PROVE  UNCHANGED eventVars
<1>1. /\ QueueInv /\ unsynced = {} /\ NoEvents
  BY DEF EInv, SharedInv, PhaseInv, SynchronizedE, LastResortE, UnmapBlock
<1>2. ASSUME NEW s \in Streams
      PROVE  work[s] = <<>> /\ completed[s] = 0 /\ npu_events[s] = <<>>
  <2>1. npu_events[s] = <<>> /\ Len(npu_events[s]) = 0
    BY <1>1 DEF NoEvents
  <2>2. /\ completed[s] \in Nat /\ work[s] \in Seq(Extent)
        /\ Len(work[s]) = Len(npu_events[s]) - completed[s]
    BY <1>1 DEF QueueInv, WorkBehindEvents
  <2>3. Len(work[s]) = 0 /\ completed[s] = 0
    BY <2>1, <2>2, LenProperties
  <2> QED
    BY <2>1, <2>2, <2>3, EmptySeq
<1>3. ASSUME NEW s, SynchronizeStream(s) PROVE UNCHANGED eventVars
  <2>1. /\ work' = [work EXCEPT ![s] = <<>>]
        /\ completed' = [completed EXCEPT ![s] = Len(npu_events[s])]
        /\ unsynced' = {r \in unsynced : r.stream # s}
        /\ npu_events' = npu_events
    BY <1>3 DEF SynchronizeStream
  <2>2. work = [x \in Streams |-> work[x]] /\ completed = [x \in Streams |-> completed[x]]
    BY <1>1 DEF QueueInv
  <2>3. work' = work
    BY <2>1, <2>2, <1>2
  <2>4. completed' = completed
    <3>1. s \in Streams => Len(npu_events[s]) = 0
      BY <1>2
    <3> QED
      BY <2>1, <2>2, <1>2, <3>1
  <2>5. unsynced' = unsynced
    BY <2>1, <1>1
  <2> QED
    BY <2>1, <2>3, <2>4, <2>5 DEF eventVars
<1>4. (\E s : SynchronizeStream(s)) \/ UNCHANGED eventVars
  BY DEF UnmapBlock
<1> QED
  BY <1>3, <1>4

LEMMA UnmapBlockKeeps ==
  ASSUME EInv, NEW p \in call.targets, UnmapBlock(p)
  PROVE  EInv' /\ [Memory!Next]_(Memory!vars)
<1> DEFINE b == blocks[p]
<1>0. PICK lo, hi : lo = BoundaryAfter(b, p) /\ hi = BoundaryBefore(b, End(blocks, p))
  OBVIOUS
<1>1. /\ HeapInv /\ QueueInv /\ CallInv /\ CountInv
      /\ CallSteps /\ SynchronizedE /\ LastResortE /\ Tiled(segments, blocks)
  BY DEF EInv, SharedInv, PhaseInv, HeapInv
<1>2. /\ pc = "unmap" /\ pc' = pc /\ call' = [call EXCEPT !.targets = @ \ {p}]
      /\ UNCHANGED eventVars /\ allowed' = allowed
  BY UnmapSynchronized DEF UnmapBlock
<1>3. p \in cached /\ p \in DOMAIN blocks /\ call.targets \subseteq cached
  BY <1>1, <1>2, Partition DEF CallSteps
<1>4. /\ p \in Nat /\ b \in Block /\ b.seg <= p /\ b.seg \in Nat /\ b.small \in BOOLEAN
      /\ End(blocks, p) \in Nat /\ p < End(blocks, p)
  <2>1. p \in Nat /\ b \in Block /\ b.seg \in Nat /\ End(blocks, p) \in Nat /\ p < End(blocks, p)
    BY <1>1, <1>3, BlockType DEF Tiled
  <2> QED
    BY <2>1, <1>1, <1>3 DEF Tiled, InSegment, Block
<1>5. /\ call' \in Call /\ call'.op = call.op /\ call'.size = call.size
      /\ call'.stream = call.stream /\ call'.targets = call.targets \ {p}
  BY <1>1, <1>2 DEF CallInv, Call
<1>6. CallInv'
  BY <1>1, <1>2, <1>5 DEF CallInv, Steps, Searching
<1>7. /\ lo \in Nat /\ hi \in Nat /\ p <= lo /\ hi <= End(blocks, p)
      /\ OnGrid(b, lo) /\ OnGrid(b, hi)
  <2>1. b.seg <= End(blocks, p)
    BY <1>4
  <2> QED
    BY <2>1, <1>0, <1>4, Boundaries
<1>8. SynchronizedE' /\ unsynced = {} /\ unsynced' = {} /\ Candidate'
  BY <1>1, <1>2 DEF SynchronizedE, eventVars, Candidate, Mapping
<1>9. NoEvents' /\ \A x \in cached \ call.targets : Chunkless(x)
  BY <1>1, <1>2 DEF LastResortE, NoEvents, eventVars
<1>10. CASE lo >= hi
  <2>1. UNCHANGED <<segments, heapVars, total, unmapped, handles>>
    BY <1>0, <1>10 DEF UnmapBlock
  <2>2. cached' = cached /\ blocks' = blocks
    BY <2>1 DEF heapVars
  <2>3. CallSteps'
    BY <2>2, <1>1, <1>2, <1>3, <1>5 DEF CallSteps
  <2>4. Chunkless(p)
    BY <1>0, <1>10 DEF Chunkless
  <2>5. \A x \in cached' \ call'.targets : Chunkless(x)'
    <3>1. \A x \in cached \ (call.targets \ {p}) : Chunkless(x)
      BY <2>4, <1>9
    <3> QED
      BY <3>1, <2>2, <1>5 DEF Chunkless, BoundaryAfter, BoundaryBefore, End
  <2>6. LastResortE'
    BY <2>5, <1>2, <1>9 DEF LastResortE
  <2> QED
    BY <2>1, <2>3, <2>6, <1>2, <1>6, <1>8, ControlStep
<1>11. CASE lo < hi
  <2>1. UnmapSpan(p, lo, hi)
    BY <1>0, <1>3, <1>4, <1>7, <1>11 DEF UnmapSpan
  <2>2. /\ HeapInv' /\ Separate' /\ PhysicalInv' /\ active' = active
        /\ \A x \in active : x \in DOMAIN blocks' /\ blocks'[x] = blocks[x]
        /\ UnmapRest(p, lo, hi, blocks')
    BY <2>1, UnmapHeap
  <2>3. /\ cached' = (cached \ {p}) \cup (IF p < lo THEN {p} ELSE {})
                       \cup (IF hi < End(blocks, p) THEN {hi} ELSE {})
        /\ total' = total - (hi - lo)
        /\ stats' = [stats EXCEPT ![b.small].reserved_bytes = @ - (hi - lo)]
    <3>1. ~(lo >= hi)
      BY <1>7, <1>11
    <3> QED
      BY <3>1, <1>0 DEF UnmapBlock
  <2>4. p < lo => Chunkless(p)'
    BY <2>1, <2>2, <1>1, <1>3, PiecesChunkless
  <2>5. hi < End(blocks, p) => Chunkless(hi)'
    BY <2>1, <2>2, <1>1, <1>3, PiecesChunkless
  <2>6. CallSteps'
    BY <2>3, <1>1, <1>2, <1>3, <1>5 DEF CallSteps
  <2>7. LastResortE'
    <3>1. ASSUME NEW x \in cached', x \notin call'.targets PROVE Chunkless(x)'
      <4>1. CASE x = p /\ p < lo
        BY <4>1, <2>4
      <4>2. CASE x = hi /\ hi < End(blocks, p)
        BY <4>2, <2>5
      <4>3. CASE x \in cached /\ x # p
        <5>1. Chunkless(x)
          BY <4>3, <3>1, <1>5, <1>9
        <5>2. blocks'[x] = blocks[x]
          BY <4>3, <2>2 DEF UnmapRest
        <5> QED
          BY <5>1, <5>2 DEF Chunkless, End
      <4> QED
        BY <4>1, <4>2, <4>3, <3>1, <2>3
    <3> QED
      BY <3>1, <1>2, <1>9 DEF LastResortE
  <2>8. QueueInv'
    BY <2>2, <1>1, <1>2, QueueFrame DEF eventVars
  <2>9. CountInv'
    <3>1. stats' \in Stats /\ total' \in Int
      BY <2>3, <1>1, <1>4, <1>7 DEF CountInv, Stats, Stat
    <3> QED
      BY <3>1, <1>1, <1>2, CountFrame DEF eventVars
  <2>10. UnsyncedHeld'
    BY <1>8 DEF UnsyncedHeld
  <2>11. [Memory!Next]_(Memory!vars)
    <3>1. Allocated' = Allocated /\ \A x \in Allocated : blocks'[x] = blocks[x]
      BY <2>2 DEF Allocated
    <3>2. Live' = Live /\ Uses' = Uses
      BY <3>1, HeldFrame
    <3> QED
      BY <3>2, <1>2, UnseenStutters DEF Unseen, eventVars
  <2> QED
    BY <2>2, <2>6, <2>7, <2>8, <2>9, <2>10, <2>11, <1>6, <1>8 DEF EInv, SharedInv, PhaseInv
<1> QED
  BY <1>7, <1>10, <1>11

-----------------------------------------------------------------------------
(* All steps *)

LEMMA InitEInv == InitE => EInv
<1> SUFFICES ASSUME InitE PROVE EInv
  OBVIOUS
<1>1. /\ Init /\ unmapped = {} /\ handles = {}
      /\ DOMAIN segments = {} /\ DOMAIN blocks = {} /\ cached = {} /\ unsynced = {}
      /\ pc = "idle" /\ call = NoCall /\ total = 0
  BY DEF InitE, Init
<1>2. SharedInv /\ Unmapped = {}
  BY <1>1, InitShared
<1>3. Separate
  BY <1>1 DEF Separate, Held
<1>4. MappedChunks(TRUE) = {} /\ MappedChunks(FALSE) = {}
  BY <1>1 DEF MappedChunks
<1>5. TotalInv
  <2>1. Cardinality({}) = 0 /\ IsFiniteSet({})
    BY FS_EmptySet
  <2>2. ChunkSize(TRUE) * 0 + ChunkSize(FALSE) * 0 = 0
    BY DEF ChunkSize, kSmallBuffer, kLargeBuffer
  <2> QED
    BY <2>1, <2>2, <1>1, <1>4 DEF TotalInv
<1>6. HandlesInv
  BY <1>1, <1>2 DEF HandlesInv, GridAt
<1>7. PhysicalInv
  BY <1>1, <1>2, <1>5, <1>6 DEF PhysicalInv, SegmentsApart, Reserved, SeparateUnmapped, Aligned
<1>8. PhaseInv
  BY <1>1 DEF PhaseInv, CallSteps, Candidate, Mapping, UnsyncedHeld, SynchronizedE,
     LastResortE, NoCall
<1> QED
  BY <1>2, <1>3, <1>7, <1>8 DEF EInv

LEMMA StutterKeepsE ==
  ASSUME EInv, UNCHANGED varsE
  PROVE  EInv' /\ [Memory!Next]_(Memory!vars)
<1>1. /\ UNCHANGED <<segments, blocks, cached, active, stats, npu_events, completed, work,
                     unsynced, total, allowed, pc, call>>
      /\ UNCHANGED <<unmapped, handles>>
  BY DEF varsE, vars
<1>2. SharedInv /\ Separate /\ PhysicalInv /\ PhaseInv
  BY DEF EInv
<1>3. SharedInv' /\ SameUnmapped
  BY <1>1, <1>2, SharedStutter
<1>4. SameSegments
  BY <1>1, SameBlocks
<1>5. PhysicalInv'
  BY <1>1, <1>2, <1>3, <1>4, PhysicalFrame DEF SharedInv
<1>6. Separate'
  BY <1>1, <1>2 DEF Separate, Held, Linked, End
<1>7. CallSteps' /\ UnsyncedHeld' /\ SynchronizedE'
  BY <1>1, <1>2 DEF PhaseInv, CallSteps, UnsyncedHeld, SynchronizedE
<1>8. Candidate'
  BY <1>1, <1>2, <1>3 DEF PhaseInv, Candidate, Mapping, Target, Whole, SameUnmapped
<1>9. LastResortE'
  BY <1>1, <1>2 DEF PhaseInv, LastResortE, NoEvents, Mapped, Chunkless, BoundaryAfter,
     BoundaryBefore, End
<1>10. [Memory!Next]_(Memory!vars)
  <2>1. Live' = Live /\ Uses' = Uses
    BY <1>1, HeldFrame DEF Allocated
  <2> QED
    BY <2>1, <1>1, UnseenStutters DEF Unseen
<1> QED
  BY <1>3, <1>5, <1>6, <1>7, <1>8, <1>9, <1>10 DEF EInv, PhaseInv

LEMMA NextKeepsE == EInv /\ [NextE]_varsE => EInv' /\ [Memory!Next]_(Memory!vars)
<1> SUFFICES ASSUME EInv, [NextE]_varsE PROVE EInv' /\ [Memory!Next]_(Memory!vars)
  OBVIOUS
<1>1. CASE (Program \/ CommonStep \/ Device) /\ UNCHANGED <<unmapped, handles>>
  BY <1>1, SharedKeepsE
<1>2. ASSUME NEW p \in unmapped, FindRoom(p) PROVE EInv' /\ [Memory!Next]_(Memory!vars)
  BY <1>2, FindRoomKeeps
<1>3. ASSUME NEW base \in Bases, ReserveSegment(base)
      PROVE  EInv' /\ [Memory!Next]_(Memory!vars)
  BY <1>3, ReserveKeeps
<1>4. CASE MapBlock
  BY <1>4, MapBlockKeeps
<1>5. CASE MapDone
  BY <1>5, MapDoneKeeps
<1>6. CASE ExpandFails
  BY <1>6, ExpandFailsKeeps
<1>7. CASE GatherToUnmap
  BY <1>7, GatherKeeps
<1>8. ASSUME NEW p \in call.targets, UnmapBlock(p)
      PROVE  EInv' /\ [Memory!Next]_(Memory!vars)
  BY <1>8, UnmapBlockKeeps
<1>9. CASE UnmapDone
  BY <1>9, UnmapDoneKeeps
<1>10. CASE UNCHANGED varsE
  BY <1>10, StutterKeepsE
<1>11. CASE ExpandStep
  BY <1>2, <1>3, <1>4, <1>5, <1>6, <1>7, <1>8, <1>9, <1>11 DEF ExpandStep
<1> QED
  BY <1>1, <1>10, <1>11 DEF NextE

-----------------------------------------------------------------------------
(* Physical memory is where the blocks say it is *)

\* The chunks that a block touches lie in its segment, and no unmapped block
\* reaches into them.
LEMMA TouchedChunks ==
  ASSUME Tiled(segments, blocks), SegmentsApart, Reserved, Aligned,
         NEW p \in DOMAIN blocks, blocks[p].mapped, NEW x,
         x \in Chunks(blocks[p], BoundaryBefore(blocks[p], p),
                      BoundaryAfter(blocks[p], End(blocks, p)))
  PROVE  x \in Nat /\ GridAt(x) /\ ~UnmappedAt(blocks, x)
<1> DEFINE b == blocks[p]
           k == ChunkSize(b.small)
           a == b.seg
           e == End(blocks, p)
           lo == BoundaryBefore(b, p)
           hi == BoundaryAfter(b, e)
           z == a + segments[a]
<1>1. /\ p \in Nat /\ b \in Block /\ a \in Nat /\ e \in Nat /\ p < e
      /\ a \in DOMAIN segments /\ segments[a] \in Nat /\ a <= p /\ e <= z /\ z \in Nat
      /\ b.small = blocks[a].small /\ k \in Nat /\ a <= e
  <2>1. /\ p \in Nat /\ b \in Block /\ a \in Nat /\ e \in Nat /\ p < e
        /\ a \in DOMAIN segments /\ segments[a] \in Nat /\ a <= p /\ e <= z
        /\ b.small = blocks[a].small
    BY BlockType DEF Tiled, InSegment
  <2> HIDE DEF a, b, e
  <2> QED
    BY <2>1, ChunkSizes
<1>2. /\ lo \in Nat /\ hi \in Nat /\ a <= lo /\ lo <= p /\ p < lo + k
      /\ e <= hi /\ hi < e + k /\ OnGrid(b, lo) /\ OnGrid(b, hi)
  BY <1>1, Boundaries
<1>3. OnGrid(b, z)
  <2>1. segments[a] % k = 0
    BY <1>1, ReservedRange DEF Reserved
  <2>2. OnGrid(b, a + segments[a])
    BY <2>1, <1>1, GridDistance
  <2> QED
    BY <2>2
<1> HIDE DEF b, k, a, e, lo, hi, z
<1>4. x \in Nat /\ lo <= x /\ x < hi /\ OnGrid(b, x)
  <2>1. lo <= hi
    BY <1>1, <1>2
  <2>2. x \in Chunks(b, lo, hi)
    BY DEF b, lo, hi, e
  <2> QED
    BY <2>1, <2>2, <1>1, <1>2, ChunksMembers DEF a
<1>5. hi <= z
  <2> SUFFICES ASSUME z < hi PROVE FALSE
    BY <1>1, <1>2
  <2>1. z + k <= hi
    BY <1>1, <1>2, <1>3, GridStep DEF a, k, z
  <2> QED
    BY <2>1, <1>1, <1>2
<1>6. Within(a, x)
  BY <1>1, <1>2, <1>4, <1>5 DEF Within, z
<1>7. GridAt(x)
  <2>1. OnGrid(blocks[a], x)
    BY <1>4, BySegment DEF a, b
  <2> QED
    BY <2>1, <1>1, <1>6 DEF GridAt
<1>8. ASSUME NEW r \in DOMAIN blocks, ~blocks[r].mapped, r <= x, x < End(blocks, r)
      PROVE  FALSE
  <2>1. /\ r \in Nat /\ End(blocks, r) \in Nat
        /\ blocks[r].seg \in DOMAIN segments /\ Within(blocks[r].seg, x)
    <3>1. /\ r \in Nat /\ End(blocks, r) \in Nat /\ blocks[r].seg \in Nat
          /\ blocks[r].seg \in DOMAIN segments /\ blocks[r].seg <= r
          /\ segments[blocks[r].seg] \in Nat
          /\ End(blocks, r) <= blocks[r].seg + segments[blocks[r].seg]
      BY BlockType DEF Tiled, InSegment
    <3> QED
      BY <3>1, <1>4, <1>8 DEF Within
  <2>2. blocks[r].seg = a
    BY <2>1, <1>1, <1>4, <1>6, WithinOne
  <2>3. OnGrid(b, r) /\ OnGrid(b, End(blocks, r))
    <3>1. OnGrid(blocks[r], r) /\ OnGrid(blocks[r], End(blocks, r))
      BY <1>8 DEF Aligned, Unmapped
    <3> QED
      BY <3>1, <2>2, BySegment DEF a, b
  <2>4. r # p
    BY <1>8
  <2>5. /\ r < p => End(blocks, r) <= p
        /\ p < r => e <= r
    BY DEF Tiled, Apart, e
  <2>6. CASE r < p
    <3>1. a <= x /\ x < End(blocks, r)
      BY <1>2, <1>1, <1>4, <1>8
    <3>2. x + k <= End(blocks, r)
      BY <3>1, <2>1, <2>3, <1>1, <1>4, GridStep DEF a, k
    <3> QED
      BY <3>2, <2>1, <2>5, <2>6, <1>1, <1>2, <1>4
  <2>7. CASE p < r
    <3>1. a <= r /\ r < hi
      BY <2>1, <2>7, <1>1, <1>2, <1>4, <1>8
    <3>2. r + k <= hi
      BY <3>1, <2>1, <2>3, <1>1, <1>2, GridStep DEF a, k
    <3> QED
      BY <3>2, <2>1, <2>5, <2>7, <1>1, <1>2
  <2> QED
    BY <2>1, <2>4, <2>6, <2>7, <1>1
<1> QED
  BY <1>4, <1>7, <1>8 DEF UnmappedAt

LEMMA EInvHandles == EInv => HandlesAgree
<1> SUFFICES ASSUME EInv PROVE HandlesAgree
  OBVIOUS
<1> DEFINE Touched(p) == Chunks(blocks[p], BoundaryBefore(blocks[p], p),
                                BoundaryAfter(blocks[p], End(blocks, p)))
<1>1. /\ Tiled(segments, blocks) /\ SegmentsApart /\ Reserved /\ Aligned
      /\ unmapped = Unmapped
      /\ handles = {x \in Nat : GridAt(x) /\ ~UnmappedAt(blocks, x)}
  BY DEF EInv, SharedInv, HeapInv, PhysicalInv, HandlesInv
<1>2. ASSUME NEW p \in DOMAIN blocks
      PROVE  /\ p \in Nat /\ blocks[p] \in Block /\ End(blocks, p) \in Nat /\ p < End(blocks, p)
             /\ blocks[p].seg \in Nat /\ blocks[p].seg <= p
             /\ blocks[p].seg <= End(blocks, p) /\ blocks[p].mapped \in BOOLEAN
  <2>1. /\ p \in Nat /\ blocks[p] \in Block /\ End(blocks, p) \in Nat /\ p < End(blocks, p)
        /\ blocks[p].seg \in Nat /\ blocks[p].seg <= p /\ blocks[p].mapped \in BOOLEAN
    BY <1>1, BlockType DEF Tiled, InSegment, Block
  <2> QED
    BY <2>1
<1>3. ASSUME NEW x \in handles PROVE \E p \in DOMAIN blocks \ unmapped : x \in Touched(p)
  <2>1. x \in Nat /\ ~UnmappedAt(blocks, x)
    BY <1>1
  <2>2. PICK a \in DOMAIN segments : Within(a, x) /\ OnGrid(blocks[a], x)
    BY <1>1 DEF GridAt
  <2>3. PICK p \in DOMAIN blocks : blocks[p].seg = a /\ p <= x /\ x < End(blocks, p)
    BY <2>1, <2>2, <1>1, Covered DEF Within
  <2>4. p \notin unmapped
    BY <2>1, <2>3, <1>1 DEF UnmappedAt, Unmapped
  <2>5. OnGrid(blocks[p], x)
    BY <2>2, <2>3, <1>1, BySegment
  <2>6. /\ BoundaryBefore(blocks[p], p) \in Nat
        /\ BoundaryAfter(blocks[p], End(blocks, p)) \in Nat
        /\ blocks[p].seg <= BoundaryBefore(blocks[p], p) /\ BoundaryBefore(blocks[p], p) <= p
        /\ End(blocks, p) <= BoundaryAfter(blocks[p], End(blocks, p))
        /\ OnGrid(blocks[p], BoundaryBefore(blocks[p], p))
        /\ OnGrid(blocks[p], BoundaryAfter(blocks[p], End(blocks, p)))
    BY <1>2, Boundaries
  <2>7. x \in Touched(p)
    <3>1. BoundaryBefore(blocks[p], p) <= BoundaryAfter(blocks[p], End(blocks, p))
      BY <2>6, <1>2
    <3>2. /\ BoundaryBefore(blocks[p], p) <= x
          /\ x < BoundaryAfter(blocks[p], End(blocks, p))
      BY <2>1, <2>3, <2>6, <1>2
    <3> QED
      BY <3>1, <3>2, <2>1, <2>5, <2>6, <1>2, ChunksMembers
  <2> QED
    BY <2>4, <2>7
<1>4. ASSUME NEW p \in DOMAIN blocks \ unmapped, NEW x \in Touched(p) PROVE x \in handles
  <2>1. blocks[p].mapped
    BY <1>1 DEF Unmapped
  <2> QED
    BY <2>1, <1>1, <1>4, TouchedChunks
<1>5. ASSUME NEW p \in unmapped
      PROVE  /\ p = BoundaryBefore(blocks[p], p)
             /\ End(blocks, p) = BoundaryAfter(blocks[p], End(blocks, p))
             /\ handles \cap Chunks(blocks[p], p, End(blocks, p)) = {}
  <2>1. /\ p \in DOMAIN blocks /\ ~blocks[p].mapped
        /\ OnGrid(blocks[p], p) /\ OnGrid(blocks[p], End(blocks, p))
    BY <1>1 DEF Unmapped, Aligned
  <2>2. /\ p = BoundaryBefore(blocks[p], p)
        /\ End(blocks, p) = BoundaryAfter(blocks[p], End(blocks, p))
    BY <2>1, <1>2, Boundaries
  <2>3. ASSUME NEW x \in handles, x \in Chunks(blocks[p], p, End(blocks, p)) PROVE FALSE
    <3>1. x \in Nat /\ p <= x /\ x < End(blocks, p)
      BY <2>1, <2>3, <1>2, ChunksMembers
    <3> QED
      BY <3>1, <2>1, <1>1 DEF UnmappedAt
  <2> QED
    BY <2>2, <2>3
<1>6. handles = UNION {Touched(p) : p \in DOMAIN blocks \ unmapped}
  <2> HIDE DEF Touched
  <2> QED
    BY <1>3, <1>4
<1> QED
  BY <1>1, <1>5, <1>6 DEF HandlesAgree, Unmapped

-----------------------------------------------------------------------------
(* The theorems *)

\* The inductive invariant holds of every behaviour.
THEOREM InvarianceE == SpecE => []EInv
BY InitEInv, NextKeepsE, PTL DEF SpecE

\* Every variable stays within its type.
THEOREM TypeCorrectE == SpecE => []TypeOKE
<1>1. EInv => TypeOKE
  BY SharedTypes DEF EInv, PhysicalInv, HandlesInv, Unmapped, TypeOKE
<1> QED
  BY <1>1, InvarianceE, PTL

\* The blocks of a reserved range cover it without a gap, mapped and unmapped
\* ones, and none leaves its stream or its pool: what map_block, unmap_block and
\* try_merge_blocks keep of the lists of blocks.
THEOREM RangesCovered == SpecE => []SegmentsTiled
<1>1. EInv => SegmentsTiled
  BY SharedTiles DEF EInv
<1> QED
  BY <1>1, InvarianceE, PTL

\* A mapped block is in its pool, in active_blocks or in malloc's hands, and
\* nowhere else.
THEOREM BlocksAccountedE == SpecE => []PoolsPartition
<1>1. EInv => PoolsPartition
  BY DEF EInv, SharedInv, HeapInv
<1> QED
  BY <1>1, InvarianceE, PTL

\* No two neighbouring free blocks are both mapped or both unmapped: mapping,
\* unmapping and freeing merge whatever they can.
THEOREM FreeMemoryCoalescedE == SpecE => []Coalesced
<1>1. EInv => Coalesced
  <2> SUFFICES ASSUME EInv, NEW p \in cached \cup Unmapped, NEW q \in cached \cup Unmapped,
                      Linked(blocks, p, q), blocks[p].mapped = blocks[q].mapped
               PROVE  FALSE
    BY DEF Coalesced, Unmapped
  <2>1. /\ \A x, y \in cached : ~Linked(blocks, x, y)
        /\ \A x, y \in Unmapped : ~Linked(blocks, x, y)
    BY DEF EInv, Separate, PhysicalInv, SeparateUnmapped
  <2>2. /\ \A x \in cached : blocks[x].mapped
        /\ \A x \in Unmapped : ~blocks[x].mapped
    BY Partition DEF EInv, SharedInv, Unmapped
  <2> QED
    BY <2>1, <2>2
<1> QED
  BY <1>1, InvarianceE, PTL

\* event_count agrees with the queues of npu_events.
THEOREM EventCountExactE == SpecE => []EventsCounted
<1>1. EInv => EventsCounted
  BY SharedCounts DEF EInv
<1> QED
  BY <1>1, InvarianceE, PTL

\* The chunks that ExpandableSegment holds handles of are those that mapped
\* blocks touch: none stays mapped that no block has, and no block has memory
\* that is not mapped.
THEOREM HandlesExact == SpecE => []HandlesAgree
BY EInvHandles, InvarianceE, PTL

\* map_block is called for unmapped blocks only, as its assertion demands.
THEOREM OnlyUnmappedMapped == SpecE => []MapsUnmappedOnly
BY CandidateMaps, InvarianceE, PTL

\* When malloc raises the error, no event is queued and no cached block has a
\* chunk for itself that could have been given back.
THEOREM OutOfMemoryIsLastE == SpecE => []OomIsLastResortE
<1>1. EInv => OomIsLastResortE
  BY DEF EInv, PhaseInv, LastResortE, OomIsLastResortE, Chunkless
<1> QED
  BY <1>1, InvarianceE, PTL

\* With expandable segments too the allocator implements StreamSafeMemory.
THEOREM PromiseKeptE == SpecE => KeepsPromise
<1>1. InitE => Memory!Init
  BY InitSeen DEF InitE
<1> QED
  BY <1>1, NextKeepsE, InvarianceE, PTL DEF SpecE, KeepsPromise, Memory!Spec

-----------------------------------------------------------------------------
(* The statistics *)

\* The memory that a cut makes mapped or unmapped is what the pool of the block
\* gains or loses.
CutGain(h0, p, lo, hi, m, small) ==
  IF h0[p].small = small THEN IF m THEN hi - lo ELSE lo - hi ELSE 0

\* The cut itself: the rest of the block counts as before, in two pieces.
LEMMA CarveGain ==
  ASSUME NEW sg, NEW h0, NEW h, NEW p, NEW lo, NEW hi, NEW m,
         CarveOf(sg, h0, h, p, lo, hi, m), IsFiniteSet(DOMAIN h0), NEW small
  PROVE  /\ IsFiniteSet(DOMAIN h)
         /\ Bytes(h, MappedOf(h, small)) =
              Bytes(h0, MappedOf(h0, small)) + CutGain(h0, p, lo, hi, m, small)
<1> DEFINE S == MappedOf(h0, small)
           T == MappedOf(h, small)
           n == Cardinality(S)
           v == Bytes(h0, S)
<1>1. /\ Tiled(sg, h0) /\ Tiled(sg, h) /\ HeapType(h0) /\ HeapType(h)
      /\ m \in BOOLEAN /\ lo \in Nat /\ hi \in Nat /\ p <= lo /\ lo < hi
      /\ p \in Idle(h0, ~m) /\ (lo \in DOMAIN h0 => lo = p)
      /\ hi < End(h0, p) => hi \notin DOMAIN h0
      /\ hi <= End(h0, p)
  BY DEF CarveOf, Tiled
<1>2. /\ p \in DOMAIN h0 /\ p \in Nat /\ End(h0, p) \in Nat /\ lo \in DOMAIN h
      /\ \A x \in DOMAIN h0 : x # p => x \in DOMAIN h /\ x # lo /\ h[x] = h0[x]
      /\ \A x \in DOMAIN h : \/ x \in DOMAIN h0 /\ x # p
                             \/ x = lo
                             \/ x = p /\ p < lo
                             \/ x = hi /\ hi < End(h0, p)
      /\ End(h, lo) = hi /\ h[lo].mapped = m
      /\ p < lo => p \in Idle(h, ~m) /\ h[p].mapped # m /\ End(h, p) = lo
      /\ hi < End(h0, p) =>
           hi \in Idle(h, ~m) /\ h[hi].mapped # m /\ End(h, hi) = End(h0, p)
  BY CarvePieces
<1>3. /\ h[lo].small = h0[p].small
      /\ p < lo => h[p].small = h0[p].small
      /\ hi < End(h0, p) => h[hi].small = h0[p].small
  <2>1. /\ h[lo].small = h0[p].small
        /\ p < lo => h[p].small = h0[p].small
    BY CarvePieces
  <2>2. ASSUME hi < End(h0, p) PROVE h[hi].small = h0[p].small
    <3>1. h[hi] = [Fresh(h0[p], ~m) EXCEPT !.size = End(h0, p) - hi]
      BY <2>2 DEF CarveOf, Carved
    <3>2. Fresh(h0[p], ~m).small = h0[p].small /\ "small" \in DOMAIN Fresh(h0[p], ~m)
      BY DEF Fresh, NewBlock
    <3> QED
      BY <3>1, <3>2 DEF Fresh, NewBlock
  <2> QED
    BY <2>1, <2>2
<1>4. IsFiniteSet(DOMAIN h)
  <2>1. IsFiniteSet({lo, hi, p}) /\ IsFiniteSet(DOMAIN h0 \cup {lo, hi, p})
    <3>1. IsFiniteSet({lo}) /\ IsFiniteSet({hi}) /\ IsFiniteSet({p})
      BY FS_Singleton
    <3>2. IsFiniteSet({lo} \cup {hi}) /\ IsFiniteSet(({lo} \cup {hi}) \cup {p})
      BY <3>1, FS_Union
    <3>3. {lo, hi, p} = ({lo} \cup {hi}) \cup {p}
      OBVIOUS
    <3> QED
      BY <3>2, <3>3, FS_Union
  <2>2. DOMAIN h \subseteq DOMAIN h0 \cup {lo, hi, p}
    BY <1>2
  <2> QED
    BY <2>1, <2>2, FS_Subset
<1>5. S \subseteq DOMAIN h0 /\ T \subseteq DOMAIN h
  BY DEF MappedOf
<1>6. Sized(h0, S) /\ Sized(h, T)
  BY <1>1, <1>4, <1>5, HeapSized
<1>7. v \in Int /\ Tally(h0, S, n, v)
  BY <1>6, BytesType DEF Tally
<1>8. /\ h[lo].size = hi - lo
      /\ p < lo => h[p].size = lo - p
      /\ hi < End(h0, p) => h[hi].size = End(h0, p) - hi
      /\ h0[p].size = End(h0, p) - p
      /\ p < lo => p \in DOMAIN h
      /\ hi < End(h0, p) => hi \in DOMAIN h
  <2>1. /\ h[lo].size \in Nat /\ h0[p].size \in Nat
        /\ p < lo => p \in DOMAIN h /\ h[p].size \in Nat
        /\ hi < End(h0, p) => hi \in DOMAIN h /\ h[hi].size \in Nat
    BY <1>1, <1>2, BlockType DEF Idle
  <2> QED
    BY <2>1, <1>1, <1>2 DEF End
<1>9. \A x \in DOMAIN h : h[x].mapped \in BOOLEAN
  BY <1>1, BlockType DEF Block
<1> HIDE DEF n, v
<1>10. CASE h0[p].small # small
  <2>1. T = S
    BY <1>2, <1>3, <1>10 DEF MappedOf
  <2>2. \A x \in S : h[x].size = h0[x].size
    BY <1>2, <1>10 DEF MappedOf
  <2>3. Bytes(h, S) = Bytes(h0, S)
    BY <2>2, <1>6, BytesSame
  <2>4. CutGain(h0, p, lo, hi, m, small) = 0
    BY <1>10 DEF CutGain
  <2> QED
    BY <2>1, <2>3, <2>4, <1>4, <1>7 DEF v
<1>11. CASE h0[p].small = small /\ m
  <2>1. T = S \cup {lo} /\ lo \notin S
    BY <1>1, <1>2, <1>3, <1>9, <1>11 DEF MappedOf, Idle
  <2>2. \A x \in S : h[x].size = h0[x].size
    BY <1>1, <1>2, <1>11 DEF MappedOf, Idle
  <2>3. h[lo].size \in Int
    BY <1>1, <1>8
  <2> HIDE DEF S, T
  <2>4. Tally(h, S \cup {lo}, n + 1, v + h[lo].size)
    BY <2>1, <2>2, <2>3, <1>6, <1>7, TallyAdd, Zenon
  <2>5. Bytes(h, T) = v + (hi - lo)
    BY <2>1, <2>4, <1>8 DEF Tally
  <2>6. CutGain(h0, p, lo, hi, m, small) = hi - lo
    BY <1>11 DEF CutGain
  <2> QED
    BY <2>5, <2>6, <1>4 DEF v, S, T
<1>12. CASE h0[p].small = small /\ ~m
  <2> DEFINE R == S \ {p}
             A == IF p < lo THEN R \cup {p} ELSE R
             a == IF p < lo THEN lo - p ELSE 0
             e == IF hi < End(h0, p) THEN End(h0, p) - hi ELSE 0
  <2>1. /\ p \in S /\ \A x \in R : h[x].size = h0[x].size
    BY <1>1, <1>2, <1>12 DEF MappedOf, Idle
  <2>2. T = IF hi < End(h0, p) THEN A \cup {hi} ELSE A
    <3>1. ~h[lo].mapped
      BY <1>2, <1>12
    <3>2. /\ p < lo => h[p].mapped
          /\ hi < End(h0, p) => h[hi].mapped
      BY <1>2, <1>8, <1>9, <1>12
    <3>3. \A x \in R : x \in DOMAIN h /\ x # p /\ x # lo /\ h[x] = h0[x] /\ x \in T
      BY <1>2 DEF MappedOf
    <3>4. \A x \in T : x \in R \/ (x = p /\ p < lo) \/ (x = hi /\ hi < End(h0, p))
      BY <3>1, <1>2 DEF MappedOf
    <3>5. (p < lo => p \in T) /\ (hi < End(h0, p) => hi \in T)
      BY <3>2, <1>3, <1>8, <1>12 DEF MappedOf
    <3> QED
      BY <3>3, <3>4, <3>5
  <2>3. hi < End(h0, p) => hi \notin A
    BY <1>1, <1>2, <1>5
  <2>4. v \in Int /\ a \in Int /\ e \in Int /\ h0[p].size \in Int
    BY <1>1, <1>2, <1>7, <1>8
  <2> HIDE DEF S, T
  <2>5. Sized(h, R) /\ Tally(h, R, n - 1, v - h0[p].size)
    BY <2>1, <1>6, <1>7, TallyRemove, Zenon
  <2>6. Sized(h, A) /\ Bytes(h, A) = v - h0[p].size + a
    <3>1. CASE p < lo
      <4>1. p \notin R /\ h[p].size = lo - p /\ h[p].size \in Int
        BY <3>1, <1>1, <1>2, <1>8
      <4>2. Sized(h, R \cup {p}) /\ Tally(h, R \cup {p}, n - 1 + 1, v - h0[p].size + h[p].size)
        BY <4>1, <2>5, TallyJoin, Zenon
      <4> QED
        BY <3>1, <4>1, <4>2 DEF Tally
    <3>2. CASE ~(p < lo)
      BY <3>2, <2>4, <2>5 DEF Tally
    <3> QED
      BY <3>1, <3>2
  <2> HIDE DEF R, A
  <2>7. Bytes(h, T) = v - h0[p].size + a + e
    <3>1. CASE hi < End(h0, p)
      <4> DEFINE c == Cardinality(A)
                 w == Bytes(h, A)
      <4>1. hi \notin A /\ h[hi].size = End(h0, p) - hi /\ h[hi].size \in Int /\ Tally(h, A, c, w)
        BY <3>1, <2>3, <1>1, <1>2, <1>8 DEF Tally
      <4> HIDE DEF c, w
      <4>2. Tally(h, A \cup {hi}, c + 1, w + h[hi].size)
        BY <4>1, <2>6, TallyJoin, Zenon
      <4> QED
        BY <3>1, <4>1, <4>2, <2>2, <2>6 DEF Tally, w
    <3>2. CASE ~(hi < End(h0, p))
      BY <3>2, <2>2, <2>4, <2>6
    <3> QED
      BY <3>1, <3>2
  <2>8. h0[p].size = End(h0, p) - p /\ a = lo - p /\ e = End(h0, p) - hi
    BY <1>1, <1>2, <1>8
  <2>9. CutGain(h0, p, lo, hi, m, small) = lo - hi
    BY <1>12 DEF CutGain
  <2>10. Bytes(h, T) = v + (lo - hi)
    BY <2>4, <2>7, <2>8, <1>1, <1>2
  <2> QED
    BY <2>9, <2>10, <1>4 DEF v, S, T
<1> QED
  BY <1>1, <1>10, <1>11, <1>12

\* Merging blocks leaves finitely many.
LEMMA CoalesceFinite ==
  ASSUME NEW sg, NEW h, NEW d \in DOMAIN h, Tiled(sg, h), IsFiniteSet(DOMAIN h)
  PROVE  IsFiniteSet(DOMAIN Coalesce(h, d))
<1>1. CoalesceFacts(sg, h, d, Coalesce(h, d), Lead(h, d), Subsumed(h, d))
  BY CoalesceCounted
<1>2. DOMAIN Coalesce(h, d) \subseteq DOMAIN h
  BY <1>1 DEF CoalesceFacts
<1> QED
  BY <1>2, FS_Subset

\* Blocks that are not in use gain or lose d bytes of memory, all in pool s.
LEMMA MemoryMoves ==
  ASSUME HeapInv, stats \in Stats, StatsInv, NEW s \in BOOLEAN, NEW d \in Int,
         active' = active, \A x \in active : x \in DOMAIN blocks' /\ blocks'[x] = blocks[x],
         IsFiniteSet(DOMAIN blocks'),
         \A small \in BOOLEAN :
           Bytes(blocks', MappedOf(blocks', small)) =
             Bytes(blocks, MappedOf(blocks, small)) + (IF small = s THEN d ELSE 0),
         stats' = [stats EXCEPT ![s].reserved_bytes = @ + d], total' = total + d
  PROVE  StatsInv'
<1>1. /\ HeapType(blocks) /\ IsFiniteSet(DOMAIN blocks) /\ active \subseteq DOMAIN blocks
      /\ Counts(segments, blocks, active, stats) /\ total = ReservedBytes(stats)
  BY Partition DEF StatsInv, Counts, HeapInv, Tiled
<1>2. \A o \in BOOLEAN :
        /\ stats'[o].allocation = stats[o].allocation
        /\ stats'[o].allocated_bytes = stats[o].allocated_bytes
        /\ stats'[o].active = stats[o].active
        /\ stats'[o].active_bytes = stats[o].active_bytes
        /\ stats'[o].reserved_bytes =
             stats[o].reserved_bytes + (IF o = s THEN d ELSE 0)
        /\ stats[o].reserved_bytes \in Int
        /\ o # s => stats'[o] = stats[o]
  <2> SUFFICES ASSUME NEW o \in BOOLEAN
               PROVE  /\ stats'[o].allocation = stats[o].allocation
                      /\ stats'[o].allocated_bytes = stats[o].allocated_bytes
                      /\ stats'[o].active = stats[o].active
                      /\ stats'[o].active_bytes = stats[o].active_bytes
                      /\ stats'[o].reserved_bytes =
                           stats[o].reserved_bytes + (IF o = s THEN d ELSE 0)
                      /\ stats[o].reserved_bytes \in Int
                      /\ o # s => stats'[o] = stats[o]
    OBVIOUS
  <2>1. stats[o] \in Stat /\ stats[o].reserved_bytes \in Int
    BY DEF Stats, Stat
  <2>2. stats'[o] = IF o = s THEN [stats[s] EXCEPT !.reserved_bytes = @ + d] ELSE stats[o]
    BY DEF Stats
  <2>3. CASE o = s
    BY <2>1, <2>2, <2>3 DEF Stat
  <2>4. CASE o # s
    BY <2>1, <2>2, <2>4
  <2> QED
    BY <2>3, <2>4
<1>3. ASSUME NEW small \in BOOLEAN
      PROVE  UseCounts(blocks', active', stats'[small], small)
  <2>1. UseCounts(blocks, active, stats[small], small)
    BY <1>1 DEF Counts
  <2>2. ActiveOf(blocks', active', small) = ActiveOf(blocks, active, small)
    BY DEF ActiveOf
  <2>3. \A x \in ActiveOf(blocks, active, small) :
          blocks'[x].size = blocks[x].size /\ blocks'[x].allocated = blocks[x].allocated
    BY DEF ActiveOf
  <2> QED
    BY <2>1, <2>2, <2>3, <1>1, <1>2, UseFrame
<1>4. ASSUME NEW small \in BOOLEAN
      PROVE  MapCounts(blocks', stats'[small], small)
  <2>1. stats[small].reserved_bytes = Bytes(blocks, MappedOf(blocks, small))
    BY <1>1 DEF Counts, MapCounts
  <2>2. stats'[small].reserved_bytes =
          Bytes(blocks, MappedOf(blocks, small)) + (IF small = s THEN d ELSE 0)
    BY <2>1, <1>2, Zenon
  <2> QED
    BY <2>2, Zenon DEF MapCounts
<1>5. Counts(segments', blocks', active', stats')
  BY <1>3, <1>4, ModeAssumption DEF Counts
<1>6. ReservedBytes(stats') = ReservedBytes(stats) + d
  <2>1. stats'[s].reserved_bytes = stats[s].reserved_bytes + d
    BY <1>2
  <2> QED
    <3>1. \A o \in BOOLEAN : stats[o].reserved_bytes \in Int
      BY <1>2, Zenon
    <3>2. \A o \in BOOLEAN : o # s => stats'[o] = stats[o]
      BY <1>2, Zenon
    <3> QED
      BY <2>1, <3>1, <3>2, ReservedAdds, Zenon
<1> QED
  BY <1>1, <1>5, <1>6 DEF StatsInv

\* map_block, and unmap_block where the segment stays.
LEMMA MovedCounts ==
  ASSUME EInv, StatsInv, pc # "found", pc' # "found",
         NEW h, NEW p, NEW lo, NEW hi, NEW m, Moved(h, p, lo, hi, m),
         stats' = [stats EXCEPT ![blocks[p].small].reserved_bytes =
                     @ + (IF m THEN hi - lo ELSE lo - hi)],
         total' = total + (IF m THEN hi - lo ELSE lo - hi)
  PROVE  StatsInv'
<1> DEFINE s == blocks[p].small
           d == IF m THEN hi - lo ELSE lo - hi
           k == Coalesce(h, lo)
<1>1. /\ HeapInv /\ stats \in Stats /\ IsFiniteSet(DOMAIN blocks)
      /\ CarveOf(segments, blocks, h, p, lo, hi, m)
      /\ blocks' = k /\ active' = active
  BY DEF EInv, SharedInv, CountInv, Stats, StatsInv, Counts, Moved
<1>2. \A x \in active : x \in DOMAIN blocks' /\ blocks'[x] = blocks[x]
  BY MovedHeap
<1>3. /\ m \in BOOLEAN /\ lo \in Nat /\ hi \in Nat /\ Tiled(segments, h) /\ lo \in DOMAIN h
      /\ p \in DOMAIN blocks
  BY <1>1, CarvePieces DEF CarveOf
<1>4. s \in BOOLEAN /\ d \in Int
  BY <1>1, <1>3, BlockType DEF HeapInv, Tiled, Block
<1>5. IsFiniteSet(DOMAIN h)
  BY <1>1, CarveGain
<1>6. IsFiniteSet(DOMAIN k)
  BY <1>3, <1>5, CoalesceFinite
<1>7. ASSUME NEW small \in BOOLEAN
      PROVE  Bytes(k, MappedOf(k, small)) =
               Bytes(blocks, MappedOf(blocks, small)) + (IF small = s THEN d ELSE 0)
  <2>1. Bytes(k, MappedOf(k, small)) = Bytes(h, MappedOf(h, small))
    BY <1>3, <1>5, CoalesceMapped
  <2>2. Bytes(h, MappedOf(h, small)) =
          Bytes(blocks, MappedOf(blocks, small)) + CutGain(blocks, p, lo, hi, m, small)
    BY <1>1, CarveGain
  <2>3. CutGain(blocks, p, lo, hi, m, small) = IF small = s THEN d ELSE 0
    BY DEF CutGain
  <2> QED
    BY <2>1, <2>2, <2>3
<1>8. /\ stats' = [stats EXCEPT ![s].reserved_bytes = @ + d]
      /\ total' = total + d
  OBVIOUS
<1> HIDE DEF s, d, k
<1> QED
  BY <1>1, <1>2, <1>4, <1>6, <1>7, <1>8, MemoryMoves

\* unmap_block, where the segment goes: what it was merged into is unmapped.
LEMMA DroppedCounts ==
  ASSUME EInv, StatsInv, pc # "found", pc' # "found",
         NEW h, NEW p, NEW lo, NEW hi, Dropped(h, p, lo, hi),
         stats' = [stats EXCEPT ![blocks[p].small].reserved_bytes = @ + (lo - hi)],
         total' = total + (lo - hi)
  PROVE  StatsInv'
<1> DEFINE s == blocks[p].small
           d == lo - hi
           k == Coalesce(h, lo)
           q == Lead(h, lo)
<1>1. /\ HeapInv /\ stats \in Stats /\ IsFiniteSet(DOMAIN blocks)
      /\ CarveOf(segments, blocks, h, p, lo, hi, FALSE)
      /\ blocks' = [x \in DOMAIN k \ {q} |-> k[x]] /\ active' = active
  BY DEF EInv, SharedInv, CountInv, Stats, StatsInv, Counts, Dropped
<1>2. \A x \in active : x \in DOMAIN blocks' /\ blocks'[x] = blocks[x]
  BY DroppedHeap
<1>3. /\ lo \in Nat /\ hi \in Nat /\ Tiled(segments, h) /\ lo \in DOMAIN h
      /\ p \in DOMAIN blocks
  BY <1>1, CarvePieces DEF CarveOf
<1>4. s \in BOOLEAN /\ d \in Int
  BY <1>1, <1>3, BlockType DEF HeapInv, Tiled, Block
<1>5. IsFiniteSet(DOMAIN h)
  BY <1>1, CarveGain
<1>6. IsFiniteSet(DOMAIN k) /\ HeapType(k) /\ k[q].mapped = FALSE
  <2>1. Merged(segments, blocks, h, p, lo, FALSE, k, q, Subsumed(h, lo))
    BY <1>1, CarveIdle
  <2> QED
    BY <2>1, <1>3, <1>5, CoalesceFinite DEF Merged, Tiled
<1>7. IsFiniteSet(DOMAIN blocks')
  BY <1>1, <1>6, FS_Subset
<1>8. ASSUME NEW small \in BOOLEAN
      PROVE  Bytes(blocks', MappedOf(blocks', small)) =
               Bytes(blocks, MappedOf(blocks, small)) + (IF small = s THEN d ELSE 0)
  <2>1. Bytes(k, MappedOf(k, small)) = Bytes(h, MappedOf(h, small))
    BY <1>3, <1>5, CoalesceMapped
  <2>2. Bytes(h, MappedOf(h, small)) =
          Bytes(blocks, MappedOf(blocks, small)) + CutGain(blocks, p, lo, hi, FALSE, small)
    <3>1. PICK m : m = FALSE
      OBVIOUS
    <3>2. CarveOf(segments, blocks, h, p, lo, hi, m)
      BY <1>1, <3>1
    <3>3. Bytes(h, MappedOf(h, small)) =
            Bytes(blocks, MappedOf(blocks, small)) + CutGain(blocks, p, lo, hi, m, small)
      BY <1>1, <3>2, CarveGain
    <3> QED
      BY <3>1, <3>3, Zenon
  <2>3. CutGain(blocks, p, lo, hi, FALSE, small) = IF small = s THEN d ELSE 0
    BY DEF CutGain
  <2> HIDE DEF k, q
  <2>4. /\ MappedOf(blocks', small) = MappedOf(k, small)
        /\ \A x \in MappedOf(k, small) : blocks'[x].size = k[x].size
        /\ MappedOf(k, small) \subseteq DOMAIN k
    BY <1>1, <1>6 DEF MappedOf
  <2>5. Sized(k, MappedOf(k, small))
    BY <2>4, <1>6, HeapSized
  <2>6. Bytes(blocks', MappedOf(k, small)) = Bytes(k, MappedOf(k, small))
    BY <2>4, <2>5, BytesSame, Zenon
  <2> QED
    BY <2>1, <2>2, <2>3, <2>4, <2>6
<1>9. /\ stats' = [stats EXCEPT ![s].reserved_bytes = @ + d]
      /\ total' = total + d
  OBVIOUS
<1> HIDE DEF s, d, k, q
<1> QED
  BY <1>1, <1>2, <1>4, <1>7, <1>8, <1>9, MemoryMoves

\* A range is reserved, all of it unmapped.
LEMMA ReserveCounts ==
  ASSUME EInv, StatsInv, NEW base \in Bases, ReserveSegment(base)
  PROVE  StatsInv'
<1> PICK size, small : RangeReserved(base, size, small)
  BY ReservedHeap
<1>1. /\ HeapInv /\ stats \in Stats /\ HeapType(blocks) /\ IsFiniteSet(DOMAIN blocks)
      /\ active \subseteq DOMAIN blocks /\ total \in Int
  BY Partition DEF EInv, SharedInv, CountInv, Stats, StatsInv, Counts, HeapInv, Tiled
<1>2. active' = active /\ stats' = stats /\ total' = total
  BY DEF ReserveSegment
<1>3. /\ base \notin DOMAIN blocks /\ DOMAIN blocks' = DOMAIN blocks \cup {base}
      /\ ~blocks'[base].mapped
      /\ \A x \in DOMAIN blocks : blocks'[x] = blocks[x]
  BY DEF RangeReserved, NewBlock
<1>4. IsFiniteSet(DOMAIN blocks')
  BY <1>1, <1>3, FS_AddElement
<1>5. ASSUME NEW o \in BOOLEAN
      PROVE  /\ UseCounts(blocks', active, stats[o], o)
             /\ MapCounts(blocks', stats[o], o)
  <2>1. UseCounts(blocks, active, stats[o], o) /\ MapCounts(blocks, stats[o], o)
    BY DEF StatsInv, Counts
  <2>2. /\ ActiveOf(blocks', active, o) = ActiveOf(blocks, active, o)
        /\ \A x \in ActiveOf(blocks, active, o) :
             blocks'[x].size = blocks[x].size /\ blocks'[x].allocated = blocks[x].allocated
    BY <1>1, <1>3 DEF ActiveOf
  <2>3. /\ MappedOf(blocks', o) = MappedOf(blocks, o)
        /\ \A x \in MappedOf(blocks, o) : blocks'[x].size = blocks[x].size
    BY <1>3 DEF MappedOf
  <2>4. UseCounts(blocks', active, stats[o], o)
    BY <2>1, <2>2, <1>1, UseFrame
  <2>5. MapCounts(blocks', stats[o], o)
    BY <2>1, <2>3, <1>1, MapFrame
  <2> QED
    BY <2>4, <2>5
<1>6. Counts(segments', blocks', active', stats')
  BY <1>2, <1>4, <1>5, ModeAssumption DEF Counts
<1> QED
  BY <1>2, <1>6 DEF StatsInv

\* map_block.
LEMMA MapCounted ==
  ASSUME EInv, StatsInv, MapBlock
  PROVE  StatsInv'
<1>1. PICK p, hi : MapArea(p, hi)
  BY MapAreaExists DEF MapBlock
<1> DEFINE h == Carve(blocks, p, p, hi, TRUE)
           n == hi - p
<1>2. Moved(h, p, p, hi, TRUE) /\ pc # "found" /\ pc' # "found"
  BY <1>1, MapCarves
<1>3. /\ stats' = [stats EXCEPT ![blocks[p].small].reserved_bytes = @ + n]
      /\ total' = total + n
  BY <1>1 DEF MapBlock, MapArea
<1> HIDE DEF h
<1> QED
  BY <1>2, <1>3, MovedCounts

\* unmap_block: the pieces before and after the chunks stay mapped and counted.
LEMMA UnmapCounted ==
  ASSUME EInv, StatsInv, NEW p \in call.targets, UnmapBlock(p)
  PROVE  StatsInv'
<1> DEFINE b == blocks[p]
<1>0. PICK lo, hi : lo = BoundaryAfter(b, p) /\ hi = BoundaryBefore(b, End(blocks, p))
  OBVIOUS
<1>1. /\ HeapInv /\ CallSteps /\ Tiled(segments, blocks) /\ stats \in Stats /\ total \in Int
  BY DEF EInv, SharedInv, PhaseInv, HeapInv, CountInv, Stats
<1>2. pc = "unmap" /\ pc' = pc
  BY DEF UnmapBlock
<1>3. p \in cached /\ p \in DOMAIN blocks
  BY <1>1, <1>2, Partition DEF CallSteps
<1>4. /\ p \in Nat /\ b \in Block /\ b.seg <= p /\ b.seg \in Nat /\ b.small \in BOOLEAN
      /\ End(blocks, p) \in Nat /\ p < End(blocks, p)
  <2>1. p \in Nat /\ b \in Block /\ b.seg \in Nat /\ End(blocks, p) \in Nat /\ p < End(blocks, p)
    BY <1>1, <1>3, BlockType DEF Tiled
  <2> QED
    BY <2>1, <1>1, <1>3 DEF Tiled, InSegment, Block
<1>5. /\ lo \in Nat /\ hi \in Nat /\ p <= lo /\ hi <= End(blocks, p)
      /\ OnGrid(b, lo) /\ OnGrid(b, hi)
  <2>1. b.seg <= End(blocks, p)
    BY <1>4
  <2> QED
    BY <2>1, <1>0, <1>4, Boundaries
<1>6. CASE lo >= hi
  <2>1. UNCHANGED <<segments, heapVars, total>>
    BY <1>0, <1>6 DEF UnmapBlock
  <2> QED
    BY <2>1 DEF heapVars, StatsInv
<1>7. CASE lo < hi
  <2>1. UnmapSpan(p, lo, hi)
    BY <1>0, <1>3, <1>4, <1>5, <1>7 DEF UnmapSpan
  <2> DEFINE h == Carve(blocks, p, lo, hi, FALSE)
  <2>2. Moved(h, p, lo, hi, FALSE) \/ Dropped(h, p, lo, hi)
    BY <2>1, UnmapCarves
  <2>3. /\ total' = total - (hi - lo)
        /\ stats' = [stats EXCEPT ![b.small].reserved_bytes = @ - (hi - lo)]
    <3>1. ~(lo >= hi)
      BY <1>5, <1>7
    <3> QED
      BY <3>1, <1>0 DEF UnmapBlock
  <2>4. total' = total + (lo - hi)
    BY <2>3, <1>1, <1>5
  <2>5. stats' = [stats EXCEPT ![b.small].reserved_bytes = @ + (lo - hi)]
    <3>1. stats[b.small].reserved_bytes \in Int
      BY <1>1, <1>4 DEF Stats, Stat
    <3>2. stats[b.small].reserved_bytes - (hi - lo) = stats[b.small].reserved_bytes + (lo - hi)
      BY <3>1, <1>5
    <3> QED
      BY <2>3, <3>2, Zenon
  <2> HIDE DEF h
  <2> QED
    BY <1>2, <2>2, <2>4, <2>5, MovedCounts, DroppedCounts
<1> QED
  BY <1>5, <1>6, <1>7

\* Every step.
LEMMA NextKeepsStatsE ==
  ASSUME EInv, EInv', StatsInv, [NextE]_varsE
  PROVE  StatsInv'
<1>1. ASSUME UNCHANGED <<segments, blocks, active, stats, total>> PROVE StatsInv'
  BY <1>1 DEF StatsInv
<1>2. CASE Program \/ CommonStep \/ Device
  BY <1>2, SharedKeepsStats DEF EInv, SharedInv
<1>3. ASSUME NEW p \in unmapped, FindRoom(p) PROVE StatsInv'
  BY <1>3, <1>1 DEF FindRoom, heapVars
<1>4. ASSUME NEW base \in Bases, ReserveSegment(base) PROVE StatsInv'
  BY <1>4, ReserveCounts
<1>5. CASE MapBlock
  BY <1>5, MapCounted
<1>6. CASE MapDone \/ ExpandFails \/ GatherToUnmap \/ UnmapDone
  BY <1>6, <1>1 DEF MapDone, ExpandFails, GatherToUnmap, UnmapDone, heapVars
<1>7. ASSUME NEW p \in call.targets, UnmapBlock(p) PROVE StatsInv'
  BY <1>7, UnmapCounted
<1>8. CASE UNCHANGED varsE
  BY <1>8, <1>1 DEF varsE, vars
<1> QED
  BY <1>2, <1>3, <1>4, <1>5, <1>6, <1>7, <1>8 DEF NextE, ExpandStep

\* The statistics of both pools are exact in the default mode too: mapping and
\* unmapping change reserved_bytes and total_allocated_memory by whole chunks,
\* while blocks are cut at the chunks and merged with their neighbours.
THEOREM StatisticsExactE == SpecE => []StatsExact
<1>1. EInv /\ EInv' /\ StatsInv /\ [NextE]_varsE => StatsInv'
  BY NextKeepsStatsE
<1>2. EInv /\ StatsInv => StatsExact
  BY CountsAreExact DEF EInv, SharedInv
<1>3. InitE => StatsInv
  BY InitStats DEF InitE
<1> QED
  BY <1>1, <1>2, <1>3, InvarianceE, PTL DEF SpecE

=============================================================================
