--------------------------- MODULE BlockHeapProofs --------------------------
(***************************************************************************)
(* Facts about BlockHeap: what splitting a block, merging blocks, and the  *)
(* arrival and departure of whole segments do to a heap whose segments are *)
(* covered by blocks without gaps or overlaps (Tiled).                     *)
(***************************************************************************)
EXTENDS BlockHeap, WellFoundedInduction, TLAPS

\* Every address maps to a block ...
HeapType(h) == DOMAIN h \subseteq Nat /\ h \in [DOMAIN h -> Block]

\* ... block p lies in its segment, and has its stream and its pool ...
InSegment(sg, h, p) ==
  /\ h[p].seg \in DOMAIN sg
  /\ h[p].seg <= p
  /\ End(h, p) <= h[p].seg + sg[h[p].seg]
  /\ h[p].stream = h[h[p].seg].stream
  /\ h[p].small = h[h[p].seg].small

\* ... no two blocks overlap ...
Apart(h) == \A p, q \in DOMAIN h : p < q => End(h, p) <= q

\* ... a block is at the base of its segment or follows another ...
FromBase(h) ==
  \A p \in DOMAIN h : p # h[p].seg => \E q \in DOMAIN h : Linked(h, q, p)

\* ... and is at its end or is followed by another.
ToEnd(sg, h) ==
  \A p \in DOMAIN h :
    End(h, p) # h[p].seg + sg[h[p].seg] =>
      End(h, p) \in DOMAIN h /\ Linked(h, p, End(h, p))

\* The blocks of h cover the segments of sg, without gap or overlap.
Tiled(sg, h) ==
  /\ HeapType(h)
  /\ DOMAIN sg \subseteq Nat /\ sg \in [DOMAIN sg -> Nat]
  /\ \A a \in DOMAIN sg : a \in DOMAIN h /\ h[a].seg = a
  /\ \A p \in DOMAIN h : InSegment(sg, h, p)
  /\ Apart(h)
  /\ FromBase(h)
  /\ ToEnd(sg, h)

\* Block p is all of its segment.
Whole(sg, h, p) == p = h[p].seg /\ h[p].size = sg[p]

\* The fields of a block of a heap, and its end, are numbers.
LEMMA BlockType ==
  ASSUME NEW h, HeapType(h), NEW p \in DOMAIN h
  PROVE  /\ p \in Nat
         /\ h[p] \in Block
         /\ h[p].size \in Nat /\ h[p].size > 0
         /\ h[p].seg \in Nat
         /\ End(h, p) \in Nat /\ End(h, p) > p
BY DEF HeapType, Block, End

\* A block without neighbours is its whole segment.
LEMMA UnsplitIsWhole ==
  ASSUME NEW sg, NEW h, Tiled(sg, h), NEW p \in DOMAIN h, ~IsSplit(h, p)
  PROVE  Whole(sg, h, p)
<1>1. p = h[p].seg
  BY DEF Tiled, FromBase, IsSplit, PrevSet
<1>2. End(h, p) = h[p].seg + sg[h[p].seg]
  BY DEF Tiled, ToEnd, IsSplit, NextSet
<1> QED
  BY <1>1, <1>2, BlockType DEF Whole, End, Tiled, InSegment

\* Two linked blocks become one: what try_merge_blocks does.
LEMMA JoinTiled ==
  ASSUME NEW sg, NEW h, Tiled(sg, h),
         NEW q \in DOMAIN h, NEW r \in DOMAIN h, Linked(h, q, r),
         NEW b \in Block,
         b.size = h[q].size + h[r].size,
         b.seg = h[q].seg, b.stream = h[q].stream, b.small = h[q].small
  PROVE  Tiled(sg, [x \in DOMAIN h \ {r} |-> IF x = q THEN b ELSE h[x]])
<1> DEFINE g == [x \in DOMAIN h \ {r} |-> IF x = q THEN b ELSE h[x]]
<1>0. /\ HeapType(h) /\ q \in Nat /\ r \in Nat
      /\ h[q].size \in Nat /\ h[q].size > 0 /\ h[r].size \in Nat /\ h[r].size > 0
      /\ r = q + h[q].size /\ q # r /\ h[r].seg = h[q].seg
  BY BlockType DEF Tiled, Linked, End
<1>1. DOMAIN g = DOMAIN h \ {r} /\ g[q] = b
  BY <1>0
<1>2. \A x \in DOMAIN g : x # q => g[x] = h[x] /\ End(g, x) = End(h, x)
  BY DEF End
<1>3. End(g, q) = End(h, r)
  BY <1>0, <1>1 DEF End
<1>4. \A x \in DOMAIN g : g[x].seg = h[x].seg /\ g[x].stream = h[x].stream /\ g[x].small = h[x].small
  BY <1>1, <1>2
<1>5. HeapType(g)
  BY <1>0 DEF HeapType
<1>6. r \notin DOMAIN sg
  BY <1>0 DEF Tiled, InSegment
<1> HIDE DEF g
<1>7. \A a \in DOMAIN sg : a \in DOMAIN g /\ g[a].seg = a
  BY <1>1, <1>4, <1>6 DEF Tiled
<1>8. \A p \in DOMAIN g : InSegment(sg, g, p)
  <2> SUFFICES ASSUME NEW p \in DOMAIN g PROVE InSegment(sg, g, p)
    OBVIOUS
  <2>1. InSegment(sg, h, p) /\ InSegment(sg, h, r)
    BY <1>1 DEF Tiled
  <2>2. h[p].seg \in DOMAIN g
    BY <2>1, <1>1, <1>6 DEF InSegment, Tiled
  <2>3. End(g, p) <= g[p].seg + sg[g[p].seg]
    <3>1. CASE p = q
      BY <3>1, <2>1, <1>3, <1>4, <1>0 DEF InSegment
    <3>2. CASE p # q
      BY <3>2, <2>1, <1>2, <1>4 DEF InSegment
    <3> QED BY <3>1, <3>2
  <2> QED
    BY <2>1, <2>2, <2>3, <1>4 DEF InSegment
<1>9. Apart(g)
  <2> SUFFICES ASSUME NEW x \in DOMAIN g, NEW y \in DOMAIN g, x < y
               PROVE  End(g, x) <= y
    BY DEF Apart
  <2>1. End(h, x) <= y
    BY <1>1 DEF Tiled, Apart
  <2>2. CASE x = q
    <3>1. r <= y
      BY <2>1, <2>2, <1>0 DEF End
    <3>2. y # r /\ y \in Nat
      BY <1>1, <1>0, BlockType
    <3>3. End(h, r) <= y
      BY <3>1, <3>2, <1>0, <1>1 DEF Tiled, Apart
    <3> QED
      BY <3>3, <2>2, <1>3
  <2> QED
    BY <2>1, <2>2, <1>2
<1>10. FromBase(g)
  <2> SUFFICES ASSUME NEW p \in DOMAIN g, p # g[p].seg
               PROVE  \E z \in DOMAIN g : Linked(g, z, p)
    BY DEF FromBase
  <2>1. PICK z \in DOMAIN h : Linked(h, z, p)
    BY <1>1, <1>4 DEF Tiled, FromBase
  <2>2. CASE z = r
    <3>1. Linked(g, q, p)
      BY <2>1, <2>2, <1>0, <1>1, <1>3, <1>4 DEF Linked
    <3> QED
      BY <3>1, <1>0, <1>1
  <2>3. CASE z # r
    <3>1. z # q
      BY <2>1, <1>0, <1>1 DEF Linked, End
    <3>2. Linked(g, z, p)
      BY <2>1, <2>3, <3>1, <1>1, <1>2, <1>4 DEF Linked
    <3> QED
      BY <3>2, <2>3, <1>1
  <2> QED
    BY <2>2, <2>3
<1>11. ToEnd(sg, g)
  <2> SUFFICES ASSUME NEW p \in DOMAIN g, End(g, p) # g[p].seg + sg[g[p].seg]
               PROVE  End(g, p) \in DOMAIN g /\ Linked(g, p, End(g, p))
    BY DEF ToEnd
  <2>1. CASE p = q
    <3>1. End(h, r) \in DOMAIN h /\ Linked(h, r, End(h, r))
      BY <2>1, <1>0, <1>3, <1>4 DEF Tiled, ToEnd
    <3>2. End(h, r) # r
      BY <1>0 DEF End
    <3> QED
      BY <3>1, <3>2, <2>1, <1>0, <1>1, <1>3, <1>4 DEF Linked
  <2>2. CASE p # q
    <3>1. End(h, p) \in DOMAIN h /\ Linked(h, p, End(h, p))
      BY <2>2, <1>1, <1>2, <1>4 DEF Tiled, ToEnd
    <3>2. End(h, p) # r
      <4> SUFFICES ASSUME End(h, p) = r PROVE FALSE
        OBVIOUS
      <4>1. p \in DOMAIN h /\ p \in Nat /\ End(h, p) > p
        BY <1>0, <1>1, BlockType
      <4>2. p < q => End(h, p) <= q
        BY <4>1 DEF Tiled, Apart
      <4>3. q < p => End(h, q) <= p
        BY <4>1 DEF Tiled, Apart
      <4> QED
        BY <4>1, <4>2, <4>3, <2>2, <1>0 DEF End
    <3> QED
      BY <3>1, <3>2, <2>2, <1>1, <1>2, <1>4 DEF Linked
  <2> QED
    BY <2>1, <2>2
<1> QED
  BY <1>5, <1>7, <1>8, <1>9, <1>10, <1>11 DEF Tiled, g

\* Fields that say nothing of where a block lies may change.
LEMMA SameTiled ==
  ASSUME NEW sg, NEW h, Tiled(sg, h),
         NEW g, HeapType(g), DOMAIN g = DOMAIN h,
         \A x \in DOMAIN h : /\ g[x].size = h[x].size
                            /\ g[x].seg = h[x].seg
                            /\ g[x].stream = h[x].stream
                            /\ g[x].small = h[x].small
  PROVE  Tiled(sg, g)
<1>1. \A x \in DOMAIN h : End(g, x) = End(h, x)
  BY DEF End
<1>2. \A x, y \in DOMAIN h : Linked(g, x, y) <=> Linked(h, x, y)
  BY <1>1 DEF Linked
<1>3. \A a \in DOMAIN sg : a \in DOMAIN g /\ g[a].seg = a
  BY DEF Tiled
<1>4. \A p \in DOMAIN g : InSegment(sg, g, p)
  BY <1>1, <1>3 DEF Tiled, InSegment
<1>5. Apart(g)
  BY <1>1 DEF Tiled, Apart
<1>6. FromBase(g)
  BY <1>2 DEF Tiled, FromBase
<1>7. ToEnd(sg, g)
  BY <1>1, <1>2 DEF Tiled, ToEnd
<1> QED
  BY <1>3, <1>4, <1>5, <1>6, <1>7 DEF Tiled

\* A block is cut in two: what alloc_found_block does.
LEMMA SplitTiled ==
  ASSUME NEW sg, NEW h, Tiled(sg, h),
         NEW p \in DOMAIN h, NEW n \in Nat, 0 < n, n < h[p].size,
         NEW front \in Block, NEW rest \in Block,
         front.seg = h[p].seg, front.stream = h[p].stream, front.small = h[p].small,
         rest.seg = h[p].seg, rest.stream = h[p].stream, rest.small = h[p].small
  PROVE  /\ p + n \notin DOMAIN h
         /\ Tiled(sg, SplitOff(h, p, n, front, rest))
<1> DEFINE g == SplitOff(h, p, n, front, rest)
<1>0. /\ HeapType(h) /\ p \in Nat /\ h[p].size \in Nat
      /\ p + n # p /\ p + n \in Nat /\ p < p + n /\ p + n < End(h, p)
  BY BlockType DEF Tiled, End
<1>1. p + n \notin DOMAIN h
  <2>1. p + n \in DOMAIN h => End(h, p) <= p + n
    BY <1>0 DEF Tiled, Apart
  <2> QED
    BY <2>1, <1>0, BlockType
<1>2. /\ DOMAIN g = DOMAIN h \cup {p + n}
      /\ g[p] = [front EXCEPT !.size = n]
      /\ g[p + n] = [rest EXCEPT !.size = h[p].size - n]
      /\ \A x \in DOMAIN h : x # p => g[x] = h[x]
  BY <1>0, <1>1 DEF SplitOff
<1> HIDE DEF g
<1>3. /\ g[p].size = n /\ g[p + n].size = h[p].size - n
      /\ g[p].seg = h[p].seg /\ g[p + n].seg = h[p].seg
      /\ g[p].stream = h[p].stream /\ g[p + n].stream = h[p].stream
      /\ g[p].small = h[p].small /\ g[p + n].small = h[p].small
  BY <1>2 DEF Block
<1>4. /\ End(g, p) = p + n /\ End(g, p + n) = End(h, p)
      /\ \A x \in DOMAIN h : x # p => End(g, x) = End(h, x)
  BY <1>0, <1>2, <1>3 DEF End
<1>5. \A x \in DOMAIN h : g[x].seg = h[x].seg /\ g[x].stream = h[x].stream /\ g[x].small = h[x].small
  BY <1>2, <1>3
<1>6. HeapType(g)
  <2>1. g[p] \in Block /\ g[p + n] \in Block
    BY <1>0, <1>2 DEF Block
  <2>2. \A x \in DOMAIN g : x \in Nat /\ g[x] \in Block
    BY <2>1, <1>0, <1>2 DEF HeapType
  <2>3. g = [x \in DOMAIN g |-> g[x]]
    BY DEF g, SplitOff
  <2> QED
    BY <2>2, <2>3 DEF HeapType
<1>7. \A a \in DOMAIN sg : a \in DOMAIN g /\ g[a].seg = a
  BY <1>2, <1>5 DEF Tiled
<1>8. \A x \in DOMAIN g : InSegment(sg, g, x)
  <2> SUFFICES ASSUME NEW x \in DOMAIN g PROVE InSegment(sg, g, x)
    OBVIOUS
  <2>0. /\ InSegment(sg, h, p) /\ h[p].seg \in DOMAIN h
        /\ h[p].seg \in Nat /\ sg[h[p].seg] \in Nat
    BY <1>0 DEF Tiled, InSegment
  <2>1. CASE x = p
    BY <2>0, <2>1, <1>0, <1>3, <1>4, <1>5 DEF InSegment, End
  <2>2. CASE x = p + n
    BY <2>0, <2>2, <1>0, <1>3, <1>4, <1>5 DEF InSegment
  <2>3. CASE x # p /\ x # p + n
    <3>1. InSegment(sg, h, x) /\ x \in DOMAIN h /\ h[x].seg \in DOMAIN h
      BY <2>3, <1>2 DEF Tiled, InSegment
    <3> QED
      BY <3>1, <2>3, <1>4, <1>5 DEF InSegment
  <2> QED
    BY <2>1, <2>2, <2>3
<1>9. Apart(g)
  <2> SUFFICES ASSUME NEW x \in DOMAIN g, NEW y \in DOMAIN g, x < y
               PROVE  End(g, x) <= y
    BY DEF Apart
  <2>1. \A u, v \in DOMAIN h : u < v => End(h, u) <= v
    BY DEF Tiled, Apart
  <2>2. \A u \in DOMAIN h : u \in Nat /\ End(h, u) \in Nat
    BY <1>0, BlockType
  <2>3. CASE x = p
    BY <2>1, <2>2, <2>3, <1>0, <1>2, <1>4
  <2>4. CASE x = p + n
    BY <2>1, <2>2, <2>4, <1>0, <1>2, <1>4
  <2>5. CASE x # p /\ x # p + n
    BY <2>1, <2>2, <2>5, <1>0, <1>2, <1>4
  <2> QED
    BY <2>3, <2>4, <2>5
<1>10. FromBase(g)
  <2> SUFFICES ASSUME NEW y \in DOMAIN g, y # g[y].seg
               PROVE  \E z \in DOMAIN g : Linked(g, z, y)
    BY DEF FromBase
  <2>1. CASE y = p + n
    <3>1. Linked(g, p, y)
      BY <2>1, <1>3, <1>4 DEF Linked
    <3> QED
      BY <3>1, <1>2
  <2>2. CASE y # p + n
    <3>1. PICK z \in DOMAIN h : Linked(h, z, y)
      BY <2>2, <1>2, <1>5 DEF Tiled, FromBase
    <3>2. CASE z = p
      <4>1. Linked(g, p + n, y)
        BY <3>1, <3>2, <2>2, <1>2, <1>3, <1>4, <1>5 DEF Linked
      <4> QED
        BY <4>1, <1>2
    <3>3. CASE z # p
      <4>1. Linked(g, z, y)
        BY <3>1, <3>3, <2>2, <1>2, <1>4, <1>5 DEF Linked
      <4> QED
        BY <4>1, <1>2
    <3> QED
      BY <3>2, <3>3
  <2> QED
    BY <2>1, <2>2
<1>11. ToEnd(sg, g)
  <2> SUFFICES ASSUME NEW x \in DOMAIN g, End(g, x) # g[x].seg + sg[g[x].seg]
               PROVE  End(g, x) \in DOMAIN g /\ Linked(g, x, End(g, x))
    BY DEF ToEnd
  <2>1. CASE x = p
    BY <2>1, <1>2, <1>3, <1>4 DEF Linked
  <2>2. CASE x = p + n
    <3>1. End(h, p) \in DOMAIN h /\ Linked(h, p, End(h, p))
      BY <2>2, <1>3, <1>4 DEF Tiled, ToEnd
    <3> QED
      BY <3>1, <2>2, <1>2, <1>3, <1>4, <1>5 DEF Linked
  <2>3. CASE x # p /\ x # p + n
    <3>1. End(h, x) \in DOMAIN h /\ Linked(h, x, End(h, x))
      BY <2>3, <1>2, <1>4, <1>5 DEF Tiled, ToEnd
    <3> QED
      BY <3>1, <2>3, <1>2, <1>4, <1>5 DEF Linked
  <2> QED
    BY <2>1, <2>2, <2>3
<1>12. Tiled(sg, g)
  BY <1>6, <1>7, <1>8, <1>9, <1>10, <1>11 DEF Tiled
<1> QED
  BY <1>1, <1>12 DEF g

\* A segment is added where no other is, as one block.
LEMMA NewTiled ==
  ASSUME NEW sg, NEW h, Tiled(sg, h),
         NEW base \in Nat, NEW size \in Nat, size > 0,
         \A a \in DOMAIN sg : a + sg[a] <= base \/ base + size <= a,
         NEW b \in Block, b.size = size, b.seg = base
  PROVE  /\ base \notin DOMAIN h
         /\ Tiled([a \in DOMAIN sg \cup {base} |-> IF a = base THEN size ELSE sg[a]],
                  [x \in DOMAIN h \cup {base} |-> IF x = base THEN b ELSE h[x]])
<1> DEFINE t == [a \in DOMAIN sg \cup {base} |-> IF a = base THEN size ELSE sg[a]]
           g == [x \in DOMAIN h \cup {base} |-> IF x = base THEN b ELSE h[x]]
<1>0. /\ HeapType(h)
      /\ \A x \in DOMAIN h : /\ x \in Nat /\ h[x].size \in Nat /\ h[x].size > 0
                             /\ End(h, x) \in Nat /\ End(h, x) > x
                             /\ h[x].seg \in Nat /\ h[x].seg \in DOMAIN sg
                             /\ sg[h[x].seg] \in Nat /\ InSegment(sg, h, x)
  BY BlockType DEF Tiled, InSegment
<1>1. \A x \in DOMAIN h : End(h, x) <= base \/ base + size <= x
  BY <1>0 DEF InSegment
<1>2. base \notin DOMAIN h
  BY <1>0, <1>1
<1>3. base \notin DOMAIN sg
  BY <1>2 DEF Tiled
<1>4. /\ DOMAIN g = DOMAIN h \cup {base} /\ g[base] = b
      /\ \A x \in DOMAIN h : g[x] = h[x]
      /\ End(g, base) = base + size
      /\ \A x \in DOMAIN h : End(g, x) = End(h, x)
  BY <1>2 DEF End
<1>5. /\ DOMAIN t = DOMAIN sg \cup {base} /\ t[base] = size
      /\ \A a \in DOMAIN sg : t[a] = sg[a]
  BY <1>3
<1>6. DOMAIN t \subseteq Nat /\ t \in [DOMAIN t -> Nat]
  BY DEF Tiled
<1>7. HeapType(g)
  BY <1>0 DEF HeapType
<1> HIDE DEF t, g
<1>8. \A a \in DOMAIN t : a \in DOMAIN g /\ g[a].seg = a
  BY <1>4, <1>5 DEF Tiled
<1>9. \A x \in DOMAIN g : InSegment(t, g, x)
  <2> SUFFICES ASSUME NEW x \in DOMAIN g PROVE InSegment(t, g, x)
    OBVIOUS
  <2>1. CASE x = base
    BY <2>1, <1>4, <1>5 DEF InSegment
  <2>2. CASE x # base
    <3>1. x \in DOMAIN h /\ InSegment(sg, h, x) /\ h[x].seg \in DOMAIN h
      BY <2>2, <1>4 DEF Tiled, InSegment
    <3> QED
      BY <3>1, <1>4, <1>5 DEF InSegment
  <2> QED
    BY <2>1, <2>2
<1>10. Apart(g)
  <2> SUFFICES ASSUME NEW x \in DOMAIN g, NEW y \in DOMAIN g, x < y
               PROVE  End(g, x) <= y
    BY DEF Apart
  <2>1. CASE x = base \/ y = base
    BY <2>1, <1>0, <1>1, <1>4
  <2>2. CASE x # base /\ y # base
    BY <2>2, <1>4 DEF Tiled, Apart
  <2> QED
    BY <2>1, <2>2
<1>11. FromBase(g)
  <2> SUFFICES ASSUME NEW y \in DOMAIN g, y # g[y].seg
               PROVE  \E z \in DOMAIN g : Linked(g, z, y)
    BY DEF FromBase
  <2>1. y \in DOMAIN h /\ y # h[y].seg
    BY <1>4
  <2>2. PICK z \in DOMAIN h : Linked(h, z, y)
    BY <2>1 DEF Tiled, FromBase
  <2>3. Linked(g, z, y)
    BY <2>1, <2>2, <1>4 DEF Linked
  <2> QED
    BY <2>3, <1>4
<1>12. ToEnd(t, g)
  <2> SUFFICES ASSUME NEW x \in DOMAIN g, End(g, x) # g[x].seg + t[g[x].seg]
               PROVE  End(g, x) \in DOMAIN g /\ Linked(g, x, End(g, x))
    BY DEF ToEnd
  <2>1. x \in DOMAIN h /\ End(h, x) # h[x].seg + sg[h[x].seg]
    BY <1>0, <1>4, <1>5
  <2>2. End(h, x) \in DOMAIN h /\ Linked(h, x, End(h, x))
    BY <2>1 DEF Tiled, ToEnd
  <2> QED
    BY <2>1, <2>2, <1>4 DEF Linked
<1>13. Tiled(t, g)
  BY <1>6, <1>7, <1>8, <1>9, <1>10, <1>11, <1>12 DEF Tiled
<1> QED
  BY <1>2, <1>13 DEF t, g

\* A segment that is one block goes: what release_block does.
LEMMA ReleaseTiled ==
  ASSUME NEW sg, NEW h, Tiled(sg, h), NEW p \in DOMAIN h, Whole(sg, h, p)
  PROVE  Tiled([a \in DOMAIN sg \ {p} |-> sg[a]], [x \in DOMAIN h \ {p} |-> h[x]])
<1> DEFINE t == [a \in DOMAIN sg \ {p} |-> sg[a]]
           g == [x \in DOMAIN h \ {p} |-> h[x]]
<1>0. HeapType(h)
  BY DEF Tiled
<1>1. \A x \in DOMAIN h : h[x].seg = p => x = p
  <2> SUFFICES ASSUME NEW x \in DOMAIN h, h[x].seg = p, x # p PROVE FALSE
    OBVIOUS
  <2>1. /\ p \in Nat /\ x \in Nat /\ End(h, x) \in Nat /\ End(h, x) > x
        /\ h[p].size \in Nat
    BY <1>0, BlockType
  <2>2. p <= x /\ End(h, x) <= p + sg[p]
    BY DEF Tiled, InSegment
  <2>3. End(h, p) <= x
    BY <2>1, <2>2 DEF Tiled, Apart
  <2> QED
    BY <2>1, <2>2, <2>3 DEF Whole, End
<1>2. /\ DOMAIN g = DOMAIN h \ {p} /\ \A x \in DOMAIN g : g[x] = h[x]
      /\ \A x \in DOMAIN g : End(g, x) = End(h, x)
  BY DEF End
<1>3. DOMAIN t = DOMAIN sg \ {p} /\ \A a \in DOMAIN t : t[a] = sg[a]
  OBVIOUS
<1>4. DOMAIN t \subseteq Nat /\ t \in [DOMAIN t -> Nat]
  BY DEF Tiled
<1>5. HeapType(g)
  BY <1>0 DEF HeapType
<1> HIDE DEF t, g
<1>6. \A a \in DOMAIN t : a \in DOMAIN g /\ g[a].seg = a
  BY <1>2, <1>3 DEF Tiled
<1>7. \A x \in DOMAIN g : InSegment(t, g, x)
  <2> SUFFICES ASSUME NEW x \in DOMAIN g PROVE InSegment(t, g, x)
    OBVIOUS
  <2>1. x \in DOMAIN h /\ InSegment(sg, h, x) /\ h[x].seg # p /\ h[x].seg \in DOMAIN h
    BY <1>1, <1>2 DEF Tiled, InSegment
  <2> QED
    BY <2>1, <1>2, <1>3 DEF InSegment
<1>8. Apart(g)
  BY <1>2 DEF Tiled, Apart
<1>9. FromBase(g)
  <2> SUFFICES ASSUME NEW y \in DOMAIN g, y # g[y].seg
               PROVE  \E z \in DOMAIN g : Linked(g, z, y)
    BY DEF FromBase
  <2>1. PICK z \in DOMAIN h : Linked(h, z, y)
    BY <1>2 DEF Tiled, FromBase
  <2>2. z # p
    BY <2>1, <1>1, <1>2 DEF Linked, Whole
  <2> QED
    BY <2>1, <2>2, <1>2 DEF Linked
<1>10. ToEnd(t, g)
  <2> SUFFICES ASSUME NEW x \in DOMAIN g, End(g, x) # g[x].seg + t[g[x].seg]
               PROVE  End(g, x) \in DOMAIN g /\ Linked(g, x, End(g, x))
    BY DEF ToEnd
  <2>1. x \in DOMAIN h /\ h[x].seg # p /\ h[x].seg \in DOMAIN sg
    BY <1>1, <1>2 DEF Tiled, InSegment
  <2>2. End(h, x) \in DOMAIN h /\ Linked(h, x, End(h, x))
    BY <2>1, <1>2, <1>3 DEF Tiled, ToEnd
  <2>3. End(h, x) # p
    BY <2>1, <2>2 DEF Linked, Whole
  <2> QED
    BY <2>2, <2>3, <1>2 DEF Linked
<1> QED
  <2>1. Tiled(t, g)
    BY <1>4, <1>5, <1>6, <1>7, <1>8, <1>9, <1>10 DEF Tiled
  <2> QED
    BY <2>1 DEF t, g

\* A block that is a whole segment has no neighbours.
LEMMA WholeAlone ==
  ASSUME NEW sg, NEW h, Tiled(sg, h), NEW p \in DOMAIN h, Whole(sg, h, p)
  PROVE  ~IsSplit(h, p)
<1> SUFFICES ASSUME NEW q \in DOMAIN h, Linked(h, p, q) \/ Linked(h, q, p)
             PROVE  FALSE
  BY DEF IsSplit, PrevSet, NextSet
<1>1. /\ p \in Nat /\ q \in Nat /\ h[p].size \in Nat /\ h[p].size > 0
      /\ End(h, q) \in Nat /\ End(h, q) > q /\ h[q].seg = p
  BY BlockType DEF Tiled, Linked, Whole
<1>2. p <= q /\ End(h, q) <= p + sg[p]
  BY <1>1 DEF Tiled, InSegment
<1> QED
  BY <1>1, <1>2 DEF Whole, Linked, End

\* Block.prev is a pointer: at most one block ends where another begins.
LEMMA OnePrev ==
  ASSUME NEW h, HeapType(h), Apart(h), NEW p \in DOMAIN h,
         NEW q \in PrevSet(h, p), NEW r \in PrevSet(h, p)
  PROVE  q = r
<1>1. q \in DOMAIN h /\ r \in DOMAIN h /\ End(h, q) = p /\ End(h, r) = p
  BY DEF PrevSet, Linked
<1> QED
  BY <1>1, BlockType DEF Apart

\* g is h after d has subsumed the blocks gone, and is now the block at q.
Joins(sg, h, d, g, q, gone) ==
  /\ Tiled(sg, g)
  /\ q \in DOMAIN g
  /\ DOMAIN g = (DOMAIN h \ (gone \cup {d})) \cup {q}
  /\ \A x \in DOMAIN g : /\ x # q => g[x] = h[x]
                         /\ Whole(sg, h, x) => g[x].size = h[x].size
  /\ g[q] = [h[d] EXCEPT !.size = g[q].size]
  /\ g[q].size >= h[d].size

\* try_merge_blocks with the previous neighbour.
LEMMA MergePrevJoins ==
  ASSUME NEW sg, NEW h, Tiled(sg, h), NEW d \in DOMAIN h
  PROVE  /\ Joins(sg, h, d, MergePrev(h, d), Lead(h, d), SubsumedPrev(h, d))
         /\ Lead(h, d) <= d
         /\ End(MergePrev(h, d), Lead(h, d)) = End(h, d)
<1> DEFINE q == Lead(h, d)
           g == MergePrev(h, d)
<1>0. /\ HeapType(h) /\ Apart(h) /\ d \in Nat /\ h[d] \in Block /\ h[d].size \in Nat
  BY BlockType DEF Tiled
<1>1. CASE SubsumedPrev(h, d) = {}
  <2>1. g = h /\ q = d
    BY <1>1 DEF MergePrev, Lead
  <2>2. h[d] = [h[d] EXCEPT !.size = h[d].size]
    BY <1>0 DEF Block
  <2> QED
    BY <2>1, <2>2, <1>0, <1>1 DEF Joins
<1>2. CASE SubsumedPrev(h, d) # {}
  <2>1. q \in SubsumedPrev(h, d)
    BY <1>2 DEF Lead
  <2>2. q \in DOMAIN h /\ Linked(h, q, d)
    BY <2>1 DEF SubsumedPrev, PrevSet
  <2>3. SubsumedPrev(h, d) = {q}
    BY <2>1, <1>0, OnePrev DEF SubsumedPrev
  <2> DEFINE b == [h[d] EXCEPT !.size = h[q].size + @]
  <2>4. g = [x \in DOMAIN h \ {d} |-> IF x = q THEN b ELSE h[x]]
    BY <1>2 DEF MergePrev
  <2>5. h[q] \in Block /\ q \in Nat /\ h[q].size \in Nat /\ h[q].size > 0 /\ q + h[q].size = d
        /\ q < d /\ h[q].seg = h[d].seg
    BY <1>0, <2>2, BlockType DEF Linked, End
  <2>6. b.size = h[q].size + h[d].size /\ b \in Block
    BY <2>5, <1>0 DEF Block
  <2>7. b.seg = h[q].seg /\ b.stream = h[d].stream /\ b.small = h[d].small
    BY <2>5, <1>0 DEF Block
  <2>8. h[d].stream = h[q].stream /\ h[d].small = h[q].small
    BY <2>2, <2>5 DEF Tiled, InSegment
  <2> HIDE DEF q, b, g
  <2>9. Tiled(sg, g)
    BY <2>2, <2>4, <2>6, <2>7, <2>8, JoinTiled
  <2>10. /\ DOMAIN g = DOMAIN h \ {d} /\ q \in DOMAIN g /\ g[q] = b
         /\ \A x \in DOMAIN g : x # q => g[x] = h[x]
    BY <2>2, <2>4, <2>5
  <2>11. b = [h[d] EXCEPT !.size = b.size]
    BY <2>6, <1>0 DEF b, Block
  <2>12. ~Whole(sg, h, q)
    BY <2>2, WholeAlone DEF IsSplit, NextSet
  <2>13. End(g, q) = End(h, d)
    BY <2>5, <2>6, <2>10, <1>0 DEF End
  <2> QED
    BY <2>3, <2>5, <2>6, <2>9, <2>10, <2>11, <2>12, <2>13, <1>0 DEF q, g, Joins
<1> QED
  BY <1>1, <1>2

\* try_merge_blocks with the next neighbour.
LEMMA MergeNextJoins ==
  ASSUME NEW sg, NEW h, Tiled(sg, h), NEW d \in DOMAIN h
  PROVE  Joins(sg, h, d, MergeNext(h, d), d, SubsumedNext(h, d))
<1> DEFINE g == MergeNext(h, d)
<1>0. /\ HeapType(h) /\ Apart(h) /\ d \in Nat /\ h[d] \in Block /\ h[d].size \in Nat
  BY BlockType DEF Tiled
<1>1. CASE SubsumedNext(h, d) = {}
  <2>1. g = h
    BY <1>1 DEF MergeNext
  <2>2. h[d] = [h[d] EXCEPT !.size = h[d].size]
    BY <1>0 DEF Block
  <2> QED
    BY <2>1, <2>2, <1>0, <1>1 DEF Joins
<1>2. CASE SubsumedNext(h, d) # {}
  <2> DEFINE q == CHOOSE r \in SubsumedNext(h, d) : TRUE
  <2>1. q \in SubsumedNext(h, d)
    BY <1>2
  <2> DEFINE b == [h[d] EXCEPT !.size = @ + h[q].size]
  <2>2. g = [x \in DOMAIN h \ {q} |-> IF x = d THEN b ELSE h[x]]
    BY <1>2 DEF MergeNext
  <2> HIDE DEF q
  <2>3. q \in DOMAIN h /\ Linked(h, d, q) /\ q = End(h, d)
    BY <2>1 DEF SubsumedNext, NextSet, Linked
  <2>4. SubsumedNext(h, d) = {q}
    BY <2>1, <2>3 DEF SubsumedNext, NextSet, Linked
  <2>5. h[q] \in Block /\ q \in Nat /\ h[q].size \in Nat /\ h[q].size > 0 /\ d < q
    BY <1>0, <2>3, BlockType
  <2>6. /\ b.size = h[d].size + h[q].size /\ b \in Block
        /\ b.seg = h[d].seg /\ b.stream = h[d].stream /\ b.small = h[d].small
    BY <2>5, <1>0 DEF Block
  <2> HIDE DEF b, g
  <2>7. Tiled(sg, g)
    BY <2>3, <2>2, <2>6, JoinTiled
  <2>8. /\ DOMAIN g = DOMAIN h \ {q} /\ d \in DOMAIN g /\ g[d] = b
         /\ \A x \in DOMAIN g : x # d => g[x] = h[x]
    BY <2>3, <2>2, <2>5
  <2>9. b = [h[d] EXCEPT !.size = b.size]
    BY <2>6, <1>0 DEF b, Block
  <2>10. ~Whole(sg, h, d)
    BY <2>3, WholeAlone DEF IsSplit, NextSet
  <2> QED
    BY <2>4, <2>5, <2>6, <2>7, <2>8, <2>9, <2>10, <1>0 DEF g, Joins
<1> QED
  BY <1>1, <1>2

\* A subsumed block is another one, and nobody holds it or waits for it.
LEMMA SubsumedAlone ==
  ASSUME NEW sg, NEW h, Tiled(sg, h), NEW d \in DOMAIN h, NEW r \in Subsumed(h, d)
  PROVE  /\ r \in DOMAIN h /\ r # d /\ ~h[r].allocated /\ h[r].events = 0
         /\ h[r].mapped = h[d].mapped
<1>1. /\ r \in DOMAIN h /\ (Linked(h, r, d) \/ Linked(h, d, r))
      /\ ~h[r].allocated /\ h[r].events = 0 /\ h[r].mapped = h[d].mapped
  BY DEF Subsumed, SubsumedPrev, SubsumedNext, PrevSet, NextSet, Mergeable
<1>2. r # d
  BY <1>1, BlockType DEF Tiled, Linked
<1> QED
  BY <1>1, <1>2

\* Merging with the previous neighbour changes nothing for the next one.
LEMMA NextAfterPrev ==
  ASSUME NEW sg, NEW h, Tiled(sg, h), NEW d \in DOMAIN h
  PROVE  /\ SubsumedNext(MergePrev(h, d), Lead(h, d)) = SubsumedNext(h, d)
         /\ \A r \in SubsumedNext(h, d) : MergePrev(h, d)[r] = h[r]
<1> DEFINE g == MergePrev(h, d)
           q == Lead(h, d)
<1>0. /\ HeapType(h) /\ d \in Nat /\ End(h, d) \in Nat /\ End(h, d) > d
      /\ h[d] \in Block /\ h[d].size \in Nat
  BY BlockType DEF Tiled
<1>1. /\ Joins(sg, h, d, g, q, SubsumedPrev(h, d))
      /\ q <= d
      /\ End(g, q) = End(h, d)
  BY MergePrevJoins
<1> HIDE DEF g, q
<1>2. /\ q \in Nat /\ g[q] \in Block /\ g[q].size \in Nat
      /\ g[q].seg = h[d].seg /\ g[q].mapped = h[d].mapped
  <2>1. g[q] \in Block /\ q \in Nat /\ g[q].size \in Nat
    BY <1>1, BlockType DEF Tiled, Joins
  <2> QED
    BY <2>1, <1>1, <1>0 DEF Block, Joins
<1>3. \A r \in SubsumedPrev(h, d) : r \in DOMAIN h /\ End(h, r) = d
  BY DEF SubsumedPrev, PrevSet, Linked
<1>4. \A r \in SubsumedPrev(h, d) : r < d
  BY <1>3, <1>0, BlockType
<1>5. ASSUME NEW r, r = End(h, d)
      PROVE  /\ r \in DOMAIN g <=> r \in DOMAIN h
             /\ r \in DOMAIN g => g[r] = h[r]
  BY <1>4, <1>5, <1>0, <1>1, <1>2 DEF Joins
<1>6. ASSUME NEW r \in SubsumedNext(g, q) PROVE r \in SubsumedNext(h, d)
  <2>1. r \in DOMAIN g /\ r = End(h, d) /\ g[q].seg = g[r].seg /\ Mergeable(g, q, r)
    BY <1>6, <1>1 DEF SubsumedNext, NextSet, Linked
  <2> QED
    BY <2>1, <1>5, <1>2 DEF SubsumedNext, NextSet, Linked, Mergeable
<1>7. ASSUME NEW r \in SubsumedNext(h, d) PROVE r \in SubsumedNext(g, q) /\ g[r] = h[r]
  <2>1. r \in DOMAIN h /\ r = End(h, d) /\ h[d].seg = h[r].seg /\ Mergeable(h, d, r)
    BY <1>7 DEF SubsumedNext, NextSet, Linked
  <2> QED
    BY <2>1, <1>5, <1>1, <1>2 DEF SubsumedNext, NextSet, Linked, Mergeable
<1> QED
  BY <1>6, <1>7 DEF g, q

\* free_block: both merges, one after the other, keep the heap tiled.
LEMMA CoalesceJoins ==
  ASSUME NEW sg, NEW h, Tiled(sg, h), NEW d \in DOMAIN h
  PROVE  /\ Joins(sg, h, d, Coalesce(h, d), Lead(h, d), Subsumed(h, d))
         /\ Lead(h, d) \in Subsumed(h, d) \cup {d}
<1> DEFINE g == MergePrev(h, d)
           q == Lead(h, d)
           c == Coalesce(h, d)
<1>0. /\ HeapType(h) /\ d \in Nat /\ End(h, d) \in Nat /\ End(h, d) > d
      /\ h[d] \in Block /\ h[d].size \in Nat
  BY BlockType DEF Tiled
<1>1. /\ Joins(sg, h, d, g, q, SubsumedPrev(h, d))
      /\ q <= d
      /\ End(g, q) = End(h, d)
  BY MergePrevJoins
<1>2. q \in SubsumedPrev(h, d) \cup {d}
  BY DEF Lead
<1>3. Joins(sg, g, q, c, q, SubsumedNext(g, q))
  BY <1>1, MergeNextJoins DEF Coalesce, Joins
<1> HIDE DEF g, q, c
<1>4. /\ q \in Nat /\ g[q] \in Block /\ g[q].size \in Nat
      /\ g[q].seg = h[d].seg /\ g[q].mapped = h[d].mapped
  <2>1. g[q] \in Block /\ q \in Nat /\ g[q].size \in Nat
    BY <1>1, BlockType DEF Tiled, Joins
  <2> QED
    BY <2>1, <1>1, <1>0 DEF Block, Joins
<1>5. SubsumedNext(g, q) = SubsumedNext(h, d)
  BY NextAfterPrev DEF g, q
<1>6. c[q] \in Block /\ c[q].size \in Nat
  BY <1>3, BlockType DEF Tiled, Joins
<1>7. c[q] = [h[d] EXCEPT !.size = c[q].size]
  BY <1>0, <1>1, <1>3, <1>4, <1>6 DEF Block, Joins
<1>8. \A x \in DOMAIN c : Whole(sg, h, x) => c[x].size = h[x].size
  <2> SUFFICES ASSUME NEW x \in DOMAIN c, Whole(sg, h, x)
               PROVE  c[x].size = h[x].size
    OBVIOUS
  <2>1. x \in DOMAIN g /\ g[x].size = h[x].size
    BY <1>1, <1>3 DEF Joins
  <2>2. g[x].seg = h[x].seg
    <3>1. CASE x = q
      <4>1. q \in DOMAIN h /\ h[q].seg = h[d].seg
        BY <1>2 DEF SubsumedPrev, PrevSet, Linked
      <4> QED
        BY <3>1, <4>1, <1>4
    <3>2. CASE x # q
      BY <3>2, <2>1, <1>1 DEF Joins
    <3> QED
      BY <3>1, <3>2
  <2> QED
    BY <2>1, <2>2, <1>3 DEF Whole, Joins
<1>9. c[q].size >= h[d].size
  BY <1>0, <1>1, <1>3, <1>4, <1>6 DEF Joins
<1>10. DOMAIN c = (DOMAIN h \ (Subsumed(h, d) \cup {d})) \cup {q}
  BY <1>1, <1>3, <1>5 DEF Subsumed, Joins
<1>11. \A x \in DOMAIN c : x # q => c[x] = h[x]
  BY <1>1, <1>3 DEF Joins
<1> QED
  BY <1>2, <1>3, <1>7, <1>8, <1>9, <1>10, <1>11 DEF q, c, Subsumed, Joins

\* Where the merged block begins and ends.
LEMMA CoalesceExtent ==
  ASSUME NEW sg, NEW h, Tiled(sg, h), NEW d \in DOMAIN h
  PROVE  /\ Lead(h, d) = d \/ (Lead(h, d) \in Subsumed(h, d) /\ End(h, Lead(h, d)) = d)
         /\ \A r \in Subsumed(h, d) : r = Lead(h, d) \/ r = End(h, d)
         /\ \/ /\ End(h, d) \in Subsumed(h, d)
               /\ End(Coalesce(h, d), Lead(h, d)) = End(h, End(h, d))
            \/ /\ End(h, d) \notin Subsumed(h, d)
               /\ End(Coalesce(h, d), Lead(h, d)) = End(h, d)
<1> DEFINE g == MergePrev(h, d)
           q == Lead(h, d)
           c == Coalesce(h, d)
<1>0. /\ HeapType(h) /\ Apart(h) /\ d \in Nat /\ End(h, d) \in Nat /\ End(h, d) > d
  BY BlockType DEF Tiled
<1>1. Joins(sg, h, d, g, q, SubsumedPrev(h, d)) /\ End(g, q) = End(h, d)
  BY MergePrevJoins
<1>2. /\ c = MergeNext(g, q) /\ SubsumedNext(g, q) = SubsumedNext(h, d)
      /\ \A r \in SubsumedNext(h, d) : g[r] = h[r]
  BY NextAfterPrev DEF Coalesce
<1>3. \A r \in SubsumedPrev(h, d) : r \in DOMAIN h /\ End(h, r) = d /\ r \in PrevSet(h, d)
  BY DEF SubsumedPrev, PrevSet, Linked
<1>4. \A r \in SubsumedNext(h, d) : r \in DOMAIN h /\ r = End(h, d)
  BY DEF SubsumedNext, NextSet, Linked
<1>5. q = d \/ q \in SubsumedPrev(h, d)
  BY DEF Lead
<1>6. \A r \in SubsumedPrev(h, d) : r = q
  <2> SUFFICES ASSUME NEW r \in SubsumedPrev(h, d) PROVE r = q
    OBVIOUS
  <2>1. q \in SubsumedPrev(h, d)
    BY DEF Lead
  <2> QED
    BY <2>1, <1>0, <1>3, OnePrev
<1>7. \A r \in SubsumedPrev(h, d) : r < d
  BY <1>3, <1>0, BlockType
<1> HIDE DEF g, q, c
<1>8. g[q].size \in Nat /\ q \in Nat
  BY <1>1, BlockType DEF Joins, Tiled
<1>9. CASE SubsumedNext(h, d) = {}
  <2>1. c = g
    BY <1>2, <1>9 DEF MergeNext
  <2>2. End(h, d) \notin Subsumed(h, d)
    BY <1>0, <1>7, <1>9 DEF Subsumed
  <2> QED
    BY <2>1, <2>2, <1>1, <1>3, <1>5, <1>6, <1>9 DEF Subsumed, q, c
<1>10. CASE SubsumedNext(h, d) # {}
  <2> DEFINE r == CHOOSE r \in SubsumedNext(g, q) : TRUE
  <2>1. r \in SubsumedNext(h, d)
    BY <1>2, <1>10
  <2>2. c = [x \in DOMAIN g \ {r} |->
               IF x = q THEN [g[q] EXCEPT !.size = @ + g[r].size] ELSE g[x]]
    BY <1>2, <1>10 DEF MergeNext
  <2> HIDE DEF r
  <2>3. r = End(h, d) /\ r \in DOMAIN h /\ g[r] = h[r] /\ h[r].size \in Nat
    BY <2>1, <1>0, <1>2, <1>4, BlockType
  <2>4. q # r
    BY <2>3, <1>0, <1>5, <1>7
  <2>5. q \in DOMAIN g /\ g[q] \in Block
    BY <1>1, BlockType DEF Joins, Tiled
  <2>6. c[q].size = g[q].size + h[r].size
    BY <2>2, <2>3, <2>4, <2>5 DEF Block
  <2>7. End(c, q) = End(h, r)
    BY <2>6, <2>3, <1>1, <1>8 DEF End
  <2> QED
    BY <2>1, <2>3, <2>7, <1>3, <1>4, <1>5, <1>6 DEF Subsumed, q, c
<1> QED
  BY <1>9, <1>10

\* try_merge_blocks leaves no two free neighbours that could be merged: if d is
\* the only one of its kind, F, that may have had a neighbour of its kind, then
\* after the merges none of that kind has.
LEMMA CoalesceSeparates ==
  ASSUME NEW sg, NEW h, Tiled(sg, h), NEW d \in DOMAIN h,
         NEW F, F \subseteq DOMAIN h, Subsumed(h, d) \subseteq F, d \notin F,
         \A x \in F : Mergeable(h, d, x),
         \A x, y \in F : ~Linked(h, x, y)
  PROVE  \A x, y \in (F \ Subsumed(h, d)) \cup {Lead(h, d)} :
           ~Linked(Coalesce(h, d), x, y)
<1> DEFINE c == Coalesce(h, d)
           q == Lead(h, d)
           gone == Subsumed(h, d)
           G == (F \ gone) \cup {q}
<1>1. Joins(sg, h, d, c, q, gone) /\ q \in gone \cup {d}
  BY CoalesceJoins
<1>2. ASSUME NEW x \in F, Linked(h, d, x) \/ Linked(h, x, d)
      PROVE  x \in gone
  BY <1>2 DEF Subsumed, SubsumedPrev, SubsumedNext, PrevSet, NextSet
<1>3. \A x \in gone : h[x].seg = h[d].seg /\ x \in DOMAIN h
  BY DEF Subsumed, SubsumedPrev, SubsumedNext, PrevSet, NextSet, Linked
<1>4. q \in DOMAIN h /\ h[q].seg = h[d].seg
  BY <1>1, <1>3
<1> HIDE DEF c, q, gone, G
<1>5. /\ DOMAIN c = (DOMAIN h \ (gone \cup {d})) \cup {q}
      /\ \A x \in DOMAIN c : x # q => c[x] = h[x]
      /\ Tiled(sg, c) /\ q \in DOMAIN c
  BY <1>1 DEF Joins
<1>6. c[q].seg = h[d].seg
  <2>1. c[q] = [h[d] EXCEPT !.size = c[q].size] /\ h[d] \in Block
    BY <1>1, BlockType DEF Joins, Tiled
  <2> QED
    BY <2>1 DEF Block
<1>7. ASSUME NEW x \in G, x # q
      PROVE  x \in F /\ x \in DOMAIN c /\ x \notin gone /\ c[x] = h[x]
  BY <1>5, <1>7 DEF G
<1>8. ASSUME NEW x \in G, x # q PROVE ~Linked(c, x, q)
  <2> SUFFICES ASSUME Linked(c, x, q) PROVE FALSE
    OBVIOUS
  <2>1. Linked(h, x, q)
    BY <1>4, <1>6, <1>7, <1>8 DEF Linked, End
  <2>2. q # d
    BY <2>1, <1>2, <1>7, <1>8
  <2> QED
    BY <2>1, <2>2, <1>1, <1>7, <1>8 DEF gone
<1>9. ASSUME NEW x \in G, x # q PROVE ~Linked(c, q, x)
  <2> SUFFICES ASSUME Linked(c, q, x) PROVE FALSE
    OBVIOUS
  <2>0. x \in DOMAIN h /\ h[x] = c[x] /\ x \in F
    BY <1>7, <1>9
  <2>1. x # h[x].seg
    <3>1. q \in Nat /\ c[q].size \in Nat /\ c[q].size > 0 /\ c[q].seg \in Nat /\ c[q].seg <= q
      BY <1>5, BlockType DEF Tiled, InSegment
    <3> QED
      BY <3>1, <2>0 DEF Linked, End
  <2>2. PICK y \in DOMAIN h : Linked(h, y, x)
    BY <2>0, <2>1 DEF Tiled, FromBase
  <2>3. CASE y = d
    BY <2>2, <2>3, <2>0, <1>2, <1>7, <1>9
  <2>4. CASE y \in gone
    BY <2>2, <2>4, <2>0 DEF gone
  <2>5. CASE y \notin gone \cup {d}
    <3>1. y \in DOMAIN c /\ y # q /\ c[y] = h[y]
      BY <2>5, <1>1, <1>5
    <3>2. y \in PrevSet(c, x) /\ q \in PrevSet(c, x)
      BY <3>1, <2>0, <2>2, <1>5 DEF PrevSet, Linked, End
    <3> QED
      BY <3>1, <3>2, <1>5, <1>7, <1>9, OnePrev DEF Tiled
  <2> QED
    BY <2>3, <2>4, <2>5
<1>10. ~Linked(c, q, q)
  BY <1>5, BlockType DEF Tiled, Linked
<1>11. ASSUME NEW x \in G, NEW y \in G PROVE ~Linked(c, x, y)
  <2>1. CASE x # q /\ y # q
    BY <2>1, <1>7 DEF Linked, End
  <2>2. CASE x = q \/ y = q
    BY <2>2, <1>8, <1>9, <1>10
  <2> QED
    BY <2>1, <2>2
<1> QED
  BY <1>11 DEF c, q, gone, G

-----------------------------------------------------------------------------
(* Addresses *)

\* A set of numbers has a least member.
LEMMA LeastMember ==
  ASSUME NEW S, S \subseteq Nat, S # {}
  PROVE  \E n \in S : \A m \in S : n <= m
<1>1. PICK n \in S : \A m \in S : ~(<<m, n>> \in OpToRel(<, Nat))
  BY NatLessThanWellFounded, WFMin, Zenon
<1>2. \A m \in S : ~(m < n)
  BY <1>1 DEF OpToRel
<1> QED
  BY <1>2

\* Every address of a segment lies in a block of it.
LEMMA Covered ==
  ASSUME NEW sg, NEW h, Tiled(sg, h), NEW a \in DOMAIN sg,
         NEW x \in Nat, a <= x, x < a + sg[a]
  PROVE  \E p \in DOMAIN h : h[p].seg = a /\ p <= x /\ x < End(h, p)
<1> DEFINE P == {p \in DOMAIN h : h[p].seg = a /\ p <= x}
           S == {x - p : p \in P}
<1>1. a \in P /\ P \subseteq Nat /\ \A p \in P : x - p \in Nat
  BY DEF Tiled, HeapType
<1>2. PICK n \in S : \A m \in S : n <= m
  <2>1. S \subseteq Nat /\ x - a \in S
    BY <1>1
  <2> QED
    BY <2>1, LeastMember
<1>3. PICK p \in P : n = x - p
  OBVIOUS
<1>4. \A q \in P : q <= p
  <2> SUFFICES ASSUME NEW q \in P PROVE q <= p
    OBVIOUS
  <2>1. x - p <= x - q
    BY <1>2, <1>3
  <2>2. p \in Nat /\ q \in Nat
    BY <1>1
  <2> QED
    BY <2>1, <2>2
<1>5. x < End(h, p)
  <2> SUFFICES ASSUME End(h, p) <= x PROVE FALSE
    BY BlockType DEF Tiled
  <2>1. End(h, p) \in Nat /\ p \in Nat /\ End(h, p) > p /\ p \in DOMAIN h /\ h[p].seg = a
    BY BlockType DEF Tiled
  <2>2. a \in Nat /\ sg[a] \in Nat
    BY DEF Tiled
  <2>3. End(h, p) # h[p].seg + sg[h[p].seg]
    BY <2>1, <2>2
  <2>4. End(h, p) \in P
    BY <2>1, <2>3 DEF Tiled, ToEnd, Linked
  <2> QED
    BY <2>1, <2>4, <1>4
<1> QED
  BY <1>5

=============================================================================
