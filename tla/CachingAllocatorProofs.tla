----------------------- MODULE CachingAllocatorProofs -----------------------
(***************************************************************************)
(* The safety of CachingAllocator, for every value of its constants.       *)
(*                                                                         *)
(* IInv, the inductive invariant, has four parts that need one another.    *)
(*   HeapInv   the segments are tiled by their blocks, and every block is  *)
(*             in exactly one place.  Giving back a segment is only safe   *)
(*             because what is given back is unsplit, and with a           *)
(*             max_split_size this needs a bound on what is ever split     *)
(*             (SplitBounded).                                             *)
(*   QueueInv  the queues of events agree with event_count, and the        *)
(*             unfinished work of a stream is that of the events which     *)
(*             have not completed, in order.  free_block needs it: the     *)
(*             block whose last event completes is active and nobody       *)
(*             holds it.                                                   *)
(*   CallInv   what the call in progress has found out is still true when  *)
(*             it is used: the block found, the blocks to be collected.    *)
(*   CountInv  the counters are numbers.                                   *)
(***************************************************************************)
EXTENDS CachingAllocator, BlockHeapProofs, FiniteSetTheorems, SequenceTheorems

\* The address ranges that have no memory behind them.
Unmapped == {p \in DOMAIN blocks : ~blocks[p].mapped}

\* A step that leaves them alone.
SameUnmapped ==
  /\ Unmapped' = Unmapped
  /\ \A p \in Unmapped : blocks'[p] = blocks[p]

\* A segment from memAlloc has none.
AllMapped == Unmapped = {}

\* The block malloc has found and not yet handed out.
Held == IF pc = "found" THEN {call.block} ELSE {}

\* A segment more than one MiB above the limit is never split, nor is a piece
\* of 1 MiB or less cut from a large one: what is cut is below the limit.
SplitBounded ==
  MaxSplitSize # None =>
    \A p \in DOMAIN blocks :
      ~blocks[p].small =>
        /\ blocks[p].size > kSmallSize
        /\ segments[blocks[p].seg] > MaxSplitSize + kMiB
             => Whole(segments, blocks, p)

\* Segments of the small pool are then small buffers.
SmallSegments ==
  MaxSplitSize # None =>
    \A p \in DOMAIN blocks :
      blocks[p].small => segments[blocks[p].seg] <= kSmallBuffer

HeapInv ==
  /\ Tiled(segments, blocks)
  /\ PoolsPartition
  /\ SplitBounded
  /\ SmallSegments

\* The steps at which malloc is still to return a block.
Searching ==
  {"process_events", "collect", "alloc", "obtain", "release_some", "realloc",
   "reobtain", "retry", "last_obtain", "map", "remap", "found"}

\* What the call in progress relies on.
CallInv ==
  /\ pc \in Steps
  /\ call \in Call
  /\ pc \in Searching => call.op = "malloc"
  /\ call.op = "malloc" => call.size > 0 /\ call.stream \in Streams
  /\ pc = "found" =>
       /\ call.block \in DOMAIN blocks
       /\ blocks[call.block].size >= call.size
       /\ blocks[call.block].stream = call.stream
       /\ blocks[call.block].small = IsSmall(call.size)
       /\ MaxSplitSize # None /\ ~IsSmall(call.size) /\ call.size < MaxSplitSize =>
            segments[blocks[call.block].seg] <= MaxSplitSize + kMiB

\* The streams with a queued event of p.
Queueing(p) == {s \in Streams : \E i \in DOMAIN npu_events[s] : npu_events[s][i] = p}

\* event_count is the number of queued events, all of them of active blocks.
EventsOfActive ==
  /\ \A p \in active :
       /\ blocks[p].events = Cardinality(Queueing(p))
       /\ blocks[p].allocated => blocks[p].events = 0
  /\ \A s \in Streams :
       /\ \A i, j \in DOMAIN npu_events[s] :
            npu_events[s][i] = npu_events[s][j] => i = j
       /\ \A i \in DOMAIN npu_events[s] : npu_events[s][i] \in active
       /\ completed[s] <= Len(npu_events[s])

\* The i-th piece of unfinished work is what the i-th outstanding event waits for.
WorkBehindEvents ==
  \A s \in Streams :
    /\ Len(work[s]) = Len(npu_events[s]) - completed[s]
    /\ \A i \in DOMAIN work[s] :
         /\ work[s][i].lo = npu_events[s][completed[s] + i]
         /\ work[s][i].hi = End(blocks, work[s][i].lo)

QueueInv ==
  /\ npu_events \in [Streams -> Seq(Nat)]
  /\ completed \in [Streams -> Nat]
  /\ work \in [Streams -> Seq(Extent)]
  /\ EventsOfActive
  /\ WorkBehindEvents

CountInv ==
  /\ unsynced \subseteq [lo : Nat, hi : Nat, stream : Streams]
  /\ total \in Int
  /\ allowed \in Nat \cup {None}
  /\ stats \in [BOOLEAN -> Stat]

\* What holds wherever segments come from.
SharedInv == HeapInv /\ QueueInv /\ CallInv /\ CountInv

\* What the steps of SegmentStep rely on.
SegmentCall ==
  /\ pc \notin {"map", "remap", "unmap"}
  /\ call.targets \subseteq IF pc = "collect" THEN Unsplit(FALSE) ELSE {}
  /\ pc = "release_some" => MaxSplitSize # None

IInv == SharedInv /\ AllMapped /\ SegmentCall

-----------------------------------------------------------------------------
(* Statistics: whatever is counted, they stay integers. *)

Stats == [BOOLEAN -> Stat]

\* free_block keeps the statistics integers.
LEMMA FreeBlockStatsType ==
  ASSUME NEW st \in Stats, NEW h, NEW p, h[p] \in Block,
         Coalesce(h, p)[Lead(h, p)].size \in Int
  PROVE  FreeBlockStats(st, h, p) \in Stats
<1>1. ASSUME NEW r \in Stat, NEW a \in Int, NEW b \in Int, NEW c \in Int, NEW d \in Int
      PROVE  [r EXCEPT !.active = a, !.active_bytes = b,
                       !.inactive_split = c, !.inactive_split_bytes = d] \in Stat
  BY DEF Stat
<1> DEFINE small == h[p].small
           r == st[small]
           merged == Coalesce(h, p)[Lead(h, p)].size
           subsumed == Bit(SubsumedPrev(h, p) # {}) + Bit(SubsumedNext(h, p) # {})
           split == IsSplit(Coalesce(h, p), Lead(h, p))
           c == IF ExpandableSegments THEN r.inactive_split ELSE r.inactive_split - subsumed + Bit(split)
           d == IF ExpandableSegments THEN r.inactive_split_bytes
                ELSE r.inactive_split_bytes - (merged - h[p].size) + (IF split THEN merged ELSE 0)
<1>2. small \in BOOLEAN /\ h[p].size \in Int
  BY DEF Block
<1>3. r \in Stat /\ r.active \in Int /\ r.active_bytes \in Int
      /\ r.inactive_split \in Int /\ r.inactive_split_bytes \in Int
  BY <1>2 DEF Stats, Stat
<1>4. subsumed \in Int /\ Bit(split) \in Int
  BY DEF Bit
<1> HIDE DEF subsumed
<1>5. /\ c \in Int /\ d \in Int
      /\ r.active - 1 \in Int /\ r.active_bytes - h[p].size \in Int
  BY <1>2, <1>3, <1>4
<1>6. [r EXCEPT !.active = r.active - 1, !.active_bytes = r.active_bytes - h[p].size,
                !.inactive_split = c, !.inactive_split_bytes = d] \in Stat
  <2> HIDE DEF r, c, d
  <2> QED
    BY <1>1, <1>3, <1>5, Zenon
<1>7. \A x \in Stat : [st EXCEPT ![small] = x] \in Stats
  BY <1>2 DEF Stats
<1>8. FreeBlockStats(st, h, p) =
      [st EXCEPT ![small] = [r EXCEPT !.active = r.active - 1, !.active_bytes = r.active_bytes - h[p].size,
                !.inactive_split = c, !.inactive_split_bytes = d]]
  BY Zenon DEF FreeBlockStats, subsumed
<1> HIDE DEF r, c, d, small
<1> QED
  BY <1>6, <1>7, <1>8

-----------------------------------------------------------------------------
(* Queues from which one element is taken *)

\* r is q without its element at i.
Removed(q, r, i) ==
  /\ Len(r) = Len(q) - 1
  /\ \A j \in 1 .. Len(r) : r[j] = q[IF j < i THEN j ELSE j + 1]

\* Tail takes the first element.
LEMMA TailRemoves ==
  ASSUME NEW S, NEW q \in Seq(S), q # <<>>
  PROVE  Tail(q) \in Seq(S) /\ Removed(q, Tail(q), 1)
BY HeadTailProperties DEF Removed

\* RemoveIndex takes the element at i and keeps the order of the others.
LEMMA RemoveIndexRemoves ==
  ASSUME NEW S, NEW q \in Seq(S), NEW i \in 1 .. Len(q)
  PROVE  RemoveIndex(q, i) \in Seq(S) /\ Removed(q, RemoveIndex(q, i), i)
<1> DEFINE a == SubSeq(q, 1, i - 1)
           b == SubSeq(q, i + 1, Len(q))
<1>0. Len(q) \in Nat /\ i \in Int /\ \A j \in 1 .. Len(q) : q[j] \in S
  OBVIOUS
<1>1. a \in Seq(S) /\ Len(a) = i - 1 /\ \A j \in 1 .. i - 1 : a[j] = q[j]
  BY <1>0, SubSeqProperties
<1>2. b \in Seq(S) /\ Len(b) = Len(q) - i /\ \A j \in 1 .. Len(q) - i : b[j] = q[i + j]
  BY <1>0, SubSeqProperties
<1> HIDE DEF a, b
<1>3. /\ a \o b \in Seq(S)
      /\ Len(a \o b) = Len(a) + Len(b)
      /\ \A j \in 1 .. Len(a) + Len(b) : (a \o b)[j] = IF j <= Len(a) THEN a[j] ELSE b[j - Len(a)]
  BY <1>1, <1>2, ConcatProperties
<1>4. Len(a \o b) = Len(q) - 1
  BY <1>0, <1>1, <1>2, <1>3
<1>5. ASSUME NEW j \in 1 .. Len(a \o b)
      PROVE  (a \o b)[j] = q[IF j < i THEN j ELSE j + 1]
  <2>1. CASE j < i
    BY <2>1, <1>0, <1>1, <1>2, <1>3, <1>4
  <2>2. CASE j >= i
    <3>1. (a \o b)[j] = b[j - (i - 1)]
      BY <2>2, <1>0, <1>1, <1>2, <1>3, <1>4
    <3>2. b[j - (i - 1)] = q[i + (j - (i - 1))]
      BY <2>2, <1>0, <1>2, <1>4
    <3>3. i + (j - (i - 1)) = j + 1
      BY <1>0, <1>4
    <3> QED
      BY <2>2, <3>1, <3>2, <3>3, <1>0, <1>4
  <2> QED
    BY <2>1, <2>2, <1>0, <1>4
<1>6. RemoveIndex(q, i) = a \o b
  BY DEF RemoveIndex, a, b
<1> QED
  BY <1>3, <1>4, <1>5, <1>6 DEF Removed

-----------------------------------------------------------------------------
(* The heap *)

\* Where a block is: in its pool, active, with malloc, or unmapped.
LEMMA Partition ==
  ASSUME HeapInv
  PROVE  /\ DOMAIN blocks = cached \cup active \cup Held \cup Unmapped
         /\ (cached \cup active \cup Held) \cap Unmapped = {}
         /\ cached \cap active = {}
         /\ Held \cap (cached \cup active) = {}
         /\ \A p \in DOMAIN blocks :
              /\ blocks[p] \in Block
              /\ p \in active => blocks[p].allocated \/ blocks[p].events > 0
              /\ p \notin active => ~blocks[p].allocated /\ blocks[p].events = 0
              /\ ~blocks[p].allocated => blocks[p].uses = {}
              /\ p \in Unmapped <=> ~blocks[p].mapped
<1>1. \A p \in DOMAIN blocks : blocks[p] \in Block /\ blocks[p].events \in Nat
  BY BlockType DEF HeapInv, Tiled, Block
<1>2. {p \in DOMAIN blocks : blocks[p].mapped} = cached \cup active \cup Held
  BY DEF HeapInv, PoolsPartition, Held
<1>3. cached \cap active = {} /\ Held \cap (cached \cup active) = {}
  BY DEF HeapInv, PoolsPartition, Held
<1>4. \A p \in DOMAIN blocks :
        /\ p \in active <=> blocks[p].allocated \/ blocks[p].events > 0
        /\ ~blocks[p].allocated => blocks[p].uses = {}
  BY DEF HeapInv, PoolsPartition
<1>5. DOMAIN blocks = {p \in DOMAIN blocks : blocks[p].mapped} \cup Unmapped
      /\ {p \in DOMAIN blocks : blocks[p].mapped} \cap Unmapped = {}
  BY DEF Unmapped
<1>6. /\ DOMAIN blocks = cached \cup active \cup Held \cup Unmapped
      /\ (cached \cup active \cup Held) \cap Unmapped = {}
  BY <1>2, <1>5
<1>7. \A p \in DOMAIN blocks : p \in Unmapped <=> ~blocks[p].mapped
  BY DEF Unmapped
<1> QED
  BY <1>1, <1>3, <1>4, <1>6, <1>7

\* b is the block o with nobody holding it or waiting for it.
Freed(o, b) ==
  /\ b.size = o.size /\ b.seg = o.seg /\ b.stream = o.stream
  /\ b.small = o.small /\ b.mapped = o.mapped
  /\ ~b.allocated /\ b.events = 0 /\ b.uses = {}

\* free_block: p, which nobody holds any more, is merged into its pool.
LEMMA FreeBlockKeeps ==
  ASSUME HeapInv, NEW p \in active, NEW h, NEW st,
         h = [blocks EXCEPT ![p] = h[p]], h[p] \in Block, Freed(blocks[p], h[p]),
         FreeBlock(h, p, st), segments' = segments, pc # "found", pc' # "found"
  PROVE  /\ HeapInv'
         /\ SameUnmapped
         /\ active' = active \ {p}
         /\ \A x \in active' : blocks'[x] = blocks[x]
         /\ Coalesce(h, p)[Lead(h, p)].size \in Int
<1> DEFINE c == Coalesce(h, p)
           q == Lead(h, p)
           gone == Subsumed(h, p)
<1>0. /\ p \in DOMAIN blocks /\ DOMAIN h = DOMAIN blocks
      /\ \A x \in DOMAIN blocks : x # p => h[x] = blocks[x]
      /\ DOMAIN blocks = cached \cup active \cup Unmapped
      /\ (cached \cup active) \cap Unmapped = {}
      /\ cached \cap active = {}
      /\ blocks[p].mapped
  BY Partition DEF Held
<1>1. Tiled(segments, h)
  <2>1. HeapType(h)
    BY <1>0 DEF HeapInv, Tiled, HeapType
  <2> QED
    BY <2>1, <1>0, SameTiled DEF HeapInv, Freed
<1>2. Joins(segments, h, p, c, q, gone) /\ q \in gone \cup {p}
  BY <1>0, <1>1, CoalesceJoins
<1>3. \A x \in gone : x \in cached /\ x # p
  <2> SUFFICES ASSUME NEW x \in gone PROVE x \in cached /\ x # p
    OBVIOUS
  <2>1. x \in DOMAIN blocks /\ x # p /\ ~h[x].allocated /\ h[x].events = 0 /\ h[x].mapped = h[p].mapped
    BY <1>0, <1>1, SubsumedAlone
  <2>2. h[x] = blocks[x] /\ h[p].mapped
    BY <2>1, <1>0 DEF Freed
  <2>3. x \notin active
    BY <2>1, <2>2, Partition
  <2>4. x \notin Unmapped
    BY <2>1, <2>2 DEF Unmapped
  <2> QED
    BY <2>1, <2>3, <2>4, <1>0
<1>4. blocks' = c /\ active' = active \ {p} /\ cached' = (cached \ gone) \cup {q}
  BY DEF FreeBlock
<1> HIDE DEF c, q, gone
<1>5. \A x \in DOMAIN c : x # q => x \in DOMAIN blocks /\ x # p /\ c[x] = blocks[x]
  BY <1>0, <1>2 DEF Joins
<1>6. c[q] \in Block /\ c[q].size \in Nat /\ Freed(blocks[p], [c[q] EXCEPT !.size = blocks[p].size])
  <2>1. c[q] \in Block /\ c[q].size \in Nat
    BY <1>2, BlockType DEF Joins, Tiled
  <2>2. c[q] = [h[p] EXCEPT !.size = c[q].size]
    BY <1>2 DEF Joins
  <2> QED
    BY <2>1, <2>2 DEF Freed, Block
<1>7. /\ ~c[q].allocated /\ c[q].events = 0 /\ c[q].uses = {}
      /\ c[q].mapped = blocks[p].mapped /\ c[q].small = blocks[p].small
      /\ c[q].seg = blocks[p].seg
  BY <1>6 DEF Freed, Block
<1>8. q \notin active' /\ q \in DOMAIN c
  BY <1>0, <1>2, <1>3, <1>4 DEF Joins
<1>9. /\ DOMAIN c = cached' \cup active' \cup Unmapped /\ cached' \cap active' = {}
      /\ (cached' \cup active') \cap Unmapped = {}
  BY <1>0, <1>2, <1>3, <1>4 DEF Joins
<1>10. SameUnmapped
  <2>1. \A x \in DOMAIN c : c[x].mapped <=> x \notin Unmapped
    BY <1>0, <1>2, <1>3, <1>5, <1>7, Partition
  <2>2. \A x \in Unmapped : x \in DOMAIN c /\ c[x] = blocks[x]
    BY <1>0, <1>2, <1>3, <1>5, <1>9
  <2> QED
    BY <2>1, <2>2, <1>4 DEF SameUnmapped, Unmapped
<1>11. \A x \in active' : x \in DOMAIN c /\ blocks'[x] = blocks[x]
  BY <1>4, <1>5, <1>8, <1>9
<1>12. PoolsPartition'
  <2>1. \A x \in DOMAIN c : /\ x \in active' <=> c[x].allocated \/ c[x].events > 0
                            /\ ~c[x].allocated => c[x].uses = {}
    <3> SUFFICES ASSUME NEW x \in DOMAIN c
                 PROVE  /\ x \in active' <=> c[x].allocated \/ c[x].events > 0
                        /\ ~c[x].allocated => c[x].uses = {}
      OBVIOUS
    <3>1. CASE x = q
      BY <3>1, <1>7, <1>8
    <3>2. CASE x # q
      BY <3>2, <1>4, <1>5, Partition DEF HeapInv, PoolsPartition
    <3> QED
      BY <3>1, <3>2
  <2> QED
    BY <2>1, <1>4, <1>9, <1>10 DEF PoolsPartition, SameUnmapped, Unmapped
<1>13. SplitBounded'
  <2> SUFFICES ASSUME MaxSplitSize # None, NEW x \in DOMAIN c, ~c[x].small
               PROVE  /\ c[x].size > kSmallSize
                      /\ segments[c[x].seg] > MaxSplitSize + kMiB => Whole(segments, c, x)
    BY <1>4 DEF SplitBounded
  <2>1. CASE x # q
    BY <2>1, <1>5 DEF HeapInv, SplitBounded, Whole
  <2>2. CASE x = q
    <3>1. blocks[p].size > kSmallSize
      BY <2>2, <1>0, <1>7 DEF HeapInv, SplitBounded
    <3>2. c[q].size >= blocks[p].size
      BY <1>2 DEF Joins, Freed
    <3>3. blocks[p].size \in Nat
      BY <1>0, BlockType DEF HeapInv, Tiled
    <3>4. ASSUME segments[c[x].seg] > MaxSplitSize + kMiB PROVE Whole(segments, c, x)
      <4>1. Whole(segments, h, p)
        BY <3>4, <2>2, <1>0, <1>7 DEF HeapInv, SplitBounded, Whole, Freed
      <4>2. gone = {}
        BY <4>1, <1>0, <1>1, WholeAlone
           DEF gone, IsSplit, Subsumed, SubsumedPrev, SubsumedNext
      <4>3. q = p /\ c[p].size = h[p].size
        BY <4>1, <4>2, <1>2 DEF Joins
      <4> QED
        BY <4>1, <4>3, <2>2, <1>7 DEF Whole, Freed
    <3> QED
      BY <2>2, <3>1, <3>2, <3>3, <3>4, <1>6 DEF kSmallSize
  <2> QED
    BY <2>1, <2>2
<1>14. Tiled(segments, blocks)'
  BY <1>2, <1>4 DEF Joins
<1>15. SmallSegments'
  BY <1>0, <1>4, <1>5, <1>7 DEF HeapInv, SmallSegments
<1> QED
  BY <1>4, <1>6, <1>10, <1>11, <1>12, <1>13, <1>14, <1>15 DEF HeapInv, c, q

\* A step that moves blocks between the pool and malloc's hands, or changes
\* fields that say nothing of where a block is.
LEMMA SameHeapKeeps ==
  ASSUME HeapInv, segments' = segments, active' = active,
         DOMAIN blocks' = DOMAIN blocks, HeapType(blocks)',
         \A x \in DOMAIN blocks :
           /\ blocks'[x].size = blocks[x].size
           /\ blocks'[x].seg = blocks[x].seg
           /\ blocks'[x].stream = blocks[x].stream
           /\ blocks'[x].small = blocks[x].small
           /\ blocks'[x].mapped = blocks[x].mapped
           /\ blocks'[x].allocated \/ blocks'[x].events > 0
                <=> blocks[x].allocated \/ blocks[x].events > 0
           /\ ~blocks'[x].allocated => blocks'[x].uses = {},
         (cached \cup Held)' = cached \cup Held,
         (cached \cap Held)' = {},
         \A x \in Unmapped : blocks'[x] = blocks[x]
  PROVE  HeapInv' /\ SameUnmapped
<1>1. Tiled(segments, blocks')
  BY SameTiled DEF HeapInv
<1>2. SameUnmapped
  BY DEF SameUnmapped, Unmapped
<1>3. PoolsPartition'
  <2>1. /\ DOMAIN blocks = cached \cup active \cup Held \cup Unmapped
        /\ (cached \cup active \cup Held) \cap Unmapped = {}
        /\ cached \cap active = {}
        /\ Held \cap (cached \cup active) = {}
        /\ \A p \in DOMAIN blocks :
             p \in active <=> blocks[p].allocated \/ blocks[p].events > 0
    BY Partition DEF HeapInv, PoolsPartition
  <2>2. /\ {p \in DOMAIN blocks' : blocks'[p].mapped} = cached' \cup active' \cup Held'
        /\ cached' \cap active' = {}
        /\ Held' \cap (cached' \cup active') = {}
    BY <1>2, <2>1 DEF SameUnmapped, Unmapped
  <2>3. \A p \in DOMAIN blocks' :
          /\ p \in active' <=> blocks'[p].allocated \/ blocks'[p].events > 0
          /\ ~blocks'[p].allocated => blocks'[p].uses = {}
    BY <2>1
  <2> QED
    BY <2>2, <2>3 DEF PoolsPartition, Held
<1>4. SplitBounded'
  BY DEF HeapInv, SplitBounded, Whole
<1>5. SmallSegments'
  BY DEF HeapInv, SmallSegments
<1> QED
  BY <1>1, <1>2, <1>3, <1>4, <1>5 DEF HeapInv

\* release_block: a cached block that is a whole segment goes.
LEMMA ReleaseBlockKeeps ==
  ASSUME HeapInv, NEW p \in cached, ~IsSplit(blocks, p), ReleaseBlock(p),
         pc # "found", pc' # "found"
  PROVE  /\ HeapInv'
         /\ SameUnmapped
         /\ active' = active
         /\ DOMAIN blocks' = DOMAIN blocks \ {p}
         /\ \A x \in DOMAIN blocks' : blocks'[x] = blocks[x]
<1>0. /\ p \in DOMAIN blocks /\ p \notin active /\ blocks[p].mapped
      /\ active' = active /\ cached' = cached \ {p}
      /\ segments' = [a \in DOMAIN segments \ {p} |-> segments[a]]
      /\ blocks' = [x \in DOMAIN blocks \ {p} |-> blocks[x]]
  BY Partition DEF ReleaseBlock
<1>1. Whole(segments, blocks, p)
  BY <1>0, UnsplitIsWhole DEF HeapInv
<1>2. Tiled(segments', blocks')
  BY <1>0, <1>1, ReleaseTiled DEF HeapInv
<1>3. DOMAIN blocks' = DOMAIN blocks \ {p} /\ \A x \in DOMAIN blocks' : blocks'[x] = blocks[x]
  BY <1>0
<1>4. SameUnmapped
  BY <1>0, <1>3 DEF SameUnmapped, Unmapped
<1>5. PoolsPartition'
  BY <1>0, <1>3, Partition DEF HeapInv, PoolsPartition, Held
<1>6. SplitBounded'
  <2> SUFFICES ASSUME MaxSplitSize # None, NEW x \in DOMAIN blocks', ~blocks'[x].small
               PROVE  /\ blocks'[x].size > kSmallSize
                      /\ segments'[blocks'[x].seg] > MaxSplitSize + kMiB
                           => Whole(segments', blocks', x)
    BY DEF SplitBounded
  <2>1. blocks'[x].seg \in DOMAIN segments'
    BY <1>2 DEF Tiled, InSegment
  <2>2. segments'[blocks'[x].seg] = segments[blocks[x].seg] /\ x # p
    BY <2>1, <1>0, <1>3
  <2> QED
    BY <2>1, <2>2, <1>0, <1>3 DEF HeapInv, SplitBounded, Whole
<1>7. SmallSegments'
  <2>1. \A x \in DOMAIN blocks' : blocks'[x].seg \in DOMAIN segments'
    BY <1>2 DEF Tiled, InSegment
  <2> QED
    BY <2>1, <1>0, <1>3 DEF HeapInv, SmallSegments
<1> QED
  BY <1>0, <1>2, <1>3, <1>4, <1>5, <1>6, <1>7 DEF HeapInv

\* alloc_block: a new segment, whose block is in the hands of malloc.
LEMMA AllocBlockKeeps ==
  ASSUME HeapInv, CallInv, AllMapped, SegmentCall, NEW base \in Bases, AllocBlock(base)
  PROVE  /\ HeapInv'
         /\ \A x \in active : blocks'[x] = blocks[x]
         /\ CallInv' /\ AllMapped' /\ SegmentCall'
<1> DEFINE size == get_allocation_size(call.size)
           small == IsSmall(call.size)
           b == NewBlock(base, size, call.stream, small, TRUE)
<1>0. /\ pc \in {"obtain", "reobtain", "last_obtain"} /\ pc' = "found"
      /\ Clear(base, size)
      /\ segments' = [a \in DOMAIN segments \cup {base} |->
                        IF a = base THEN size ELSE segments[a]]
      /\ blocks' = [x \in DOMAIN blocks \cup {base} |->
                      IF x = base THEN b ELSE blocks[x]]
      /\ call' = [call EXCEPT !.block = base]
      /\ cached' = cached /\ active' = active
  BY DEF AllocBlock, Obtaining
<1>1. /\ call \in Call /\ call.size \in Nat /\ call.size > 0
      /\ call.stream \in Streams /\ base \in Nat
      /\ call.op = "malloc" /\ call.targets = {}
  BY <1>0, EnvironmentAssumption DEF CallInv, SegmentCall, Searching, Call
<1>2. size \in Nat /\ size >= call.size /\ size > 0
  BY <1>1 DEF get_allocation_size, kSmallSize, kSmallBuffer, kMinLargeAlloc, kLargeBuffer, kRoundLarge
<1>3. /\ b \in Block /\ b.size = size /\ b.seg = base /\ b.stream = call.stream
      /\ b.small = small /\ ~b.allocated /\ b.events = 0 /\ b.uses = {} /\ b.mapped
  BY <1>1, <1>2 DEF NewBlock, Block, IsSmall
<1> HIDE DEF b, size, small
<1>4. base \notin DOMAIN blocks /\ Tiled(segments', blocks')
  <2> DEFINE t == [a \in DOMAIN segments \cup {base} |->
                     IF a = base THEN size ELSE segments[a]]
             g == [x \in DOMAIN blocks \cup {base} |->
                     IF x = base THEN b ELSE blocks[x]]
  <2>1. \A a \in DOMAIN segments : a + segments[a] <= base \/ base + size <= a
    BY <1>0 DEF Clear
  <2>2. base \notin DOMAIN blocks /\ Tiled(t, g)
    BY <2>1, <1>1, <1>2, <1>3, NewTiled DEF HeapInv
  <2> QED
    BY <2>2, <1>0
<1>5. /\ DOMAIN blocks' = DOMAIN blocks \cup {base} /\ blocks'[base] = b
      /\ \A x \in DOMAIN blocks : blocks'[x] = blocks[x]
      /\ segments'[base] = size
      /\ \A a \in DOMAIN segments : segments'[a] = segments[a]
  BY <1>0, <1>4 DEF HeapInv, Tiled
<1>6. AllMapped'
  BY <1>3, <1>5 DEF AllMapped, Unmapped
<1>7. call'.block = base /\ call' \in Call /\ call'.size = call.size
      /\ call'.stream = call.stream /\ call'.op = call.op /\ call'.targets = {}
  BY <1>0, <1>1 DEF Call
<1>8. PoolsPartition'
  <2>1. /\ DOMAIN blocks = cached \cup active /\ cached \cap active = {}
        /\ \A p \in DOMAIN blocks :
             /\ p \in active <=> blocks[p].allocated \/ blocks[p].events > 0
             /\ ~blocks[p].allocated => blocks[p].uses = {}
    BY <1>0, Partition DEF HeapInv, PoolsPartition, Held, AllMapped
  <2>2. \A p \in DOMAIN blocks' :
          /\ p \in active' <=> blocks'[p].allocated \/ blocks'[p].events > 0
          /\ ~blocks'[p].allocated => blocks'[p].uses = {}
    BY <2>1, <1>0, <1>3, <1>4, <1>5
  <2>3. {p \in DOMAIN blocks' : blocks'[p].mapped} = cached' \cup active' \cup {base}
    BY <2>1, <1>0, <1>5, <1>6 DEF AllMapped, Unmapped
  <2>4. cached' \cap active' = {} /\ {base} \cap (cached' \cup active') = {}
    BY <2>1, <1>0, <1>4
  <2> QED
    BY <2>2, <2>3, <2>4, <1>0, <1>7 DEF PoolsPartition
<1>9. SplitBounded'
  <2> SUFFICES ASSUME MaxSplitSize # None, NEW x \in DOMAIN blocks', ~blocks'[x].small
               PROVE  /\ blocks'[x].size > kSmallSize
                      /\ segments'[blocks'[x].seg] > MaxSplitSize + kMiB
                           => Whole(segments', blocks', x)
    BY DEF SplitBounded
  <2>1. CASE x = base
    <3>1. call.size > kSmallSize
      <4>1. blocks'[x].small = small
        BY <2>1, <1>3, <1>5
      <4>2. ~IsSmall(call.size)
        BY <4>1 DEF small
      <4> QED
        BY <4>2, <1>1 DEF IsSmall, kSmallSize
    <3>2. blocks'[x].size > kSmallSize
      BY <3>1, <2>1, <1>1, <1>2, <1>3, <1>5 DEF kSmallSize
    <3>3. Whole(segments', blocks', x)
      BY <2>1, <1>3, <1>5 DEF Whole
    <3> QED
      BY <3>2, <3>3
  <2>2. CASE x # base
    <3>1. x \in DOMAIN blocks /\ blocks[x].seg \in DOMAIN segments
      BY <2>2, <1>5 DEF HeapInv, Tiled, InSegment
    <3> QED
      BY <3>1, <1>5 DEF HeapInv, SplitBounded, Whole, Tiled
  <2> QED
    BY <2>1, <2>2
<1>10. MaxSplitSize # None /\ ~IsSmall(call.size) /\ call.size < MaxSplitSize =>
         size <= MaxSplitSize + kMiB
  BY <1>1, ConfigAssumption DEF size, get_allocation_size, IsSmall, kSmallSize,
     kSmallBuffer, kMinLargeAlloc, kLargeBuffer, kRoundLarge, kMiB
<1>11. CallInv' /\ SegmentCall'
  <2>1. CallInv'
    BY <1>0, <1>1, <1>2, <1>3, <1>5, <1>7, <1>10 DEF CallInv, Searching, Steps, small
  <2>2. SegmentCall'
    BY <1>0, <1>7 DEF SegmentCall
  <2> QED
    BY <2>1, <2>2
<1>12. SmallSegments'
  <2>0. SUFFICES ASSUME MaxSplitSize # None
                 PROVE  \A x \in DOMAIN blocks' : blocks'[x].small =>
                          segments'[blocks'[x].seg] <= kSmallBuffer
    BY DEF SmallSegments
  <2>1. small => size <= kSmallBuffer
    BY <1>1 DEF small, size, get_allocation_size, IsSmall, kSmallSize, kSmallBuffer
  <2> SUFFICES ASSUME NEW x \in DOMAIN blocks', blocks'[x].small
               PROVE  segments'[blocks'[x].seg] <= kSmallBuffer
    OBVIOUS
  <2>2. CASE x = base
    BY <2>1, <2>2, <1>3, <1>5
  <2>3. CASE x # base
    <3>1. x \in DOMAIN blocks /\ blocks[x].seg \in DOMAIN segments
      BY <2>3, <1>5 DEF HeapInv, Tiled, InSegment
    <3> QED
      BY <2>0, <3>1, <1>5 DEF HeapInv, SmallSegments
  <2> QED
    BY <2>2, <2>3
<1> QED
  BY <1>0, <1>4, <1>5, <1>6, <1>8, <1>9, <1>11, <1>12, Partition DEF HeapInv

\* The driver gives a range of which no segment has any part.
LEMMA NewBase ==
  ASSUME HeapInv, CallInv, NEW base \in Bases, AllocBlock(base)
  PROVE  /\ base \in Nat /\ base \notin DOMAIN segments /\ base \notin DOMAIN blocks
         /\ get_allocation_size(call.size) \in Nat /\ get_allocation_size(call.size) > 0
         /\ Clear(base, get_allocation_size(call.size))
<1> DEFINE size == get_allocation_size(call.size)
<1>1. /\ Clear(base, size) /\ call \in Call /\ call.size > 0 /\ base \in Nat
  BY EnvironmentAssumption DEF AllocBlock, Obtaining, CallInv, Searching
<1>2. size \in Nat /\ size > 0
  BY <1>1 DEF Call, get_allocation_size, kSmallSize, kSmallBuffer, kMinLargeAlloc,
     kLargeBuffer, kRoundLarge
<1> HIDE DEF size
<1>3. base \notin DOMAIN segments
  <2> SUFFICES ASSUME base \in DOMAIN segments PROVE FALSE
    OBVIOUS
  <2>1. base \in DOMAIN blocks /\ blocks[base].seg = base
    BY DEF HeapInv, Tiled
  <2>2. End(blocks, base) <= base + segments[base] /\ segments[base] \in Nat
    BY <2>1 DEF HeapInv, Tiled, InSegment
  <2>3. End(blocks, base) \in Nat /\ End(blocks, base) > base
    BY <2>1, BlockType DEF HeapInv, Tiled
  <2>4. base + segments[base] <= base \/ base + size <= base
    BY <1>1 DEF Clear
  <2> QED
    BY <2>2, <2>3, <2>4, <1>1, <1>2
<1>4. base \notin DOMAIN blocks
  <2> SUFFICES ASSUME base \in DOMAIN blocks PROVE FALSE
    OBVIOUS
  <2>1. /\ blocks[base].seg \in DOMAIN segments /\ blocks[base].seg <= base
        /\ End(blocks, base) <= blocks[base].seg + segments[blocks[base].seg]
    BY DEF HeapInv, Tiled, InSegment
  <2>2. blocks[base].seg \in Nat /\ End(blocks, base) \in Nat /\ End(blocks, base) > base
    BY BlockType DEF HeapInv, Tiled
  <2>3. segments[blocks[base].seg] \in Nat
    BY <2>1 DEF HeapInv, Tiled
  <2>4. \/ blocks[base].seg + segments[blocks[base].seg] <= base
        \/ base + size <= blocks[base].seg
    BY <2>1, <1>1 DEF Clear
  <2> QED
    BY <2>1, <2>2, <2>3, <2>4, <1>1, <1>2
<1> QED
  BY <1>1, <1>2, <1>3, <1>4 DEF size

\* No call in progress is a value of call.
LEMMA NoCallType == NoCall \in Call
BY DEF NoCall, Call

\* alloc_found_block: the block found, or its front, becomes active.
LEMMA AllocFoundBlockKeeps ==
  ASSUME HeapInv, CallInv, AllocFoundBlock
  PROVE  /\ HeapInv'
         /\ CallInv'
         /\ call.block \in DOMAIN blocks \ active
         /\ active' = active \cup {call.block}
         /\ \A x \in active : blocks'[x] = blocks[x]
         /\ blocks'[call.block].events = 0
         /\ SameUnmapped
<1> DEFINE p == call.block
           n == call.size
           split == should_split(blocks[p], n)
           front == [Fresh(blocks[p], TRUE) EXCEPT !.stream = call.stream]
           h == IF split THEN SplitOff(blocks, p, n, front, blocks[p]) ELSE blocks
<1>0. /\ pc = "found" /\ pc' = "idle" /\ call' = NoCall /\ segments' = segments
      /\ blocks' = [h EXCEPT ![p].allocated = TRUE]
      /\ cached' = IF split THEN cached \cup {p + n} ELSE cached
      /\ active' = active \cup {p}
  BY DEF AllocFoundBlock, Return
<1>1. /\ p \in DOMAIN blocks /\ n \in Nat /\ n > 0 /\ blocks[p].size >= n
      /\ blocks[p].stream = call.stream /\ call.stream \in Streams
      /\ blocks[p].small = IsSmall(n)
      /\ MaxSplitSize # None /\ ~IsSmall(n) /\ n < MaxSplitSize =>
           segments[blocks[p].seg] <= MaxSplitSize + kMiB
  BY <1>0 DEF CallInv, Searching, Call
<1>2. /\ DOMAIN blocks = cached \cup active \cup {p} \cup Unmapped
      /\ cached \cap active = {} /\ p \notin cached \cup active
      /\ (cached \cup active \cup {p}) \cap Unmapped = {}
  BY <1>0, Partition DEF Held
<1>3. /\ blocks[p] \in Block /\ blocks[p].size \in Nat /\ p \in Nat
      /\ ~blocks[p].allocated /\ blocks[p].events = 0 /\ blocks[p].uses = {}
      /\ blocks[p].mapped
  BY <1>1, <1>2, Partition, BlockType DEF HeapInv, Tiled
<1>4. /\ front \in Block /\ front.seg = blocks[p].seg /\ front.stream = blocks[p].stream
      /\ front.small = blocks[p].small /\ front.events = 0 /\ front.uses = {} /\ front.mapped
  BY <1>1, <1>3 DEF Fresh, NewBlock, Block
<1> HIDE DEF front
<1>5. split => n < blocks[p].size
  BY <1>1, <1>3 DEF should_split, kMinBlockSize, kSmallSize
<1>6. /\ Tiled(segments, h)
      /\ DOMAIN h = DOMAIN blocks \cup (IF split THEN {p + n} ELSE {})
      /\ \A x \in DOMAIN blocks : x # p => h[x] = blocks[x]
      /\ h[p] \in Block /\ h[p].events = 0 /\ h[p].uses = {} /\ h[p].mapped
      /\ h[p].seg = blocks[p].seg /\ h[p].stream = blocks[p].stream
      /\ h[p].small = blocks[p].small
      /\ h[p].size = IF split THEN n ELSE blocks[p].size
  <2>1. CASE split
    <3>1. p + n \notin DOMAIN blocks /\ Tiled(segments, h)
      BY <2>1, <1>1, <1>3, <1>4, <1>5, SplitTiled DEF HeapInv
    <3>2. /\ DOMAIN h = DOMAIN blocks \cup {p + n}
          /\ \A x \in DOMAIN blocks : x # p => h[x] = blocks[x]
          /\ h[p] = [front EXCEPT !.size = n]
      BY <2>1, <3>1, <1>1 DEF SplitOff
    <3>3. /\ h[p] \in Block /\ h[p].events = 0 /\ h[p].uses = {} /\ h[p].mapped
          /\ h[p].seg = blocks[p].seg /\ h[p].stream = blocks[p].stream
          /\ h[p].small = blocks[p].small /\ h[p].size = n
      BY <3>2, <1>1, <1>4 DEF Block
    <3> QED
      BY <2>1, <3>1, <3>2, <3>3
  <2>2. CASE ~split
    BY <2>2, <1>1, <1>3 DEF HeapInv
  <2> QED
    BY <2>1, <2>2
<1>7. split => /\ p + n \notin DOMAIN blocks
               /\ h[p + n] = [blocks[p] EXCEPT !.size = blocks[p].size - n]
  <2> SUFFICES ASSUME split
               PROVE  /\ p + n \notin DOMAIN blocks
                      /\ h[p + n] = [blocks[p] EXCEPT !.size = blocks[p].size - n]
    OBVIOUS
  <2>1. p + n \notin DOMAIN blocks
    BY <1>1, <1>3, <1>4, <1>5, SplitTiled DEF HeapInv
  <2> QED
    BY <2>1, <1>1, <1>3 DEF SplitOff
<1>8. split => /\ h[p + n].size = blocks[p].size - n /\ h[p + n].seg = blocks[p].seg
               /\ h[p + n].small = blocks[p].small /\ h[p + n].mapped
               /\ ~h[p + n].allocated /\ h[p + n].events = 0 /\ h[p + n].uses = {}
  BY <1>3, <1>7 DEF Block
<1> DEFINE g == [h EXCEPT ![p].allocated = TRUE]
<1> HIDE DEF h
<1>9. /\ DOMAIN g = DOMAIN h
      /\ \A x \in DOMAIN h : x # p => g[x] = h[x]
      /\ g[p] = [h[p] EXCEPT !.allocated = TRUE]
      /\ g \in [DOMAIN h -> Block]
  <2>1. p \in DOMAIN h /\ h \in [DOMAIN h -> Block]
    BY <1>1, <1>6 DEF Tiled, HeapType
  <2>2. [h[p] EXCEPT !.allocated = TRUE] \in Block
    BY <1>6 DEF Block
  <2> QED
    BY <2>1, <2>2
<1>10. /\ g[p].allocated /\ g[p].size = h[p].size /\ g[p].seg = h[p].seg
       /\ g[p].stream = h[p].stream /\ g[p].small = h[p].small
       /\ g[p].events = 0 /\ g[p].mapped
  BY <1>6, <1>9 DEF Block
<1> HIDE DEF g, split
<1>11. blocks' = g
  BY <1>0 DEF g
<1>12. Tiled(segments, g)
  <2>1. HeapType(g)
    BY <1>6, <1>9 DEF Tiled, HeapType
  <2>2. \A x \in DOMAIN h : /\ g[x].size = h[x].size
                           /\ g[x].seg = h[x].seg
                           /\ g[x].stream = h[x].stream
                           /\ g[x].small = h[x].small
    BY <1>9, <1>10
  <2>3. Tiled(segments, h) /\ DOMAIN g = DOMAIN h
    BY <1>6, <1>9
  <2> QED
    BY <2>1, <2>2, <2>3, SameTiled
<1>13. SameUnmapped
  <2>1. \A x \in DOMAIN blocks : x # p => g[x] = blocks[x]
    BY <1>6, <1>9
  <2>2. split => g[p + n].mapped
    BY <1>1, <1>6, <1>7, <1>8, <1>9
  <2>3. Unmapped' = Unmapped
    BY <2>1, <2>2, <1>1, <1>3, <1>6, <1>9, <1>10, <1>11 DEF Unmapped
  <2> QED
    BY <2>1, <2>3, <1>2, <1>11 DEF SameUnmapped
<1>14. PoolsPartition'
  <2>1. \A x \in DOMAIN g :
          /\ x \in active' <=> g[x].allocated \/ g[x].events > 0
          /\ ~g[x].allocated => g[x].uses = {}
    <3> SUFFICES ASSUME NEW x \in DOMAIN g
                 PROVE  /\ x \in active' <=> g[x].allocated \/ g[x].events > 0
                        /\ ~g[x].allocated => g[x].uses = {}
      OBVIOUS
    <3>1. CASE x = p
      BY <3>1, <1>0, <1>10
    <3>2. CASE x # p /\ x \in DOMAIN blocks
      BY <3>2, <1>0, <1>6, <1>9 DEF HeapInv, PoolsPartition
    <3>3. CASE x \notin DOMAIN blocks
      <4>1. split /\ x = p + n /\ x # p
        BY <3>3, <1>1, <1>6, <1>9
      <4> QED
        BY <3>3, <4>1, <1>0, <1>2, <1>8, <1>9
    <3> QED
      BY <3>1, <3>2, <3>3
  <2>2. {x \in DOMAIN blocks' : blocks'[x].mapped} = cached' \cup active' \cup {}
    <3>1. {x \in DOMAIN blocks' : blocks'[x].mapped} = DOMAIN g \ Unmapped
      BY <1>11, <1>13 DEF SameUnmapped, Unmapped
    <3>2. split => p + n \notin Unmapped
      BY <1>7 DEF Unmapped
    <3> QED
      BY <3>1, <3>2, <1>0, <1>1, <1>2, <1>6, <1>9
  <2>3. cached' \cap active' = {}
    BY <1>0, <1>1, <1>2, <1>7
  <2> QED
    BY <2>1, <2>2, <2>3, <1>0, <1>11 DEF PoolsPartition
<1>15. SplitBounded'
  <2> SUFFICES ASSUME MaxSplitSize # None, NEW x \in DOMAIN g, ~g[x].small
               PROVE  /\ g[x].size > kSmallSize
                      /\ segments[g[x].seg] > MaxSplitSize + kMiB => Whole(segments, g, x)
    BY <1>0, <1>11 DEF SplitBounded
  <2>1. CASE x # p /\ x \in DOMAIN blocks
    BY <2>1, <1>6, <1>9 DEF HeapInv, SplitBounded, Whole
  <2>2. CASE ~split /\ x = p
    BY <2>2, <1>1, <1>6, <1>10 DEF HeapInv, SplitBounded, Whole
  <2>3. CASE split /\ x \in {p, p + n}
    <3>1. ~blocks[p].small /\ g[x].seg = blocks[p].seg
          /\ (g[x].size = n \/ g[x].size = blocks[p].size - n)
      <4>1. CASE x = p
        BY <2>3, <4>1, <1>1, <1>6, <1>10
      <4>2. CASE x # p
        BY <2>3, <4>2, <1>1, <1>6, <1>7, <1>8, <1>9
      <4> QED
        BY <4>1, <4>2
    <3>2. ~ExpandableSegments
      BY ConfigAssumption
    <3>3. n < MaxSplitSize /\ blocks[p].size - n > kSmallSize
      BY <2>3, <3>1, <3>2 DEF split, should_split, BelowMaxSplit
    <3>4. ~IsSmall(n) /\ n > kSmallSize
      <4>1. ~IsSmall(n)
        BY <3>1, <1>1
      <4> QED
        BY <4>1, <1>1 DEF IsSmall, kSmallSize
    <3>5. segments[blocks[p].seg] \in Nat /\ MaxSplitSize + kMiB \in Nat
      BY <1>1, ConfigAssumption DEF HeapInv, Tiled, InSegment, kMiB
    <3>6. ~(segments[g[x].seg] > MaxSplitSize + kMiB)
      BY <3>1, <3>3, <3>4, <3>5, <1>1
    <3> QED
      BY <3>1, <3>3, <3>4, <3>6
  <2> QED
    BY <2>1, <2>2, <2>3, <1>1, <1>6, <1>9
<1>16. CallInv'
  BY <1>0, NoCallType DEF CallInv, Searching, Steps, NoCall
<1>17. SmallSegments'
  <2> SUFFICES ASSUME MaxSplitSize # None, NEW x \in DOMAIN g, g[x].small
               PROVE  segments[g[x].seg] <= kSmallBuffer
    BY <1>0, <1>11 DEF SmallSegments
  <2>1. CASE x \in DOMAIN blocks
    <3>1. g[x].seg = blocks[x].seg /\ g[x].small = blocks[x].small
      BY <2>1, <1>6, <1>9, <1>10
    <3>2. blocks[x].small => segments[blocks[x].seg] <= kSmallBuffer
      BY <2>1 DEF HeapInv, SmallSegments
    <3> QED
      BY <3>1, <3>2
  <2>2. CASE x \notin DOMAIN blocks
    <3>1. split /\ x = p + n /\ x # p
      BY <2>2, <1>1, <1>6, <1>9
    <3> QED
      BY <2>2, <3>1, <1>1, <1>6, <1>8, <1>9 DEF HeapInv, SmallSegments
  <2> QED
    BY <2>1, <2>2
<1> QED
  BY <1>0, <1>2, <1>1, <1>6, <1>9, <1>10, <1>11, <1>12, <1>13, <1>14, <1>15, <1>16, <1>17 DEF HeapInv

\* Ageing the pool changes nothing but gc_count.
LEMMA AgedType ==
  ASSUME HeapInv
  PROVE  /\ DOMAIN Aged = DOMAIN blocks
         /\ \A x \in DOMAIN blocks :
              /\ Aged[x] \in Block
              /\ Aged[x] = [blocks[x] EXCEPT !.age = Aged[x].age]
              /\ x \notin cached => Aged[x] = blocks[x]
<1> SUFFICES ASSUME NEW x \in DOMAIN blocks
             PROVE  /\ Aged[x] \in Block
                    /\ Aged[x] = [blocks[x] EXCEPT !.age = Aged[x].age]
                    /\ x \notin cached => Aged[x] = blocks[x]
  BY DEF Aged
<1>1. blocks[x] \in Block
  BY Partition
<1>2. Aged[x] = [blocks[x] EXCEPT !.age = @ + 1] \/ Aged[x] = blocks[x]
  BY DEF Aged
<1>3. x \notin cached => Aged[x] = blocks[x]
  BY DEF Aged
<1> QED
  BY <1>1, <1>2, <1>3 DEF Block

\* get_free_block, whether it finds a block or not.
LEMMA SearchKeeps ==
  ASSUME HeapInv, CallInv, CountInv,
         NoFreeBlock \/ \E p \in cached : GetFreeBlock(p)
  PROVE  /\ HeapInv'
         /\ CallInv'
         /\ active' = active
         /\ \A x \in active : blocks'[x] = blocks[x]
         /\ SameUnmapped
         /\ call'.targets = call.targets
<1>0. /\ pc = "process_events" /\ segments' = segments /\ active' = active
      /\ call \in Call /\ call.op = "malloc" /\ call.size > 0 /\ call.stream \in Streams
      /\ cached \subseteq DOMAIN blocks /\ cached \cap active = {}
      /\ cached \cap Unmapped = {} /\ active \subseteq DOMAIN blocks
  BY Partition DEF NoFreeBlock, GetFreeBlock, CallInv, Searching
<1>1. ASSUME DOMAIN blocks' = DOMAIN blocks,
             \A x \in DOMAIN blocks :
               blocks'[x] \in Block /\ blocks'[x] = [blocks[x] EXCEPT !.age = blocks'[x].age],
             blocks' = [x \in DOMAIN blocks' |-> blocks'[x]],
             (cached \cup Held)' = cached \cup Held,
             (cached \cap Held)' = {},
             \A x \in Unmapped : blocks'[x] = blocks[x]
      PROVE  HeapInv' /\ SameUnmapped
  <2>1. HeapType(blocks)'
    BY <1>1 DEF HeapInv, Tiled, HeapType
  <2>2. \A x \in DOMAIN blocks :
           /\ blocks'[x].size = blocks[x].size
           /\ blocks'[x].seg = blocks[x].seg
           /\ blocks'[x].stream = blocks[x].stream
           /\ blocks'[x].small = blocks[x].small
           /\ blocks'[x].mapped = blocks[x].mapped
           /\ blocks'[x].allocated = blocks[x].allocated
           /\ blocks'[x].events = blocks[x].events
           /\ blocks'[x].uses = blocks[x].uses
    <3> TAKE x \in DOMAIN blocks
    <3>1. /\ blocks[x] \in Block /\ blocks'[x] \in Block
          /\ blocks'[x] = [blocks[x] EXCEPT !.age = blocks'[x].age]
      BY <1>1, Partition
    <3> QED
      BY <3>1 DEF Block
  <2>3. \A x \in DOMAIN blocks : ~blocks[x].allocated => blocks[x].uses = {}
    BY Partition
  <2> QED
    BY <2>1, <2>2, <2>3, <1>0, <1>1, SameHeapKeeps
<1>2. CASE NoFreeBlock
  <2>1. /\ blocks' = Aged /\ cached' = cached
        /\ pc' = IF Collecting THEN "collect" ELSE "alloc"
        /\ call' = [call EXCEPT !.threshold = GcThreshold]
    BY <1>2 DEF NoFreeBlock
  <2>2. HeapInv' /\ SameUnmapped
    <3>1. Aged = [x \in DOMAIN Aged |-> Aged[x]]
      BY DEF Aged
    <3>2. Held = {} /\ Held' = {}
      BY <1>0, <2>1 DEF Held
    <3>3. \A x \in Unmapped : blocks'[x] = blocks[x]
      BY <1>0, <2>1, AgedType DEF Unmapped
    <3> QED
      BY <1>1, <2>1, <3>1, <3>2, <3>3, AgedType
  <2>3. GcThreshold \in Nat
    <3>1. CASE Collecting
      <4>1. /\ allowed \in Nat /\ GcNumerator \in Nat /\ GcDenominator \in Nat \ {0}
        BY <3>1, ConfigAssumption DEF Collecting, CountInv
      <4>2. allowed * GcNumerator \in Nat
        BY <4>1
      <4>3. \A a \in Nat, b \in Nat \ {0} : a \div b \in Nat
        OBVIOUS
      <4> QED
        BY <3>1, <4>1, <4>2, <4>3 DEF GcThreshold
    <3> QED
      BY <3>1 DEF GcThreshold
  <2>4. call' \in Call /\ call'.op = call.op /\ call'.size = call.size
        /\ call'.stream = call.stream /\ call'.targets = call.targets
    BY <1>0, <2>1, <2>3 DEF Call
  <2>5. CallInv'
    BY <1>0, <2>1, <2>4 DEF CallInv, Searching, Steps
  <2> QED
    BY <1>0, <2>1, <2>2, <2>4, <2>5, AgedType
<1>3. ASSUME NEW p \in cached, GetFreeBlock(p)
      PROVE  /\ HeapInv' /\ CallInv'
             /\ SameUnmapped /\ call'.targets = call.targets
             /\ \A x \in active : blocks'[x] = blocks[x]
  <2>1. /\ Best(p) /\ Acceptable(p)
        /\ blocks' = [Aged EXCEPT ![p].age = 0] /\ cached' = cached \ {p}
        /\ pc' = "found" /\ call' = [call EXCEPT !.block = p]
    BY <1>3 DEF GetFreeBlock
  <2>2. p \in Fits
    BY <2>1 DEF Best, Smallest
  <2>3. /\ blocks[p].small = IsSmall(call.size) /\ blocks[p].stream = call.stream
        /\ blocks[p].size >= call.size
    BY <2>2 DEF Fits, Pool
  <2>4. p \in DOMAIN blocks /\ p \notin active /\ p \in Nat /\ blocks[p].size \in Nat
    BY <1>0, BlockType DEF HeapInv, Tiled
  <2>5. /\ blocks'[p] = [Aged[p] EXCEPT !.age = 0]
        /\ DOMAIN blocks' = DOMAIN blocks
        /\ blocks' = [x \in DOMAIN blocks' |-> blocks'[x]]
        /\ \A x \in DOMAIN blocks : x # p => blocks'[x] = Aged[x]
    BY <2>1, <2>4, AgedType
  <2>6. \A x \in DOMAIN blocks :
          blocks'[x] \in Block /\ blocks'[x] = [blocks[x] EXCEPT !.age = blocks'[x].age]
    <3> SUFFICES ASSUME NEW x \in DOMAIN blocks
                 PROVE  blocks'[x] \in Block /\ blocks'[x] = [blocks[x] EXCEPT !.age = blocks'[x].age]
      OBVIOUS
    <3>0. blocks[x] \in Block /\ Aged[x] \in Block /\ Aged[x] = [blocks[x] EXCEPT !.age = Aged[x].age]
      BY AgedType, Partition
    <3>1. CASE x = p
      BY <3>0, <3>1, <2>5 DEF Block
    <3>2. CASE x # p
      BY <3>0, <3>2, <2>5
    <3> QED
      BY <3>1, <3>2
  <2>7. /\ call' \in Call /\ call'.op = call.op /\ call'.size = call.size
        /\ call'.stream = call.stream /\ call'.targets = call.targets /\ call'.block = p
    BY <1>0, <2>1, <2>4 DEF Call
  <2>8. HeapInv' /\ SameUnmapped
    <3>1. Held = {} /\ Held' = {p}
      BY <1>0, <2>1, <2>7 DEF Held
    <3> QED
      <4>1. \A x \in Unmapped : x # p /\ x \in DOMAIN blocks /\ x \notin cached
        BY <1>0 DEF Unmapped
      <4>2. \A x \in Unmapped : blocks'[x] = blocks[x]
        BY <4>1, <2>5, AgedType
      <4> QED
        BY <4>2, <1>1, <2>1, <2>5, <2>6, <3>1
  <2>9. blocks'[p].size = blocks[p].size /\ blocks'[p].seg = blocks[p].seg
        /\ blocks'[p].stream = blocks[p].stream /\ blocks'[p].small = blocks[p].small
    <3>1. blocks'[p] = [blocks[p] EXCEPT !.age = blocks'[p].age]
      BY <2>4, <2>6
    <3>2. blocks[p] \in Block
      BY <2>4, Partition
    <3> QED
      BY <3>1, <3>2 DEF Block
  <2>10. MaxSplitSize # None /\ ~IsSmall(call.size) /\ call.size < MaxSplitSize =>
           segments[blocks[p].seg] <= MaxSplitSize + kMiB
    <3> SUFFICES ASSUME MaxSplitSize # None, ~IsSmall(call.size), call.size < MaxSplitSize
                 PROVE  segments[blocks[p].seg] <= MaxSplitSize + kMiB
      OBVIOUS
    <3>1. blocks[p].size < MaxSplitSize
      BY <2>1 DEF Acceptable, BelowMaxSplit
    <3>2. segments[blocks[p].seg] > MaxSplitSize + kMiB => Whole(segments, blocks, p)
      BY <2>3, <2>4 DEF HeapInv, SplitBounded
    <3>3. segments[blocks[p].seg] \in Nat /\ MaxSplitSize \in Nat
      BY <2>4, ConfigAssumption DEF HeapInv, Tiled, InSegment
    <3> QED
      BY <3>1, <3>2, <3>3, <2>4 DEF Whole, kMiB
  <2>11. CallInv'
    BY <1>0, <2>1, <2>3, <2>4, <2>5, <2>7, <2>9, <2>10 DEF CallInv, Searching, Steps
  <2>12. \A x \in active : blocks'[x] = blocks[x]
    BY <1>0, <2>4, <2>5, AgedType
  <2> QED
    BY <2>7, <2>8, <2>11, <2>12
<1> QED
  BY <1>0, <1>2, <1>3

\* What release_available_cached_blocks gives back is never part of a segment.
LEMMA OversizeUnsplit ==
  ASSUME HeapInv, MaxSplitSize # None, NEW p \in DOMAIN blocks,
         blocks[p].size >= MaxSplitSize
  PROVE  ~IsSplit(blocks, p)
<1> SUFFICES ASSUME IsSplit(blocks, p) PROVE FALSE
  OBVIOUS
<1>0. /\ MaxSplitSize \in Nat /\ MaxSplitSize > kLargeBuffer
      /\ HeapType(blocks) /\ blocks[p].size \in Nat /\ p \in Nat
      /\ segments[blocks[p].seg] \in Nat /\ blocks[p].seg \in Nat
      /\ blocks[p].seg <= p /\ End(blocks, p) <= blocks[p].seg + segments[blocks[p].seg]
  BY ConfigAssumption, BlockType DEF HeapInv, Tiled, InSegment
<1>1. blocks[p].size <= segments[blocks[p].seg]
  BY <1>0 DEF End
<1>2. ~blocks[p].small
  BY <1>0, <1>1 DEF HeapInv, SmallSegments, kSmallBuffer, kLargeBuffer
<1>3. ~Whole(segments, blocks, p)
  BY WholeAlone DEF HeapInv
<1>4. segments[blocks[p].seg] <= MaxSplitSize + kMiB
  BY <1>0, <1>2, <1>3 DEF HeapInv, SplitBounded, kMiB
<1>5. PICK q \in DOMAIN blocks : Linked(blocks, p, q) \/ Linked(blocks, q, p)
  BY DEF IsSplit, PrevSet, NextSet
<1>6. /\ blocks[q].seg = blocks[p].seg /\ blocks[q].small = blocks[p].small
      /\ blocks[q].size \in Nat /\ q \in Nat
      /\ blocks[p].seg <= q /\ End(blocks, q) <= blocks[p].seg + segments[blocks[p].seg]
  BY <1>5, <1>0, BlockType DEF Linked, HeapInv, Tiled, InSegment
<1>7. blocks[q].size > kSmallSize
  BY <1>2, <1>6 DEF HeapInv, SplitBounded
<1> QED
  BY <1>0, <1>4, <1>5, <1>6, <1>7 DEF Linked, End, kSmallSize, kMiB

\* A cached block that is chosen to be released is a whole segment.
LEMMA ReleasedUnsplit ==
  ASSUME HeapInv, CallInv, SegmentCall, NEW p,
         \/ CollectBlock(p)
         \/ p \in cached /\ (ReleaseFitting(p) \/ ReleaseLargest(p) \/ ReleaseCached(p))
  PROVE  ~IsSplit(blocks, p)
<1>0. p \in cached /\ p \in DOMAIN blocks /\ blocks[p].size \in Nat
  <2>1. p \in cached
    BY DEF CollectBlock, SegmentCall, Unsplit
  <2> QED
    BY <2>1, Partition, BlockType DEF HeapInv, Tiled
<1>1. CASE CollectBlock(p)
  BY <1>1 DEF CollectBlock, SegmentCall, Unsplit
<1>2. CASE ReleaseFitting(p)
  <2>1. MaxSplitSize # None /\ p \in Enough /\ call.size \in Nat
    BY <1>2 DEF ReleaseFitting, CallInv, SegmentCall, Smallest, Call
  <2>2. blocks[p].size >= MaxSplitSize
    BY <2>1, <1>0, ConfigAssumption DEF Enough, SplitKey, BelowMaxSplit
  <2> QED
    BY <2>1, <2>2, <1>0, OversizeUnsplit
<1>3. CASE ReleaseLargest(p)
  <2>1. MaxSplitSize # None /\ p \in OversizeCached
    BY <1>3 DEF ReleaseLargest, SegmentCall, Largest
  <2>2. blocks[p].size >= MaxSplitSize
    BY <2>1, <1>0, ConfigAssumption DEF OversizeCached, BelowMaxSplit
  <2> QED
    BY <2>1, <2>2, <1>0, OversizeUnsplit
<1>4. CASE ReleaseCached(p)
  BY <1>4 DEF ReleaseCached, Unsplit
<1> QED
  BY <1>1, <1>2, <1>3, <1>4

\* The four ways a cached block is chosen to be released.
LEMMA ReleaseKeeps ==
  ASSUME HeapInv, CallInv, AllMapped, SegmentCall, NEW p,
         \/ CollectBlock(p)
         \/ p \in cached /\ (ReleaseFitting(p) \/ ReleaseLargest(p) \/ ReleaseCached(p))
  PROVE  /\ HeapInv'
         /\ CallInv' /\ AllMapped' /\ SegmentCall'
         /\ active' = active
         /\ \A x \in active : blocks'[x] = blocks[x]
<1>0. /\ pc \in {"collect", "release_some", "release_all"}
      /\ pc' \in {"collect", "release_some", "realloc", "release_all"}
      /\ pc' = "collect" => pc = "collect"
      /\ pc' \in Searching => pc \in Searching
      /\ pc' = "release_some" => pc = "release_some"
      /\ call \in Call /\ ReleaseBlock(p)
  BY DEF CollectBlock, ReleaseFitting, ReleaseLargest, ReleaseCached, Goto, CallInv, Searching
<1>1. p \in cached /\ p \in DOMAIN blocks /\ blocks[p].size \in Nat
  <2>1. p \in cached
    BY DEF CollectBlock, SegmentCall, Unsplit
  <2> QED
    BY <2>1, Partition, BlockType DEF HeapInv, Tiled
<1>2. ~IsSplit(blocks, p)
  BY ReleasedUnsplit
<1>3. /\ HeapInv' /\ SameUnmapped /\ active' = active
      /\ DOMAIN blocks' = DOMAIN blocks \ {p}
      /\ \A x \in DOMAIN blocks' : blocks'[x] = blocks[x]
  BY <1>0, <1>1, <1>2, ReleaseBlockKeeps
<1>4. \A x \in active : x # p /\ x \in DOMAIN blocks
  BY <1>1, Partition
<1>5. call' \in Call /\ call'.op = call.op /\ call'.size = call.size /\ call'.stream = call.stream
  <2>1. CASE CollectBlock(p)
    BY <2>1, <1>0 DEF CollectBlock, Call
  <2>2. CASE ReleaseLargest(p)
    BY <2>2, <1>0, <1>1 DEF ReleaseLargest, Call
  <2>3. CASE ReleaseFitting(p) \/ ReleaseCached(p)
    BY <2>3, <1>0 DEF ReleaseFitting, ReleaseCached, Goto
  <2> QED
    BY <2>1, <2>2, <2>3
<1>6. call'.targets \subseteq IF pc' = "collect" THEN Unsplit(FALSE)' ELSE {}
  <2>1. CASE CollectBlock(p)
    <3>1. call'.targets = call.targets \ {p} /\ pc' = "collect" /\ call.targets \subseteq Unsplit(FALSE)
      BY <2>1, <1>0 DEF CollectBlock, Call, SegmentCall
    <3>2. ASSUME NEW x \in Unsplit(FALSE), x # p PROVE x \in Unsplit(FALSE)'
      <4>1. x \in cached' /\ x \in DOMAIN blocks' /\ ~blocks'[x].small
        BY <3>2, <1>0, <1>3, Partition DEF Unsplit, ReleaseBlock
      <4>2. ~IsSplit(blocks, x)
        BY <3>2 DEF Unsplit
      <4>3. ~IsSplit(blocks', x)
        BY <4>1, <4>2, <1>3 DEF IsSplit, PrevSet, NextSet, Linked, End
      <4> QED
        BY <4>1, <4>3 DEF Unsplit
    <3> QED
      BY <3>1, <3>2
  <2>2. CASE ReleaseLargest(p)
    BY <2>2, <1>0 DEF ReleaseLargest, Call, SegmentCall
  <2>3. CASE ReleaseFitting(p) \/ ReleaseCached(p)
    BY <2>3, <1>0 DEF ReleaseFitting, ReleaseCached, Goto, SegmentCall
  <2> QED
    BY <2>1, <2>2, <2>3
<1>7. CallInv'
  BY <1>0, <1>5 DEF CallInv, Searching, Steps
<1>8. SegmentCall' /\ AllMapped'
  BY <1>0, <1>3, <1>6 DEF SegmentCall, AllMapped, SameUnmapped
<1> QED
  BY <1>3, <1>4, <1>7, <1>8, Partition

-----------------------------------------------------------------------------
(* The queues of events *)

\* The queues of a stream are sequences, the work one as long as the events
\* that have not completed.
LEMMA QueueTypes ==
  ASSUME QueueInv, NEW s \in Streams
  PROVE  /\ npu_events[s] \in Seq(Nat) /\ Len(npu_events[s]) \in Nat
         /\ DOMAIN npu_events[s] = 1 .. Len(npu_events[s])
         /\ work[s] \in Seq(Extent) /\ Len(work[s]) \in Nat
         /\ DOMAIN work[s] = 1 .. Len(work[s])
         /\ completed[s] \in Nat
         /\ Len(npu_events[s]) = completed[s] + Len(work[s])
<1>1. npu_events[s] \in Seq(Nat) /\ work[s] \in Seq(Extent) /\ completed[s] \in Nat
  BY DEF QueueInv
<1>2. Len(work[s]) = Len(npu_events[s]) - completed[s]
  BY DEF QueueInv, WorkBehindEvents
<1>3. /\ Len(npu_events[s]) \in Nat /\ DOMAIN npu_events[s] = 1 .. Len(npu_events[s])
      /\ Len(work[s]) \in Nat /\ DOMAIN work[s] = 1 .. Len(work[s])
  BY <1>1, LenProperties
<1> QED
  BY <1>1, <1>2, <1>3

\* Finitely many streams hold an event of x, none exactly if the count is 0.
LEMMA QueueingFinite ==
  ASSUME NEW x
  PROVE  /\ IsFiniteSet(Queueing(x)) /\ Cardinality(Queueing(x)) \in Nat
         /\ Queueing(x) = {} <=> Cardinality(Queueing(x)) = 0
<1>1. IsFiniteSet(Queueing(x))
  <2>1. Queueing(x) \in SUBSET Streams
    BY DEF Queueing
  <2> QED
    BY <2>1, FS_Subset, EnvironmentAssumption
<1> QED
  BY <1>1, FS_CardinalityType, FS_EmptySet

\* A block named in a queue is active, freed, and counts the event.
LEMMA QueuedHasEvents ==
  ASSUME QueueInv, NEW s \in Streams, NEW i \in DOMAIN npu_events[s]
  PROVE  /\ npu_events[s][i] \in active
         /\ blocks[npu_events[s][i]].events > 0
         /\ ~blocks[npu_events[s][i]].allocated
<1> DEFINE x == npu_events[s][i]
<1>1. x \in active
  BY DEF QueueInv, EventsOfActive
<1>2. s \in Queueing(x)
  BY DEF Queueing
<1>3. Cardinality(Queueing(x)) > 0
  BY <1>2, QueueingFinite
<1>4. blocks[x].events = Cardinality(Queueing(x)) /\ (blocks[x].allocated => blocks[x].events = 0)
  BY <1>1 DEF QueueInv, EventsOfActive
<1> QED
  BY <1>1, <1>3, <1>4

\* Steps that leave the queues alone: the blocks that are queued stay as they are.
LEMMA QueueFrame ==
  ASSUME QueueInv, UNCHANGED <<npu_events, completed, work>>,
         \A x \in active :
           /\ blocks[x].events > 0 => x \in active'
           /\ x \in active' =>
                /\ blocks'[x].events = blocks[x].events
                /\ blocks'[x].size = blocks[x].size
                /\ blocks'[x].allocated => blocks[x].allocated \/ blocks[x].events = 0,
         \A x \in active' \ active : blocks'[x].events = 0
  PROVE  QueueInv'
<1>1. EventsOfActive'
  <2>1. ASSUME NEW x \in active'
        PROVE  /\ blocks'[x].events = Cardinality(Queueing(x))
               /\ blocks'[x].allocated => blocks'[x].events = 0
    <3>1. CASE x \in active
      <4>1. /\ blocks[x].events = Cardinality(Queueing(x))
            /\ blocks[x].allocated => blocks[x].events = 0
        BY <3>1 DEF QueueInv, EventsOfActive
      <4>2. /\ blocks'[x].events = blocks[x].events
            /\ blocks'[x].allocated => blocks[x].allocated \/ blocks[x].events = 0
        BY <2>1, <3>1
      <4> QED
        BY <4>1, <4>2
    <3>2. CASE x \notin active
      <4>1. Queueing(x) = {}
        BY <3>2, QueuedHasEvents DEF Queueing
      <4> QED
        BY <2>1, <3>2, <4>1, QueueingFinite
    <3> QED
      BY <3>1, <3>2
  <2>2. \A x \in active' : Queueing(x)' = Queueing(x)
    BY DEF Queueing
  <2>3. \A s \in Streams : \A i \in DOMAIN npu_events[s] : npu_events[s][i] \in active'
    BY QueuedHasEvents
  <2> QED
    BY <2>1, <2>2, <2>3 DEF QueueInv, EventsOfActive
<1>2. WorkBehindEvents'
  <2> SUFFICES ASSUME NEW s \in Streams, NEW i \in DOMAIN work[s]
               PROVE  work[s][i].hi = End(blocks', work[s][i].lo)
    BY DEF QueueInv, WorkBehindEvents
  <2>1. work[s][i].lo = npu_events[s][completed[s] + i]
        /\ work[s][i].hi = End(blocks, work[s][i].lo)
    BY DEF QueueInv, WorkBehindEvents
  <2>2. completed[s] + i \in DOMAIN npu_events[s]
    BY QueueTypes
  <2>3. work[s][i].lo \in active /\ blocks[work[s][i].lo].events > 0
    BY <2>1, <2>2, QueuedHasEvents
  <2>4. work[s][i].lo \in active'
    BY <2>3
  <2>5. blocks'[work[s][i].lo].size = blocks[work[s][i].lo].size
    BY <2>3, <2>4
  <2> QED
    BY <2>1, <2>5 DEF End
<1> QED
  BY <1>1, <1>2 DEF QueueInv

\* A stream finishes work, or the device is waited for.
LEMMA DeviceKeeps ==
  ASSUME QueueInv, UNCHANGED <<blocks, active, npu_events>>,
         \/ \E s \in Streams : DeviceRuns(s)
         \/ DeviceSynchronize
  PROVE  QueueInv'
<1>1. /\ completed' \in [Streams -> Nat] /\ work' \in [Streams -> Seq(Extent)]
      /\ \A t \in Streams : completed'[t] <= Len(npu_events[t])
      /\ WorkBehindEvents'
  <2>1. ASSUME NEW s \in Streams, DeviceRuns(s)
        PROVE  /\ completed' \in [Streams -> Nat] /\ work' \in [Streams -> Seq(Extent)]
               /\ \A t \in Streams : completed'[t] <= Len(npu_events[t])
               /\ WorkBehindEvents'
    <3>1. /\ work[s] # <<>> /\ work' = [work EXCEPT ![s] = Tail(@)]
          /\ completed' = [completed EXCEPT
                             ![s] = IF @ < Len(npu_events[s]) THEN @ + 1 ELSE @]
      BY <2>1 DEF DeviceRuns
    <3>2. /\ Tail(work[s]) \in Seq(Extent) /\ Len(Tail(work[s])) = Len(work[s]) - 1
          /\ Len(work[s]) > 0
          /\ \A i \in 1 .. Len(Tail(work[s])) : Tail(work[s])[i] = work[s][i + 1]
      BY <3>1, QueueTypes, HeadTailProperties, EmptySeq
    <3>3. completed[s] < Len(npu_events[s])
      BY <3>2, QueueTypes
    <3>4. /\ completed'[s] = completed[s] + 1 /\ work'[s] = Tail(work[s])
          /\ \A t \in Streams : t # s => completed'[t] = completed[t] /\ work'[t] = work[t]
          /\ completed' \in [Streams -> Nat] /\ work' \in [Streams -> Seq(Extent)]
      BY <3>1, <3>2, <3>3, QueueTypes DEF QueueInv
    <3>0. /\ Len(npu_events[s]) \in Nat /\ completed[s] \in Nat /\ Len(work[s]) \in Nat
          /\ Len(npu_events[s]) = completed[s] + Len(work[s])
          /\ DOMAIN work[s] = 1 .. Len(work[s])
      BY QueueTypes
    <3>5. \A t \in Streams : completed'[t] <= Len(npu_events[t])
      <4> TAKE t \in Streams
      <4>1. completed[t] <= Len(npu_events[t])
        BY DEF QueueInv, EventsOfActive
      <4> QED
        BY <4>1, <3>0, <3>3, <3>4, SMTT(30)
    <3>6. WorkBehindEvents'
      <4> SUFFICES ASSUME NEW t \in Streams
                   PROVE  /\ Len(work'[t]) = Len(npu_events[t]) - completed'[t]
                          /\ \A i \in DOMAIN work'[t] :
                               /\ work'[t][i].lo = npu_events[t][completed'[t] + i]
                               /\ work'[t][i].hi = End(blocks, work'[t][i].lo)
        BY DEF WorkBehindEvents
      <4>1. CASE t # s
        <5>1. completed'[t] = completed[t] /\ work'[t] = work[t]
          BY <4>1, <3>4
        <5>2. /\ Len(work[t]) = Len(npu_events[t]) - completed[t]
              /\ \A i \in DOMAIN work[t] :
                   /\ work[t][i].lo = npu_events[t][completed[t] + i]
                   /\ work[t][i].hi = End(blocks, work[t][i].lo)
          BY DEF QueueInv, WorkBehindEvents
        <5> QED
          BY <5>1, <5>2
      <4>2. CASE t = s
        <5>1. DOMAIN work'[s] = 1 .. Len(work[s]) - 1 /\ Len(work'[s]) = Len(work[s]) - 1
          BY <3>2, <3>4, LenProperties
        <5>2. ASSUME NEW i \in DOMAIN work'[s]
              PROVE  /\ work'[s][i].lo = npu_events[s][completed'[s] + i]
                     /\ work'[s][i].hi = End(blocks, work'[s][i].lo)
          <6>1. i + 1 \in DOMAIN work[s] /\ work'[s][i] = work[s][i + 1]
            BY <5>1, <3>2, <3>4, QueueTypes
          <6>2. completed'[s] + i = completed[s] + (i + 1)
            <7>1. i \in Int /\ completed[s] \in Int
              BY <5>1, <3>0
            <7>2. completed'[s] = completed[s] + 1
              BY <3>4
            <7> HIDE DEF QueueInv
            <7> QED
              BY ONLY <7>1, <7>2
          <6>3. /\ work[s][i + 1].lo = npu_events[s][completed[s] + (i + 1)]
                /\ work[s][i + 1].hi = End(blocks, work[s][i + 1].lo)
            BY <6>1 DEF QueueInv, WorkBehindEvents
          <6> QED
            BY <6>1, <6>2, <6>3
        <5>3. Len(work'[s]) = Len(npu_events[s]) - completed'[s]
          BY <5>1, <3>0, <3>4, SMTT(30)
        <5> QED
          BY <4>2, <5>2, <5>3
      <4> QED
        BY <4>1, <4>2
    <3> QED
      BY <3>4, <3>5, <3>6
  <2>2. CASE DeviceSynchronize
    <3>1. /\ work' = [s \in Streams |-> <<>>]
          /\ completed' = [s \in Streams |-> Len(npu_events[s])]
      BY <2>2 DEF DeviceSynchronize
    <3>2. WorkBehindEvents'
      <4>1. \A s \in Streams : DOMAIN work'[s] = {} /\ Len(work'[s]) = 0
        BY <3>1
      <4> QED
        BY <3>1, <4>1, QueueTypes DEF WorkBehindEvents
    <3> QED
      BY <3>1, <3>2, QueueTypes, EmptySeq
  <2> QED
    BY <2>1, <2>2
<1>2. EventsOfActive'
  <2>1. \A x \in active : Queueing(x)' = Queueing(x)
    BY DEF Queueing
  <2> QED
    BY <1>1, <2>1 DEF QueueInv, EventsOfActive
<1> QED
  BY <1>1, <1>2 DEF QueueInv

-----------------------------------------------------------------------------
(* An event that leaves its queue *)

\* Without repetitions, taking the element at i takes its value.
LEMMA RemovedElements ==
  ASSUME NEW S, NEW q \in Seq(S), NEW r \in Seq(S), NEW i \in 1 .. Len(q),
         Removed(q, r, i),
         \A j, k \in DOMAIN q : q[j] = q[k] => j = k
  PROVE  /\ \A x : (\E j \in DOMAIN r : r[j] = x) <=>
                   (x # q[i] /\ \E j \in DOMAIN q : q[j] = x)
         /\ \A j, k \in DOMAIN r : r[j] = r[k] => j = k
<1>0. /\ Len(q) \in Nat /\ DOMAIN q = 1 .. Len(q)
      /\ DOMAIN r = 1 .. Len(q) - 1
      /\ \A j \in 1 .. Len(q) - 1 : r[j] = q[IF j < i THEN j ELSE j + 1]
      /\ i \in Int
  BY SMTT(30) DEF Removed
<1>1. \A j \in 1 .. Len(q) - 1 :
        /\ j < i => r[j] = q[j] /\ j \in 1 .. Len(q) /\ j # i
        /\ ~(j < i) => r[j] = q[j + 1] /\ j + 1 \in 1 .. Len(q) /\ j + 1 # i
  BY <1>0
<1>2. ASSUME NEW x, NEW j \in DOMAIN r, r[j] = x
      PROVE  x # q[i] /\ \E k \in DOMAIN q : q[k] = x
  BY <1>0, <1>1, <1>2
<1>3. ASSUME NEW x, x # q[i], NEW j \in DOMAIN q, q[j] = x
      PROVE  \E k \in DOMAIN r : r[k] = x
  <2>1. CASE j < i
    <3>1. j \in 1 .. Len(q) - 1
      BY <2>1, <1>0
    <3> QED
      BY <2>1, <3>1, <1>0, <1>1, <1>3
  <2>2. CASE j > i
    <3>1. j - 1 \in 1 .. Len(q) - 1 /\ ~(j - 1 < i) /\ (j - 1) + 1 = j
      BY <2>2, <1>0
    <3>2. r[j - 1] = q[j]
      BY <3>1, <1>1
    <3> QED
      BY <3>1, <3>2, <1>0, <1>3
  <2> QED
    BY <2>1, <2>2, <1>0, <1>3
<1>4. ASSUME NEW j \in DOMAIN r, NEW k \in DOMAIN r, r[j] = r[k]
      PROVE  j = k
  <2>1. j \in 1 .. Len(q) - 1 /\ k \in 1 .. Len(q) - 1
    BY <1>0
  <2> DEFINE u == IF j < i THEN j ELSE j + 1
             v == IF k < i THEN k ELSE k + 1
  <2>2. u \in DOMAIN q /\ v \in DOMAIN q /\ r[j] = q[u] /\ r[k] = q[v]
    BY <2>1, <1>0
  <2>3. u = v
    BY <2>2, <1>4
  <2> QED
    BY <2>1, <2>3, <1>0
<1> QED
  BY <1>2, <1>3, <1>4

\* What the completion of an event of p does to the heap.
LEMMA EventDoneKeeps ==
  ASSUME HeapInv, NEW p \in active, ~blocks[p].allocated, blocks[p].events > 0,
         stats \in Stats, EventDone(blocks, p),
         segments' = segments, pc # "found", pc' # "found"
  PROVE  /\ HeapInv' /\ SameUnmapped
         /\ stats' \in Stats
         /\ active' = IF blocks[p].events = 1 THEN active \ {p} ELSE active
         /\ \A x \in active : x # p => blocks'[x] = blocks[x]
         /\ p \in active' => /\ blocks'[p].events = blocks[p].events - 1
                             /\ blocks'[p].size = blocks[p].size
                             /\ ~blocks'[p].allocated
<1> DEFINE g == [blocks EXCEPT ![p].events = blocks[p].events - 1]
<1>0. /\ p \in DOMAIN blocks /\ p \notin Unmapped /\ blocks[p] \in Block /\ blocks[p].events \in Nat
      /\ blocks[p].uses = {}
      /\ active \subseteq DOMAIN blocks
  BY Partition DEF Block
<1>1. /\ g = [blocks EXCEPT ![p] = g[p]] /\ g[p] \in Block
      /\ DOMAIN g = DOMAIN blocks
      /\ \A x \in DOMAIN blocks : x # p => g[x] = blocks[x]
      /\ g[p].events = blocks[p].events - 1
      /\ g[p].size = blocks[p].size /\ g[p].seg = blocks[p].seg
      /\ g[p].stream = blocks[p].stream /\ g[p].small = blocks[p].small
      /\ g[p].mapped = blocks[p].mapped
      /\ ~g[p].allocated /\ g[p].uses = {}
  BY <1>0 DEF Block
<1>2. IF g[p].events = 0
      THEN FreeBlock(g, p, stats)
      ELSE blocks' = g /\ UNCHANGED <<cached, active, stats>>
  BY DEF EventDone
<1> HIDE DEF g
<1>3. CASE g[p].events = 0
  <2>1. Freed(blocks[p], g[p]) /\ FreeBlock(g, p, stats)
    BY <1>1, <1>2, <1>3 DEF Freed
  <2>2. /\ HeapInv' /\ SameUnmapped /\ active' = active \ {p}
        /\ \A x \in active' : blocks'[x] = blocks[x]
        /\ Coalesce(g, p)[Lead(g, p)].size \in Int
    BY <1>1, <2>1, FreeBlockKeeps
  <2>3. stats' \in Stats
    BY <1>1, <2>1, <2>2, FreeBlockStatsType DEF FreeBlock
  <2>4. blocks[p].events = 1
    BY <1>0, <1>1, <1>3
  <2> QED
    BY <2>2, <2>3, <2>4
<1>4. CASE g[p].events # 0
  <2>1. blocks' = g /\ cached' = cached /\ active' = active /\ stats' = stats
    BY <1>2, <1>4
  <2>2. HeapInv' /\ SameUnmapped
    <3>1. HeapType(blocks)'
      BY <2>1, <1>1 DEF HeapInv, Tiled, HeapType
    <3>2. Held = {} /\ Held' = {}
      BY DEF Held
    <3>3. ASSUME NEW x \in DOMAIN blocks
          PROVE  /\ g[x].size = blocks[x].size
                 /\ g[x].seg = blocks[x].seg
                 /\ g[x].stream = blocks[x].stream
                 /\ g[x].small = blocks[x].small
                 /\ g[x].mapped = blocks[x].mapped
                 /\ g[x].allocated \/ g[x].events > 0
                      <=> blocks[x].allocated \/ blocks[x].events > 0
                 /\ ~g[x].allocated => g[x].uses = {}
      <4>1. CASE x = p
        <5>1. g[p].events > 0
          BY <1>0, <1>1, <1>4
        <5> QED
          BY <4>1, <5>1, <1>0, <1>1
      <4>2. CASE x # p
        BY <4>2, <1>1, Partition
      <4> QED
        BY <4>1, <4>2
    <3>4. \A x \in Unmapped : g[x] = blocks[x]
      BY <1>0, <1>1 DEF Unmapped
    <3> QED
      BY <2>1, <3>1, <3>2, <3>3, <3>4, <1>1, SameHeapKeeps
  <2>3. blocks[p].events # 1
    BY <1>1, <1>4
  <2> QED
    BY <2>1, <2>2, <2>3, <1>0, <1>1
<1> QED
  BY <1>3, <1>4

\* The indices of a queue of c completed events and n outstanding ones, when
\* one of the completed ones leaves ...
LEMMA ShiftPopped ==
  ASSUME NEW c \in Nat, NEW n \in Nat, NEW m \in Nat, NEW i \in Int, NEW j \in 1 .. n,
         m = c + n - 1, 1 <= i, i <= c
  PROVE  /\ (c - 1) + j \in 1 .. m
         /\ ~((c - 1) + j < i)
         /\ ((c - 1) + j) + 1 = c + j
OBVIOUS

\* ... and when one of the outstanding ones does.
LEMMA ShiftErased ==
  ASSUME NEW c \in Nat, NEW n \in Nat, NEW m \in Nat, NEW i \in Int, NEW j \in 1 .. n - 1,
         m = c + n - 1, c < i
  PROVE  /\ c + j \in 1 .. m
         /\ c + j < i => j < i - c /\ j \in 1 .. n
         /\ ~(c + j < i) => ~(j < i - c) /\ j + 1 \in 1 .. n /\ c + j + 1 = c + (j + 1)
OBVIOUS

\* An event leaves its queue at position i: the oldest because it has
\* completed, or any because its stream is erased.  The work in front of the
\* event leaves with it, if there is any left.
LEMMA DequeueKeeps ==
  ASSUME HeapInv, QueueInv, NEW s \in Streams, NEW i \in 1 .. Len(npu_events[s]),
         NEW q \in Seq(Nat), NEW w \in Seq(Extent),
         Removed(npu_events[s], q, i),
         npu_events' = [npu_events EXCEPT ![s] = q],
         completed' = [completed EXCEPT ![s] = IF i <= completed[s]
                                               THEN completed[s] - 1 ELSE completed[s]],
         work' = [work EXCEPT ![s] = w],
         i <= completed[s] => w = work[s],
         i > completed[s] => Removed(work[s], w, i - completed[s]),
         EventDone(blocks, npu_events[s][i]), stats \in Stats,
         segments' = segments, pc # "found", pc' # "found"
  PROVE  HeapInv' /\ SameUnmapped /\ QueueInv' /\ stats' \in Stats
<1> DEFINE p == npu_events[s][i]
           Q == npu_events[s]
<1>0. /\ Q \in Seq(Nat) /\ Len(Q) \in Nat /\ DOMAIN Q = 1 .. Len(Q)
      /\ work[s] \in Seq(Extent) /\ Len(work[s]) \in Nat
      /\ DOMAIN work[s] = 1 .. Len(work[s])
      /\ completed[s] \in Nat
      /\ Len(Q) = completed[s] + Len(work[s])
      /\ i \in Int /\ i \in DOMAIN Q
  BY QueueTypes
<1>1. p \in active /\ blocks[p].events > 0 /\ ~blocks[p].allocated
  BY <1>0, QueuedHasEvents
<1>2. /\ HeapInv' /\ SameUnmapped /\ stats' \in Stats
      /\ active' = IF blocks[p].events = 1 THEN active \ {p} ELSE active
      /\ \A x \in active : x # p => blocks'[x] = blocks[x]
      /\ p \in active' => /\ blocks'[p].events = blocks[p].events - 1
                          /\ blocks'[p].size = blocks[p].size
                          /\ ~blocks'[p].allocated
  BY <1>1, EventDoneKeeps
<1>3. /\ npu_events'[s] = q /\ work'[s] = w
      /\ \A t \in Streams : t # s => /\ npu_events'[t] = npu_events[t]
                                     /\ work'[t] = work[t]
                                     /\ completed'[t] = completed[t]
      /\ npu_events' \in [Streams -> Seq(Nat)]
      /\ completed' \in [Streams -> Nat]
      /\ work' \in [Streams -> Seq(Extent)]
      /\ completed'[s] = IF i <= completed[s] THEN completed[s] - 1 ELSE completed[s]
  BY <1>0 DEF QueueInv
<1>4. \A j, k \in DOMAIN Q : Q[j] = Q[k] => j = k
  BY DEF QueueInv, EventsOfActive
<1> HIDE DEF Q
<1>5. /\ \A x : (\E j \in DOMAIN q : q[j] = x) <=>
                (x # Q[i] /\ \E j \in DOMAIN Q : Q[j] = x)
      /\ \A j, k \in DOMAIN q : q[j] = q[k] => j = k
  <2>1. Removed(Q, q, i) /\ i \in 1 .. Len(Q)
    BY DEF Q
  <2> QED
    BY <2>1, <1>0, <1>4, RemovedElements
<1>6. p = Q[i] /\ npu_events[s] = Q
  BY DEF Q
<1> HIDE DEF p
<1> DEFINE After(x) == {t \in Streams : \E j \in DOMAIN npu_events'[t] : npu_events'[t][j] = x}
<1>7. \A x : After(x) = IF x = p THEN Queueing(x) \ {s} ELSE Queueing(x)
  <2> TAKE x
  <2>1. ASSUME NEW t \in Streams
        PROVE  (\E j \in DOMAIN npu_events'[t] : npu_events'[t][j] = x) <=>
               /\ \E j \in DOMAIN npu_events[t] : npu_events[t][j] = x
               /\ x = p => t # s
    <3>1. CASE t = s
      <4>1. npu_events'[t] = q /\ npu_events[t] = Q
        BY <3>1, <1>3, <1>6
      <4>2. (\E j \in DOMAIN q : q[j] = x) <=> (x # p /\ \E j \in DOMAIN Q : Q[j] = x)
        BY <1>5, <1>6
      <4> QED
        BY <3>1, <4>1, <4>2
    <3>2. CASE t # s
      BY <3>2, <1>3
    <3> QED
      BY <3>1, <3>2
  <2>2. CASE x = p
    BY <2>1, <2>2 DEF Queueing
  <2>3. CASE x # p
    BY <2>1, <2>3 DEF Queueing
  <2> QED
    BY <2>2, <2>3
<1> HIDE DEF After
<1>8. s \in Queueing(p)
  BY <1>0, <1>6 DEF Queueing
<1>9. Cardinality(Queueing(p) \ {s}) = Cardinality(Queueing(p)) - 1
  BY <1>8, QueueingFinite, FS_RemoveElement
<1>10. \A t \in Streams : \A j \in DOMAIN npu_events'[t] : npu_events'[t][j] \in active'
  <2> SUFFICES ASSUME NEW t \in Streams, NEW j \in DOMAIN npu_events'[t]
               PROVE  npu_events'[t][j] \in active'
    OBVIOUS
  <2> DEFINE x == npu_events'[t][j]
  <2>1. t \in After(x)
    BY DEF After
  <2>2. t \in Queueing(x)
    BY <2>1, <1>7
  <2>3. x \in active
    BY <2>2 DEF Queueing, QueueInv, EventsOfActive
  <2> HIDE DEF x
  <2> SUFFICES x \in active'
    BY DEF x
  <2>4. CASE x # p
    BY <2>3, <2>4, <1>2
  <2>5. CASE x = p
    <3>1. Queueing(p) \ {s} # {}
      BY <2>1, <2>5, <1>7
    <3>2. Cardinality(Queueing(p) \ {s}) # 0
      <4>1. IsFiniteSet(Queueing(p) \ {s})
        BY QueueingFinite, FS_RemoveElement
      <4> QED
        BY <3>1, <4>1, FS_EmptySet
    <3>3. Cardinality(Queueing(p)) # 1
      BY <3>2, <1>9, QueueingFinite
    <3>4. blocks[p].events = Cardinality(Queueing(p))
      BY <1>1, <1>6 DEF QueueInv, EventsOfActive
    <3> QED
      BY <2>3, <2>5, <3>3, <3>4, <1>2
  <2> QED
    BY <2>4, <2>5 DEF x
<1>11. completed'[s] <= Len(npu_events'[s]) /\ Len(q) = Len(Q) - 1 /\ Len(q) \in Nat
  <2>1. Len(q) = Len(Q) - 1 /\ Len(q) \in Nat
    BY <1>6 DEF Removed
  <2>2. i <= completed[s] => completed[s] - 1 <= Len(Q) - 1
    BY <1>0
  <2>3. ~(i <= completed[s]) => completed[s] <= Len(Q) - 1
    BY <1>0
  <2> QED
    BY <2>1, <2>2, <2>3, <1>3
<1>12. EventsOfActive'
  <2>1. ASSUME NEW x \in active'
        PROVE  /\ blocks'[x].events = Cardinality(After(x))
               /\ blocks'[x].allocated => blocks'[x].events = 0
    <3>0. x \in active
      BY <2>1, <1>2
    <3>1. /\ blocks[x].events = Cardinality(Queueing(x))
          /\ blocks[x].allocated => blocks[x].events = 0
      BY <3>0 DEF QueueInv, EventsOfActive
    <3>2. CASE x = p
      BY <2>1, <3>1, <3>2, <1>2, <1>6, <1>7, <1>9
    <3>3. CASE x # p
      BY <2>1, <3>0, <3>1, <3>3, <1>2, <1>6, <1>7
    <3> QED
      BY <3>2, <3>3
  <2>2. ASSUME NEW t \in Streams
        PROVE  /\ \A j, k \in DOMAIN npu_events'[t] :
                    npu_events'[t][j] = npu_events'[t][k] => j = k
               /\ completed'[t] <= Len(npu_events'[t])
    <3>1. CASE t = s
      BY <3>1, <1>3, <1>5, <1>11
    <3>2. CASE t # s
      BY <3>2, <1>3 DEF QueueInv, EventsOfActive
    <3> QED
      BY <3>1, <3>2
  <2> QED
    BY <2>1, <2>2, <1>10 DEF EventsOfActive, Queueing, After
<1>13. WorkBehindEvents'
  <2> SUFFICES ASSUME NEW t \in Streams
               PROVE  /\ Len(work'[t]) = Len(npu_events'[t]) - completed'[t]
                      /\ \A j \in DOMAIN work'[t] :
                           /\ work'[t][j].lo = npu_events'[t][completed'[t] + j]
                           /\ work'[t][j].hi = End(blocks', work'[t][j].lo)
    BY DEF WorkBehindEvents
  <2>1. /\ completed[s] \in Nat /\ Len(work[s]) \in Nat /\ Len(Q) \in Nat
        /\ Len(Q) = completed[s] + Len(work[s]) /\ Len(q) = Len(Q) - 1
        /\ i \in Int /\ 1 <= i /\ i <= Len(Q)
    BY <1>0, <1>11
  <2>2. DOMAIN work[s] = 1 .. Len(work[s])
    BY <1>0
  <2>0. \A x \in active' : blocks'[x].size = blocks[x].size
    <3> TAKE x \in active'
    <3>1. x \in active
      BY <1>2
    <3> QED
      BY <3>1, <1>2, <1>6
  <2>3. /\ Len(work[t]) = Len(npu_events[t]) - completed[t]
        /\ \A j \in DOMAIN work[t] :
             /\ work[t][j].lo = npu_events[t][completed[t] + j]
             /\ work[t][j].hi = End(blocks, work[t][j].lo)
    BY DEF QueueInv, WorkBehindEvents
  <2>4. ASSUME Len(work'[t]) = Len(npu_events'[t]) - completed'[t],
               \A j \in DOMAIN work'[t] :
                 \E k \in DOMAIN work[t] :
                   /\ work'[t][j] = work[t][k]
                   /\ npu_events'[t][completed'[t] + j] = npu_events[t][completed[t] + k]
        PROVE  \A j \in DOMAIN work'[t] :
                 /\ work'[t][j].lo = npu_events'[t][completed'[t] + j]
                 /\ work'[t][j].hi = End(blocks', work'[t][j].lo)
    <3> TAKE j \in DOMAIN work'[t]
    <3>1. PICK k \in DOMAIN work[t] :
                 /\ work'[t][j] = work[t][k]
                 /\ npu_events'[t][completed'[t] + j] = npu_events[t][completed[t] + k]
      BY <2>4
    <3>2. work'[t][j].lo = npu_events'[t][completed'[t] + j]
      BY <2>3, <3>1
    <3>3. completed'[t] + j \in DOMAIN npu_events'[t]
      <4>1. /\ work'[t] \in Seq(Extent) /\ npu_events'[t] \in Seq(Nat)
            /\ completed'[t] \in Nat
        BY <1>3
      <4>2. /\ DOMAIN work'[t] = 1 .. Len(work'[t]) /\ Len(work'[t]) \in Nat
            /\ DOMAIN npu_events'[t] = 1 .. Len(npu_events'[t]) /\ Len(npu_events'[t]) \in Nat
        BY <4>1, LenProperties
      <4>3. j \in 1 .. Len(work'[t])
        BY <4>2
      <4>4. Len(work'[t]) = Len(npu_events'[t]) - completed'[t]
        BY <2>4
      <4>5. /\ completed'[t] \in Nat /\ Len(work'[t]) \in Nat
            /\ Len(npu_events'[t]) \in Nat
        BY <4>1, <4>2
      <4>6. completed'[t] + j \in 1 .. Len(npu_events'[t])
        BY ONLY <4>3, <4>4, <4>5, SMTT(30)
      <4> QED
        BY <4>2, <4>6
    <3>4. work'[t][j].lo \in active'
      BY <3>2, <3>3, <1>10
    <3> QED
      BY <2>0, <2>3, <3>1, <3>2, <3>4, SMTT(30) DEF End
  <2>5. CASE t # s
    <3>1. Len(work'[t]) = Len(npu_events'[t]) - completed'[t]
      BY <2>3, <2>5, <1>3
    <3> QED
      BY <2>4, <2>5, <3>1, <1>3
  <2>6. CASE t = s /\ i <= completed[s]
    <3>0. w = work[s]
      BY <2>6
    <3>1. Len(w) = Len(q) - (completed[s] - 1)
      BY ONLY <2>6, <3>0, <1>0, <1>11, SMTT(30)
    <3>2. ASSUME NEW j \in DOMAIN w
          PROVE  q[(completed[s] - 1) + j] = Q[completed[s] + j]
      <4>0. j \in 1 .. Len(work[s])
        BY <3>0, <2>2
      <4>1. /\ (completed[s] - 1) + j \in 1 .. Len(q)
            /\ ~((completed[s] - 1) + j < i)
            /\ ((completed[s] - 1) + j) + 1 = completed[s] + j
        <5>1. Len(q) \in Nat /\ Len(q) = completed[s] + Len(work[s]) - 1
          BY ONLY <2>1, <1>11
        <5>2. i <= completed[s]
          BY <2>6
        <5> QED
          <6> DEFINE c == completed[s]
                     n == Len(work[s])
                     m == Len(q)
          <6>1. /\ c \in Nat /\ n \in Nat /\ m \in Nat /\ i \in Int /\ j \in 1 .. n
                /\ m = c + n - 1 /\ 1 <= i /\ i <= c
            BY ONLY <4>0, <5>1, <5>2, <2>1
          <6> HIDE DEF c, n, m
          <6>2. /\ (c - 1) + j \in 1 .. m
                /\ ~((c - 1) + j < i)
                /\ ((c - 1) + j) + 1 = c + j
            BY ONLY <6>1, ShiftPopped
          <6> QED
            BY <6>2 DEF c, n, m
      <4> QED
        BY <4>1, <1>6 DEF Removed
    <3>3. Len(work'[t]) = Len(npu_events'[t]) - completed'[t]
      BY <2>6, <3>1, <1>3
    <3>4. \A j \in DOMAIN w :
            /\ j \in DOMAIN work[s] /\ work'[s][j] = work[s][j]
            /\ npu_events'[s][completed'[s] + j] = npu_events[s][completed[s] + j]
      BY <2>6, <3>2, <1>3, <1>6
    <3> QED
      BY <2>4, <2>6, <3>3, <3>4, <1>3
  <2>7. CASE t = s /\ ~(i <= completed[s])
    <3>1. /\ Removed(work[s], w, i - completed[s])
          /\ Len(w) = Len(work[s]) - 1 /\ DOMAIN w = 1 .. Len(w)
      <4>1. i > completed[s]
        BY <2>7, <1>0
      <4> QED
        BY <4>1 DEF Removed
    <3>2. Len(w) = Len(q) - completed[s]
      BY ONLY <3>1, <2>1, SMTT(30)
    <3>3. ASSUME NEW j \in DOMAIN w
          PROVE  \E k \in DOMAIN work[s] :
                   w[j] = work[s][k] /\ q[completed[s] + j] = Q[completed[s] + k]
      <4>0. j \in 1 .. Len(work[s]) - 1 /\ j \in 1 .. Len(w)
        BY <3>1
      <4>1. /\ completed[s] + j \in 1 .. Len(q)
            /\ completed[s] + j < i => j < i - completed[s] /\ j \in 1 .. Len(work[s])
            /\ ~(completed[s] + j < i) =>
                 /\ ~(j < i - completed[s]) /\ j + 1 \in 1 .. Len(work[s])
                 /\ completed[s] + j + 1 = completed[s] + (j + 1)
        <5>1. /\ Len(q) \in Nat /\ Len(q) = completed[s] + Len(work[s]) - 1
              /\ completed[s] < i
          BY <2>7, <2>1, <1>11
        <5> QED
          BY ONLY <4>0, <5>1, <2>1, ShiftErased
      <4>2. /\ w[j] = work[s][IF j < i - completed[s] THEN j ELSE j + 1]
            /\ q[completed[s] + j] = Q[IF completed[s] + j < i THEN completed[s] + j
                                       ELSE completed[s] + j + 1]
        BY <3>1, <4>0, <4>1, <1>6 DEF Removed
      <4>3. CASE completed[s] + j < i
        BY <4>1, <4>2, <4>3, <2>2
      <4>4. CASE ~(completed[s] + j < i)
        BY <4>1, <4>2, <4>4, <2>2
      <4> QED
        BY <4>3, <4>4
    <3>4. Len(work'[t]) = Len(npu_events'[t]) - completed'[t]
      BY <2>7, <3>2, <1>3
    <3>5. \A j \in DOMAIN work'[t] :
            \E k \in DOMAIN work[t] :
              /\ work'[t][j] = work[t][k]
              /\ npu_events'[t][completed'[t] + j] = npu_events[t][completed[t] + k]
      BY <2>7, <3>3, <1>3, <1>6
    <3> QED
      BY <2>4, <3>4, <3>5
  <2> QED
    BY <2>5, <2>6, <2>7
<1> QED
  BY <1>2, <1>3, <1>12, <1>13 DEF QueueInv

\* The oldest event of a stream, which has completed, leaves its queue.
LEMMA PopEventKeeps ==
  ASSUME HeapInv, QueueInv, NEW s \in Streams, npu_events[s] # <<>>,
         completed[s] > 0, PopEvent(s), stats \in Stats,
         segments' = segments, pc # "found", pc' # "found"
  PROVE  HeapInv' /\ SameUnmapped /\ QueueInv' /\ stats' \in Stats
<1> DEFINE q == Tail(npu_events[s])
           w == work[s]
<1>1. /\ npu_events[s] \in Seq(Nat) /\ completed[s] \in Nat /\ w \in Seq(Extent)
      /\ Len(npu_events[s]) \in Nat
  BY QueueTypes
<1>2. /\ q \in Seq(Nat) /\ Removed(npu_events[s], q, 1)
      /\ 1 \in 1 .. Len(npu_events[s]) /\ Head(npu_events[s]) = npu_events[s][1]
  <2>1. Len(npu_events[s]) # 0
    BY <1>1, EmptySeq
  <2>2. 1 \in 1 .. Len(npu_events[s])
    BY <1>1, <2>1
  <2> QED
    BY <1>1, <2>2, TailRemoves
<1>3. /\ npu_events' = [npu_events EXCEPT ![s] = q]
      /\ completed' = [completed EXCEPT ![s] = completed[s] - 1]
      /\ EventDone(blocks, Head(npu_events[s]))
      /\ work' = work
  BY DEF PopEvent
<1>4. 1 <= completed[s] /\ ~(1 > completed[s])
  BY <1>1
<1>5. /\ completed' = [completed EXCEPT ![s] = IF 1 <= completed[s]
                                               THEN completed[s] - 1 ELSE completed[s]]
      /\ EventDone(blocks, npu_events[s][1])
  BY <1>2, <1>3, <1>4
<1>6. work' = [work EXCEPT ![s] = w]
  BY <1>3 DEF QueueInv
<1> HIDE DEF q
<1>7. 1 <= completed[s] => w = work[s]
  OBVIOUS
<1> HIDE DEF w
<1> QED
  BY <1>1, <1>2, <1>3, <1>4, <1>5, <1>6, <1>7, DequeueKeeps

\* eraseStream, whether an event of the block is queued or not.
LEMMA EraseStreamKeeps ==
  ASSUME HeapInv, QueueInv, stats \in Stats,
         NEW p \in active, NEW s \in Streams, EraseStream(p, s)
  PROVE  HeapInv' /\ SameUnmapped /\ QueueInv' /\ stats' \in Stats
<1> DEFINE h == [blocks EXCEPT ![p].uses = @ \ {s}]
           queued  == {i \in DOMAIN npu_events[s] : npu_events[s][i] = p}
           pending == {i \in DOMAIN work[s] : work[s][i].lo = p}
<1>0. /\ pc = "idle" /\ pc' = "idle" /\ segments' = segments
      /\ work' = [work EXCEPT ![s] = IF pending = {} THEN work[s]
                                     ELSE RemoveIndex(work[s], CHOOSE i \in pending : TRUE)]
  BY DEF EraseStream
<1>1. /\ npu_events[s] \in Seq(Nat) /\ work[s] \in Seq(Extent) /\ completed[s] \in Nat
      /\ Len(npu_events[s]) \in Nat /\ Len(work[s]) \in Nat
      /\ DOMAIN npu_events[s] = 1 .. Len(npu_events[s]) /\ DOMAIN work[s] = 1 .. Len(work[s])
      /\ Len(npu_events[s]) = completed[s] + Len(work[s])
  BY QueueTypes
<1>2. /\ \A i \in DOMAIN work[s] : /\ completed[s] + i \in DOMAIN npu_events[s]
                                   /\ work[s][i].lo = npu_events[s][completed[s] + i]
      /\ \A i, j \in DOMAIN npu_events[s] :
           npu_events[s][i] = npu_events[s][j] => i = j
  <2>1. \A i \in DOMAIN work[s] : completed[s] + i \in DOMAIN npu_events[s]
    BY ONLY <1>1
  <2> QED
    BY <2>1 DEF QueueInv, EventsOfActive, WorkBehindEvents
<1>3. p \in DOMAIN blocks /\ p \notin Unmapped /\ blocks[p] \in Block
  BY Partition
<1>4. CASE queued = {}
  <2>1. pending = {}
    BY <1>2, <1>4
  <2>2. work' = work
    BY <1>0, <2>1 DEF QueueInv
  <2>3. /\ blocks' = h /\ cached' = cached /\ active' = active /\ stats' = stats
        /\ npu_events' = npu_events /\ completed' = completed
    BY <1>4 DEF EraseStream
  <2>4. /\ DOMAIN h = DOMAIN blocks /\ h[p] \in Block /\ h[p].uses = blocks[p].uses \ {s}
        /\ h[p] = [blocks[p] EXCEPT !.uses = h[p].uses]
        /\ \A x \in DOMAIN blocks : x # p => h[x] = blocks[x]
        /\ h = [x \in DOMAIN h |-> h[x]]
    BY <1>3 DEF Block
  <2> HIDE DEF h, queued, pending
  <2>5. \A x \in DOMAIN blocks :
           /\ h[x].size = blocks[x].size
           /\ h[x].seg = blocks[x].seg
           /\ h[x].stream = blocks[x].stream
           /\ h[x].small = blocks[x].small
           /\ h[x].mapped = blocks[x].mapped
           /\ h[x].allocated = blocks[x].allocated
           /\ h[x].events = blocks[x].events
           /\ ~h[x].allocated => h[x].uses = {}
    <3> SUFFICES ASSUME NEW x \in DOMAIN blocks
                 PROVE  /\ h[x].size = blocks[x].size
                        /\ h[x].seg = blocks[x].seg
                        /\ h[x].stream = blocks[x].stream
                        /\ h[x].small = blocks[x].small
                        /\ h[x].mapped = blocks[x].mapped
                        /\ h[x].allocated = blocks[x].allocated
                        /\ h[x].events = blocks[x].events
                        /\ ~h[x].allocated => h[x].uses = {}
      OBVIOUS
    <3>1. ~blocks[x].allocated => blocks[x].uses = {}
      BY Partition
    <3>2. CASE x = p
      BY <3>1, <3>2, <2>4, <1>3 DEF Block
    <3>3. CASE x # p
      BY <3>1, <3>3, <2>4
    <3> QED
      BY <3>2, <3>3
  <2>6. HeapInv' /\ SameUnmapped
    <3>1. HeapType(blocks)'
      BY <2>3, <2>4 DEF HeapInv, Tiled, HeapType
    <3>2. Held = {} /\ Held' = {}
      BY <1>0 DEF Held
    <3>3. \A x \in Unmapped : h[x] = blocks[x]
      BY <1>3, <2>4 DEF Unmapped
    <3> QED
      BY <1>0, <2>3, <2>4, <2>5, <3>1, <3>2, <3>3, SameHeapKeeps
  <2>7. QueueInv'
    <3>1. \A x \in active : x \in DOMAIN blocks
      BY Partition
    <3> QED
      BY <2>2, <2>3, <2>5, <3>1, QueueFrame
  <2> QED
    BY <2>3, <2>6, <2>7
<1>5. CASE queued # {}
  <2> DEFINE i == CHOOSE j \in queued : TRUE
             q == RemoveIndex(npu_events[s], i)
             w == work'[s]
  <2>1. i \in 1 .. Len(npu_events[s]) /\ npu_events[s][i] = p
    BY <1>1, <1>5
  <2>2. /\ npu_events' = [npu_events EXCEPT ![s] = q]
        /\ completed' = [completed EXCEPT ![s] = IF i <= completed[s] THEN completed[s] - 1
                                                 ELSE completed[s]]
        /\ EventDone(h, p)
    BY <1>5 DEF EraseStream
  <2>3. h = blocks
    <3>1. ~blocks[p].allocated
      BY <2>1, <1>1, QueuedHasEvents
    <3>2. blocks[p].uses = {}
      BY <1>3, <3>1, Partition
    <3>3. [blocks[p] EXCEPT !.uses = {}] = blocks[p]
      BY <1>3, <3>2 DEF Block
    <3>4. blocks = [x \in DOMAIN blocks |-> blocks[x]]
      BY DEF HeapInv, Tiled, HeapType
    <3> QED
      BY <1>3, <3>2, <3>3, <3>4
  <2>4. EventDone(blocks, npu_events[s][i])
    BY <2>1, <2>2, <2>3
  <2> HIDE DEF h, i
  <2>5. q \in Seq(Nat) /\ Removed(npu_events[s], q, i)
    BY <2>1, <1>1, RemoveIndexRemoves
  <2>6. i <= completed[s] => w = work[s] /\ w \in Seq(Extent)
    <3> SUFFICES ASSUME i <= completed[s] PROVE pending = {}
      BY <1>0, <1>1 DEF QueueInv
    <3> SUFFICES ASSUME NEW k \in DOMAIN work[s], work[s][k].lo = p PROVE FALSE
      OBVIOUS
    <3>1. completed[s] + k = i
      BY <1>1, <1>2, <2>1
    <3> QED
      BY <3>1, <1>1, <2>1
  <2>7. i > completed[s] => Removed(work[s], w, i - completed[s]) /\ w \in Seq(Extent)
    <3> SUFFICES ASSUME i > completed[s]
                 PROVE  Removed(work[s], w, i - completed[s]) /\ w \in Seq(Extent)
      OBVIOUS
    <3>1. /\ i - completed[s] \in 1 .. Len(work[s])
          /\ completed[s] + (i - completed[s]) = i
      BY ONLY <1>1, <2>1, i > completed[s], SMTT(30)
    <3>2. i - completed[s] \in pending
      BY <3>1, <2>1, <1>1, <1>2
    <3>3. ASSUME NEW k \in pending PROVE k = i - completed[s]
      <4>1. completed[s] + k = i /\ k \in 1 .. Len(work[s])
        BY <1>1, <1>2, <2>1
      <4> QED
        BY <4>1, <1>1
    <3>4. (CHOOSE k \in pending : TRUE) = i - completed[s]
      BY <3>2, <3>3
    <3>5. w = RemoveIndex(work[s], i - completed[s])
      BY <1>0, <3>2, <3>4 DEF QueueInv
    <3> QED
      BY <3>1, <3>5, <1>1, RemoveIndexRemoves
  <2>8. work' = [work EXCEPT ![s] = w] /\ w \in Seq(Extent)
    <3>1. i <= completed[s] \/ i > completed[s]
      BY <1>1, <2>1
    <3> QED
      BY <1>0, <2>6, <2>7, <3>1 DEF QueueInv
  <2> HIDE DEF q, w
  <2> QED
    BY <2>1, <2>2, <2>4, <2>5, <2>6, <2>7, <2>8, <1>0, DequeueKeeps
<1> QED
  BY <1>4, <1>5

\* recordStream.
LEMMA RecordStreamKeeps ==
  ASSUME HeapInv, QueueInv, NEW p \in active, NEW s \in Streams, RecordStream(p, s)
  PROVE  HeapInv' /\ SameUnmapped /\ QueueInv'
<1> DEFINE h == [blocks EXCEPT ![p].uses = @ \cup {s}]
<1>0. /\ pc = "idle" /\ pc' = "idle" /\ segments' = segments
      /\ blocks[p].allocated /\ blocks' = h
      /\ cached' = cached /\ active' = active
      /\ npu_events' = npu_events /\ completed' = completed /\ work' = work
  BY DEF RecordStream, Allocated, eventVars
<1>1. p \in DOMAIN blocks /\ p \notin Unmapped /\ blocks[p] \in Block
  BY Partition
<1>2. /\ DOMAIN h = DOMAIN blocks /\ h[p] \in Block
      /\ h[p] = [blocks[p] EXCEPT !.uses = h[p].uses]
      /\ \A x \in DOMAIN blocks : x # p => h[x] = blocks[x]
      /\ h = [x \in DOMAIN h |-> h[x]]
  BY <1>1 DEF Block
<1> HIDE DEF h
<1>3. \A x \in DOMAIN blocks :
         /\ h[x].size = blocks[x].size
         /\ h[x].seg = blocks[x].seg
         /\ h[x].stream = blocks[x].stream
         /\ h[x].small = blocks[x].small
         /\ h[x].mapped = blocks[x].mapped
         /\ h[x].allocated = blocks[x].allocated
         /\ h[x].events = blocks[x].events
         /\ ~h[x].allocated => h[x].uses = {}
  <2> SUFFICES ASSUME NEW x \in DOMAIN blocks
               PROVE  /\ h[x].size = blocks[x].size
                      /\ h[x].seg = blocks[x].seg
                      /\ h[x].stream = blocks[x].stream
                      /\ h[x].small = blocks[x].small
                      /\ h[x].mapped = blocks[x].mapped
                      /\ h[x].allocated = blocks[x].allocated
                      /\ h[x].events = blocks[x].events
                      /\ ~h[x].allocated => h[x].uses = {}
    OBVIOUS
  <2>1. CASE x = p
    BY <2>1, <1>0, <1>1, <1>2 DEF Block
  <2>2. CASE x # p
    BY <2>2, <1>2, Partition
  <2> QED
    BY <2>1, <2>2
<1>4. HeapInv' /\ SameUnmapped
  <2>1. HeapType(blocks)'
    BY <1>0, <1>2 DEF HeapInv, Tiled, HeapType
  <2>2. Held = {} /\ Held' = {}
    BY <1>0 DEF Held
  <2>3. \A x \in Unmapped : h[x] = blocks[x]
    BY <1>1, <1>2 DEF Unmapped
  <2> QED
    BY <1>0, <1>2, <1>3, <2>1, <2>2, <2>3, SameHeapKeeps
<1>5. QueueInv'
  <2>1. \A x \in active : x \in DOMAIN blocks
    BY Partition
  <2> QED
    BY <1>0, <1>3, <2>1, QueueFrame
<1> QED
  BY <1>4, <1>5

\* The effect of free on stats.allocation and stats.allocated_bytes.
LEMMA FreeStatsType ==
  ASSUME stats \in Stats, NEW small \in BOOLEAN, NEW n \in Int
  PROVE  [stats EXCEPT ![small] =
            [stats[small] EXCEPT !.allocation = @ - 1, !.allocated_bytes = @ - n]] \in Stats
<1>1. stats[small] \in Stat
  BY DEF Stats
<1>2. \A a, b \in Int :
        [stats[small] EXCEPT !.allocation = a, !.allocated_bytes = b] \in Stat
  BY <1>1 DEF Stat
<1>3. stats[small].allocation - 1 \in Int /\ stats[small].allocated_bytes - n \in Int
  BY <1>1 DEF Stat
<1>4. [stats[small] EXCEPT !.allocation = stats[small].allocation - 1,
                           !.allocated_bytes = stats[small].allocated_bytes - n] \in Stat
  BY <1>2, <1>3, Zenon
<1> QED
  BY <1>4 DEF Stats

\* A block without recorded streams goes straight back to its pool.
LEMMA FreeUnusedKeeps ==
  ASSUME HeapInv, QueueInv, stats \in Stats,
         NEW p \in active, Free(p), blocks[p].uses = {}
  PROVE  HeapInv' /\ SameUnmapped /\ QueueInv' /\ stats' \in Stats
<1> DEFINE h  == [blocks EXCEPT ![p].allocated = FALSE]
           st == [stats EXCEPT ![blocks[p].small] =
                    [stats[blocks[p].small] EXCEPT !.allocation = @ - 1,
                                                   !.allocated_bytes = @ - blocks[p].size]]
<1>0. /\ pc = "idle" /\ pc' = "idle" /\ segments' = segments
      /\ blocks[p].allocated
      /\ FreeBlock(h, p, st) /\ npu_events' = npu_events /\ completed' = completed
      /\ work' = [t \in Streams |-> work[t]]
  BY DEF Free, Allocated
<1>1. /\ p \in DOMAIN blocks /\ blocks[p] \in Block /\ blocks[p].events = 0
      /\ blocks[p].small \in BOOLEAN /\ blocks[p].size \in Int
  BY <1>0, Partition DEF QueueInv, EventsOfActive, Block
<1>2. st \in Stats
  BY <1>1, FreeStatsType
<1>3. /\ h = [blocks EXCEPT ![p] = h[p]] /\ h[p] \in Block /\ Freed(blocks[p], h[p])
  BY <1>0, <1>1 DEF Freed, Block
<1>4. work' = work
  BY <1>0 DEF QueueInv
<1> HIDE DEF h, st
<1>5. /\ HeapInv' /\ SameUnmapped /\ active' = active \ {p}
      /\ \A x \in active' : blocks'[x] = blocks[x]
      /\ Coalesce(h, p)[Lead(h, p)].size \in Int
  BY <1>0, <1>3, FreeBlockKeeps
<1>6. stats' \in Stats
  BY <1>0, <1>2, <1>3, <1>5, FreeBlockStatsType DEF FreeBlock
<1>7. QueueInv'
  <2>1. \A x \in active : blocks[x].events > 0 => x \in active'
    BY <1>1, <1>5
  <2>2. active' \ active = {}
    BY <1>5
  <2>3. ASSUME NEW x \in active, x \in active'
        PROVE  /\ blocks'[x].events = blocks[x].events
               /\ blocks'[x].size = blocks[x].size
               /\ blocks'[x].allocated => blocks[x].allocated \/ blocks[x].events = 0
    BY <2>3, <1>5
  <2> QED
    BY <2>1, <2>2, <2>3, <1>0, <1>4, QueueFrame
<1> QED
  BY <1>5, <1>6, <1>7

\* insert_events: the block waits for one event in the queue of every stream
\* that was recorded on it.
LEMMA FreeUsedKeeps ==
  ASSUME HeapInv, QueueInv, stats \in Stats,
         NEW p \in active, Free(p), blocks[p].uses # {}
  PROVE  HeapInv' /\ SameUnmapped /\ QueueInv' /\ stats' \in Stats
<1> DEFINE b == blocks[p]
           k == Cardinality(b.uses)
           g == [blocks EXCEPT ![p].allocated = FALSE]
           h == [g EXCEPT ![p].uses = {}, ![p].events = @ + k]
           r == [lo |-> p, hi |-> End(blocks, p)]
<1>0. /\ pc = "idle" /\ pc' = "idle" /\ segments' = segments
      /\ b.allocated /\ active' = active /\ cached' = cached
      /\ completed' = completed
      /\ work' = [t \in Streams |-> IF t \in b.uses THEN Append(work[t], r) ELSE work[t]]
      /\ npu_events' = [t \in Streams |-> IF t \in b.uses THEN Append(npu_events[t], p)
                                                          ELSE npu_events[t]]
      /\ stats' = [stats EXCEPT ![b.small] =
                    [stats[b.small] EXCEPT !.allocation = @ - 1, !.allocated_bytes = @ - b.size]]
  BY DEF Free, Allocated
<1>1. /\ p \in DOMAIN blocks /\ p \notin Unmapped /\ b \in Block /\ b.events = 0
      /\ b.small \in BOOLEAN /\ b.size \in Nat /\ b.uses \subseteq Streams /\ p \in Nat
  BY <1>0, Partition DEF QueueInv, EventsOfActive, Block, HeapInv, Tiled, HeapType
<1>2. k \in Nat /\ k > 0
  <2>1. IsFiniteSet(b.uses)
    BY <1>1, FS_Subset, EnvironmentAssumption
  <2> QED
    BY <2>1, FS_CardinalityType, FS_EmptySet
<1> HIDE DEF k
<1>3. blocks' = h
  BY Zenon DEF Free, k
<1>4. /\ DOMAIN g = DOMAIN blocks
       /\ g[p] \in Block /\ ~g[p].allocated /\ g[p].events = 0
       /\ g[p].size = b.size /\ g[p].seg = b.seg /\ g[p].stream = b.stream
       /\ g[p].small = b.small /\ g[p].mapped = b.mapped
       /\ \A x \in DOMAIN blocks : x # p => g[x] = blocks[x]
  BY <1>1 DEF Block
<1> HIDE DEF g
<1>5. /\ DOMAIN h = DOMAIN blocks
      /\ h[p] \in Block /\ ~h[p].allocated /\ h[p].uses = {} /\ h[p].events = k
      /\ h[p].size = b.size /\ h[p].seg = b.seg /\ h[p].stream = b.stream
      /\ h[p].small = b.small /\ h[p].mapped = b.mapped
      /\ \A x \in DOMAIN blocks : x # p => h[x] = blocks[x]
      /\ h = [x \in DOMAIN h |-> h[x]]
  <2>1. /\ DOMAIN h = DOMAIN g
        /\ h[p] = [g[p] EXCEPT !.uses = {}, !.events = g[p].events + k]
        /\ \A x \in DOMAIN blocks : x # p => h[x] = g[x]
        /\ h = [x \in DOMAIN h |-> h[x]]
    BY <1>1, <1>4
  <2>2. g[p].events + k = k
    BY <1>2, <1>4
  <2>3. h[p] = [g[p] EXCEPT !.uses = {}, !.events = k]
    BY <2>1, <2>2, Zenon
  <2> HIDE DEF h
  <2>4. /\ h[p] \in Block /\ ~h[p].allocated /\ h[p].uses = {} /\ h[p].events = k
        /\ h[p].size = g[p].size /\ h[p].seg = g[p].seg /\ h[p].stream = g[p].stream
        /\ h[p].small = g[p].small /\ h[p].mapped = g[p].mapped
    BY <2>3, <1>2, <1>4 DEF Block
  <2> QED
    BY <2>1, <2>4, <1>4
<1> HIDE DEF h
<1>6. HeapInv' /\ SameUnmapped
  <2>1. HeapType(blocks)'
    BY <1>3, <1>5 DEF HeapInv, Tiled, HeapType
  <2>2. Held = {} /\ Held' = {}
    BY <1>0 DEF Held
  <2>3. ASSUME NEW x \in DOMAIN blocks
        PROVE  /\ h[x].size = blocks[x].size
               /\ h[x].seg = blocks[x].seg
               /\ h[x].stream = blocks[x].stream
               /\ h[x].small = blocks[x].small
               /\ h[x].mapped = blocks[x].mapped
               /\ h[x].allocated \/ h[x].events > 0
                    <=> blocks[x].allocated \/ blocks[x].events > 0
               /\ ~h[x].allocated => h[x].uses = {}
    <3>1. CASE x = p
      BY <3>1, <1>0, <1>2, <1>5
    <3>2. CASE x # p
      BY <3>2, <1>5, Partition
    <3> QED
      BY <3>1, <3>2
  <2>4. \A x \in Unmapped : h[x] = blocks[x]
    BY <1>1, <1>5 DEF Unmapped
  <2> QED
    BY <1>0, <1>3, <1>5, <2>1, <2>2, <2>3, <2>4, SameHeapKeeps
<1>7. stats' \in Stats
  <2>1. b.size \in Int
    BY <1>1
  <2> HIDE DEF b
  <2>2. [stats EXCEPT ![b.small] = [stats[b.small] EXCEPT
            !.allocation = @ - 1, !.allocated_bytes = @ - b.size]] \in Stats
    BY <1>1, <2>1, FreeStatsType, Zenon
  <2> QED
    BY <1>0, <2>2, Zenon
<1>8. Queueing(p) = {}
  BY <1>0, QueuedHasEvents DEF Queueing
<1>9. ASSUME NEW t \in Streams
      PROVE  /\ npu_events'[t] \in Seq(Nat) /\ work'[t] \in Seq(Extent)
             /\ t \in b.uses =>
                  /\ Len(npu_events'[t]) = Len(npu_events[t]) + 1
                  /\ npu_events'[t][Len(npu_events[t]) + 1] = p
                  /\ Len(work'[t]) = Len(work[t]) + 1
                  /\ work'[t][Len(work[t]) + 1] = r
             /\ t \notin b.uses => /\ Len(npu_events'[t]) = Len(npu_events[t])
                                   /\ Len(work'[t]) = Len(work[t])
             /\ \A j \in 1 .. Len(npu_events[t]) : npu_events'[t][j] = npu_events[t][j]
             /\ \A j \in 1 .. Len(work[t]) : work'[t][j] = work[t][j]
             /\ DOMAIN npu_events'[t] = 1 .. Len(npu_events'[t])
             /\ DOMAIN work'[t] = 1 .. Len(work'[t])
  <2>1. npu_events[t] \in Seq(Nat) /\ work[t] \in Seq(Extent)
    BY QueueTypes
  <2>2. r \in Extent
    BY <1>1 DEF Extent, End
  <2> HIDE DEF r
  <2>3. CASE t \in b.uses
    <3>1. npu_events'[t] = Append(npu_events[t], p) /\ work'[t] = Append(work[t], r)
      BY <2>3, <1>0
    <3> QED
      BY <2>1, <2>2, <2>3, <3>1, <1>1, AppendProperties, LenProperties
  <2>4. CASE t \notin b.uses
    <3>1. npu_events'[t] = npu_events[t] /\ work'[t] = work[t]
      BY <2>4, <1>0
    <3> QED
      BY <2>1, <2>4, <3>1, LenProperties
  <2> QED
    BY <2>3, <2>4
<1> HIDE DEF r
<1>10. npu_events' \in [Streams -> Seq(Nat)] /\ work' \in [Streams -> Seq(Extent)]
  BY <1>0, <1>9
<1>11. \A t \in Streams :
         /\ Len(npu_events[t]) \in Nat /\ Len(work[t]) \in Nat /\ completed[t] \in Nat
         /\ Len(npu_events[t]) = completed[t] + Len(work[t])
         /\ DOMAIN npu_events[t] = 1 .. Len(npu_events[t])
         /\ DOMAIN work[t] = 1 .. Len(work[t])
  BY QueueTypes
\* What the queues hold after the step: their old entries, and p at the end.
<1>12. ASSUME NEW t \in Streams, NEW j \in DOMAIN npu_events'[t]
       PROVE  \/ /\ j \in DOMAIN npu_events[t]
                 /\ npu_events'[t][j] = npu_events[t][j]
                 /\ npu_events'[t][j] # p
              \/ /\ t \in b.uses /\ j = Len(npu_events[t]) + 1
                 /\ npu_events'[t][j] = p
  <2>1. ASSUME j \in 1 .. Len(npu_events[t]) PROVE npu_events[t][j] # p
    BY <2>1, <1>8, <1>11 DEF Queueing
  <2>2. j \in 1 .. Len(npu_events[t]) \/ (t \in b.uses /\ j = Len(npu_events[t]) + 1)
    BY <1>9, <1>11
  <2> QED
    BY <2>1, <2>2, <1>9, <1>11
<1> DEFINE After(x) == {t \in Streams : \E j \in DOMAIN npu_events'[t] : npu_events'[t][j] = x}
<1>13. \A x : x # p => After(x) = Queueing(x)
  <2> TAKE x
  <2> SUFFICES ASSUME x # p, NEW t \in Streams
               PROVE  (\E j \in DOMAIN npu_events'[t] : npu_events'[t][j] = x) <=>
                      (\E j \in DOMAIN npu_events[t] : npu_events[t][j] = x)
    BY DEF Queueing
  <2>1. \A j \in DOMAIN npu_events[t] : j \in DOMAIN npu_events'[t] /\ npu_events'[t][j] = npu_events[t][j]
    BY <1>9, <1>11, SMTT(30)
  <2> QED
    BY <2>1, <1>12
<1>14. After(p) = b.uses
  <2>1. ASSUME NEW t \in Streams, t \in b.uses
        PROVE  \E j \in DOMAIN npu_events'[t] : npu_events'[t][j] = p
    BY <2>1, <1>9, <1>11
  <2> QED
    BY <2>1, <1>1, <1>12
<1> HIDE DEF After
<1>15. EventsOfActive'
  <2>1. ASSUME NEW x \in active
        PROVE  /\ h[x].events = Cardinality(After(x))
               /\ h[x].allocated => h[x].events = 0
    <3>1. CASE x = p
      BY <3>1, <1>5, <1>14 DEF k
    <3>2. CASE x # p
      BY <3>2, <1>5, <1>13, Partition DEF QueueInv, EventsOfActive
    <3> QED
      BY <3>1, <3>2
  <2>2. ASSUME NEW t \in Streams,
               NEW i \in DOMAIN npu_events'[t], NEW j \in DOMAIN npu_events'[t],
               npu_events'[t][i] = npu_events'[t][j]
        PROVE  i = j
    <3>1. CASE npu_events'[t][i] = p
      BY <3>1, <2>2, <1>12
    <3>2. CASE npu_events'[t][i] # p
      <4>1. /\ i \in DOMAIN npu_events[t] /\ npu_events'[t][i] = npu_events[t][i]
            /\ j \in DOMAIN npu_events[t] /\ npu_events'[t][j] = npu_events[t][j]
        BY <3>2, <2>2, <1>12
      <4> QED
        BY <4>1, <2>2 DEF QueueInv, EventsOfActive
    <3> QED
      BY <3>1, <3>2
  <2>3. ASSUME NEW t \in Streams, NEW i \in DOMAIN npu_events'[t]
        PROVE  npu_events'[t][i] \in active
    BY <1>12 DEF QueueInv, EventsOfActive
  <2>4. ASSUME NEW t \in Streams PROVE completed[t] <= Len(npu_events'[t])
    BY <1>9, <1>11
  <2> QED
    BY <2>1, <2>2, <2>3, <2>4, <1>0, <1>3 DEF EventsOfActive, After, Queueing
<1>16. WorkBehindEvents'
  <2> SUFFICES ASSUME NEW t \in Streams
               PROVE  /\ Len(work'[t]) = Len(npu_events'[t]) - completed[t]
                      /\ \A j \in DOMAIN work'[t] :
                           /\ work'[t][j].lo = npu_events'[t][completed[t] + j]
                           /\ work'[t][j].hi = End(h, work'[t][j].lo)
    <3>1. UNCHANGED completed /\ blocks' = h
      BY <1>0, <1>3
    <3> QED
      BY <3>1 DEF WorkBehindEvents
  <2>0. \/ Len(work'[t]) = Len(work[t]) + 1 /\ Len(npu_events'[t]) = Len(npu_events[t]) + 1
        \/ Len(work'[t]) = Len(work[t]) /\ Len(npu_events'[t]) = Len(npu_events[t])
    BY <1>9
  <2>1. /\ Len(npu_events[t]) \in Nat /\ Len(work[t]) \in Nat /\ completed[t] \in Nat
        /\ Len(npu_events[t]) = completed[t] + Len(work[t])
    BY <1>11
  <2>2. Len(work'[t]) = Len(npu_events'[t]) - completed[t]
    BY ONLY <2>0, <2>1
  <2>3. ASSUME NEW j \in DOMAIN work'[t]
        PROVE  /\ work'[t][j].lo = npu_events'[t][completed[t] + j]
               /\ work'[t][j].hi = End(h, work'[t][j].lo)
    <3>1. CASE j \in 1 .. Len(work[t])
      <4>1. completed[t] + j \in 1 .. Len(npu_events[t])
        BY <3>1, <1>11
      <4>2. /\ work[t][j].lo = npu_events[t][completed[t] + j]
            /\ work[t][j].hi = End(blocks, work[t][j].lo)
        BY <3>1, <1>11 DEF QueueInv, WorkBehindEvents
      <4>3. npu_events[t][completed[t] + j] \in DOMAIN blocks
        BY <4>1, <1>11, Partition DEF QueueInv, EventsOfActive
      <4>4. h[work[t][j].lo].size = blocks[work[t][j].lo].size
        BY <4>2, <4>3, <1>5
      <4> QED
        BY <3>1, <4>1, <4>2, <4>4, <1>9 DEF End
    <3>2. CASE j \notin 1 .. Len(work[t])
      <4>0. t \in b.uses /\ j = Len(work[t]) + 1
        BY <3>2, <2>1, <1>9
      <4>1. completed[t] + j = Len(npu_events[t]) + 1
        BY ONLY <2>1, <4>0
      <4>2. t \in b.uses /\ j = Len(work[t]) + 1 /\ completed[t] + j = Len(npu_events[t]) + 1
        BY <4>0, <4>1
      <4>3. work'[t][j].lo = p /\ work'[t][j].hi = End(blocks, p)
        BY <4>2, <1>9 DEF r
      <4> QED
        BY <4>2, <4>3, <1>5, <1>9 DEF End
    <3> QED
      BY <3>1, <3>2
  <2> QED
    BY <2>2, <2>3
<1> QED
  BY <1>0, <1>6, <1>7, <1>10, <1>15, <1>16 DEF QueueInv

\* A segment that comes or goes keeps the statistics integers.
LEMMA SegmentStatsType ==
  ASSUME stats \in Stats, NEW small \in BOOLEAN, NEW n \in Int, NEW size \in Int
  PROVE  SegmentStats(stats, small, n, size) \in Stats
<1>1. stats[small] \in Stat
  BY DEF Stats
<1>2. \A a, b \in Int : [stats[small] EXCEPT !.segment = a, !.reserved_bytes = b] \in Stat
  BY <1>1 DEF Stat
<1>3. stats[small].segment + n \in Int /\ stats[small].reserved_bytes + n * size \in Int
  BY <1>1 DEF Stat
<1>4. [stats[small] EXCEPT !.segment = stats[small].segment + n,
                           !.reserved_bytes = stats[small].reserved_bytes + n * size] \in Stat
  BY <1>2, <1>3, Zenon
<1> QED
  BY <1>4 DEF Stats, SegmentStats

\* alloc_found_block keeps the statistics integers.
LEMMA AllocFoundStatsType ==
  ASSUME stats \in Stats, NEW p, blocks[p] \in Block, NEW n \in Int, NEW split
  PROVE  AllocFoundStats(stats, p, n, split) \in Stats
<1> DEFINE b == blocks[p]
           r == stats[b.small]
           already == IsSplit(blocks, p)
           size == IF split THEN n ELSE b.size
           c == IF ExpandableSegments THEN r.inactive_split
                ELSE r.inactive_split + Bit(split /\ ~already) - Bit(~split /\ already)
           d == IF ExpandableSegments THEN r.inactive_split_bytes
                ELSE IF already THEN r.inactive_split_bytes - size
                ELSE IF split THEN r.inactive_split_bytes + (b.size - n)
                ELSE r.inactive_split_bytes
<1>1. b.small \in BOOLEAN /\ b.size \in Int /\ size \in Int
  BY DEF Block
<1>2. /\ r \in Stat /\ r.allocation \in Int /\ r.allocated_bytes \in Int
      /\ r.active \in Int /\ r.active_bytes \in Int
      /\ r.inactive_split \in Int /\ r.inactive_split_bytes \in Int
  BY <1>1 DEF Stats, Stat
<1>3. Bit(split /\ ~already) \in Int /\ Bit(~split /\ already) \in Int
  BY DEF Bit
<1>4. c \in Int
  <2>1. \A x, y, z \in Int : x + y - z \in Int
    OBVIOUS
  <2>2. r.inactive_split + Bit(split /\ ~already) - Bit(~split /\ already) \in Int
    BY <1>2, <1>3, <2>1, Zenon
  <2> QED
    BY <1>2, <2>2, Zenon
<1>5. d \in Int
  <2>1. \A x, y, z \in Int : x + (y - z) \in Int /\ x - y \in Int
    OBVIOUS
  <2>2. r.inactive_split_bytes - size \in Int /\ r.inactive_split_bytes + (b.size - n) \in Int
    BY <1>1, <1>2, <2>1, Zenon
  <2> QED
    BY <1>2, <2>2, Zenon
<1>6. \A e, f, g, h, i, j \in Int :
        [r EXCEPT !.allocation = e, !.allocated_bytes = f, !.active = g, !.active_bytes = h,
                  !.inactive_split = i, !.inactive_split_bytes = j] \in Stat
  <2> HIDE DEF r
  <2>1. \A e, f \in Int : [r EXCEPT !.allocation = e, !.allocated_bytes = f] \in Stat
    BY <1>2 DEF Stat
  <2>2. \A x \in Stat : \A g, h \in Int : [x EXCEPT !.active = g, !.active_bytes = h] \in Stat
    BY DEF Stat
  <2>3. \A x \in Stat : \A i, j \in Int :
          [x EXCEPT !.inactive_split = i, !.inactive_split_bytes = j] \in Stat
    BY DEF Stat
  <2> QED
    BY <2>1, <2>2, <2>3, Zenon
<1>7. \A x, y \in Int : x + y \in Int
  OBVIOUS
<1>8. /\ r.allocation + 1 \in Int /\ r.allocated_bytes + size \in Int
      /\ r.active + 1 \in Int /\ r.active_bytes + size \in Int
  BY <1>1, <1>2
<1>9. AllocFoundStats(stats, p, n, split) =
        [stats EXCEPT ![b.small] =
          [r EXCEPT !.allocation = r.allocation + 1,
                    !.allocated_bytes = r.allocated_bytes + size,
                    !.active = r.active + 1, !.active_bytes = r.active_bytes + size,
                    !.inactive_split = c, !.inactive_split_bytes = d]]
  BY Zenon DEF AllocFoundStats
<1> HIDE DEF r, c, d, size
<1>10. [r EXCEPT !.allocation = r.allocation + 1,
                 !.allocated_bytes = r.allocated_bytes + size,
                 !.active = r.active + 1, !.active_bytes = r.active_bytes + size,
                 !.inactive_split = c, !.inactive_split_bytes = d] \in Stat
  BY <1>4, <1>5, <1>6, <1>8, Zenon
<1>11. \A x \in Stat : [stats EXCEPT ![b.small] = x] \in Stats
  BY <1>1 DEF Stats
<1> QED
  BY <1>9, <1>10, <1>11, Zenon

-----------------------------------------------------------------------------
(* The inductive invariant *)

\* Steps that leave the heap alone.
LEMMA HeapFrame ==
  ASSUME HeapInv, UNCHANGED <<segments, blocks, cached, active>>,
         (pc # "found" /\ pc' # "found") \/ UNCHANGED <<pc, call>>
  PROVE  HeapInv' /\ SameUnmapped
BY DEF HeapInv, PoolsPartition, SplitBounded, SmallSegments, Whole, SameUnmapped, Unmapped

\* Steps that leave the blocks alone, and the queues, unless the device runs.
LEMMA QueueQuiet ==
  ASSUME QueueInv, UNCHANGED <<blocks, active>>,
         \/ UNCHANGED eventVars
         \/ DeviceSynchronize
         \/ \E s \in Streams : DeviceRuns(s)
  PROVE  QueueInv'
<1>1. CASE UNCHANGED eventVars
  BY <1>1, QueueFrame DEF eventVars
<1>2. CASE DeviceSynchronize
  <2>1. npu_events' = npu_events
    BY <1>2 DEF DeviceSynchronize
  <2> QED
    BY <1>2, <2>1, DeviceKeeps
<1>3. CASE \E s \in Streams : DeviceRuns(s)
  <2>1. npu_events' = npu_events
    BY <1>3 DEF DeviceRuns
  <2> QED
    BY <1>3, <2>1, DeviceKeeps
<1> QED
  BY <1>1, <1>2, <1>3

\* What is left to show of the counters when a step leaves the limit alone.
LEMMA CountFrame ==
  ASSUME CountInv, unsynced' = unsynced \/ unsynced' = {},
         stats' \in Stats, total' \in Int, allowed' = allowed
  PROVE  CountInv'
BY DEF CountInv, Stats

\* Program: what the program asks for.
LEMMA ProgramKeeps ==
  ASSUME SharedInv, Program
  PROVE  SharedInv' /\ SameUnmapped
<1>0. HeapInv /\ QueueInv /\ CallInv /\ CountInv /\ stats \in Stats
  BY DEF SharedInv, CountInv, Stats
<1>1. ASSUME NEW bytes \in Requests, NEW s \in Streams, Malloc(bytes, s)
      PROVE  SharedInv' /\ SameUnmapped
  <2>1. /\ pc = "idle" /\ pc' = "process_events"
        /\ call' = [NoCall EXCEPT !.op = "malloc", !.size = round_size(bytes), !.stream = s,
                                  !.todo = {t \in Streams : npu_events[t] # <<>>}]
        /\ UNCHANGED <<segments, blocks, cached, active, stats, eventVars, total, allowed>>
    BY <1>1 DEF Malloc, heapVars
  <2>2. round_size(bytes) \in Nat /\ round_size(bytes) > 0
    <3>1. bytes \in Nat \ {0}
      BY EnvironmentAssumption
    <3> QED
      BY <3>1 DEF round_size, kMinBlockSize
  <2>3. /\ call' \in Call /\ call'.op = "malloc" /\ call'.size = round_size(bytes)
        /\ call'.stream = s /\ call'.targets = {}
    <3> DEFINE n == round_size(bytes)
               todo == {t \in Streams : npu_events[t] # <<>>}
    <3>1. n \in Nat /\ todo \in SUBSET Streams
      BY <2>2
    <3> HIDE DEF n, todo
    <3>2. call' = [NoCall EXCEPT !.op = "malloc", !.size = n, !.stream = s, !.todo = todo]
      BY <2>1 DEF n, todo
    <3>3. /\ call' \in Call /\ call'.op = "malloc" /\ call'.size = n
          /\ call'.stream = s /\ call'.targets = {}
      BY <3>1, <3>2 DEF NoCall, Call
    <3> QED
      BY <3>3 DEF n
  <2>4. HeapInv' /\ SameUnmapped
    BY <1>0, <2>1, HeapFrame
  <2>5. QueueInv'
    BY <1>0, <2>1, QueueQuiet
  <2>6. CallInv'
    BY <2>1, <2>2, <2>3 DEF CallInv, Searching, Steps
  <2>7. CountInv'
    BY <1>0, <2>1, CountFrame DEF eventVars, CountInv
  <2> QED
    BY <2>4, <2>5, <2>6, <2>7 DEF SharedInv
\* Calls that are over in one step, and leave no call in progress.
<1>2. ASSUME pc = "idle", UNCHANGED <<pc, call>> PROVE CallInv'
  BY <1>0, <1>2 DEF CallInv, Searching, Steps
<1>3. ASSUME NEW p \in active, Free(p)
      PROVE  SharedInv' /\ SameUnmapped
  <2>1. HeapInv' /\ SameUnmapped /\ QueueInv' /\ stats' \in Stats
    BY <1>0, <1>3, FreeUnusedKeeps, FreeUsedKeeps
  <2>2. CallInv'
    BY <1>2, <1>3 DEF Free
  <2>3. CountInv'
    <3>1. blocks[p].seg \in Nat /\ segments[blocks[p].seg] \in Nat /\ blocks[p].stream \in Streams
      <4>1. p \in DOMAIN blocks /\ blocks[p] \in Block
        BY <1>0, Partition
      <4>2. blocks[p].seg \in DOMAIN segments /\ segments[blocks[p].seg] \in Nat
        BY <1>0, <4>1 DEF HeapInv, Tiled, InSegment
      <4> QED
        BY <4>1, <4>2 DEF Block
    <3>2. unsynced' = unsynced \cup
            {[lo |-> blocks[p].seg, hi |-> blocks[p].seg + segments[blocks[p].seg],
              stream |-> blocks[p].stream]}
      BY <1>3 DEF Free
    <3>3. [lo |-> blocks[p].seg, hi |-> blocks[p].seg + segments[blocks[p].seg],
              stream |-> blocks[p].stream] \in [lo : Nat, hi : Nat, stream : Streams]
      BY <3>1
    <3>4. total' = total /\ allowed' = allowed
      BY <1>3 DEF Free
    <3> QED
      BY <1>0, <2>1, <3>2, <3>3, <3>4 DEF CountInv, Stats
  <2> QED
    BY <2>1, <2>2, <2>3 DEF SharedInv
<1>4. ASSUME NEW p \in active, NEW s \in Streams, RecordStream(p, s)
      PROVE  SharedInv' /\ SameUnmapped
  <2>1. HeapInv' /\ SameUnmapped /\ QueueInv'
    BY <1>0, <1>4, RecordStreamKeeps
  <2>2. CallInv'
    BY <1>2, <1>4 DEF RecordStream
  <2>3. CountInv'
    BY <1>0, <1>4, CountFrame DEF RecordStream, eventVars, CountInv
  <2> QED
    BY <2>1, <2>2, <2>3 DEF SharedInv
<1>5. ASSUME NEW p \in active, NEW s \in Streams, EraseStream(p, s)
      PROVE  SharedInv' /\ SameUnmapped
  <2>1. HeapInv' /\ SameUnmapped /\ QueueInv' /\ stats' \in Stats
    BY <1>0, <1>5, EraseStreamKeeps
  <2>2. CallInv'
    BY <1>2, <1>5 DEF EraseStream
  <2>3. CountInv'
    BY <1>0, <1>5, <2>1, CountFrame DEF EraseStream, CountInv
  <2> QED
    BY <2>1, <2>2, <2>3 DEF SharedInv
<1>6. ASSUME EmptyCache PROVE SharedInv' /\ SameUnmapped
  <2>1. /\ pc = "idle" /\ pc' = "release_all" /\ call' = [NoCall EXCEPT !.op = "emptyCache"]
        /\ DeviceSynchronize
        /\ UNCHANGED <<segments, blocks, cached, active, stats, total, allowed>>
    BY <1>6 DEF EmptyCache, heapVars
  <2>2. HeapInv' /\ SameUnmapped
    BY <1>0, <2>1, HeapFrame
  <2>3. QueueInv'
    BY <1>0, <2>1, QueueQuiet
  <2>4. CallInv'
    <3>1. call' \in Call /\ call'.op = "emptyCache" /\ call'.targets = {}
      BY <2>1 DEF NoCall, Call
    <3> QED
      BY <2>1, <3>1 DEF CallInv, Searching, Steps
  <2>5. CountInv'
    BY <1>0, <2>1, CountFrame DEF DeviceSynchronize, CountInv
  <2> QED
    BY <2>2, <2>3, <2>4, <2>5 DEF SharedInv
<1>7. ASSUME NEW limit \in Fractions, SetMemoryFraction(limit) PROVE SharedInv' /\ SameUnmapped
  <2>1. /\ UNCHANGED <<segments, blocks, cached, active, stats, eventVars, total, pc, call>>
        /\ allowed' = limit
    BY <1>7 DEF SetMemoryFraction, heapVars
  <2>2. HeapInv' /\ SameUnmapped
    BY <1>0, <2>1, HeapFrame
  <2>3. QueueInv'
    BY <1>0, <2>1, QueueQuiet
  <2>4. CallInv'
    BY <1>0, <2>1 DEF CallInv
  <2>5. CountInv'
    BY <1>0, <2>1, EnvironmentAssumption DEF eventVars, CountInv
  <2> QED
    BY <2>2, <2>3, <2>4, <2>5 DEF SharedInv
<1> QED
  BY <1>1, <1>3, <1>4, <1>5, <1>6, <1>7 DEF Program

\* The search for memory: process_events, get_free_block and what follows it.
LEMMA CommonKeeps ==
  ASSUME SharedInv, CommonStep
  PROVE  SharedInv' /\ SameUnmapped
<1>0. HeapInv /\ QueueInv /\ CallInv /\ CountInv /\ stats \in Stats
  BY DEF SharedInv, CountInv, Stats
<1>1. ASSUME NEW s \in Streams, ProcessEvents(s) PROVE SharedInv' /\ SameUnmapped
  <2>0. pc = "process_events" /\ pc' = pc /\ segments' = segments
        /\ total' = total /\ allowed' = allowed
    BY <1>1 DEF ProcessEvents
  <2>1. CASE npu_events[s] # <<>> /\ completed[s] > 0
    <3>1. PopEvent(s) /\ call' = call
      BY <1>1, <2>1 DEF ProcessEvents
    <3>2. HeapInv' /\ SameUnmapped /\ QueueInv' /\ stats' \in Stats
      BY <1>0, <2>0, <2>1, <3>1, PopEventKeeps
    <3>3. CallInv'
      BY <1>0, <2>0, <3>1 DEF CallInv, Searching, Steps
    <3>4. CountInv'
      BY <1>0, <2>0, <3>1, <3>2, CountFrame DEF PopEvent, CountInv
    <3> QED
      BY <3>2, <3>3, <3>4 DEF SharedInv
  <2>2. CASE ~(npu_events[s] # <<>> /\ completed[s] > 0)
    <3>1. /\ call' = [call EXCEPT !.todo = @ \ {s}]
          /\ UNCHANGED <<blocks, cached, active, stats, eventVars>>
      BY <1>1, <2>2 DEF ProcessEvents, heapVars
    <3>2. HeapInv' /\ SameUnmapped
      BY <1>0, <2>0, <3>1, HeapFrame
    <3>3. QueueInv'
      BY <1>0, <3>1, QueueQuiet
    <3>4. CallInv'
      <4>1. call' \in Call /\ call'.op = call.op /\ call'.size = call.size
            /\ call'.stream = call.stream /\ call'.targets = call.targets
        BY <1>0, <3>1 DEF CallInv, Call
      <4> QED
        BY <1>0, <2>0, <4>1 DEF CallInv, Searching, Steps
    <3>5. CountInv'
      BY <1>0, <2>0, <3>1, CountFrame DEF eventVars, CountInv
    <3> QED
      BY <3>2, <3>3, <3>4, <3>5 DEF SharedInv
  <2> QED
    BY <2>1, <2>2
<1>2. ASSUME NEW s \in Streams, SynchronizeEvent(s) PROVE SharedInv' /\ SameUnmapped
  <2>1. /\ pc = "release_all" /\ npu_events[s] # <<>> /\ completed[s] > 0 /\ PopEvent(s)
        /\ UNCHANGED <<segments, total, allowed, pc, call>>
    BY <1>2 DEF SynchronizeEvent
  <2>2. HeapInv' /\ SameUnmapped /\ QueueInv' /\ stats' \in Stats
    BY <1>0, <2>1, PopEventKeeps
  <2>3. CallInv'
    BY <1>0, <2>1 DEF CallInv, Searching, Steps
  <2>4. CountInv'
    BY <1>0, <2>1, <2>2, CountFrame DEF PopEvent, CountInv
  <2> QED
    BY <2>2, <2>3, <2>4 DEF SharedInv
<1>3. ASSUME NoFreeBlock \/ \E p \in cached : GetFreeBlock(p) PROVE SharedInv' /\ SameUnmapped
  <2>1. /\ HeapInv' /\ SameUnmapped /\ CallInv' /\ active' = active
        /\ \A x \in active : blocks'[x] = blocks[x]
    BY <1>0, <1>3, SearchKeeps
  <2>2. UNCHANGED <<stats, npu_events, completed, work, unsynced, total, allowed>>
    BY <1>3 DEF NoFreeBlock, GetFreeBlock, eventVars
  <2>3. QueueInv'
    BY <1>0, <2>1, <2>2, QueueFrame
  <2>4. CountInv'
    BY <1>0, <2>2, CountFrame DEF CountInv
  <2> QED
    BY <2>1, <2>3, <2>4 DEF SharedInv
<1>4. ASSUME AllocFoundBlock PROVE SharedInv' /\ SameUnmapped
  <2>1. /\ HeapInv' /\ SameUnmapped /\ CallInv'
        /\ call.block \in DOMAIN blocks \ active
        /\ active' = active \cup {call.block}
        /\ \A x \in active : blocks'[x] = blocks[x]
        /\ blocks'[call.block].events = 0
    BY <1>0, <1>4, AllocFoundBlockKeeps
  <2>2. UNCHANGED <<npu_events, completed, work, unsynced, total, allowed>>
    BY <1>4 DEF AllocFoundBlock, eventVars
  <2>3. QueueInv'
    BY <1>0, <2>1, <2>2, QueueFrame
  <2>4. stats' \in Stats
    <3>1. blocks[call.block] \in Block /\ call.size \in Int
      BY <1>0, <2>1, Partition DEF CallInv, Call
    <3>2. stats' = AllocFoundStats(stats, call.block, call.size,
                                   should_split(blocks[call.block], call.size))
      BY <1>4 DEF AllocFoundBlock
    <3> QED
      BY <1>0, <3>1, <3>2, AllocFoundStatsType
  <2>5. CountInv'
    BY <1>0, <2>2, <2>4, CountFrame DEF CountInv
  <2> QED
    BY <2>1, <2>3, <2>5 DEF SharedInv
<1>5. ASSUME OutOfMemory PROVE SharedInv' /\ SameUnmapped
  <2>1. /\ pc = "oom" /\ pc' = "idle" /\ call' = NoCall
        /\ UNCHANGED <<segments, blocks, cached, active, stats, eventVars, total, allowed>>
    BY <1>5 DEF OutOfMemory, Return, heapVars
  <2>2. HeapInv' /\ SameUnmapped
    BY <1>0, <2>1, HeapFrame
  <2>3. QueueInv'
    BY <1>0, <2>1, QueueQuiet
  <2>4. CallInv'
    BY <2>1, NoCallType DEF CallInv, Searching, Steps, NoCall
  <2>5. CountInv'
    BY <1>0, <2>1, CountFrame DEF eventVars, CountInv
  <2> QED
    BY <2>2, <2>3, <2>4, <2>5 DEF SharedInv
<1> QED
  BY <1>1, <1>2, <1>3, <1>4, <1>5 DEF CommonStep

\* A stream finishes work in the middle of any call.
LEMMA DeviceStepKeeps ==
  ASSUME SharedInv, NEW s \in Streams, DeviceRuns(s)
  PROVE  SharedInv' /\ SameUnmapped
<1>0. HeapInv /\ QueueInv /\ CallInv /\ CountInv
  BY DEF SharedInv
<1>1. UNCHANGED <<segments, blocks, cached, active, stats, npu_events, unsynced,
                  total, allowed, pc, call>>
  BY DEF DeviceRuns, heapVars
<1>2. HeapInv' /\ SameUnmapped
  BY <1>0, <1>1, HeapFrame
<1>3. QueueInv'
  BY <1>0, <1>1, QueueQuiet
<1>4. CallInv'
  BY <1>0, <1>1 DEF CallInv
<1>5. CountInv'
  BY <1>0, <1>1 DEF CountInv
<1> QED
  BY <1>2, <1>3, <1>4, <1>5 DEF SharedInv

\* Steps of which nothing is known but that they change nothing.
LEMMA SharedStutter ==
  ASSUME SharedInv,
         UNCHANGED <<segments, blocks, cached, active, stats, npu_events, completed, work,
                     unsynced, total, allowed, pc, call>>
  PROVE  SharedInv' /\ SameUnmapped
<1>1. HeapInv' /\ SameUnmapped
  BY HeapFrame DEF SharedInv
<1>2. QueueInv'
  BY QueueQuiet DEF SharedInv, eventVars
<1>3. CallInv'
  BY DEF SharedInv, CallInv
<1>4. CountInv'
  BY DEF SharedInv, CountInv
<1> QED
  BY <1>1, <1>2, <1>3, <1>4 DEF SharedInv

\* The steps that both kinds of segments share leave the loops that give memory
\* back alone, unless they leave everything alone that these loops look at.
LEMMA TargetsKept ==
  ASSUME CallInv, CountInv, Program \/ CommonStep \/ Device
  PROVE  /\ segments' = segments /\ total' = total
         /\ \/ UNCHANGED <<blocks, cached, active, npu_events, pc, call>>
            \/ /\ pc \in {"idle", "process_events", "release_all", "found", "oom"}
               /\ pc' \in {"idle", "process_events", "collect", "alloc", "release_all", "found"}
               /\ call'.targets \subseteq call.targets
               /\ pc' = "collect" => Collecting /\ pc = "process_events"
               /\ pc' = "release_all" => pc \in {"idle", "release_all"}
<1> DEFINE Kept == /\ segments' = segments /\ total' = total
                   /\ \/ UNCHANGED <<blocks, cached, active, npu_events, pc, call>>
                      \/ /\ pc \in {"idle", "process_events", "release_all", "found", "oom"}
                         /\ pc' \in {"idle", "process_events", "collect", "alloc",
                                       "release_all", "found"}
                         /\ call'.targets \subseteq call.targets
                         /\ pc' = "collect" => Collecting /\ pc = "process_events"
                         /\ pc' = "release_all" => pc \in {"idle", "release_all"}
<1>0. call \in Call /\ NoCall.targets = {}
  BY DEF CallInv, NoCall
<1>1. ASSUME NEW bytes \in Requests, NEW s \in Streams, Malloc(bytes, s) PROVE Kept
  <2>1. /\ call' = [NoCall EXCEPT !.op = "malloc", !.size = round_size(bytes), !.stream = s,
                                  !.todo = {t \in Streams : npu_events[t] # <<>>}]
        /\ pc = "idle" /\ pc' = "process_events" /\ segments' = segments /\ total' = total
    BY <1>1 DEF Malloc
  <2>2. call'.targets = {}
    BY <2>1 DEF NoCall
  <2> QED
    BY <2>1, <2>2
<1>2. ASSUME NEW p \in active, Free(p) PROVE Kept
  BY <1>2 DEF Free
<1>3. ASSUME NEW p \in active, NEW s \in Streams, RecordStream(p, s) PROVE Kept
  BY <1>3 DEF RecordStream
<1>4. ASSUME NEW p \in active, NEW s \in Streams, EraseStream(p, s) PROVE Kept
  BY <1>4 DEF EraseStream
<1>5. ASSUME EmptyCache PROVE Kept
  BY <1>5 DEF EmptyCache, NoCall
<1>6. ASSUME NEW limit \in Fractions, SetMemoryFraction(limit) PROVE Kept
  BY <1>6 DEF SetMemoryFraction, heapVars, eventVars
<1>7. ASSUME NEW s \in Streams, ProcessEvents(s) PROVE Kept
  <2>1. /\ pc = "process_events" /\ pc' = pc /\ segments' = segments /\ total' = total
        /\ call' = call \/ call' = [call EXCEPT !.todo = @ \ {s}]
    BY <1>7 DEF ProcessEvents
  <2>2. call'.targets = call.targets
    BY <1>0, <2>1 DEF Call
  <2> QED
    BY <2>1, <2>2
<1>8. ASSUME NEW s \in Streams, SynchronizeEvent(s) PROVE Kept
  BY <1>8 DEF SynchronizeEvent
<1>9. ASSUME NEW p \in cached, GetFreeBlock(p) PROVE Kept
  BY <1>0, <1>9 DEF GetFreeBlock, Call
<1>10. ASSUME NoFreeBlock PROVE Kept
  BY <1>0, <1>10 DEF NoFreeBlock, Call
<1>11. ASSUME AllocFoundBlock \/ OutOfMemory PROVE Kept
  BY <1>0, <1>11 DEF AllocFoundBlock, OutOfMemory, Return
<1>12. ASSUME NEW s \in Streams, DeviceRuns(s) PROVE Kept
  BY <1>12 DEF DeviceRuns, heapVars
<1> HIDE DEF Kept
<1>13. Kept
  BY <1>1, <1>2, <1>3, <1>4, <1>5, <1>6, <1>7, <1>8, <1>9, <1>10, <1>11, <1>12
     DEF Program, CommonStep, Device
<1> QED
  BY <1>13 DEF Kept

\* What follows when the cache has nothing to offer: garbage collection, new
\* segments, and giving back the cached ones.
LEMMA SegmentKeeps ==
  ASSUME IInv, SegmentStep
  PROVE  IInv'
<1>0. /\ HeapInv /\ QueueInv /\ CallInv /\ CountInv /\ stats \in Stats
      /\ AllMapped /\ SegmentCall
  BY DEF IInv, SharedInv, CountInv, Stats
\* The steps that decide what to do next, and leave the heap alone.
<1>1. ASSUME UNCHANGED <<segments, blocks, cached, active, stats, total, allowed>>,
             UNCHANGED eventVars \/ DeviceSynchronize,
             pc # "found", pc' # "found", CallInv', SegmentCall'
      PROVE  IInv'
  <2>1. HeapInv' /\ AllMapped'
    BY <1>0, <1>1, HeapFrame DEF SameUnmapped, AllMapped
  <2>2. QueueInv'
    BY <1>0, <1>1, QueueQuiet
  <2>3. unsynced' = unsynced \/ unsynced' = {}
    BY <1>1 DEF eventVars, DeviceSynchronize
  <2>4. CountInv'
    BY <1>0, <1>1, <2>3, CountFrame DEF CountInv
  <2> QED
    BY <1>1, <2>1, <2>2, <2>4 DEF IInv, SharedInv
<1>2. ASSUME CollectRound PROVE IInv'
  <2> DEFINE old == {p \in Unsplit(FALSE) :
                       blocks[p].age * Cardinality(Unsplit(FALSE))
                         >= MapThenSumSet(LAMBDA q : blocks[q].age, Unsplit(FALSE))}
  <2>0. /\ pc = "collect" /\ DeviceSynchronize
        /\ pc' = IF old = {} THEN "alloc" ELSE "collect"
        /\ call' = [call EXCEPT !.targets = old]
        /\ UNCHANGED <<segments, heapVars, total, allowed>>
    BY <1>2, Zenon DEF CollectRound
  <2>2. old \subseteq Unsplit(FALSE)
    OBVIOUS
  <2> HIDE DEF old
  <2>1. /\ pc = "collect" /\ DeviceSynchronize
        /\ pc' = "collect" \/ (pc' = "alloc" /\ old = {})
        /\ call' = [call EXCEPT !.targets = old]
        /\ UNCHANGED <<segments, blocks, cached, active, stats, total, allowed>>
    BY <2>0 DEF heapVars
  <2>3. Unsplit(FALSE)' = Unsplit(FALSE) /\ Unsplit(FALSE) \subseteq Nat
    <3>1. Unsplit(FALSE) \subseteq DOMAIN blocks /\ DOMAIN blocks \subseteq Nat
      BY <1>0, Partition DEF Unsplit, HeapInv, Tiled, HeapType
    <3> QED
      BY <2>1, <3>1 DEF Unsplit, IsSplit, PrevSet, NextSet, Linked, End
  <2>4. /\ call' \in Call /\ call'.op = call.op /\ call'.size = call.size
        /\ call'.stream = call.stream /\ call'.targets = old
    BY <1>0, <2>1, <2>2, <2>3 DEF CallInv, Call
  <2>5. CallInv' /\ SegmentCall'
    BY <1>0, <2>1, <2>2, <2>3, <2>4 DEF CallInv, SegmentCall, Searching, Steps
  <2> QED
    BY <2>1, <2>5, <1>1
<1>3. ASSUME NEW p,
             \/ p \in call.targets /\ CollectBlock(p)
             \/ p \in cached /\ (ReleaseFitting(p) \/ ReleaseLargest(p) \/ ReleaseCached(p))
      PROVE  IInv'
  <2>1. /\ HeapInv' /\ AllMapped' /\ CallInv' /\ SegmentCall' /\ active' = active
        /\ \A x \in active : blocks'[x] = blocks[x]
    BY <1>0, <1>3, ReleaseKeeps
  <2>2. /\ p \in cached /\ ReleaseBlock(p) /\ UNCHANGED <<eventVars, allowed>>
    BY <1>0, <1>3
       DEF CollectBlock, ReleaseFitting, ReleaseLargest, ReleaseCached, SegmentCall, Unsplit
  <2>3. QueueInv'
    BY <1>0, <2>1, <2>2, QueueFrame DEF eventVars
  <2>4. blocks[p].size \in Int /\ blocks[p].small \in BOOLEAN
    BY <1>0, <2>2, Partition DEF Block
  <2>5. stats' \in Stats
    BY <1>0, <2>2, <2>4, SegmentStatsType DEF ReleaseBlock
  <2>6. total' \in Int
    BY <1>0, <2>2, <2>4 DEF ReleaseBlock, CountInv
  <2>7. CountInv'
    BY <1>0, <2>2, <2>5, <2>6, CountFrame DEF eventVars
  <2> QED
    BY <2>1, <2>3, <2>7 DEF IInv, SharedInv
<1>4. ASSUME CollectDone PROVE IInv'
  <2>1. /\ pc = "collect" /\ pc' = "alloc" /\ call' = call /\ call.targets = {}
        /\ UNCHANGED <<segments, blocks, cached, active, stats, eventVars, total, allowed>>
    BY <1>4 DEF CollectDone, Goto, heapVars
  <2>2. CallInv' /\ SegmentCall'
    BY <1>0, <2>1 DEF CallInv, SegmentCall, Searching, Steps
  <2> QED
    BY <2>1, <2>2, <1>1
<1>5. ASSUME ReleaseSomeDone PROVE IInv'
  <2>1. /\ pc = "release_some" /\ pc' \in {"realloc", "release_all"} /\ call' = call
        /\ UNCHANGED eventVars \/ DeviceSynchronize
        /\ UNCHANGED <<segments, blocks, cached, active, stats, total, allowed>>
    BY <1>5 DEF ReleaseSomeDone, Goto, heapVars
  <2>2. CallInv' /\ SegmentCall'
    BY <1>0, <2>1 DEF CallInv, SegmentCall, Searching, Steps
  <2> QED
    BY <2>1, <2>2, <1>1
<1>6. ASSUME ReleaseAllDone PROVE IInv'
  <2>1. /\ pc = "release_all"
        /\ \/ call.op = "malloc" /\ pc' = "retry" /\ call' = call
           \/ pc' = "idle" /\ call' = NoCall
        /\ UNCHANGED <<segments, blocks, cached, active, stats, eventVars, total, allowed>>
    BY <1>6 DEF ReleaseAllDone, AfterRelease, Goto, Return, heapVars
  <2>2. CallInv' /\ SegmentCall'
    <3>1. CASE call.op = "malloc" /\ pc' = "retry" /\ call' = call
      BY <1>0, <2>1, <3>1 DEF CallInv, SegmentCall, Searching, Steps
    <3>2. CASE pc' = "idle" /\ call' = NoCall
      BY <3>2, NoCallType DEF CallInv, SegmentCall, Searching, Steps, NoCall
    <3> QED
      BY <2>1, <3>1, <3>2
  <2> QED
    BY <2>1, <2>2, <1>1
<1>7. ASSUME NEW base \in Bases, AllocBlock(base) PROVE IInv'
  <2>1. /\ HeapInv' /\ AllMapped' /\ CallInv' /\ SegmentCall' /\ \A x \in active : blocks'[x] = blocks[x]
    BY <1>0, <1>7, AllocBlockKeeps
  <2>2. /\ UNCHANGED <<cached, active, eventVars, allowed>>
        /\ total' = total + get_allocation_size(call.size)
        /\ stats' = SegmentStats(stats, IsSmall(call.size), 1, get_allocation_size(call.size))
    BY <1>7 DEF AllocBlock
  <2>3. QueueInv'
    BY <1>0, <2>1, <2>2, QueueFrame DEF eventVars
  <2>4. get_allocation_size(call.size) \in Int /\ IsSmall(call.size) \in BOOLEAN
    <3>1. call.size \in Nat
      BY <1>0 DEF CallInv, Call
    <3> QED
      BY <3>1 DEF get_allocation_size, IsSmall, kSmallSize, kSmallBuffer,
         kMinLargeAlloc, kLargeBuffer, kRoundLarge
  <2>5. stats' \in Stats
    BY <1>0, <2>2, <2>4, SegmentStatsType
  <2>6. total' \in Int
    BY <1>0, <2>2, <2>4 DEF CountInv
  <2>7. CountInv'
    BY <1>0, <2>2, <2>5, <2>6, CountFrame DEF eventVars
  <2> QED
    BY <2>1, <2>3, <2>7 DEF IInv, SharedInv
<1>8. ASSUME AllocBlockFails PROVE IInv'
  <2>1. /\ pc \in {"alloc", "obtain", "realloc", "reobtain", "retry", "last_obtain"}
        /\ call' = call
        /\ pc' \in {"release_all", "release_some", "oom"}
        /\ pc' = "release_some" => MaxSplitSize # None
        /\ UNCHANGED eventVars \/ DeviceSynchronize
        /\ UNCHANGED <<segments, blocks, cached, active, stats, total, allowed>>
    BY <1>8 DEF AllocBlockFails, Allocating, Obtaining, Goto, heapVars
  <2>2. CallInv' /\ SegmentCall'
    BY <1>0, <2>1 DEF CallInv, SegmentCall, Searching, Steps
  <2> QED
    BY <2>1, <2>2, <1>1
<1>9. ASSUME WithinLimit PROVE IInv'
  <2>1. /\ pc \in {"alloc", "realloc", "retry"} /\ call' = call
        /\ pc' \in {"obtain", "reobtain", "last_obtain"}
        /\ UNCHANGED <<segments, blocks, cached, active, stats, eventVars, total, allowed>>
    BY <1>9 DEF WithinLimit, Allocating, Goto, heapVars
  <2>2. CallInv' /\ SegmentCall'
    BY <1>0, <2>1 DEF CallInv, SegmentCall, Searching, Steps
  <2> QED
    BY <2>1, <2>2, <1>1
<1> QED
  BY <1>2, <1>3, <1>4, <1>5, <1>6, <1>7, <1>8, <1>9 DEF SegmentStep

\* The allocator starts with nothing.
LEMMA InitShared == Init => SharedInv /\ Unmapped = {}
<1> SUFFICES ASSUME Init PROVE SharedInv /\ Unmapped = {}
  OBVIOUS
<1>1. HeapInv
  <2>1. DOMAIN segments = {} /\ DOMAIN blocks = {}
    BY DEF Init
  <2>2. HeapType(blocks) /\ segments \in [DOMAIN segments -> Nat]
    BY DEF Init, HeapType
  <2>3. Tiled(segments, blocks)
    BY <2>1, <2>2 DEF Tiled, Apart, FromBase, ToEnd
  <2>4. PoolsPartition
    BY <2>1 DEF Init, PoolsPartition
  <2> QED
    BY <2>1, <2>3, <2>4 DEF HeapInv, SplitBounded, SmallSegments
<1>2. \A s \in Streams : npu_events[s] = <<>> /\ work[s] = <<>> /\ completed[s] = 0
  BY DEF Init
<1>3. QueueInv
  BY <1>2, EmptySeq DEF Init, QueueInv, EventsOfActive, WorkBehindEvents
<1>4. CallInv
  BY NoCallType DEF Init, CallInv, Searching, Steps, NoCall
<1>5. NoStat \in Stat
  BY DEF NoStat, Stat
<1>6. CountInv
  BY <1>5 DEF Init, CountInv
<1>7. Unmapped = {}
  BY DEF Init, Unmapped
<1> QED
  BY <1>1, <1>3, <1>4, <1>6, <1>7 DEF SharedInv

\* And with no loop to give memory back.
LEMMA InitIInv == Init => IInv
<1> SUFFICES ASSUME Init PROVE IInv
  OBVIOUS
<1>1. SharedInv /\ AllMapped
  BY InitShared DEF AllMapped
<1>2. SegmentCall
  BY DEF Init, SegmentCall, NoCall
<1> QED
  BY <1>1, <1>2 DEF IInv

\* Every step keeps the invariant.
LEMMA NextKeepsIInv == IInv /\ [Next]_vars => IInv'
<1> SUFFICES ASSUME IInv, [Next]_vars PROVE IInv'
  OBVIOUS
<1>1. CASE Program \/ CommonStep \/ Device
  <2>1. SharedInv' /\ SameUnmapped
    BY <1>1, ProgramKeeps, CommonKeeps, DeviceStepKeeps DEF IInv, Device
  <2>2. AllMapped'
    BY <2>1 DEF IInv, AllMapped, SameUnmapped
  <2>3. SegmentCall'
    <3>1. CASE UNCHANGED <<blocks, cached, pc, call>>
      BY <3>1 DEF IInv, SegmentCall, Unsplit, IsSplit, PrevSet, NextSet, Linked, End
    <3>2. CASE ~UNCHANGED <<blocks, cached, pc, call>>
      <4>1. /\ pc # "collect"
            /\ pc' \notin {"release_some", "map", "remap", "unmap"}
            /\ call'.targets \subseteq call.targets
        BY <1>1, <3>2, TargetsKept DEF IInv, SharedInv
      <4> QED
        BY <4>1 DEF IInv, SegmentCall
    <3> QED
      BY <3>1, <3>2
  <2> QED
    BY <2>1, <2>2, <2>3 DEF IInv
<1>2. CASE SegmentStep
  BY <1>2, SegmentKeeps
<1>3. CASE UNCHANGED vars
  <2>1. UNCHANGED <<segments, blocks, cached, active, stats, npu_events, completed, work,
                    unsynced, total, allowed, pc, call>>
    BY <1>3 DEF vars
  <2>2. SharedInv' /\ AllMapped'
    BY <2>1, SharedStutter DEF IInv, AllMapped, SameUnmapped
  <2>3. SegmentCall'
    BY <2>1 DEF IInv, SegmentCall, Unsplit, IsSplit, PrevSet, NextSet, Linked, End
  <2> QED
    BY <2>2, <2>3 DEF IInv
<1> QED
  BY <1>1, <1>2, <1>3 DEF Next

-----------------------------------------------------------------------------
(* The theorems *)

\* The inductive invariant holds of every behaviour.
THEOREM Invariance == Spec => []IInv
BY InitIInv, NextKeepsIInv, PTL DEF Spec

\* Every variable stays within its type.
LEMMA SharedTypes ==
  ASSUME SharedInv
  PROVE  TypeOK
<1>1. /\ DOMAIN segments \subseteq Nat /\ segments \in [DOMAIN segments -> Nat]
      /\ DOMAIN blocks \subseteq Nat /\ blocks \in [DOMAIN blocks -> Block]
  BY DEF SharedInv, HeapInv, Tiled, HeapType
<1>2. cached \subseteq DOMAIN blocks /\ active \subseteq DOMAIN blocks
  BY Partition DEF SharedInv
<1>3. /\ npu_events \in [Streams -> Seq(Nat)] /\ completed \in [Streams -> Nat]
      /\ work \in [Streams -> Seq(Extent)]
  BY DEF SharedInv, QueueInv
<1>4. pc \in Steps /\ call \in Call
  BY DEF SharedInv, CallInv
<1> QED
  BY <1>1, <1>2, <1>3, <1>4 DEF SharedInv, CountInv, TypeOK

THEOREM TypeCorrect == Spec => []TypeOK
<1>1. IInv => TypeOK
  BY SharedTypes DEF IInv
<1> QED
  BY <1>1, Invariance, PTL

\* No two blocks share memory, whatever is split, merged and given back: what
\* free_block, alloc_found_block and alloc_block keep of the lists of blocks.
THEOREM BlocksDisjoint == Spec => []NoOverlap
<1>1. IInv => NoOverlap
  BY DEF IInv, SharedInv, HeapInv, Tiled, Apart, NoOverlap
<1> QED
  BY <1>1, Invariance, PTL

\* The blocks of a segment cover it without a gap, and none leaves its stream
\* or its pool.
LEMMA SharedTiles ==
  ASSUME SharedInv
  PROVE  SegmentsTiled
BY DEF SharedInv, HeapInv, Tiled, InSegment, ToEnd, Linked, SegmentsTiled

THEOREM SegmentsCovered == Spec => []SegmentsTiled
<1>1. IInv => SegmentsTiled
  BY SharedTiles DEF IInv
<1> QED
  BY <1>1, Invariance, PTL

\* A block is in its pool, in active_blocks or in malloc's hands, and nowhere
\* else: none is leaked, and none is handed out twice.
THEOREM BlocksAccounted == Spec => []PoolsPartition
<1>1. IInv => PoolsPartition
  BY DEF IInv, SharedInv, HeapInv
<1> QED
  BY <1>1, Invariance, PTL

\* event_count agrees with the queues of npu_events, in whatever order events
\* complete and streams are erased.
LEMMA SharedCounts ==
  ASSUME SharedInv
  PROVE  EventsCounted
<1>1. HeapInv /\ QueueInv
  BY DEF SharedInv
<1>2. ASSUME NEW p \in DOMAIN blocks
      PROVE  /\ blocks[p].events = Cardinality(Queueing(p))
             /\ blocks[p].allocated => blocks[p].events = 0
  <2>1. CASE p \in active
    BY <1>1, <2>1 DEF QueueInv, EventsOfActive
  <2>2. CASE p \notin active
    <3>1. Queueing(p) = {}
      BY <1>1, <2>2, QueuedHasEvents DEF Queueing
    <3>2. blocks[p].events = 0
      BY <1>1, <2>2, Partition
    <3> QED
      BY <3>1, <3>2, QueueingFinite
  <2> QED
    BY <2>1, <2>2
<1> QED
  BY <1>1, <1>2 DEF EventsCounted, Queueing, QueueInv, EventsOfActive

THEOREM EventCountExact == Spec => []EventsCounted
<1>1. IInv => EventsCounted
  BY SharedCounts DEF IInv
<1> QED
  BY <1>1, Invariance, PTL

\* The memory of a freed block that another stream still works on stays with
\* the block until that stream has passed its event.
LEMMA SharedWaits ==
  ASSUME SharedInv
  PROVE  StreamSafe
<1> SUFFICES ASSUME NEW s \in Streams, NEW i \in DOMAIN work[s]
             PROVE  /\ work[s][i].lo \in active
                    /\ ~blocks[work[s][i].lo].allocated
                    /\ End(blocks, work[s][i].lo) = work[s][i].hi
  BY DEF StreamSafe
<1>1. QueueInv
  BY DEF SharedInv
<1>2. completed[s] + i \in DOMAIN npu_events[s]
  <2>1. /\ DOMAIN npu_events[s] = 1 .. Len(npu_events[s]) /\ Len(npu_events[s]) \in Nat
        /\ DOMAIN work[s] = 1 .. Len(work[s]) /\ Len(work[s]) \in Nat
        /\ completed[s] \in Nat
        /\ Len(npu_events[s]) = completed[s] + Len(work[s])
    BY <1>1, QueueTypes
  <2>2. i \in 1 .. Len(work[s])
    BY <2>1
  <2>3. completed[s] + i \in 1 .. Len(npu_events[s])
    BY ONLY <2>1, <2>2
  <2> QED
    BY <2>1, <2>3
<1>3. /\ work[s][i].lo = npu_events[s][completed[s] + i]
      /\ work[s][i].hi = End(blocks, work[s][i].lo)
  BY <1>1 DEF QueueInv, WorkBehindEvents
<1> QED
  BY <1>1, <1>2, <1>3, QueuedHasEvents

THEOREM MemoryWaits == Spec => []StreamSafe
<1>1. IInv => StreamSafe
  BY SharedWaits DEF IInv
<1> QED
  BY <1>1, Invariance, PTL

\* A cached block of max_split_size or more is a whole segment, so that
\* release_available_cached_blocks may give its segment back.
THEOREM OversizeCachedWhole == Spec => []OversizeIsWhole
<1>1. IInv => OversizeIsWhole
  <2> SUFFICES ASSUME IInv, NEW p \in cached, ~BelowMaxSplit(blocks[p].size)
               PROVE  ~IsSplit(blocks, p)
    BY DEF OversizeIsWhole
  <2>1. HeapInv /\ p \in DOMAIN blocks
    BY Partition DEF IInv, SharedInv
  <2>2. blocks[p].size \in Nat
    BY <2>1, BlockType DEF HeapInv, Tiled
  <2>3. MaxSplitSize # None /\ blocks[p].size >= MaxSplitSize
    BY <2>2, ConfigAssumption DEF BelowMaxSplit
  <2> QED
    BY <2>1, <2>3, OversizeUnsplit
<1> QED
  BY <1>1, Invariance, PTL

-----------------------------------------------------------------------------
(***************************************************************************)
(* Free memory is not fragmented for nothing, and out of memory is the     *)
(* last resort: Coalesced and OomIsLastResort.                             *)
(*                                                                         *)
(* Neither is inductive.  Coalesced says nothing of the block malloc has   *)
(* taken out of its pool, whose remainder may come to lie beside a cached  *)
(* block when it is cut: Separate includes that block.  And what           *)
(* release_cached_blocks achieves has to last until the error is raised:   *)
(* LastResort.                                                             *)
(***************************************************************************)

\* No two free blocks are neighbours, the one malloc has found included.
Separate == \A p, q \in cached \cup Held : ~Linked(blocks, p, q)

\* After release_cached_blocks, nothing waits for an event and every cached
\* block is a part of a segment.
LastResort ==
  pc \in {"retry", "last_obtain", "oom"} =>
    NoEvents /\ Unsplit(TRUE) \cup Unsplit(FALSE) = {}

FreeInv == Separate /\ LastResort

-----------------------------------------------------------------------------
(* Free blocks are not linked *)

\* A step that adds nothing to the free blocks, nor changes their extent.
LEMMA SeparateFrame ==
  ASSUME Separate,
         \A x \in (cached \cup Held)' :
           /\ x \in cached \cup Held
           /\ blocks'[x].size = blocks[x].size
           /\ blocks'[x].seg = blocks[x].seg
  PROVE  Separate'
BY DEF Separate, Linked, End

\* free_block: a free neighbour of the merged block would have been merged
\* too, or was already the neighbour of a free block.
LEMMA FreeBlockSeparates ==
  ASSUME HeapInv, Separate, NEW p \in active, NEW h, NEW st,
         h = [blocks EXCEPT ![p] = h[p]], h[p] \in Block, Freed(blocks[p], h[p]),
         FreeBlock(h, p, st), pc # "found", pc' # "found"
  PROVE  Separate'
<1> DEFINE c == Coalesce(h, p)
           q == Lead(h, p)
           gone == Subsumed(h, p)
<1>0. /\ p \in DOMAIN blocks /\ DOMAIN h = DOMAIN blocks
      /\ \A x \in DOMAIN blocks : x # p => h[x] = blocks[x]
      /\ cached \subseteq DOMAIN blocks
      /\ cached \cap active = {}
      /\ h[p].mapped /\ \A x \in cached : blocks[x].mapped
  BY Partition DEF Freed
<1>1. Tiled(segments, h)
  <2>1. HeapType(h)
    BY <1>0 DEF HeapInv, Tiled, HeapType
  <2> QED
    BY <2>1, <1>0, SameTiled DEF HeapInv, Freed
<1>2. \A x \in gone : x \in cached /\ x # p
  <2> SUFFICES ASSUME NEW x \in gone PROVE x \in cached /\ x # p
    OBVIOUS
  <2>1. /\ x \in DOMAIN blocks /\ x # p /\ ~h[x].allocated /\ h[x].events = 0
        /\ h[x].mapped
    BY <1>0, <1>1, SubsumedAlone
  <2>2. h[x] = blocks[x] /\ Held = {}
    BY <2>1, <1>0 DEF Held
  <2> QED
    BY <2>1, <2>2, Partition
<1>3. blocks' = c /\ cached' = (cached \ gone) \cup {q} /\ Held = {} /\ Held' = {}
  BY DEF FreeBlock, Held
<1>4. /\ p \notin cached /\ cached \subseteq DOMAIN h /\ gone \subseteq cached
      /\ \A x \in cached : h[x] = blocks[x]
  BY <1>0, <1>2
<1>5. \A x \in cached : Mergeable(h, p, x)
  <2>1. \A x \in cached : ~blocks[x].allocated /\ blocks[x].events = 0 /\ blocks[x].uses = {}
    BY <1>0, Partition
  <2> QED
    BY <2>1, <1>0, <1>4 DEF Mergeable
<1>6. \A x, y \in cached : ~Linked(h, x, y)
  BY <1>3, <1>4 DEF Separate, Linked, End
<1> QED
  BY <1>0, <1>1, <1>3, <1>4, <1>5, <1>6, CoalesceSeparates DEF Separate

\* The completion of an event, whether it frees its block or not.
LEMMA EventDoneSeparates ==
  ASSUME HeapInv, Separate, NEW p \in active, ~blocks[p].allocated,
         EventDone(blocks, p), pc # "found", pc' # "found",
         blocks[p].events > 0
  PROVE  Separate'
<1> DEFINE g == [blocks EXCEPT ![p].events = blocks[p].events - 1]
<1>0. /\ p \in DOMAIN blocks /\ blocks[p] \in Block /\ blocks[p].uses = {}
      /\ blocks[p].events \in Nat /\ cached \cap active = {}
      /\ cached \subseteq DOMAIN blocks
  BY Partition DEF Block
<1>1. /\ g = [blocks EXCEPT ![p] = g[p]] /\ g[p] \in Block
      /\ \A x \in DOMAIN blocks : x # p => g[x] = blocks[x]
      /\ g[p] = [blocks[p] EXCEPT !.events = blocks[p].events - 1]
      /\ g[p].events = blocks[p].events - 1
  BY <1>0 DEF Block
<1>2. IF g[p].events = 0
      THEN FreeBlock(g, p, stats)
      ELSE blocks' = g /\ cached' = cached
  BY DEF EventDone
<1> HIDE DEF g
<1>3. CASE g[p].events = 0
  <2>1. Freed(blocks[p], g[p])
    BY <1>0, <1>1, <1>3 DEF Freed, Block
  <2> QED
    BY <2>1, <1>1, <1>2, <1>3, FreeBlockSeparates
<1>4. CASE g[p].events # 0
  BY <1>0, <1>1, <1>2, <1>4, SeparateFrame DEF Held
<1> QED
  BY <1>3, <1>4

\* The oldest event of a stream leaves its queue.
LEMMA PopEventSeparates ==
  ASSUME HeapInv, QueueInv, Separate, NEW s \in Streams, npu_events[s] # <<>>,
         PopEvent(s), pc # "found", pc' # "found"
  PROVE  Separate'
<1>1. 1 \in DOMAIN npu_events[s] /\ Head(npu_events[s]) = npu_events[s][1]
  <2>1. Len(npu_events[s]) # 0 /\ npu_events[s] \in Seq(Nat)
    BY QueueTypes, EmptySeq
  <2> QED
    BY <2>1
<1>2. EventDone(blocks, npu_events[s][1])
  BY <1>1 DEF PopEvent
<1> QED
  BY <1>1, <1>2, QueuedHasEvents, EventDoneSeparates

\* alloc_found_block: the remainder of a block that was cut begins where the
\* block found ended in what is free, and its neighbour behind it is not free.
LEMMA AllocFoundSeparates ==
  ASSUME HeapInv, CallInv, Separate, AllocFoundBlock, HeapInv'
  PROVE  Separate'
<1> DEFINE p == call.block
           n == call.size
           split == should_split(blocks[p], n)
           front == [Fresh(blocks[p], TRUE) EXCEPT !.stream = call.stream]
           h == IF split THEN SplitOff(blocks, p, n, front, blocks[p]) ELSE blocks
<1>0. /\ pc = "found" /\ pc' = "idle"
      /\ blocks' = [h EXCEPT ![p].allocated = TRUE]
      /\ cached' = IF split THEN cached \cup {p + n} ELSE cached
  BY DEF AllocFoundBlock, Return
<1>1. /\ p \in DOMAIN blocks /\ n \in Nat /\ n > 0
      /\ p \in Held /\ Held' = {}
  BY <1>0 DEF CallInv, Searching, Call, Held
<1>2. p \notin cached /\ cached \subseteq DOMAIN blocks
  BY <1>1, Partition
<1>3. /\ p \in Nat /\ blocks[p] \in Block /\ blocks[p].size \in Nat
  BY <1>1, BlockType DEF HeapInv, Tiled
<1> HIDE DEF front
<1>4. CASE ~split
  <2>1. \A x \in cached : blocks'[x] = blocks[x]
    BY <1>0, <1>2, <1>4
  <2> QED
    BY <2>1, <1>0, <1>1, <1>4, SeparateFrame
<1>5. CASE split
  <2>0. n < blocks[p].size
    BY <1>1, <1>3, <1>5 DEF should_split, kMinBlockSize, kSmallSize
  <2>1. p + n \notin DOMAIN blocks
    <3>1. p + n < End(blocks, p) /\ p < p + n
      BY <2>0, <1>1, <1>3 DEF End
    <3>2. p + n \in DOMAIN blocks => End(blocks, p) <= p + n
      BY <3>1, <1>1 DEF HeapInv, Tiled, Apart
    <3> QED
      BY <3>1, <3>2, <1>1, <1>3 DEF End
  <2>2. /\ DOMAIN blocks' = DOMAIN blocks \cup {p + n}
        /\ \A x \in cached : blocks'[x] = blocks[x] /\ x # p + n
        /\ p + n \in DOMAIN blocks' /\ p \in DOMAIN blocks'
        /\ blocks'[p + n].size = blocks[p].size - n
        /\ blocks'[p + n].seg = blocks[p].seg
        /\ blocks'[p].size = n
    <3>1. /\ DOMAIN h = DOMAIN blocks \cup {p + n}
          /\ \A x \in DOMAIN blocks : x # p => h[x] = blocks[x]
          /\ h[p] = [front EXCEPT !.size = n]
          /\ h[p + n] = [blocks[p] EXCEPT !.size = blocks[p].size - n]
          /\ p + n # p
      BY <2>1, <1>1, <1>3, <1>5 DEF SplitOff
    <3>2. front.size = blocks[p].size /\ h[p].size = n
      BY <3>1 DEF front, Fresh, NewBlock
    <3>3. h[p + n].size = blocks[p].size - n /\ h[p + n].seg = blocks[p].seg
      BY <3>1, <1>3 DEF Block
    <3>4. blocks'[p].size = h[p].size
      BY <3>1, <1>0, <1>1 DEF front, Fresh, NewBlock
    <3> HIDE DEF h
    <3> QED
      BY <3>1, <3>2, <3>3, <3>4, <2>1, <1>0, <1>1, <1>2
  <2>3. End(blocks', p + n) = End(blocks, p) /\ End(blocks', p) = p + n
    BY <2>2, <1>1, <1>3 DEF End
  <2>4. ASSUME NEW x \in cached PROVE ~Linked(blocks', p + n, x)
    BY <2>2, <2>3, <2>4, <1>1 DEF Separate, Linked
  <2>5. ASSUME NEW x \in cached PROVE ~Linked(blocks', x, p + n)
    <3> SUFFICES ASSUME End(blocks', x) = p + n PROVE FALSE
      BY DEF Linked
    <3>1. x \in DOMAIN blocks' /\ x # p
      BY <2>2, <1>2
    <3>2. HeapType(blocks') /\ Apart(blocks')
      BY DEF HeapInv, Tiled
    <3>3. x < p \/ p < x
      BY <3>1, <3>2, <1>3 DEF HeapType
    <3>4. x < p => End(blocks', x) <= p
      BY <2>2, <3>1, <3>2 DEF Apart
    <3>5. p < x => End(blocks', p) <= x
      BY <2>2, <3>1, <3>2 DEF Apart
    <3>6. End(blocks', x) > x /\ x \in Nat
      BY <3>1, <3>2, BlockType
    <3> QED
      BY <3>3, <3>4, <3>5, <3>6, <2>3, <1>1, <1>3
  <2>6. ~Linked(blocks', p + n, p + n)
    <3>1. HeapType(blocks')
      BY DEF HeapInv, Tiled
    <3> QED
      BY <3>1, <2>2, BlockType DEF Linked
  <2>7. ASSUME NEW x \in cached, NEW y \in cached PROVE ~Linked(blocks', x, y)
    BY <2>2, <2>7 DEF Separate, Linked, End
  <2> QED
    BY <2>4, <2>5, <2>6, <2>7, <1>0, <1>1, <1>5 DEF Separate
<1> QED
  BY <1>4, <1>5

\* get_free_block takes the block found out of the pool, and ages the others.
LEMMA SearchSeparates ==
  ASSUME HeapInv, Separate, NoFreeBlock \/ \E p \in cached : GetFreeBlock(p)
  PROVE  Separate'
<1>0. pc = "process_events" /\ Held = {} /\ cached \subseteq DOMAIN blocks
  BY Partition DEF NoFreeBlock, GetFreeBlock, Held
<1>1. /\ DOMAIN Aged = DOMAIN blocks
      /\ \A x \in cached : /\ Aged[x] \in Block
                           /\ Aged[x].size = blocks[x].size
                           /\ Aged[x].seg = blocks[x].seg
  <2>1. \A x \in DOMAIN blocks : blocks[x] \in Block
    BY Partition
  <2> QED
    BY <2>1, <1>0, AgedType DEF Block
<1>2. CASE NoFreeBlock
  <2>1. blocks' = Aged /\ cached' = cached /\ Held' = {}
    BY <1>2 DEF NoFreeBlock, Held
  <2> QED
    BY <2>1, <1>0, <1>1, SeparateFrame
<1>3. ASSUME NEW p \in cached, GetFreeBlock(p) PROVE Separate'
  <2>1. /\ blocks' = [Aged EXCEPT ![p].age = 0] /\ cached' = cached \ {p}
        /\ pc' = "found" /\ call' = [call EXCEPT !.block = p]
    BY <1>3 DEF GetFreeBlock
  <2>2. Held' \subseteq {p} \/ Held' = {call'.block}
    BY DEF Held
  <2>3. \A x \in cached : blocks'[x].size = blocks[x].size /\ blocks'[x].seg = blocks[x].seg
    BY <2>1, <1>0, <1>1 DEF Block
  <2>4. call'.block = p \/ Held' = {}
    BY <2>1 DEF Held
  <2> QED
    BY <2>1, <2>2, <2>3, <2>4, <1>0, <1>3, SeparateFrame
<1> QED
  BY <1>2, <1>3

\* alloc_block: the block of a new segment has no neighbours.
LEMMA AllocBlockSeparates ==
  ASSUME HeapInv, CallInv, Separate, NEW base \in Bases, AllocBlock(base)
  PROVE  Separate'
<1> DEFINE size == get_allocation_size(call.size)
<1>1. /\ cached' = cached /\ call' = [call EXCEPT !.block = base]
      /\ blocks' = [x \in DOMAIN blocks \cup {base} |->
                      IF x = base
                      THEN NewBlock(base, size, call.stream, IsSmall(call.size), TRUE)
                      ELSE blocks[x]]
      /\ call \in Call /\ Held = {} /\ pc' = "found"
  BY DEF AllocBlock, Obtaining, CallInv, Held
<1>2. /\ size \in Nat /\ size > 0 /\ base \in Nat
      /\ base \notin DOMAIN segments /\ base \notin DOMAIN blocks
  BY NewBase
<1> HIDE DEF size
<1>3. Held' = {base}
  BY <1>1 DEF Held, Call
<1>4. /\ blocks'[base].seg = base /\ blocks'[base].size = size
      /\ \A x \in cached : x \in DOMAIN blocks /\ blocks'[x] = blocks[x]
  BY <1>1, <1>2, Partition DEF NewBlock
<1>5. \A x \in cached : blocks'[x].seg # base
  BY <1>2, <1>4 DEF HeapInv, Tiled, InSegment
<1>6. ~Linked(blocks', base, base)
  <2>1. base \in Nat /\ base + size # base
    BY <1>2
  <2> QED
    BY <2>1, <1>4 DEF Linked, End
<1>7. ASSUME NEW x \in cached, NEW y \in cached PROVE ~Linked(blocks', x, y)
  BY <1>4, <1>7 DEF Separate, Linked, End
<1>8. ASSUME NEW x \in cached
       PROVE  ~Linked(blocks', x, base) /\ ~Linked(blocks', base, x)
  BY <1>4, <1>5, <1>8 DEF Linked
<1>9. (cached \cup Held)' = cached \cup {base}
  BY <1>1, <1>3
<1> QED
  BY <1>6, <1>7, <1>8, <1>9 DEF Separate

\* release_block takes a block out of the pool.
LEMMA ReleaseSeparates ==
  ASSUME HeapInv, Separate, NEW p \in cached, ReleaseBlock(p), pc # "found", pc' # "found"
  PROVE  Separate'
<1>1. /\ cached' = cached \ {p} /\ Held = {} /\ Held' = {}
      /\ \A x \in cached' : blocks'[x] = blocks[x]
  BY Partition DEF ReleaseBlock, Held
<1> QED
  BY <1>1, SeparateFrame

\* The steps that do not depend on where segments come from keep free blocks
\* apart.
LEMMA SharedKeepsSeparate ==
  ASSUME SharedInv, HeapInv', Separate, Program \/ CommonStep \/ Device
  PROVE  Separate'
<1>0. HeapInv /\ QueueInv /\ CallInv /\ HeapInv'
  BY DEF SharedInv
<1>1. ASSUME UNCHANGED <<blocks, cached>>,
             (pc # "found" /\ pc' # "found") \/ UNCHANGED <<pc, call>>
      PROVE  Separate'
  BY <1>1, SeparateFrame DEF Held
<1>2. CASE Program
  <2>1. ASSUME NEW bytes, NEW s, Malloc(bytes, s) PROVE Separate'
    BY <2>1, <1>1 DEF Malloc, heapVars
  <2>2. ASSUME NEW p \in active, Free(p) PROVE Separate'
    <3> DEFINE h == [blocks EXCEPT ![p].allocated = FALSE]
               st == [stats EXCEPT ![blocks[p].small] =
                        [stats[blocks[p].small] EXCEPT !.allocation = @ - 1,
                                                       !.allocated_bytes = @ - blocks[p].size]]
    <3>0. pc = "idle" /\ pc' = "idle" /\ Held = {} /\ Held' = {} /\ blocks[p].allocated
      BY <2>2 DEF Free, Held, Allocated
    <3>1. /\ p \in DOMAIN blocks /\ blocks[p] \in Block /\ blocks[p].events = 0
          /\ p \notin cached /\ cached \subseteq DOMAIN blocks
      BY <1>0, <3>0, Partition DEF QueueInv, EventsOfActive
    <3>2. /\ h = [blocks EXCEPT ![p] = h[p]] /\ h[p] \in Block
          /\ \A x \in DOMAIN blocks : x # p => h[x] = blocks[x]
      BY <3>1 DEF Block
    <3>3. CASE blocks[p].uses = {}
      <4>1. Freed(blocks[p], h[p])
        BY <3>1, <3>3 DEF Freed, Block
      <4>2. FreeBlock(h, p, st)
        BY <2>2, <3>3 DEF Free
      <4> HIDE DEF h, st
      <4> QED
        BY <4>1, <4>2, <3>0, <3>2, <1>0, FreeBlockSeparates
    <3>4. CASE blocks[p].uses # {}
      <4>1. /\ blocks' = [h EXCEPT ![p].uses = {},
                                   ![p].events = @ + Cardinality(blocks[p].uses)]
            /\ cached' = cached
        BY <2>2, <3>4, Zenon DEF Free
      <4> HIDE DEF h
      <4>2. \A x \in cached : blocks'[x] = blocks[x]
        BY <4>1, <3>1, <3>2
      <4> QED
        BY <4>1, <4>2, <3>0, SeparateFrame
    <3> QED
      BY <3>3, <3>4
  <2>3. ASSUME NEW p \in active, NEW s \in Streams, RecordStream(p, s) PROVE Separate'
    <3>1. /\ blocks' = [blocks EXCEPT ![p].uses = @ \cup {s}] /\ cached' = cached
          /\ Held = {} /\ Held' = {} /\ p \notin cached
      BY <2>3, <1>0, Partition DEF RecordStream, Held
    <3> QED
      BY <3>1, SeparateFrame
  <2>4. ASSUME NEW p \in active, NEW s \in Streams, EraseStream(p, s) PROVE Separate'
    <3> DEFINE h == [blocks EXCEPT ![p].uses = @ \ {s}]
               queued  == {i \in DOMAIN npu_events[s] : npu_events[s][i] = p}
    <3>1. /\ pc = "idle" /\ pc' = "idle" /\ Held = {} /\ Held' = {}
          /\ p \in DOMAIN blocks /\ blocks[p] \in Block /\ p \notin cached
      BY <2>4, <1>0, Partition DEF EraseStream, Held
    <3>2. CASE queued = {}
      <4>1. blocks' = h /\ cached' = cached
        BY <2>4, <3>2 DEF EraseStream
      <4> QED
        BY <3>1, <4>1, SeparateFrame
    <3>3. CASE queued # {}
      <4>1. EventDone(h, p)
        BY <2>4, <3>3 DEF EraseStream
      <4>2. ~blocks[p].allocated /\ blocks[p].events > 0
        BY <3>3, <1>0, QueuedHasEvents
      <4>3. h = blocks
        <5>1. blocks[p].uses = {}
          BY <4>2, <3>1, <1>0, Partition
        <5>2. [blocks[p] EXCEPT !.uses = {}] = blocks[p]
          BY <3>1, <5>1 DEF Block
        <5>3. blocks = [x \in DOMAIN blocks |-> blocks[x]]
          BY <1>0 DEF HeapInv, Tiled, HeapType
        <5> QED
          BY <3>1, <5>1, <5>2, <5>3
      <4>4. EventDone(blocks, p)
        BY <4>1, <4>3
      <4> QED
        BY <4>2, <4>4, <3>1, <1>0, EventDoneSeparates
    <3> QED
      BY <3>2, <3>3
  <2>5. ASSUME EmptyCache PROVE Separate'
    BY <2>5, <1>1 DEF EmptyCache, heapVars
  <2>6. ASSUME NEW limit, SetMemoryFraction(limit) PROVE Separate'
    BY <2>6, <1>1 DEF SetMemoryFraction, heapVars
  <2> QED
    BY <1>2, <2>1, <2>2, <2>3, <2>4, <2>5, <2>6 DEF Program
<1>3. CASE CommonStep
  <2>1. ASSUME NEW s \in Streams, ProcessEvents(s) PROVE Separate'
    <3>1. pc = "process_events" /\ pc' = pc
      BY <2>1 DEF ProcessEvents
    <3>2. CASE npu_events[s] # <<>> /\ completed[s] > 0
      BY <2>1, <3>1, <3>2, <1>0, PopEventSeparates DEF ProcessEvents
    <3>3. CASE ~(npu_events[s] # <<>> /\ completed[s] > 0)
      BY <2>1, <3>1, <3>3, <1>1 DEF ProcessEvents, heapVars
    <3> QED
      BY <3>2, <3>3
  <2>2. ASSUME NEW s \in Streams, SynchronizeEvent(s) PROVE Separate'
    BY <2>2, <1>0, PopEventSeparates DEF SynchronizeEvent
  <2>3. ASSUME NoFreeBlock \/ \E p \in cached : GetFreeBlock(p) PROVE Separate'
    BY <2>3, <1>0, SearchSeparates
  <2>4. ASSUME AllocFoundBlock PROVE Separate'
    BY <2>4, <1>0, AllocFoundSeparates
  <2>5. ASSUME OutOfMemory PROVE Separate'
    BY <2>5, <1>1 DEF OutOfMemory, Return, heapVars
  <2> QED
    BY <1>3, <2>1, <2>2, <2>3, <2>4, <2>5 DEF CommonStep
<1>4. CASE Device
  BY <1>4, <1>1 DEF Device, DeviceRuns, heapVars
<1> QED
  BY <1>2, <1>3, <1>4

\* Every step keeps free blocks apart.
LEMMA NextKeepsSeparate ==
  ASSUME IInv, IInv', Separate, [Next]_vars
  PROVE  Separate'
<1>0. /\ SharedInv /\ HeapInv' /\ SegmentCall
      /\ HeapInv /\ QueueInv /\ CallInv
  BY DEF IInv, SharedInv
<1>1. ASSUME UNCHANGED <<blocks, cached>>,
             (pc # "found" /\ pc' # "found") \/ UNCHANGED <<pc, call>>
      PROVE  Separate'
  BY <1>1, SeparateFrame DEF Held
<1>2. CASE Program \/ CommonStep \/ Device
  BY <1>0, <1>2, SharedKeepsSeparate
<1>3. CASE SegmentStep
  <2>1. ASSUME NEW p,
               \/ p \in call.targets /\ CollectBlock(p)
               \/ p \in cached /\ (ReleaseFitting(p) \/ ReleaseLargest(p) \/ ReleaseCached(p))
        PROVE  Separate'
    <3>1. p \in cached /\ ReleaseBlock(p) /\ pc # "found" /\ pc' # "found"
      BY <2>1, <1>0 DEF CollectBlock, ReleaseFitting, ReleaseLargest, ReleaseCached,
         Goto, SegmentCall, Unsplit
    <3> QED
      BY <3>1, <1>0, ReleaseSeparates
  <2>2. ASSUME \/ CollectRound \/ CollectDone \/ ReleaseSomeDone \/ ReleaseAllDone
               \/ WithinLimit \/ AllocBlockFails
        PROVE  Separate'
    <3>1. UNCHANGED <<blocks, cached>> /\ pc # "found" /\ pc' # "found"
      BY <2>2 DEF CollectRound, CollectDone, ReleaseSomeDone, ReleaseAllDone,
         WithinLimit, AllocBlockFails, AfterRelease, Goto, Return, heapVars, Allocating,
         Obtaining
    <3> QED
      BY <3>1, <1>1
  <2>3. ASSUME NEW base \in Bases, AllocBlock(base) PROVE Separate'
    BY <2>3, <1>0, AllocBlockSeparates
  <2> QED
    BY <1>3, <2>1, <2>2, <2>3 DEF SegmentStep
<1>4. CASE UNCHANGED vars
  BY <1>4, <1>1 DEF vars
<1> QED
  BY <1>2, <1>3, <1>4 DEF Next

-----------------------------------------------------------------------------
(* Until the error is raised nothing is freed *)

\* What release_cached_blocks achieves lasts: the steps that may come between
\* it and the error are those that do not touch the cache.
LEMMA NextKeepsLastResort ==
  ASSUME IInv, LastResort, [Next]_vars
  PROVE  LastResort'
<1>1. ASSUME UNCHANGED <<blocks, cached, npu_events>>,
             pc' \in {"retry", "last_obtain", "oom"} => NoEvents /\ Unsplit(TRUE) \cup Unsplit(FALSE) = {}
      PROVE  LastResort'
  <2>1. \A small : Unsplit(small)' = Unsplit(small)
    BY <1>1 DEF Unsplit, IsSplit, PrevSet, NextSet, Linked, End
  <2>2. NoEvents' = NoEvents
    BY <1>1 DEF NoEvents
  <2> QED
    BY <1>1, <2>1, <2>2 DEF LastResort
<1>2. ASSUME UNCHANGED <<blocks, cached, npu_events, pc>> PROVE LastResort'
  BY <1>1, <1>2 DEF LastResort
<1>3. ASSUME pc' \notin {"retry", "last_obtain", "oom"} PROVE LastResort'
  BY <1>3 DEF LastResort
<1>4. CASE Program
  <2>1. ASSUME NEW p \in active, NEW s,
               Free(p) \/ RecordStream(p, s) \/ EraseStream(p, s)
        PROVE  LastResort'
    BY <2>1, <1>3 DEF Free, RecordStream, EraseStream
  <2>2. ASSUME NEW bytes, NEW s, NEW limit,
               Malloc(bytes, s) \/ EmptyCache \/ SetMemoryFraction(limit)
        PROVE  LastResort'
    BY <2>2, <1>2, <1>3 DEF Malloc, EmptyCache, SetMemoryFraction, heapVars, eventVars
  <2> QED
    BY <1>4, <2>1, <2>2 DEF Program
<1>5. CASE CommonStep
  <2>1. pc' \notin {"retry", "last_obtain", "oom"}
    BY <1>5 DEF CommonStep, ProcessEvents, SynchronizeEvent, GetFreeBlock, NoFreeBlock,
       AllocFoundBlock, OutOfMemory, Return
  <2> QED
    BY <2>1, <1>3
<1>6. CASE SegmentStep
  <2>1. ASSUME ReleaseAllDone PROVE LastResort'
    BY <2>1, <1>1 DEF ReleaseAllDone, heapVars, eventVars
  <2>2. ASSUME AllocBlockFails PROVE LastResort'
    <3>1. UNCHANGED <<blocks, cached, npu_events>>
      BY <2>2 DEF AllocBlockFails, heapVars, eventVars, DeviceSynchronize, Allocating,
         Obtaining
    <3>2. pc' \in {"retry", "last_obtain", "oom"} => pc \in {"retry", "last_obtain"}
      BY <2>2 DEF AllocBlockFails, Allocating, Obtaining, Goto
    <3> QED
      BY <3>1, <3>2, <1>1 DEF LastResort
  <2>3. ASSUME NEW p, NEW base,
               \/ CollectRound \/ CollectBlock(p) \/ CollectDone
               \/ ReleaseFitting(p) \/ ReleaseLargest(p) \/ ReleaseCached(p)
               \/ ReleaseSomeDone \/ AllocBlock(base)
        PROVE  LastResort'
    <3>1. pc' \notin {"retry", "last_obtain", "oom"}
      BY <2>3 DEF CollectRound, CollectBlock, CollectDone, ReleaseFitting, ReleaseLargest,
         ReleaseCached, ReleaseSomeDone, AllocBlock, Goto
    <3> QED
      BY <3>1, <1>3
  <2>4. ASSUME WithinLimit PROVE LastResort'
    <3>1. UNCHANGED <<blocks, cached, npu_events>>
      BY <2>4 DEF WithinLimit, heapVars, eventVars
    <3>2. pc' \in {"retry", "last_obtain", "oom"} => pc = "retry"
      BY <2>4 DEF WithinLimit, Allocating, Goto
    <3> QED
      BY <3>1, <3>2, <1>1 DEF LastResort
  <2> QED
    BY <1>6, <2>1, <2>2, <2>3, <2>4 DEF SegmentStep
<1>7. CASE Device
  BY <1>7, <1>2 DEF Device, DeviceRuns, heapVars
<1>8. CASE UNCHANGED vars
  BY <1>8, <1>2 DEF vars
<1> QED
  BY <1>4, <1>5, <1>6, <1>7, <1>8 DEF Next

-----------------------------------------------------------------------------
(* The theorems *)

\* Free blocks stay apart, and what the last release achieves stays.
THEOREM FreeInvariance == Spec => [](IInv /\ FreeInv)
<1>1. Init => FreeInv
  BY DEF Init, FreeInv, Separate, LastResort, Held
<1>2. IInv /\ IInv' /\ FreeInv /\ [Next]_vars => FreeInv'
  BY NextKeepsSeparate, NextKeepsLastResort DEF FreeInv
<1> QED
  BY <1>1, <1>2, InitIInv, NextKeepsIInv, PTL DEF Spec

\* Neighbouring free blocks are one: free_block merges whatever it can, and
\* alloc_found_block leaves no remainder beside a free block.
THEOREM FreeMemoryCoalesced == Spec => []Coalesced
<1>1. IInv /\ FreeInv => Coalesced
  BY DEF IInv, AllMapped, Unmapped, FreeInv, Separate, Coalesced
<1> QED
  BY <1>1, FreeInvariance, PTL

\* When malloc raises the error, every block that is still cached lies in a
\* segment of which the program holds a part: nothing more could be given back.
THEOREM OutOfMemoryIsLast == Spec => []OomIsLastResort
<1>1. IInv /\ FreeInv => OomIsLastResort
  <2> SUFFICES ASSUME IInv, FreeInv, pc = "oom"
               PROVE  /\ NoEvents
                      /\ \A p \in cached : \E q \in Allocated : blocks[q].seg = blocks[p].seg
    BY DEF OomIsLastResort
  <2>0. /\ HeapInv /\ QueueInv /\ Separate
        /\ NoEvents /\ Unsplit(TRUE) \cup Unsplit(FALSE) = {}
        /\ Unmapped = {} /\ Held = {}
    BY DEF IInv, SharedInv, FreeInv, LastResort, AllMapped, Held
  <2>1. \A x \in active : blocks[x].allocated
    <3> SUFFICES ASSUME NEW x \in active PROVE blocks[x].allocated
      OBVIOUS
    <3>1. Queueing(x) = {}
      BY <2>0 DEF NoEvents, Queueing
    <3>2. blocks[x].events = 0
      BY <2>0, <3>1, QueueingFinite DEF QueueInv, EventsOfActive
    <3> QED
      BY <2>0, <3>2, Partition
  <2>2. ASSUME NEW p \in cached PROVE \E q \in Allocated : blocks[q].seg = blocks[p].seg
    <3>1. p \in DOMAIN blocks /\ blocks[p].small \in BOOLEAN
      BY <2>0, Partition DEF Block
    <3>2. IsSplit(blocks, p)
      BY <2>0, <3>1 DEF Unsplit
    <3>3. PICK q \in DOMAIN blocks : Linked(blocks, p, q) \/ Linked(blocks, q, p)
      BY <3>2 DEF IsSplit, PrevSet, NextSet
    <3>4. q \notin cached
      BY <2>0, <3>3 DEF Separate
    <3>5. q \in Allocated
      BY <2>0, <2>1, <3>4, Partition DEF Allocated
    <3> QED
      BY <3>3, <3>5 DEF Linked
  <2> QED
    BY <2>0, <2>2
<1> QED
  BY <1>1, FreeInvariance, PTL
=============================================================================
