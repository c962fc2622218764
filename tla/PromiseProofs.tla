---------------------------- MODULE PromiseProofs ---------------------------
(***************************************************************************)
(* CachingAllocator implements StreamSafeMemory, for every value of its    *)
(* constants: what malloc hands out overlaps nothing that the program      *)
(* holds, that unfinished work of a stream uses, or that another stream    *)
(* has used since the last deviceSynchronize.                              *)
(*                                                                         *)
(* The first two follow from IInv.  For the last, a range of unsynced has  *)
(* to stay a segment of the stream that used it (UnsyncedHeld), so that a  *)
(* block of another stream lies elsewhere (SegmentsApart); and a segment   *)
(* is given back only when nothing has been freed since the device was     *)
(* synchronized (SyncedFirst).                                             *)
(***************************************************************************)
EXTENDS CachingAllocatorProofs

\* No two segments share memory.
SegmentsApart ==
  \A a, b \in DOMAIN segments : a < b => a + segments[a] <= b

\* What has been used since the last synchronization is a segment that the
\* allocator still holds for that stream.
UnsyncedHeld ==
  \A r \in unsynced :
    /\ r.lo \in DOMAIN segments
    /\ r.hi = r.lo + segments[r.lo]
    /\ r.stream = blocks[r.lo].stream

\* The device is synchronized before segments are given back.
SyncedFirst ==
  /\ pc \in {"release_some", "realloc", "release_all", "retry"} => unsynced = {}
  /\ call.targets # {} => unsynced = {}

SyncInv == SegmentsApart /\ UnsyncedHeld /\ SyncedFirst

-----------------------------------------------------------------------------
(* A segment belongs to one stream *)

\* A step that keeps the segments, their streams and their pools.
SameSegments ==
  /\ segments' = segments
  /\ \A a \in DOMAIN segments : /\ blocks'[a].stream = blocks[a].stream
                                /\ blocks'[a].small = blocks[a].small

\* free_block merges blocks of one segment, and so of one stream.
LEMMA FreeBlockStreams ==
  ASSUME HeapInv, NEW p \in active, NEW h, NEW st,
         h = [blocks EXCEPT ![p] = h[p]], h[p] \in Block, Freed(blocks[p], h[p]),
         FreeBlock(h, p, st), segments' = segments
  PROVE  SameSegments
<1> DEFINE c == Coalesce(h, p)
           q == Lead(h, p)
<1>0. /\ p \in DOMAIN blocks /\ DOMAIN h = DOMAIN blocks
      /\ \A x \in DOMAIN blocks : x # p => h[x] = blocks[x]
  BY Partition
<1>1. Tiled(segments, h)
  <2>1. HeapType(h)
    BY <1>0 DEF HeapInv, Tiled, HeapType
  <2> QED
    BY <2>1, <1>0, SameTiled DEF HeapInv, Freed
<1>2. Joins(segments, h, p, c, q, Subsumed(h, p))
  BY <1>0, <1>1, CoalesceJoins
<1>3. blocks' = c
  BY DEF FreeBlock
<1> HIDE DEF c, q
<1>4. /\ Tiled(segments, c)
      /\ \A x \in DOMAIN c : x # q => c[x] = h[x]
      /\ c[q].stream = h[p].stream /\ c[q].seg = h[p].seg /\ c[q].small = h[p].small
  <2>1. c[q] = [h[p] EXCEPT !.size = c[q].size]
    BY <1>2 DEF Joins
  <2> QED
    BY <2>1, <1>2 DEF Joins, Block
<1> SUFFICES ASSUME NEW a \in DOMAIN segments
             PROVE  c[a].stream = blocks[a].stream /\ c[a].small = blocks[a].small
  BY <1>3 DEF SameSegments
<1>5. a \in DOMAIN c /\ c[a].seg = a /\ a \in DOMAIN blocks
  BY <1>0, <1>1, <1>4 DEF Tiled
<1>6. h[a].stream = blocks[a].stream /\ h[a].small = blocks[a].small
  BY <1>0, <1>5 DEF Freed
<1>7. CASE a = q
  <2>1. h[p].seg = a
    BY <1>4, <1>5, <1>7
  <2>2. p \in DOMAIN h /\ h[p].stream = h[a].stream /\ h[p].small = h[a].small
    BY <2>1, <1>0, <1>1 DEF Tiled, InSegment
  <2> QED
    BY <2>2, <1>4, <1>6, <1>7
<1>8. CASE a # q
  BY <1>4, <1>5, <1>6, <1>8
<1> QED
  BY <1>7, <1>8

\* The completion of an event: the segments keep their streams, and what the
\* program holds is left alone.
LEMMA EventDoneStreams ==
  ASSUME HeapInv, NEW p \in active, ~blocks[p].allocated, blocks[p].events > 0,
         EventDone(blocks, p), stats \in Stats,
         segments' = segments, pc # "found", pc' # "found"
  PROVE  /\ SameSegments
         /\ Allocated' = Allocated
         /\ \A x \in Allocated : blocks'[x] = blocks[x]
<1> DEFINE g == [blocks EXCEPT ![p].events = blocks[p].events - 1]
<1>0. /\ p \in DOMAIN blocks /\ blocks[p] \in Block /\ blocks[p].uses = {}
      /\ blocks[p].events \in Nat
  BY Partition DEF Block
<1>1. /\ g = [blocks EXCEPT ![p] = g[p]] /\ g[p] \in Block
      /\ \A x \in DOMAIN blocks : x # p => g[x] = blocks[x]
      /\ g[p] = [blocks[p] EXCEPT !.events = blocks[p].events - 1]
      /\ g[p].events = blocks[p].events - 1
      /\ g[p].stream = blocks[p].stream /\ g[p].small = blocks[p].small
  BY <1>0 DEF Block
<1>2. IF g[p].events = 0 THEN FreeBlock(g, p, stats) ELSE blocks' = g
  BY DEF EventDone
<1> HIDE DEF g
<1>3. SameSegments
  <2>1. CASE g[p].events = 0
    <3>1. Freed(blocks[p], g[p])
      BY <1>0, <1>1, <2>1 DEF Freed, Block
    <3> QED
      BY <3>1, <1>1, <1>2, <2>1, FreeBlockStreams
  <2>2. CASE g[p].events # 0
    <3>1. \A a \in DOMAIN segments : a \in DOMAIN blocks
      BY DEF HeapInv, Tiled
    <3> QED
      BY <3>1, <1>1, <1>2, <2>2 DEF SameSegments
  <2> QED
    BY <2>1, <2>2
<1>4. /\ active' = IF blocks[p].events = 1 THEN active \ {p} ELSE active
      /\ \A x \in active : x # p => blocks'[x] = blocks[x]
      /\ p \in active' => ~blocks'[p].allocated
  BY EventDoneKeeps
<1>5. p \notin Allocated /\ p \notin Allocated'
  BY <1>4 DEF Allocated
<1> QED
  BY <1>3, <1>4, <1>5 DEF Allocated

\* The oldest event of a stream leaves its queue.
LEMMA PopEventStreams ==
  ASSUME HeapInv, QueueInv, NEW s \in Streams, npu_events[s] # <<>>, stats \in Stats,
         PopEvent(s), segments' = segments, pc # "found", pc' # "found"
  PROVE  /\ SameSegments
         /\ Allocated' = Allocated
         /\ \A x \in Allocated : blocks'[x] = blocks[x]
<1>1. 1 \in DOMAIN npu_events[s] /\ Head(npu_events[s]) = npu_events[s][1]
  <2>1. Len(npu_events[s]) # 0 /\ npu_events[s] \in Seq(Nat)
    BY QueueTypes, EmptySeq
  <2> QED
    BY <2>1
<1>2. EventDone(blocks, npu_events[s][1])
  BY <1>1 DEF PopEvent
<1> QED
  BY <1>1, <1>2, QueuedHasEvents, EventDoneStreams

\* eraseStream: the segments keep their streams, and of what the program holds
\* nothing changes but the streams recorded on the block.
LEMMA EraseStreamStreams ==
  ASSUME HeapInv, QueueInv, stats \in Stats,
         NEW p \in active, NEW s \in Streams, EraseStream(p, s)
  PROVE  /\ SameSegments
         /\ Allocated' = Allocated
         /\ \A x \in Allocated :
              blocks'[x] = IF x = p THEN [blocks[p] EXCEPT !.uses = @ \ {s}] ELSE blocks[x]
<1> DEFINE h == [blocks EXCEPT ![p].uses = @ \ {s}]
           queued  == {i \in DOMAIN npu_events[s] : npu_events[s][i] = p}
<1>1. /\ pc = "idle" /\ pc' = "idle" /\ segments' = segments
      /\ p \in DOMAIN blocks /\ blocks[p] \in Block /\ active \subseteq DOMAIN blocks
  BY Partition DEF EraseStream
<1>2. CASE queued = {}
  <2>1. blocks' = h /\ active' = active
    BY <1>2 DEF EraseStream
  <2>2. /\ \A x \in DOMAIN blocks : x # p => blocks'[x] = blocks[x]
        /\ blocks'[p] = [blocks[p] EXCEPT !.uses = @ \ {s}]
        /\ blocks'[p].stream = blocks[p].stream /\ blocks'[p].small = blocks[p].small
        /\ blocks'[p].allocated = blocks[p].allocated
    BY <2>1, <1>1 DEF Block
  <2>3. \A a \in DOMAIN segments : a \in DOMAIN blocks
    BY DEF HeapInv, Tiled
  <2>4. SameSegments
    BY <2>2, <2>3, <1>1 DEF SameSegments
  <2>5. Allocated' = Allocated
    BY <2>1, <2>2, <1>1 DEF Allocated
  <2> QED
    BY <2>2, <2>4, <2>5, <1>1 DEF Allocated
<1>3. CASE queued # {}
  <2>1. EventDone(h, p)
    BY <1>3 DEF EraseStream
  <2>2. ~blocks[p].allocated /\ blocks[p].events > 0
    BY <1>3, QueuedHasEvents
  <2>3. h = blocks
    <3>1. blocks[p].uses = {}
      BY <2>2, <1>1, Partition
    <3>2. [blocks[p] EXCEPT !.uses = {}] = blocks[p]
      BY <1>1, <3>1 DEF Block
    <3>3. blocks = [x \in DOMAIN blocks |-> blocks[x]]
      BY DEF HeapInv, Tiled, HeapType
    <3> QED
      BY <1>1, <3>1, <3>2, <3>3
  <2>4. EventDone(blocks, p) /\ p \notin Allocated
    BY <2>1, <2>2, <2>3 DEF Allocated
  <2> QED
    BY <2>2, <2>4, <1>1, EventDoneStreams
<1> QED
  BY <1>2, <1>3

\* What alloc_found_block hands out: a block of the stream that asked, not
\* known to the program before.
LEMMA AllocFoundStreams ==
  ASSUME HeapInv, CallInv, AllocFoundBlock
  PROVE  /\ SameSegments
         /\ call.stream \in Streams
         /\ call.block \in DOMAIN blocks \ active
         /\ Allocated' = Allocated \cup {call.block}
         /\ \A x \in Allocated : blocks'[x] = blocks[x]
         /\ blocks'[call.block].stream = call.stream
         /\ blocks'[call.block].uses = {}
<1> DEFINE p == call.block
           n == call.size
           split == should_split(blocks[p], n)
           front == [Fresh(blocks[p], TRUE) EXCEPT !.stream = call.stream]
           h == IF split THEN SplitOff(blocks, p, n, front, blocks[p]) ELSE blocks
<1>0. /\ pc = "found" /\ segments' = segments
      /\ blocks' = [h EXCEPT ![p].allocated = TRUE]
      /\ active' = active \cup {p}
  BY DEF AllocFoundBlock
<1>1. /\ p \in DOMAIN blocks /\ n \in Nat /\ n > 0
      /\ blocks[p].stream = call.stream /\ call.stream \in Streams
      /\ p \in DOMAIN blocks \ active /\ \A x \in active : blocks'[x] = blocks[x]
  BY <1>0, AllocFoundBlockKeeps DEF CallInv, Searching, Call
<1>2. blocks[p] \in Block /\ blocks[p].size \in Nat /\ p \in Nat /\ blocks[p].uses = {}
  BY <1>1, Partition, BlockType DEF HeapInv, Tiled
<1>3. split => n < blocks[p].size
  BY <1>1, <1>2 DEF should_split, kMinBlockSize, kSmallSize
<1>4. /\ front \in Block /\ front.stream = call.stream /\ front.uses = {}
      /\ front.small = blocks[p].small
  BY <1>1, <1>2 DEF Fresh, NewBlock, Block
<1> HIDE DEF front, split
<1>5. /\ p \in DOMAIN h
      /\ \A x \in DOMAIN blocks : x # p => x \in DOMAIN h /\ h[x] = blocks[x]
      /\ h[p].stream = call.stream /\ h[p].uses = {}
      /\ h[p] \in Block /\ h[p].small = blocks[p].small
  <2>1. CASE split
    <3>1. p + n \notin DOMAIN blocks /\ p + n # p
      <4>1. p + n < End(blocks, p) /\ p < p + n
        BY <2>1, <1>1, <1>2, <1>3 DEF End
      <4>2. p + n \in DOMAIN blocks => End(blocks, p) <= p + n
        BY <4>1, <1>1 DEF HeapInv, Tiled, Apart
      <4> QED
        BY <4>1, <4>2, <1>1, <1>2 DEF End
    <3>2. /\ DOMAIN h = DOMAIN blocks \cup {p + n}
          /\ \A x \in DOMAIN blocks : x # p => h[x] = blocks[x]
          /\ h[p] = [front EXCEPT !.size = n]
      BY <2>1, <3>1, <1>1 DEF SplitOff
    <3>3. /\ h[p].stream = call.stream /\ h[p].uses = {} /\ h[p] \in Block
          /\ h[p].small = blocks[p].small
      BY <3>2, <1>1, <1>4 DEF Block
    <3> QED
      BY <3>2, <3>3, <1>1
  <2>2. CASE ~split
    BY <2>2, <1>1, <1>2
  <2> QED
    BY <2>1, <2>2
<1> HIDE DEF h
<1>6. /\ \A x \in DOMAIN blocks : x # p => blocks'[x] = blocks[x]
      /\ blocks'[p].stream = call.stream /\ blocks'[p].uses = {} /\ blocks'[p].allocated
      /\ blocks'[p].small = blocks[p].small
  BY <1>0, <1>5 DEF Block
<1>7. SameSegments
  <2>1. \A a \in DOMAIN segments : a \in DOMAIN blocks
    BY DEF HeapInv, Tiled
  <2> QED
    BY <2>1, <1>0, <1>1, <1>6 DEF SameSegments
<1>8. Allocated' = Allocated \cup {p}
  BY <1>0, <1>1, <1>6 DEF Allocated
<1> QED
  BY <1>1, <1>6, <1>7, <1>8 DEF Allocated

-----------------------------------------------------------------------------
(* The invariant *)

\* Steps that keep the segments and record no use.
LEMMA SyncFrame ==
  ASSUME SegmentsApart, UnsyncedHeld, SameSegments, unsynced' = unsynced \/ unsynced' = {}
  PROVE  SegmentsApart' /\ UnsyncedHeld'
BY DEF SegmentsApart, UnsyncedHeld, SameSegments

\* Steps that leave the blocks alone.
LEMMA SameBlocks ==
  ASSUME UNCHANGED <<segments, blocks>>
  PROVE  SameSegments
BY DEF SameSegments

\* free records that the stream of the block has used its segment.
LEMMA FreeStreams ==
  ASSUME HeapInv, QueueInv, NEW p \in active, Free(p)
  PROVE  /\ SameSegments
         /\ p \in Allocated
         /\ Allocated' = Allocated \ {p}
         /\ \A x \in Allocated' : blocks'[x] = blocks[x]
<1> DEFINE h == [blocks EXCEPT ![p].allocated = FALSE]
           st == [stats EXCEPT ![blocks[p].small] =
                    [stats[blocks[p].small] EXCEPT !.allocation = @ - 1,
                                                   !.allocated_bytes = @ - blocks[p].size]]
<1>0. pc = "idle" /\ pc' = "idle" /\ segments' = segments /\ p \in Allocated /\ blocks[p].allocated
  BY DEF Free, Allocated
<1>1. /\ p \in DOMAIN blocks /\ blocks[p] \in Block /\ blocks[p].events = 0
      /\ active \subseteq DOMAIN blocks
  BY <1>0, Partition DEF QueueInv, EventsOfActive
<1>2. /\ h = [blocks EXCEPT ![p] = h[p]] /\ h[p] \in Block
      /\ DOMAIN h = DOMAIN blocks /\ ~h[p].allocated
      /\ \A x \in DOMAIN blocks : x # p => h[x] = blocks[x]
      /\ h[p].stream = blocks[p].stream /\ h[p].small = blocks[p].small
  BY <1>1 DEF Block
<1>3. CASE blocks[p].uses = {}
  <2>1. Freed(blocks[p], h[p])
    BY <1>1, <1>3 DEF Freed, Block
  <2>2. FreeBlock(h, p, st)
    BY <1>3 DEF Free
  <2> HIDE DEF h, st
  <2>3. SameSegments
    BY <2>1, <2>2, <1>0, <1>2, FreeBlockStreams
  <2>4. active' = active \ {p} /\ \A x \in active' : blocks'[x] = blocks[x]
    BY <2>1, <2>2, <1>0, <1>2, FreeBlockKeeps
  <2> QED
    BY <2>3, <2>4, <1>0 DEF Allocated
<1>4. CASE blocks[p].uses # {}
  <2>1. /\ blocks' = [h EXCEPT ![p].uses = {},
                               ![p].events = @ + Cardinality(blocks[p].uses)]
        /\ active' = active
    BY <1>4, Zenon DEF Free
  <2>2. /\ \A x \in DOMAIN blocks : x # p => blocks'[x] = blocks[x]
        /\ blocks'[p].stream = blocks[p].stream /\ blocks'[p].small = blocks[p].small
        /\ ~blocks'[p].allocated
    <3> HIDE DEF h
    <3>1. blocks'[p] = [h[p] EXCEPT !.uses = {}, !.events = @ + Cardinality(blocks[p].uses)]
      BY <2>1, <1>1, <1>2
    <3>2. \A x \in DOMAIN blocks : x # p => blocks'[x] = h[x]
      BY <2>1, <1>1, <1>2
    <3> QED
      BY <3>1, <3>2, <1>2 DEF Block
  <2>3. \A a \in DOMAIN segments : a \in DOMAIN blocks
    BY DEF HeapInv, Tiled
  <2>4. SameSegments
    BY <2>2, <2>3, <1>0 DEF SameSegments
  <2> QED
    BY <2>1, <2>2, <2>4, <1>0, <1>1 DEF Allocated
<1> QED
  BY <1>3, <1>4

\* recordStream adds a stream to a block that the program holds.
LEMMA RecordStreams ==
  ASSUME HeapInv, NEW p \in active, NEW s \in Streams, RecordStream(p, s)
  PROVE  /\ SameSegments
         /\ p \in Allocated
         /\ Allocated' = Allocated
         /\ \A x \in Allocated :
              blocks'[x] = IF x = p THEN [blocks[p] EXCEPT !.uses = @ \cup {s}] ELSE blocks[x]
<1>1. /\ segments' = segments /\ active' = active /\ p \in Allocated
      /\ blocks' = [blocks EXCEPT ![p].uses = @ \cup {s}]
      /\ p \in DOMAIN blocks /\ blocks[p] \in Block /\ active \subseteq DOMAIN blocks
  BY Partition DEF RecordStream
<1>2. /\ \A x \in DOMAIN blocks : x # p => blocks'[x] = blocks[x]
      /\ blocks'[p] = [blocks[p] EXCEPT !.uses = @ \cup {s}]
      /\ blocks'[p].stream = blocks[p].stream /\ blocks'[p].small = blocks[p].small
      /\ blocks'[p].allocated = blocks[p].allocated
  BY <1>1 DEF Block
<1>3. \A a \in DOMAIN segments : a \in DOMAIN blocks
  BY DEF HeapInv, Tiled
<1> QED
  BY <1>1, <1>2, <1>3 DEF SameSegments, Allocated

\* get_free_block changes neither streams nor what the program holds.
LEMMA SearchStreams ==
  ASSUME HeapInv, CallInv, CountInv, NoFreeBlock \/ \E p \in cached : GetFreeBlock(p)
  PROVE  /\ SameSegments
         /\ Allocated' = Allocated
         /\ \A x \in Allocated : blocks'[x] = blocks[x]
<1>1. active' = active /\ \A x \in active : blocks'[x] = blocks[x]
  BY SearchKeeps
<1>2. \A x \in DOMAIN blocks : /\ Aged[x] \in Block /\ Aged[x].stream = blocks[x].stream
                               /\ Aged[x].small = blocks[x].small
  <2>1. \A x \in DOMAIN blocks : blocks[x] \in Block
    BY Partition
  <2> QED
    BY <2>1, AgedType DEF Block
<1>3. \A x \in DOMAIN blocks : /\ blocks'[x].stream = blocks[x].stream
                               /\ blocks'[x].small = blocks[x].small
  <2>1. CASE NoFreeBlock
    BY <2>1, <1>2 DEF NoFreeBlock
  <2>2. ASSUME NEW p \in cached, GetFreeBlock(p)
        PROVE  \A x \in DOMAIN blocks : /\ blocks'[x].stream = blocks[x].stream
                                        /\ blocks'[x].small = blocks[x].small
    <3>1. blocks' = [Aged EXCEPT ![p].age = 0] /\ DOMAIN Aged = DOMAIN blocks
      BY <2>2, AgedType DEF GetFreeBlock
    <3> QED
      BY <3>1, <1>2 DEF Block
  <2> QED
    BY <2>1, <2>2
<1>4. segments' = segments /\ \A a \in DOMAIN segments : a \in DOMAIN blocks
  BY DEF NoFreeBlock, GetFreeBlock, HeapInv, Tiled
<1> QED
  BY <1>1, <1>3, <1>4 DEF SameSegments, Allocated

\* A segment that is given back leaves no trace in unsynced.
LEMMA ReleaseStreams ==
  ASSUME IInv, SyncInv, NEW p,
         \/ p \in call.targets /\ CollectBlock(p)
         \/ p \in cached /\ (ReleaseFitting(p) \/ ReleaseLargest(p) \/ ReleaseCached(p))
  PROVE  /\ SyncInv'
         /\ Allocated' = Allocated
         /\ \A x \in Allocated : blocks'[x] = blocks[x]
         /\ UNCHANGED eventVars
<1>1. /\ HeapInv /\ CallInv /\ AllMapped /\ SegmentCall /\ unsynced = {}
      /\ pc \in {"collect", "release_some", "release_all"}
      /\ pc' \in {pc, "realloc"}
  BY DEF IInv, SharedInv, SyncInv, SyncedFirst, CollectBlock, ReleaseFitting, ReleaseLargest,
     ReleaseCached, Goto
<1>2. /\ segments' = [a \in DOMAIN segments \ {p} |-> segments[a]] /\ UNCHANGED eventVars
  BY DEF CollectBlock, ReleaseFitting, ReleaseLargest, ReleaseCached, ReleaseBlock
<1>3. SegmentsApart'
  BY <1>2 DEF SyncInv, SegmentsApart
<1>4. active' = active /\ \A x \in active : blocks'[x] = blocks[x]
  BY <1>1, ReleaseKeeps
<1>5. unsynced' = {}
  BY <1>1, <1>2 DEF eventVars
<1>6. UnsyncedHeld' /\ SyncedFirst'
  BY <1>5 DEF UnsyncedHeld, SyncedFirst
<1> QED
  BY <1>2, <1>3, <1>4, <1>6 DEF SyncInv, Allocated

\* A new segment takes no address of another one.
LEMMA AllocBlockStreams ==
  ASSUME IInv, SyncInv, NEW base \in Bases, AllocBlock(base)
  PROVE  /\ SyncInv'
         /\ Allocated' = Allocated
         /\ \A x \in Allocated : blocks'[x] = blocks[x]
         /\ UNCHANGED eventVars
<1> DEFINE size == get_allocation_size(call.size)
<1>0. HeapInv /\ CallInv /\ SegmentCall
  BY DEF IInv, SharedInv
<1>1. /\ base \in Nat /\ base \notin DOMAIN segments /\ base \notin DOMAIN blocks
      /\ size \in Nat /\ size > 0 /\ Clear(base, size)
  BY <1>0, NewBase
<1>2. /\ segments' = [a \in DOMAIN segments \cup {base} |->
                        IF a = base THEN size ELSE segments[a]]
      /\ blocks' = [x \in DOMAIN blocks \cup {base} |->
                      IF x = base
                      THEN NewBlock(base, size, call.stream, IsSmall(call.size), TRUE)
                      ELSE blocks[x]]
      /\ active' = active /\ UNCHANGED eventVars
      /\ pc' = "found" /\ call' = [call EXCEPT !.block = base]
      /\ pc # "collect"
  BY DEF AllocBlock, Obtaining
<1> HIDE DEF size
<1>3. \A x \in DOMAIN blocks : blocks'[x] = blocks[x]
  BY <1>1, <1>2
<1>4. /\ \A a \in DOMAIN segments : /\ a \in Nat /\ segments[a] \in Nat
                                    /\ segments'[a] = segments[a]
                                    /\ a \in DOMAIN blocks
      /\ segments'[base] = size /\ DOMAIN segments' = DOMAIN segments \cup {base}
  BY <1>0, <1>1, <1>2 DEF HeapInv, Tiled
<1>5. SegmentsApart'
  <2> SUFFICES ASSUME NEW a \in DOMAIN segments', NEW b \in DOMAIN segments', a < b
               PROVE  a + segments'[a] <= b
    BY DEF SegmentsApart
  <2>1. CASE a # base /\ b # base
    BY <2>1, <1>4 DEF SyncInv, SegmentsApart
  <2>2. CASE a = base
    <3>1. b \in DOMAIN segments /\ (b + segments[b] <= base \/ base + size <= b)
      BY <2>2, <1>1, <1>4 DEF Clear
    <3> QED
      BY <2>2, <3>1, <1>1, <1>4
  <2>3. CASE b = base /\ a # base
    <3>1. a \in DOMAIN segments /\ (a + segments[a] <= base \/ base + size <= a)
      BY <2>3, <1>1, <1>4 DEF Clear
    <3> QED
      BY <2>3, <3>1, <1>1, <1>4
  <2> QED
    BY <2>1, <2>2, <2>3
<1>6. unsynced' = unsynced
  BY <1>2 DEF eventVars
<1>7. UnsyncedHeld'
  BY <1>3, <1>4, <1>6 DEF SyncInv, UnsyncedHeld
<1>8. SyncedFirst'
  <2>1. call.targets = {} /\ call'.targets = call.targets
    BY <1>0, <1>2 DEF CallInv, SegmentCall, Call
  <2> QED
    BY <2>1, <1>2 DEF SyncedFirst
<1>9. \A x \in active : x \in DOMAIN blocks
  BY <1>0, Partition
<1> QED
  BY <1>2, <1>3, <1>5, <1>7, <1>8, <1>9 DEF SyncInv, Allocated

-----------------------------------------------------------------------------
(* What the program sees *)

\* The ranges the program holds, and the streams recorded on them: what live
\* and uses of StreamSafeMemory stand for.
Live == [p \in Allocated |-> [hi |-> End(blocks, p), stream |-> blocks[p].stream]]
Uses == [p \in Allocated |-> blocks[p].uses]

\* Steps that leave what the program holds alone.
LEMMA HeldFrame ==
  ASSUME Allocated' = Allocated, \A x \in Allocated : blocks'[x] = blocks[x]
  PROVE  Live' = Live /\ Uses' = Uses
BY DEF Live, Uses, End

\* A step inside the allocator, of which the program sees nothing.
Unseen == Live' = Live /\ Uses' = Uses /\ work' = work /\ unsynced' = unsynced

LEMMA UnseenStutters ==
  ASSUME Unseen
  PROVE  [Memory!Next]_(Memory!vars)
BY DEF Unseen, Live, Uses, Memory!vars

\* deviceSynchronize, in the middle of whatever call.
LEMMA SynchronizeSeen ==
  ASSUME Live' = Live, Uses' = Uses, DeviceSynchronize
  PROVE  [Memory!Next]_(Memory!vars)
<1>1. Memory!Synchronize
  BY DEF Live, Uses, DeviceSynchronize, Memory!Synchronize
<1> QED
  BY <1>1 DEF Memory!Next

\* free.
LEMMA FreeSeen ==
  ASSUME SharedInv, NEW p \in active, Free(p)
  PROVE  [Memory!Next]_(Memory!vars)
<1> DEFINE r == [lo |-> blocks[p].seg, hi |-> blocks[p].seg + segments[blocks[p].seg],
                 stream |-> blocks[p].stream]
<1>0. HeapInv /\ QueueInv
  BY DEF SharedInv
<1>1. /\ p \in Allocated /\ Allocated' = Allocated \ {p}
      /\ \A x \in Allocated' : blocks'[x] = blocks[x]
  BY <1>0, FreeStreams
<1>2. /\ work' = [s \in Streams |->
                    IF s \in blocks[p].uses
                    THEN Append(work[s], [lo |-> p, hi |-> End(blocks, p)])
                    ELSE work[s]]
      /\ unsynced' = unsynced \cup {r}
  BY DEF Free
<1>3. r.lo <= p /\ End(blocks, p) <= r.hi /\ r.stream = blocks[p].stream
  <2>1. p \in DOMAIN blocks
    BY <1>0, Partition
  <2> QED
    BY <2>1, <1>0 DEF HeapInv, Tiled, InSegment
<1> HIDE DEF r
<1>4. Live' = [l \in DOMAIN Live \ {p} |-> Live[l]]
  BY <1>1 DEF Live, End
<1>5. Uses' = [l \in DOMAIN Live \ {p} |-> Uses[l]]
  BY <1>1 DEF Live, Uses
<1>6. /\ p \in DOMAIN Live /\ Live[p].hi = End(blocks, p)
      /\ Live[p].stream = blocks[p].stream /\ Uses[p] = blocks[p].uses
  BY <1>1 DEF Live, Uses
<1>7. r \in unsynced'
  BY <1>2
<1>8. work' = [s \in Streams |-> IF s \in Uses[p]
                                 THEN Append(work[s], [lo |-> p, hi |-> Live[p].hi])
                                 ELSE work[s]]
  BY <1>2, <1>6
<1>9. \E t \in unsynced' : /\ t.lo <= p /\ Live[p].hi <= t.hi
                           /\ t.stream = Live[p].stream
                           /\ unsynced' = unsynced \cup {t}
  BY <1>2, <1>3, <1>6, <1>7
<1>10. Memory!Release(p)
  BY <1>4, <1>5, <1>6, <1>8, <1>9, Zenon DEF Live, Uses, Memory!Release
<1> QED
  BY <1>6, <1>10 DEF Live, Memory!Next

\* recordStream.
LEMMA RecordSeen ==
  ASSUME SharedInv, NEW p \in active, NEW s \in Streams, RecordStream(p, s)
  PROVE  [Memory!Next]_(Memory!vars)
<1>0. HeapInv
  BY DEF SharedInv
<1>1. /\ p \in Allocated /\ Allocated' = Allocated
      /\ \A x \in Allocated :
           blocks'[x] = IF x = p THEN [blocks[p] EXCEPT !.uses = @ \cup {s}] ELSE blocks[x]
      /\ UNCHANGED <<work, unsynced>>
  BY <1>0, RecordStreams DEF RecordStream, eventVars
<1>2. \A x \in Allocated : blocks[x] \in Block
  BY <1>0, Partition DEF Allocated
<1>3. \A x \in Allocated : /\ blocks'[x].size = blocks[x].size
                           /\ blocks'[x].stream = blocks[x].stream
                           /\ blocks'[x].uses = IF x = p THEN blocks[p].uses \cup {s}
                                                         ELSE blocks[x].uses
  BY <1>1, <1>2 DEF Block
<1>4. Live' = Live
  BY <1>1, <1>3 DEF Live, End
<1>5. Uses' = [Uses EXCEPT ![p] = Uses[p] \cup {s}]
  BY <1>1, <1>3 DEF Uses
<1>6. Memory!Record(p, s)
  BY <1>1, <1>4, <1>5 DEF Live, Uses, Memory!Record
<1> QED
  BY <1>1, <1>6 DEF Memory!Next

\* eraseStream: the program vouches for the stream, whether the block is still
\* held or waits for the event of that stream.
LEMMA EraseSeen ==
  ASSUME SharedInv, NEW p \in active, NEW s \in Streams, EraseStream(p, s)
  PROVE  [Memory!Next]_(Memory!vars)
<1> DEFINE pending == {i \in DOMAIN work[s] : work[s][i].lo = p}
<1>0. HeapInv /\ QueueInv /\ stats \in Stats
  BY DEF SharedInv, CountInv, Stats
<1>1. /\ Allocated' = Allocated
      /\ \A x \in Allocated :
           blocks'[x] = IF x = p THEN [blocks[p] EXCEPT !.uses = @ \ {s}] ELSE blocks[x]
  BY <1>0, EraseStreamStreams
<1>2. /\ work' = [work EXCEPT ![s] = IF pending = {} THEN @
                                     ELSE RemoveIndex(@, CHOOSE i \in pending : TRUE)]
      /\ unsynced' = unsynced
  BY DEF EraseStream
<1>3. \A x \in Allocated : blocks[x] \in Block
  BY <1>0, Partition DEF Allocated
<1>4. \A x \in Allocated : /\ blocks'[x].size = blocks[x].size
                           /\ blocks'[x].stream = blocks[x].stream
                           /\ blocks'[x].uses = IF x = p THEN blocks[p].uses \ {s}
                                                         ELSE blocks[x].uses
  BY <1>1, <1>3 DEF Block
<1>5. Live' = Live
  BY <1>1, <1>4 DEF Live, End
<1>6. IF p \in DOMAIN Uses THEN Uses' = [Uses EXCEPT ![p] = @ \ {s}] ELSE Uses' = Uses
  BY <1>1, <1>4 DEF Uses
<1>7. \/ work' = work
      \/ \E i \in DOMAIN work[s] :
           /\ work[s][i].lo = p
           /\ work' = [work EXCEPT ![s] = SubSeq(@, 1, i - 1) \o SubSeq(@, i + 1, Len(@))]
  <2>1. CASE pending = {}
    <3>1. work' = [work EXCEPT ![s] = work[s]]
      BY <1>2, <2>1
    <3> QED
      BY <3>1, <1>0 DEF QueueInv
  <2>2. CASE pending # {}
    <3> DEFINE i == CHOOSE i \in pending : TRUE
    <3>1. i \in DOMAIN work[s] /\ work[s][i].lo = p
      BY <2>2
    <3>2. work' = [work EXCEPT ![s] = RemoveIndex(@, i)]
      BY <1>2, <2>2
    <3> HIDE DEF i
    <3> QED
      BY <3>1, <3>2 DEF RemoveIndex
  <2> QED
    BY <2>1, <2>2
<1>8. Memory!Forget(p, s)
  BY <1>2, <1>5, <1>6, <1>7 DEF Live, Uses, Memory!Forget
<1>9. CASE p \in Allocated
  BY <1>8, <1>9 DEF Memory!Next
<1>10. CASE pending # {}
  BY <1>8, <1>10 DEF Memory!Next
<1>11. CASE p \notin Allocated /\ pending = {}
  <2>1. work' = work
    <3>1. work' = [work EXCEPT ![s] = work[s]]
      BY <1>2, <1>11
    <3> QED
      BY <3>1, <1>0 DEF QueueInv
  <2>2. Uses' = Uses
    BY <1>6, <1>11 DEF Uses
  <2> QED
    BY <2>1, <2>2, <1>2, <1>5, UnseenStutters DEF Unseen
<1> QED
  BY <1>9, <1>10, <1>11

\* malloc returns: the block found keeps clear of everything that is in use.
LEMMA AllocFoundSeen ==
  ASSUME SharedInv, SharedInv', SegmentsApart, UnsyncedHeld', AllocFoundBlock
  PROVE  [Memory!Next]_(Memory!vars)
<1> DEFINE p == call.block
           s == call.stream
           hi == End(blocks', p)
<1>0. HeapInv /\ QueueInv /\ CallInv /\ HeapInv'
  BY DEF SharedInv
<1>1. /\ SameSegments /\ s \in Streams
      /\ p \in DOMAIN blocks \ active
      /\ Allocated' = Allocated \cup {p}
      /\ \A x \in Allocated : blocks'[x] = blocks[x]
      /\ blocks'[p].stream = s
      /\ blocks'[p].uses = {}
  BY <1>0, AllocFoundStreams
<1>2. /\ active' = active \cup {p}
      /\ \A x \in active : blocks'[x] = blocks[x]
      /\ UNCHANGED <<segments, work, unsynced>>
  BY <1>0, AllocFoundBlockKeeps DEF AllocFoundBlock, eventVars
<1>3. /\ active' \subseteq DOMAIN blocks' /\ p \in DOMAIN blocks'
      /\ HeapType(blocks') /\ Apart(blocks')
  BY <1>0, <1>2, Partition DEF HeapInv, PoolsPartition, Tiled
<1>4. p \in Nat /\ hi \in Nat /\ p < hi
  BY <1>3, BlockType
<1> HIDE DEF p, s, hi
\* An active block and the block found do not overlap.
<1>5. ASSUME NEW x \in active
      PROVE  hi <= x \/ End(blocks, x) <= p
  <2>1. x \in DOMAIN blocks' /\ x # p /\ End(blocks', x) = End(blocks, x)
    BY <1>1, <1>2, <1>3 DEF End
  <2>2. x < p \/ p < x
    BY <2>1, <1>3, <1>4 DEF HeapType
  <2> QED
    BY <2>1, <2>2, <1>3 DEF Apart, hi
<1>6. \A l \in DOMAIN Live : hi <= l \/ Live[l].hi <= p
  BY <1>5 DEF Live, Allocated
<1>7. \A t \in Streams : \A i \in DOMAIN work[t] : Memory!Disjoint(p, hi, work[t][i])
  <2> SUFFICES ASSUME NEW t \in Streams, NEW i \in DOMAIN work[t]
               PROVE  hi <= work[t][i].lo \/ work[t][i].hi <= p
    BY DEF Memory!Disjoint
  <2>1. completed[t] + i \in DOMAIN npu_events[t]
    <3>1. /\ DOMAIN npu_events[t] = 1 .. Len(npu_events[t]) /\ Len(npu_events[t]) \in Nat
          /\ DOMAIN work[t] = 1 .. Len(work[t]) /\ Len(work[t]) \in Nat
          /\ completed[t] \in Nat
          /\ Len(npu_events[t]) = completed[t] + Len(work[t])
      BY <1>0, QueueTypes
    <3>2. i \in 1 .. Len(work[t])
      BY <3>1
    <3>3. completed[t] + i \in 1 .. Len(npu_events[t])
      BY ONLY <3>1, <3>2
    <3> QED
      BY <3>1, <3>3
  <2>2. /\ work[t][i].lo = npu_events[t][completed[t] + i]
        /\ work[t][i].hi = End(blocks, work[t][i].lo)
    BY <1>0 DEF QueueInv, WorkBehindEvents
  <2>3. work[t][i].lo \in active
    BY <1>0, <2>1, <2>2, QueuedHasEvents
  <2> QED
    BY <2>2, <2>3, <1>5
<1>8. \A r \in unsynced : r.stream # s => Memory!Disjoint(p, hi, r)
  <2> SUFFICES ASSUME NEW r \in unsynced, r.stream # s
               PROVE  hi <= r.lo \/ r.hi <= p
    BY DEF Memory!Disjoint
  <2> DEFINE a == blocks'[p].seg
  <2>1. /\ r.lo \in DOMAIN segments /\ r.hi = r.lo + segments[r.lo]
        /\ r.stream = blocks'[r.lo].stream
    BY <1>2 DEF UnsyncedHeld
  <2>2. /\ a \in DOMAIN segments /\ a <= p /\ hi <= a + segments[a]
        /\ blocks'[p].stream = blocks'[a].stream
    BY <1>0, <1>2, <1>3 DEF HeapInv, Tiled, InSegment, hi
  <2>3. a # r.lo
    BY <2>1, <2>2, <1>1
  <2>4. /\ a \in Nat /\ r.lo \in Nat /\ segments[a] \in Nat /\ segments[r.lo] \in Nat
    BY <1>0, <2>1, <2>2 DEF HeapInv, Tiled
  <2> HIDE DEF a
  <2>5. CASE a < r.lo
    <3>1. a + segments[a] <= r.lo
      BY <2>1, <2>2, <2>5 DEF SegmentsApart
    <3> QED
      BY <3>1, <2>2, <2>4, <1>4
  <2>6. CASE r.lo < a
    <3>1. r.lo + segments[r.lo] <= a
      BY <2>1, <2>2, <2>6 DEF SegmentsApart
    <3> QED
      BY <3>1, <2>1, <2>2, <2>4, <1>4
  <2> QED
    BY <2>3, <2>4, <2>5, <2>6
<1>9. Live' = [l \in DOMAIN Live \cup {p} |->
                 IF l = p THEN [hi |-> hi, stream |-> s] ELSE Live[l]]
  <2>1. p \notin Allocated
    BY <1>1 DEF Allocated
  <2>2. \A l \in Allocated : End(blocks', l) = End(blocks, l)
    BY <1>1 DEF End
  <2> QED
    BY <2>1, <2>2, <1>1 DEF Live, hi
<1>10. Uses' = [l \in DOMAIN Uses \cup {p} |-> IF l = p THEN {} ELSE Uses[l]]
  <2>1. p \notin Allocated
    BY <1>1 DEF Allocated
  <2> QED
    BY <2>1, <1>1 DEF Uses
<1>11. p \in DOMAIN Live' /\ Live'[p].hi = hi
  BY <1>9
<1>12. \E l \in DOMAIN Live' : \E t \in Streams : Memory!Allocate(l, Live'[l].hi, t)
  <2>1. p \in DOMAIN Live' /\ s \in Streams
    BY <1>1, <1>11
  <2> SUFFICES Memory!Allocate(p, Live'[p].hi, s)
    BY <2>1 DEF Memory!Allocate
  <2> QED
    BY <1>2, <1>4, <1>6, <1>7, <1>8, <1>9, <1>10, <1>11
       DEF Live, Uses, Memory!Allocate
<1> QED
  BY <1>12 DEF Live, Memory!Next

\* A stream finishes work.
LEMMA DeviceSeen ==
  ASSUME NEW s \in Streams, DeviceRuns(s)
  PROVE  [Memory!Next]_(Memory!vars)
<1>1. /\ work[s] # <<>> /\ work' = [work EXCEPT ![s] = Tail(@)]
      /\ unsynced' = unsynced /\ active' = active /\ blocks' = blocks
  BY DEF DeviceRuns, heapVars
<1>2. Live' = Live /\ Uses' = Uses
  BY <1>1 DEF Live, Uses, Allocated, End
<1>3. Memory!Run(s)
  BY <1>1, <1>2 DEF Live, Uses, Memory!Run
<1> QED
  BY <1>3 DEF Memory!Next

-----------------------------------------------------------------------------
(* Every step keeps the invariant, and is one that the program may see *)

\* What the steps that do not depend on where segments come from do to the
\* ranges of unsynced: they keep them, forget all of them, or add one while
\* nobody holds the mutex.
SyncKept ==
  /\ SameSegments /\ SegmentsApart' /\ UnsyncedHeld'
  /\ \/ unsynced' = unsynced
     \/ unsynced' = {}
     \/ pc = "idle" /\ UNCHANGED <<pc, call>>
  /\ pc' = "release_all" => pc = "release_all" \/ unsynced' = {}

LEMMA SyncKeptFrame ==
  ASSUME SegmentsApart, UnsyncedHeld, SameSegments, unsynced' = unsynced \/ unsynced' = {},
         pc' = "release_all" => pc = "release_all" \/ unsynced' = {}
  PROVE  SyncKept
BY SyncFrame DEF SyncKept

\* The calls of the program.
LEMMA ProgramSeen ==
  ASSUME SharedInv, SegmentsApart, UnsyncedHeld, Program
  PROVE  SyncKept /\ [Memory!Next]_(Memory!vars)
<1>0. HeapInv /\ QueueInv /\ CallInv /\ SegmentsApart /\ UnsyncedHeld /\ stats \in Stats
  BY DEF SharedInv, CountInv, Stats
<1>1. ASSUME NEW bytes, NEW s, Malloc(bytes, s)
      PROVE  SyncKept /\ [Memory!Next]_(Memory!vars)
  <2>1. /\ UNCHANGED <<segments, blocks, active, work, unsynced>>
        /\ pc' = "process_events"
    BY <1>1 DEF Malloc, heapVars, eventVars
  <2>2. Unseen
    BY <2>1 DEF Unseen, Live, Uses, Allocated, End
  <2> QED
    BY <2>1, <2>2, <1>0, SameBlocks, SyncKeptFrame, UnseenStutters
<1>2. ASSUME NEW p \in active, Free(p)
      PROVE  SyncKept /\ [Memory!Next]_(Memory!vars)
  <2> DEFINE r == [lo |-> blocks[p].seg, hi |-> blocks[p].seg + segments[blocks[p].seg],
                   stream |-> blocks[p].stream]
  <2>1. SameSegments
    BY <1>0, <1>2, FreeStreams
  <2>2. unsynced' = unsynced \cup {r} /\ pc = "idle" /\ UNCHANGED <<pc, call>>
    BY <1>2 DEF Free
  <2>3. blocks[p].seg \in DOMAIN segments /\ blocks[p].stream = blocks[blocks[p].seg].stream
    <3>1. p \in DOMAIN blocks
      BY <1>0, Partition
    <3> QED
      BY <1>0, <3>1 DEF HeapInv, Tiled, InSegment
  <2>4. SegmentsApart'
    BY <1>0, <2>1 DEF SegmentsApart, SameSegments
  <2>5. /\ r.lo \in DOMAIN segments /\ r.hi = r.lo + segments[r.lo]
        /\ r.stream = blocks[r.lo].stream
    BY <2>3
  <2> HIDE DEF r
  <2>6. UnsyncedHeld'
    BY <1>0, <2>1, <2>2, <2>5 DEF UnsyncedHeld, SameSegments
  <2> QED
    BY <2>1, <2>2, <2>4, <2>6, <1>2, FreeSeen DEF SyncKept
<1>3. ASSUME NEW p \in active, NEW s \in Streams, RecordStream(p, s)
      PROVE  SyncKept /\ [Memory!Next]_(Memory!vars)
  <2>1. SameSegments /\ unsynced' = unsynced /\ pc' = pc
    BY <1>0, <1>3, RecordStreams DEF RecordStream, eventVars
  <2> QED
    BY <2>1, <1>0, <1>3, SyncKeptFrame, RecordSeen
<1>4. ASSUME NEW p \in active, NEW s \in Streams, EraseStream(p, s)
      PROVE  SyncKept /\ [Memory!Next]_(Memory!vars)
  <2>1. SameSegments /\ unsynced' = unsynced /\ pc' = pc
    BY <1>0, <1>4, EraseStreamStreams DEF EraseStream
  <2> QED
    BY <2>1, <1>0, <1>4, SyncKeptFrame, EraseSeen
<1>5. ASSUME EmptyCache PROVE SyncKept /\ [Memory!Next]_(Memory!vars)
  <2>1. UNCHANGED <<segments, blocks, active>> /\ DeviceSynchronize
    BY <1>5 DEF EmptyCache, heapVars
  <2>2. unsynced' = {}
    BY <2>1 DEF DeviceSynchronize
  <2>3. Live' = Live /\ Uses' = Uses
    BY <2>1 DEF Live, Uses, Allocated, End
  <2> QED
    BY <2>1, <2>2, <2>3, <1>0, SameBlocks, SyncKeptFrame, SynchronizeSeen
<1>6. ASSUME NEW limit, SetMemoryFraction(limit)
      PROVE  SyncKept /\ [Memory!Next]_(Memory!vars)
  <2>1. UNCHANGED <<segments, blocks, active, work, unsynced, pc, call>>
    BY <1>6 DEF SetMemoryFraction, heapVars, eventVars
  <2>2. Unseen
    BY <2>1 DEF Unseen, Live, Uses, Allocated, End
  <2> QED
    BY <2>1, <2>2, <1>0, SameBlocks, SyncKeptFrame, UnseenStutters
<1> QED
  BY <1>1, <1>2, <1>3, <1>4, <1>5, <1>6 DEF Program

\* The search for memory.
LEMMA CommonSeen ==
  ASSUME SharedInv, SharedInv', SegmentsApart, UnsyncedHeld, CommonStep
  PROVE  SyncKept /\ [Memory!Next]_(Memory!vars)
<1>0. /\ HeapInv /\ QueueInv /\ CallInv /\ CountInv /\ SegmentsApart /\ UnsyncedHeld
      /\ stats \in Stats
  BY DEF SharedInv, CountInv, Stats
<1>1. ASSUME SameSegments, Allocated' = Allocated, \A x \in Allocated : blocks'[x] = blocks[x],
             UNCHANGED <<work, unsynced>>, pc' = "release_all" => pc = "release_all"
      PROVE  SyncKept /\ [Memory!Next]_(Memory!vars)
  <2>1. SyncKept
    BY <1>0, <1>1, SyncKeptFrame
  <2>2. Unseen
    BY <1>1, HeldFrame DEF Unseen
  <2> QED
    BY <2>1, <2>2, UnseenStutters
<1>2. ASSUME NEW s \in Streams, ProcessEvents(s)
      PROVE  SyncKept /\ [Memory!Next]_(Memory!vars)
  <2>1. pc = "process_events" /\ pc' = pc /\ segments' = segments
    BY <1>2 DEF ProcessEvents
  <2>2. CASE npu_events[s] # <<>> /\ completed[s] > 0
    BY <2>1, <2>2, <1>0, <1>1, <1>2, PopEventStreams DEF ProcessEvents, PopEvent
  <2>3. CASE ~(npu_events[s] # <<>> /\ completed[s] > 0)
    <3>1. UNCHANGED <<blocks, active, work, unsynced>>
      BY <2>3, <1>2 DEF ProcessEvents, heapVars, eventVars
    <3> QED
      BY <3>1, <2>1, <1>1, SameBlocks DEF Allocated
  <2> QED
    BY <2>2, <2>3
<1>3. ASSUME NEW s \in Streams, SynchronizeEvent(s)
      PROVE  SyncKept /\ [Memory!Next]_(Memory!vars)
  <2>1. /\ pc = "release_all" /\ npu_events[s] # <<>> /\ completed[s] > 0 /\ PopEvent(s)
        /\ UNCHANGED <<segments, pc, call, work, unsynced>>
    BY <1>3 DEF SynchronizeEvent, PopEvent
  <2> QED
    BY <2>1, <1>0, <1>1, PopEventStreams
<1>4. ASSUME NoFreeBlock \/ \E p \in cached : GetFreeBlock(p)
      PROVE  SyncKept /\ [Memory!Next]_(Memory!vars)
  <2>1. UNCHANGED <<work, unsynced>> /\ pc' # "release_all"
    BY <1>4 DEF NoFreeBlock, GetFreeBlock, eventVars
  <2> QED
    BY <2>1, <1>0, <1>1, <1>4, SearchStreams
<1>5. ASSUME AllocFoundBlock PROVE SyncKept /\ [Memory!Next]_(Memory!vars)
  <2>1. /\ SameSegments /\ unsynced' = unsynced /\ pc' = "idle"
    BY <1>0, <1>5, AllocFoundStreams DEF AllocFoundBlock, eventVars, Return
  <2>2. SyncKept
    BY <1>0, <2>1, SyncKeptFrame
  <2> QED
    BY <2>2, <1>5, AllocFoundSeen DEF SyncKept
<1>6. ASSUME OutOfMemory PROVE SyncKept /\ [Memory!Next]_(Memory!vars)
  <2>1. /\ UNCHANGED <<segments, blocks, active, work, unsynced>>
        /\ pc' = "idle"
    BY <1>6 DEF OutOfMemory, Return, heapVars, eventVars
  <2> QED
    BY <2>1, <1>1, SameBlocks DEF Allocated
<1> QED
  BY <1>2, <1>3, <1>4, <1>5, <1>6 DEF CommonStep

\* All the steps that do not depend on where segments come from.
LEMMA SharedSeen ==
  ASSUME SharedInv, SharedInv', SegmentsApart, UnsyncedHeld,
         Program \/ CommonStep \/ Device
  PROVE  SyncKept /\ [Memory!Next]_(Memory!vars)
<1>1. CASE Program
  BY <1>1, ProgramSeen
<1>2. CASE CommonStep
  BY <1>2, CommonSeen
<1>3. ASSUME NEW s \in Streams, DeviceRuns(s)
      PROVE  SyncKept /\ [Memory!Next]_(Memory!vars)
  <2>1. UNCHANGED <<segments, blocks, unsynced, pc>>
    BY <1>3 DEF DeviceRuns, heapVars
  <2> QED
    BY <2>1, <1>3, SameBlocks, SyncKeptFrame, DeviceSeen
<1> QED
  BY <1>1, <1>2, <1>3 DEF Device

\* New segments, and old ones given back.
LEMMA SegmentSeen ==
  ASSUME IInv, IInv', SyncInv, SegmentStep
  PROVE  SyncInv' /\ [Memory!Next]_(Memory!vars)
<1>0. /\ HeapInv /\ CallInv /\ SegmentCall
      /\ SegmentsApart /\ UnsyncedHeld /\ SyncedFirst
  BY DEF IInv, SharedInv, SyncInv
\* The steps that decide what to do next, and leave the heap alone.
<1>1. ASSUME UNCHANGED <<segments, blocks, active>>,
             UNCHANGED eventVars \/ DeviceSynchronize, SyncedFirst'
      PROVE  SyncInv' /\ [Memory!Next]_(Memory!vars)
  <2>1. unsynced' = unsynced \/ unsynced' = {}
    BY <1>1 DEF eventVars, DeviceSynchronize
  <2>2. SegmentsApart' /\ UnsyncedHeld'
    BY <1>0, <1>1, <2>1, SameBlocks, SyncFrame
  <2>3. Live' = Live /\ Uses' = Uses
    BY <1>1 DEF Live, Uses, Allocated, End
  <2>4. [Memory!Next]_(Memory!vars)
    <3>1. CASE UNCHANGED eventVars
      BY <3>1, <2>3, UnseenStutters DEF Unseen, eventVars
    <3>2. CASE DeviceSynchronize
      BY <3>2, <2>3, SynchronizeSeen
    <3> QED
      BY <3>1, <3>2, <1>1
  <2> QED
    BY <1>1, <2>2, <2>4 DEF SyncInv
<1>2. ASSUME CollectRound PROVE SyncInv' /\ [Memory!Next]_(Memory!vars)
  <2>1. UNCHANGED <<segments, blocks, active>> /\ DeviceSynchronize
    BY <1>2 DEF CollectRound, heapVars
  <2>2. SyncedFirst'
    BY <2>1 DEF SyncedFirst, DeviceSynchronize
  <2> QED
    BY <2>1, <2>2, <1>1
<1>3. ASSUME NEW p,
             \/ p \in call.targets /\ CollectBlock(p)
             \/ p \in cached /\ (ReleaseFitting(p) \/ ReleaseLargest(p) \/ ReleaseCached(p))
      PROVE  SyncInv' /\ [Memory!Next]_(Memory!vars)
  <2>1. /\ SyncInv' /\ Allocated' = Allocated
        /\ \A x \in Allocated : blocks'[x] = blocks[x]
        /\ UNCHANGED eventVars
    BY <1>3, ReleaseStreams
  <2>2. Unseen
    BY <2>1, HeldFrame DEF Unseen, eventVars
  <2> QED
    BY <2>1, <2>2, UnseenStutters
<1>4. ASSUME CollectDone PROVE SyncInv' /\ [Memory!Next]_(Memory!vars)
  <2>1. /\ UNCHANGED <<segments, blocks, active, eventVars>> /\ call' = call
        /\ call.targets = {} /\ pc' = "alloc"
    BY <1>4 DEF CollectDone, Goto, heapVars
  <2>2. SyncedFirst'
    BY <2>1 DEF SyncedFirst
  <2> QED
    BY <2>1, <2>2, <1>1
<1>5. ASSUME ReleaseSomeDone PROVE SyncInv' /\ [Memory!Next]_(Memory!vars)
  <2>1. /\ UNCHANGED <<segments, blocks, active>> /\ pc = "release_some"
        /\ UNCHANGED eventVars \/ DeviceSynchronize
    BY <1>5 DEF ReleaseSomeDone, heapVars
  <2>2. unsynced' = {}
    BY <2>1, <1>0 DEF SyncedFirst, eventVars, DeviceSynchronize
  <2>3. SyncedFirst'
    BY <2>2 DEF SyncedFirst
  <2> QED
    BY <2>1, <2>3, <1>1
<1>6. ASSUME ReleaseAllDone PROVE SyncInv' /\ [Memory!Next]_(Memory!vars)
  <2>1. UNCHANGED <<segments, blocks, active, eventVars>> /\ pc = "release_all"
    BY <1>6 DEF ReleaseAllDone, heapVars
  <2>2. unsynced' = {}
    BY <2>1, <1>0 DEF SyncedFirst, eventVars
  <2>3. SyncedFirst'
    BY <2>2 DEF SyncedFirst
  <2> QED
    BY <2>1, <2>3, <1>1
<1>7. ASSUME NEW base \in Bases, AllocBlock(base)
      PROVE  SyncInv' /\ [Memory!Next]_(Memory!vars)
  <2>1. /\ SyncInv' /\ Allocated' = Allocated
        /\ \A x \in Allocated : blocks'[x] = blocks[x]
        /\ UNCHANGED eventVars
    BY <1>7, AllocBlockStreams
  <2>2. Unseen
    BY <2>1, HeldFrame DEF Unseen, eventVars
  <2> QED
    BY <2>1, <2>2, UnseenStutters
<1>8. ASSUME AllocBlockFails PROVE SyncInv' /\ [Memory!Next]_(Memory!vars)
  <2>1. /\ UNCHANGED <<segments, blocks, active>> /\ call' = call
        /\ call.targets = {}
        /\ (UNCHANGED eventVars /\ pc' = "oom") \/ DeviceSynchronize
    BY <1>0, <1>8 DEF AllocBlockFails, Allocating, Obtaining, Goto, heapVars, SegmentCall
  <2>2. SyncedFirst'
    BY <2>1 DEF SyncedFirst, DeviceSynchronize
  <2> QED
    BY <2>1, <2>2, <1>1
<1>9. ASSUME WithinLimit PROVE SyncInv' /\ [Memory!Next]_(Memory!vars)
  <2>1. /\ UNCHANGED <<segments, blocks, active, eventVars>> /\ call' = call
        /\ pc' \in {"obtain", "reobtain", "last_obtain"}
        /\ call.targets = {}
    BY <1>0, <1>9 DEF WithinLimit, Allocating, Goto, heapVars, SegmentCall
  <2>2. SyncedFirst'
    BY <2>1 DEF SyncedFirst
  <2> QED
    BY <2>1, <2>2, <1>1
<1> QED
  BY <1>2, <1>3, <1>4, <1>5, <1>6, <1>7, <1>8, <1>9 DEF SegmentStep

\* Every step of the allocator.
LEMMA NextSeen ==
  ASSUME IInv, IInv', SyncInv, [Next]_vars
  PROVE  SyncInv' /\ [Memory!Next]_(Memory!vars)
<1>0. /\ SharedInv /\ SharedInv' /\ SegmentCall /\ CallInv /\ CountInv
      /\ SegmentsApart /\ UnsyncedHeld /\ SyncedFirst
  BY DEF IInv, SharedInv, SyncInv
<1>1. CASE Program \/ CommonStep \/ Device
  <2>1. SyncKept /\ [Memory!Next]_(Memory!vars)
    BY <1>0, <1>1, SharedSeen
  <2>2. SyncedFirst'
    <3>1. \/ UNCHANGED <<pc, call>>
          \/ /\ pc' \in {"idle", "process_events", "collect", "alloc", "release_all", "found"}
             /\ call'.targets \subseteq call.targets
      BY <1>0, <1>1, TargetsKept
    <3>2. pc = "idle" => call.targets = {}
      BY <1>0 DEF SegmentCall
    <3>3. \/ unsynced' = unsynced
          \/ unsynced' = {}
          \/ pc = "idle" /\ UNCHANGED <<pc, call>>
      BY <2>1 DEF SyncKept
    <3>4. pc' = "release_all" => pc = "release_all" \/ unsynced' = {}
      BY <2>1 DEF SyncKept
    <3> QED
      BY <3>1, <3>2, <3>3, <3>4, <1>0 DEF SyncedFirst
  <2> QED
    BY <2>1, <2>2 DEF SyncKept, SyncInv
<1>2. CASE SegmentStep
  BY <1>2, SegmentSeen
<1>3. CASE UNCHANGED vars
  <2>1. UNCHANGED <<segments, blocks, active, work, unsynced, pc, call>>
    BY <1>3 DEF vars
  <2>2. SegmentsApart' /\ UnsyncedHeld' /\ SyncedFirst'
    BY <2>1, <1>0, SameBlocks, SyncFrame DEF SyncedFirst
  <2>3. Unseen
    BY <2>1 DEF Unseen, Live, Uses, Allocated, End
  <2> QED
    BY <2>2, <2>3, UnseenStutters DEF SyncInv
<1> QED
  BY <1>1, <1>2, <1>3 DEF Next

-----------------------------------------------------------------------------
(* The theorems *)

\* Nothing that has been used since the last synchronization is given back.
THEOREM SyncInvariance == Spec => [](IInv /\ SyncInv)
<1>1. Init => SyncInv
  BY DEF Init, SyncInv, SegmentsApart, UnsyncedHeld, SyncedFirst, NoCall
<1>2. IInv /\ IInv' /\ SyncInv /\ [Next]_vars => SyncInv'
  BY NextSeen
<1> QED
  BY <1>1, <1>2, InitIInv, NextKeepsIInv, PTL DEF Spec

\* The program starts with no memory.
LEMMA InitSeen ==
  ASSUME Init
  PROVE  Memory!Init
<1>1. Allocated = {}
  BY DEF Init, Allocated
<1>2. Live = [lo \in {} |-> 0] /\ Uses = [lo \in {} |-> {}]
  BY <1>1 DEF Live, Uses
<1> QED
  BY <1>2 DEF Init, Live, Uses, Memory!Init

\* The allocator implements StreamSafeMemory: each of its steps is a step of
\* that specification, or one that the program does not see.
THEOREM PromiseKept == Spec => KeepsPromise
<1>1. Init => Memory!Init
  BY InitSeen
<1>2. IInv /\ IInv' /\ SyncInv /\ [Next]_vars => [Memory!Next]_(Memory!vars)
  BY NextSeen
<1> QED
  BY <1>1, <1>2, SyncInvariance, PTL DEF Spec, KeepsPromise, Memory!Spec

=============================================================================
