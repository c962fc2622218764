-------------------------- MODULE CachingAllocator --------------------------
(***************************************************************************)
(* DeviceCachingAllocator of csrc/core/allocator/CachingAllocator.cpp: the *)
(* cache of device memory of one device, with the segments it obtains from *)
(* the driver by memAlloc (expandable_segments:False).  The other way of   *)
(* obtaining memory is in ExpandableAllocator, which extends this module.  *)
(*                                                                         *)
(* Every public method holds the allocator's mutex from start to end, so   *)
(* one call is in progress at a time; `call' is that call and pc the step  *)
(* it has reached.  What the mutex does not stop: the streams of the       *)
(* device, which complete work at any moment, and setMemoryFraction, which *)
(* takes no lock.                                                          *)
(***************************************************************************)
EXTENDS BlockHeap, FiniteSets, Sequences, FiniteSetsExt

CONSTANTS
  ExpandableSegments,  \* CachingAllocatorConfig::expandable_segments()
  MaxSplitSize,        \* max_split_size(), or None
  GcEnabled,           \* garbage_collection_threshold() > 0.0
  GcNumerator,         \* the threshold is GcNumerator / GcDenominator
  GcDenominator,
  Bases,               \* the addresses at which the driver may place a segment
  DeviceMemory,        \* memory of the device: no segment reaches beyond it
  Requests,            \* the sizes, in bytes, that malloc is called with
  Fractions,           \* the values setMemoryFraction may set, in units
  None,                \* no limit, no stream, no block
  MaxActive,           \* bound: blocks held by the program or by events
  MaxAge               \* bound: gc_count saturates here

kMiB == 2048

ASSUME ConfigAssumption ==
  /\ ExpandableSegments \in BOOLEAN
  /\ GcEnabled \in BOOLEAN
  /\ None \notin Nat /\ None \notin Streams
  /\ MaxSplitSize \in Nat \cup {None}
  \* parseMaxSplitSize takes a number of MiB, above that of kLargeBuffer
  /\ MaxSplitSize # None => /\ MaxSplitSize > kLargeBuffer
                            /\ MaxSplitSize % kMiB = 0
  /\ GcNumerator \in Nat /\ GcDenominator \in Nat \ {0}
  \* parseArgs: neither option can be enabled with expandable_segments
  /\ ExpandableSegments => MaxSplitSize = None /\ ~GcEnabled

ASSUME EnvironmentAssumption ==
  /\ IsFiniteSet(Streams)
  /\ Bases \subseteq Nat
  /\ DeviceMemory \in Nat \ {0}
  /\ Requests \subseteq Nat \ {0}
  /\ Fractions \subseteq Nat
  /\ MaxActive \in Nat
  /\ MaxAge \in Nat

VARIABLES
  segments,    \* address ranges held from the driver: base address -> size
  blocks,      \* the Block objects, by address
  cached,      \* the members of small_blocks.blocks and large_blocks.blocks
  active,      \* active_blocks
  npu_events,  \* per stream, the blocks whose events are queued, oldest first
  completed,   \* per stream, how many of these events query() finds complete
  work,        \* per stream, the freed ranges its outstanding work still uses
  unsynced,    \* segments freed into since the last deviceSynchronize
  total,       \* total_allocated_memory
  allowed,     \* allowed_memory_maximum, or None while ~set_fraction
  stats,       \* stats, the current values, per pool
  pc,          \* where the call that holds the mutex stands
  call         \* its AllocParams and progress

vars == <<segments, blocks, cached, active, npu_events, completed, work,
          unsynced, total, allowed, stats, pc, call>>

heapVars  == <<blocks, cached, active, stats>>
eventVars == <<npu_events, completed, work, unsynced>>

-----------------------------------------------------------------------------
(* The call in progress *)

Call ==
  [ op        : {"none", "malloc", "emptyCache"},
    size      : Nat,                      \* search_key.size
    stream    : Streams \cup {None},      \* search_key.stream
    todo      : SUBSET Streams,           \* queues process_events has yet to visit
    threshold : Nat,                      \* gc_threshold
    targets   : SUBSET Nat,               \* blocks the running loop has yet to release
    released  : Nat,                      \* totalReleased
    block     : Nat \cup {None} ]         \* block

NoCall ==
  [ op |-> "none", size |-> 0, stream |-> None,
    todo |-> {}, threshold |-> 0, targets |-> {}, released |-> 0,
    block |-> None ]

\* Where a call stands: "idle" when nobody holds the mutex.
Steps ==
  { "idle",
    "process_events",    \* in process_events
    "collect",           \* in garbage_collect_cached_blocks
    "alloc",             \* before the first alloc_block
    "obtain",            \* in it, the limit tested, before memAlloc
    "release_some",      \* in release_available_cached_blocks
    "realloc",           \* before the alloc_block that follows it
    "reobtain",          \* in it, before memAlloc
    "release_all",       \* in release_cached_blocks
    "retry",             \* before alloc_block(isRetry)
    "last_obtain",       \* in it, before memAlloc
    "map", "remap",      \* in map_block, for the first alloc_block or the retry
    "unmap",             \* unmapping blocks in release_blocks
    "found",             \* block_found, before alloc_found_block
    "oom" }              \* not found, before the error is raised

Goto(step) == pc' = step /\ UNCHANGED call

Return == pc' = "idle" /\ call' = NoCall

-----------------------------------------------------------------------------
(* Statistics: the current values, one record per pool *)

Stat ==
  [ allocation     : Int,  allocated_bytes      : Int,
    active         : Int,  active_bytes         : Int,
    inactive_split : Int,  inactive_split_bytes : Int,
    segment        : Int,  reserved_bytes       : Int ]

NoStat ==
  [ allocation     |-> 0,  allocated_bytes      |-> 0,
    active         |-> 0,  active_bytes         |-> 0,
    inactive_split |-> 0,  inactive_split_bytes |-> 0,
    segment        |-> 0,  reserved_bytes       |-> 0 ]

Bit(condition) == IF condition THEN 1 ELSE 0

\* Mutant of FreeBlockStats: the merged blocks are not taken off inactive_split.
FreeBlockStatsUnmerged(st, h, p) ==
  LET b      == h[p]
      merged == Coalesce(h, p)[Lead(h, p)].size
      split  == IsSplit(Coalesce(h, p), Lead(h, p))
  IN  [ st EXCEPT ![b.small] =
          [ st[b.small] EXCEPT
              !.active               = @ - 1,
              !.active_bytes         = @ - b.size,
              !.inactive_split       = @ + Bit(split),
              !.inactive_split_bytes = @ + (IF split THEN merged ELSE 0) ] ]

\* Mutant of FreeBlockStats: the size is read after the merge.
FreeBlockStatsLate(st, h, p) ==
  [ st EXCEPT ![h[p].small].active       = @ - 1,
              ![h[p].small].active_bytes = @ - Coalesce(h, p)[Lead(h, p)].size ]

\* free_block: the effect on the statistics of freeing p in heap h.
FreeBlockStats(st, h, p) ==
  LET b        == h[p]
      merged   == Coalesce(h, p)[Lead(h, p)].size
      subsumed == Bit(SubsumedPrev(h, p) # {}) + Bit(SubsumedNext(h, p) # {})
      split    == IsSplit(Coalesce(h, p), Lead(h, p))
  IN  [ st EXCEPT ![b.small] =
          [ st[b.small] EXCEPT
              !.active       = @ - 1,
              !.active_bytes = @ - b.size,
              !.inactive_split =
                 IF ExpandableSegments THEN @ ELSE @ - subsumed + Bit(split),
              !.inactive_split_bytes =
                 IF ExpandableSegments THEN @
                 ELSE @ - (merged - b.size) + (IF split THEN merged ELSE 0) ] ]

\* alloc_found_block: p is handed out, after being cut to n units if split.
AllocFoundStats(st, p, n, split) ==
  LET b       == blocks[p]
      already == IsSplit(blocks, p)
      size    == IF split THEN n ELSE b.size
  IN  [ st EXCEPT ![b.small] =
          [ st[b.small] EXCEPT
              !.allocation      = @ + 1,
              !.allocated_bytes = @ + size,
              !.active          = @ + 1,
              !.active_bytes    = @ + size,
              !.inactive_split =
                 IF ExpandableSegments THEN @
                 ELSE @ + Bit(split /\ ~already) - Bit(~split /\ already),
              !.inactive_split_bytes =
                 IF ExpandableSegments THEN @
                 ELSE IF already THEN @ - size
                 ELSE IF split THEN @ + (b.size - n)
                 ELSE @ ] ]

\* The driver gives or takes back a segment: n is 1 or -1.
SegmentStats(st, small, n, size) ==
  [ st EXCEPT ![small] = [ st[small] EXCEPT !.segment        = @ + n,
                                            !.reserved_bytes = @ + n * size ] ]

-----------------------------------------------------------------------------
(* free_block *)

\* Mutant of FreeBlock: the merged blocks stay in the pool.
FreeBlockDangling(h, p, st) ==
  /\ blocks' = Coalesce(h, p)
  /\ active' = active \ {p}
  /\ cached' = cached \cup {Lead(h, p)}
  /\ stats' = FreeBlockStats(st, h, p)

\* p, whose flags h already holds, moves from active_blocks to its pool.
FreeBlock(h, p, st) ==
  /\ blocks' = Coalesce(h, p)
  /\ active' = active \ {p}
  /\ cached' = (cached \ Subsumed(h, p)) \cup {Lead(h, p)}
  /\ stats' = FreeBlockStats(st, h, p)

\* Mutant of EventDone: the first event that completes frees the block.
EventDoneFirst(h, p) == FreeBlock([h EXCEPT ![p].events = @ - 1], p, stats)

\* event_count-- of block p, which is freed when that was its last event.
EventDone(h, p) ==
  LET g == [h EXCEPT ![p].events = @ - 1]
  IN  IF g[p].events = 0
      THEN FreeBlock(g, p, stats)
      ELSE blocks' = g /\ UNCHANGED <<cached, active, stats>>

\* The oldest event of s, which has completed, leaves its queue.
PopEvent(s) ==
  /\ npu_events' = [npu_events EXCEPT ![s] = Tail(@)]
  /\ completed' = [completed EXCEPT ![s] = @ - 1]
  /\ EventDone(blocks, Head(npu_events[s]))
  /\ UNCHANGED <<work, unsynced>>

-----------------------------------------------------------------------------
(* The device *)

\* The oldest outstanding work of s finishes, and with it the event recorded
\* behind that work.
DeviceRuns(s) ==
  /\ work[s] # <<>>
  /\ work' = [work EXCEPT ![s] = Tail(@)]
  /\ completed' = [completed EXCEPT
                     ![s] = IF @ < Len(npu_events[s]) THEN @ + 1 ELSE @]
  /\ UNCHANGED <<segments, heapVars, npu_events, unsynced, total, allowed,
                 pc, call>>

\* Mutant of DeviceSynchronize: the device is not waited for.
DeviceSynchronizeNot == UNCHANGED eventVars

\* helper->deviceSynchronize(): everything submitted has run.  (It waits for the
\* device the calling thread is on, which here is the allocator's own; what holds
\* when it is another one is in AllocatorFrontEnd.)
DeviceSynchronize ==
  /\ work' = [s \in Streams |-> <<>>]
  /\ completed' = [s \in Streams |-> Len(npu_events[s])]
  /\ unsynced' = {}
  /\ UNCHANGED npu_events

-----------------------------------------------------------------------------
(* free, recordStream, eraseStream *)

Allocated == {p \in active : blocks[p].allocated}

Free(p) ==
  LET b  == blocks[p]
      h  == [blocks EXCEPT ![p].allocated = FALSE]
      st == [stats EXCEPT ![b.small] =
               [stats[b.small] EXCEPT !.allocation      = @ - 1,
                                      !.allocated_bytes = @ - b.size]]
  IN  /\ pc = "idle"
      /\ p \in Allocated
      /\ work' = [s \in Streams |->
                    IF s \in b.uses
                    THEN Append(work[s], [lo |-> p, hi |-> End(blocks, p)])
                    ELSE work[s]]
      \* work of the block's own stream needs no event: a later allocation on
      \* that stream is ordered behind it
      /\ unsynced' = unsynced \cup
           {[lo |-> b.seg, hi |-> b.seg + segments[b.seg], stream |-> b.stream]}
      /\ IF b.uses # {}
         THEN \* insert_events: one event behind the work of every stream
              /\ blocks' = [h EXCEPT ![p].uses   = {},
                                     ![p].events = @ + Cardinality(b.uses)]
              /\ npu_events' = [s \in Streams |->
                                  IF s \in b.uses THEN Append(npu_events[s], p)
                                                  ELSE npu_events[s]]
              /\ stats' = st
              /\ UNCHANGED <<cached, active>>
         ELSE /\ FreeBlock(h, p, st)
              /\ UNCHANGED npu_events
      /\ UNCHANGED <<segments, completed, total, allowed, pc, call>>

RecordStream(p, s) ==
  /\ pc = "idle"
  /\ p \in Allocated
  /\ blocks' = [blocks EXCEPT ![p].uses = @ \cup {s}]
  /\ UNCHANGED <<segments, cached, active, stats, eventVars, total, allowed,
                 pc, call>>

RemoveIndex(q, i) == SubSeq(q, 1, i - 1) \o SubSeq(q, i + 1, Len(q))

\* Mutant of EraseStream: the event leaves the queue but still counts.
EraseStreamUncounted(p, s) ==
  LET queued == {i \in DOMAIN npu_events[s] : npu_events[s][i] = p}
  IN  /\ pc = "idle"
      /\ p \in active
      /\ queued # {}
      /\ npu_events' = [npu_events EXCEPT
                          ![s] = RemoveIndex(@, CHOOSE i \in queued : TRUE)]
      /\ completed' = [completed EXCEPT ![s] = 0]
      /\ work' = [work EXCEPT ![s] = <<>>]
      /\ UNCHANGED <<segments, heapVars, unsynced, total, allowed, pc, call>>

\* The program has made the block's stream wait for what s did with the block.
\* The front end looks the block up before it takes this mutex, so that another
\* thread may have freed the block in between: it is then waiting for events.
EraseStream(p, s) ==
  LET h       == [blocks EXCEPT ![p].uses = @ \ {s}]
      queued  == {i \in DOMAIN npu_events[s] : npu_events[s][i] = p}
      pending == {i \in DOMAIN work[s] : work[s][i].lo = p}
  IN  /\ pc = "idle"
      /\ p \in active
      /\ work' = [work EXCEPT ![s] = IF pending = {} THEN @
                                     ELSE RemoveIndex(@, CHOOSE i \in pending : TRUE)]
      /\ IF queued = {}
         THEN blocks' = h /\ UNCHANGED <<cached, active, stats, npu_events, completed>>
         ELSE LET i == CHOOSE j \in queued : TRUE
              IN  /\ npu_events' = [npu_events EXCEPT ![s] = RemoveIndex(@, i)]
                  /\ completed' = [completed EXCEPT ![s] = IF i <= @ THEN @ - 1 ELSE @]
                  /\ EventDone(h, p)
      /\ UNCHANGED <<segments, unsynced, total, allowed, pc, call>>

\* setMemoryFraction takes no lock: it may come in the middle of another call.
SetMemoryFraction(limit) ==
  /\ allowed' = limit
  /\ UNCHANGED <<segments, heapVars, eventVars, total, pc, call>>

-----------------------------------------------------------------------------
(* malloc: the search of the cache *)

Malloc(bytes, s) ==
  /\ pc = "idle"
  /\ Cardinality(active) < MaxActive
  /\ pc' = "process_events"
  /\ call' = [NoCall EXCEPT
                !.op     = "malloc",
                !.size   = round_size(bytes),
                !.stream = s,
                !.todo   = {t \in Streams : npu_events[t] # <<>>}]
  /\ UNCHANGED <<segments, heapVars, eventVars, total, allowed>>

\* One turn of process_events: the oldest event of a stream is consumed if it
\* has completed; if not, the rest of that queue is left for later.
ProcessEvents(s) ==
  /\ pc = "process_events"
  /\ s \in call.todo
  /\ IF npu_events[s] # <<>> /\ completed[s] > 0
     THEN PopEvent(s) /\ UNCHANGED call
     ELSE /\ call' = [call EXCEPT !.todo = @ \ {s}]
          /\ UNCHANGED <<heapVars, eventVars>>
  /\ UNCHANGED <<segments, total, allowed, pc>>

\* Mutant of Pool: whatever stream the blocks belong to.
PoolOfAll(size, s) == {p \in cached : blocks[p].small = IsSmall(size)}

\* The cached blocks of one stream in the pool of a request of this size.
Pool(size, s) ==
  {p \in cached : blocks[p].small = IsSmall(size) /\ blocks[p].stream = s}

Fits == {p \in Pool(call.size, call.stream) : blocks[p].size >= call.size}

\* BlockComparatorSize, for blocks of one stream.
Precedes(p, q) ==
  \/ blocks[p].size < blocks[q].size
  \/ blocks[p].size = blocks[q].size /\ p <= q

Smallest(p, S) == p \in S /\ \A q \in S : Precedes(p, q)
Largest(p, S)  == p \in S /\ \A q \in S : Precedes(q, p)

\* An expandable block counts with the unmapped range it can grow into.
ExpandableSize(p) ==
  LET room == {q \in NextSet(blocks, p) : ~blocks[q].mapped}
  IN  blocks[p].size + (IF room = {} THEN 0
                        ELSE blocks[CHOOSE q \in room : TRUE].size)

\* The next block of the set can expand to less than p, and is preferred to it.
Surpassed(p) ==
  \E q \in Fits :
    /\ Smallest(q, {r \in Fits : r # p /\ Precedes(p, r)})
    /\ ExpandableSize(q) < ExpandableSize(p)

\* lower_bound, then, for expandable blocks, on to the next block of the set
\* for as long as that one is preferred.
Best(p) ==
  IF ExpandableSegments
  THEN /\ p \in Fits
       /\ ~Surpassed(p)
       /\ \A q \in Fits : q # p /\ Precedes(q, p) => Surpassed(q)
  ELSE Smallest(p, Fits)

BelowMaxSplit(size) == MaxSplitSize # None => size < MaxSplitSize

\* Mutant of Acceptable: oversize blocks serve every request.
AcceptableAlways(p) ==
  BelowMaxSplit(call.size) \/ blocks[p].size < call.size + kLargeBuffer

\* Oversize blocks only serve oversize requests, and not much smaller ones.
Acceptable(p) ==
  IF BelowMaxSplit(call.size)
  THEN BelowMaxSplit(blocks[p].size)
  ELSE blocks[p].size < call.size + kLargeBuffer

Collecting == GcEnabled /\ allowed # None

\* gc_count of the pool's blocks goes up by one at every search.
Aged ==
  [p \in DOMAIN blocks |->
     IF /\ Collecting
        /\ p \in cached
        /\ blocks[p].small = IsSmall(call.size)
        /\ blocks[p].age < MaxAge
     THEN [blocks[p] EXCEPT !.age = @ + 1]
     ELSE blocks[p]]

GcThreshold == IF Collecting THEN (allowed * GcNumerator) \div GcDenominator ELSE 0

\* get_free_block finds p ...
GetFreeBlock(p) ==
  /\ pc = "process_events"
  /\ call.todo = {}
  /\ Best(p)
  /\ Acceptable(p)
  /\ blocks' = [Aged EXCEPT ![p].age = 0]
  /\ cached' = cached \ {p}
  /\ pc' = "found"
  /\ call' = [call EXCEPT !.block = p]
  /\ UNCHANGED <<segments, active, stats, eventVars, total, allowed>>

\* ... or nothing that it may use.
NoFreeBlock ==
  /\ pc = "process_events"
  /\ call.todo = {}
  /\ \A p \in Fits : ~(Best(p) /\ Acceptable(p))
  /\ blocks' = Aged
  /\ pc' = IF Collecting THEN "collect" ELSE "alloc"
  /\ call' = [call EXCEPT !.threshold = GcThreshold]
  /\ UNCHANGED <<segments, cached, active, stats, eventVars, total, allowed>>

-----------------------------------------------------------------------------
(* release_block, and the three callers that give segments back *)

\* Mutant of Unsplit: parts of a segment too.
UnsplitOrNot(small) == {p \in cached : blocks[p].small = small}

Unsplit(small) == {p \in cached : blocks[p].small = small /\ ~IsSplit(blocks, p)}

ReleaseBlock(p) ==
  LET b == blocks[p]
  IN  /\ segments' = [a \in DOMAIN segments \ {p} |-> segments[a]]
      /\ blocks' = [x \in DOMAIN blocks \ {p} |-> blocks[x]]
      /\ cached' = cached \ {p}
      /\ total' = total - b.size
      /\ stats' = SegmentStats(stats, b.small, -1, b.size)
      /\ UNCHANGED active

\* Mutant of CollectRound: no deviceSynchronize, as its comment has it.
CollectRoundUnsynced ==
  /\ pc = "collect"
  /\ call.targets = {}
  /\ total > call.threshold
  /\ Unsplit(FALSE) # {}
  /\ call' = [call EXCEPT !.targets = Unsplit(FALSE)]
  /\ UNCHANGED <<segments, heapVars, eventVars, total, allowed, pc>>

\* garbage_collect_cached_blocks: a round picks the blocks of at least average
\* age; should there be none, block_freed stays false and collection ends.  (The
\* device is synchronized before the first round, and nothing is submitted while
\* the mutex is held: doing so before each round is the same.)
CollectRound ==
  LET old == {p \in Unsplit(FALSE) :
                blocks[p].age * Cardinality(Unsplit(FALSE))
                  >= MapThenSumSet(LAMBDA q : blocks[q].age, Unsplit(FALSE))}
  IN  /\ pc = "collect"
      /\ call.targets = {}
      /\ total > call.threshold
      /\ Unsplit(FALSE) # {}
      /\ call' = [call EXCEPT !.targets = old]
      /\ pc' = IF old = {} THEN "alloc" ELSE "collect"
      /\ DeviceSynchronize
      /\ UNCHANGED <<segments, heapVars, total, allowed>>

CollectBlock(p) ==
  /\ pc = "collect"
  /\ p \in call.targets
  /\ ReleaseBlock(p)
  /\ call' = [call EXCEPT !.targets = @ \ {p}]
  /\ UNCHANGED <<eventVars, allowed, pc>>

CollectDone ==
  /\ pc = "collect"
  /\ call.targets = {}
  /\ total <= call.threshold \/ Unsplit(FALSE) = {}
  /\ Goto("alloc")
  /\ UNCHANGED <<segments, heapVars, eventVars, total, allowed>>

\* release_available_cached_blocks
SplitKey == IF BelowMaxSplit(call.size) THEN MaxSplitSize ELSE call.size

Enough == {p \in Pool(call.size, call.stream) : blocks[p].size >= SplitKey}

OversizeCached ==
  {p \in Pool(call.size, call.stream) : ~BelowMaxSplit(blocks[p].size)}

\* One cached block is large enough: the smallest of them goes.
ReleaseFitting(p) ==
  /\ pc = "release_some"
  /\ Smallest(p, Enough)
  /\ ReleaseBlock(p)
  /\ Goto("realloc")
  /\ UNCHANGED <<eventVars, allowed>>

\* None is: oversize blocks go, the largest first, until they add up.
ReleaseLargest(p) ==
  /\ pc = "release_some"
  /\ Enough = {}
  /\ call.released < SplitKey
  /\ Largest(p, OversizeCached)
  /\ ReleaseBlock(p)
  /\ call' = [call EXCEPT !.released = @ + blocks[p].size]
  /\ UNCHANGED <<eventVars, allowed, pc>>

ReleaseSomeDone ==
  /\ pc = "release_some"
  /\ Enough = {}
  /\ \/ /\ call.released >= SplitKey
        /\ Goto("realloc")
        /\ UNCHANGED eventVars
     \/ /\ call.released < SplitKey
        /\ OversizeCached = {}
        /\ Goto("release_all")
        /\ DeviceSynchronize
  /\ UNCHANGED <<segments, heapVars, total, allowed>>

\* release_cached_blocks: the events first, whose blocks return to the pools,
\* then every cached block that is a whole segment.
NoEvents == \A s \in Streams : npu_events[s] = <<>>

SynchronizeEvent(s) ==
  /\ pc = "release_all"
  /\ npu_events[s] # <<>>
  /\ completed[s] > 0
  /\ PopEvent(s)
  /\ UNCHANGED <<segments, total, allowed, pc, call>>

ReleaseCached(p) ==
  /\ pc = "release_all"
  /\ NoEvents
  /\ p \in Unsplit(TRUE) \cup Unsplit(FALSE)
  /\ ReleaseBlock(p)
  /\ UNCHANGED <<eventVars, allowed, pc, call>>

\* Back in malloc, which retries, or at the end of emptyCache.
AfterRelease == IF call.op = "malloc" THEN Goto("retry") ELSE Return

\* Mutant of ReleaseAllDone: it stops before everything is released.
ReleaseAllDoneEarly ==
  /\ pc = "release_all"
  /\ NoEvents
  /\ AfterRelease
  /\ UNCHANGED <<segments, heapVars, eventVars, total, allowed>>

ReleaseAllDone ==
  /\ pc = "release_all"
  /\ NoEvents
  /\ Unsplit(TRUE) \cup Unsplit(FALSE) = {}
  /\ AfterRelease
  /\ UNCHANGED <<segments, heapVars, eventVars, total, allowed>>

EmptyCache ==
  /\ pc = "idle"
  /\ pc' = "release_all"
  /\ call' = [NoCall EXCEPT !.op = "emptyCache"]
  /\ DeviceSynchronize
  /\ UNCHANGED <<segments, heapVars, total, allowed>>

-----------------------------------------------------------------------------
(* alloc_block, and the end of malloc *)

Allocating == pc \in {"alloc", "realloc", "retry"}

Obtaining == pc \in {"obtain", "reobtain", "last_obtain"}

\* Mutant of OverLimit: what is about to be obtained does not count.
OverLimitAlready == allowed # None /\ total > allowed

OverLimit ==
  allowed # None /\ total + get_allocation_size(call.size) > allowed

\* alloc_block tests the limit first; memAlloc is a step of its own, since
\* setMemoryFraction may come in between.
WithinLimit ==
  /\ Allocating
  /\ ~OverLimit
  /\ Goto(CASE pc = "alloc" -> "obtain"
            [] pc = "realloc" -> "reobtain"
            [] pc = "retry" -> "last_obtain")
  /\ UNCHANGED <<segments, heapVars, eventVars, total, allowed>>

\* The driver may give the addresses from base on: no segment has any of them.
Clear(base, size) ==
  \A a \in DOMAIN segments : a + segments[a] <= base \/ base + size <= a

\* memAlloc places a new segment at base.
AllocBlock(base) ==
  LET size  == get_allocation_size(call.size)
      small == IsSmall(call.size)
  IN  /\ Obtaining
      /\ base + size <= DeviceMemory
      /\ Clear(base, size)
      /\ segments' = [a \in DOMAIN segments \cup {base} |->
                        IF a = base THEN size ELSE segments[a]]
      /\ blocks' = [x \in DOMAIN blocks \cup {base} |->
                      IF x = base
                      THEN NewBlock(base, size, call.stream, small, TRUE)
                      ELSE blocks[x]]
      /\ total' = total + size
      /\ stats' = SegmentStats(stats, small, 1, size)
      /\ pc' = "found"
      /\ call' = [call EXCEPT !.block = base]
      /\ UNCHANGED <<cached, active, eventVars, allowed>>

\* Mutant of AllocBlockFails: a retry that fails is retried.
AllocBlockFailsAgain ==
  /\ (Allocating /\ OverLimit) \/ Obtaining
  /\ DeviceSynchronize
  /\ Goto(IF pc \in {"alloc", "obtain"} /\ MaxSplitSize # None
          THEN "release_some" ELSE "release_all")
  /\ UNCHANGED <<segments, heapVars, total, allowed>>

\* The limit, or the driver, refuses.  Other processes use the device too, so
\* the driver may refuse at any time.
AllocBlockFails ==
  /\ (Allocating /\ OverLimit) \/ Obtaining
  /\ CASE pc \in {"alloc", "obtain"} ->
            /\ DeviceSynchronize
            /\ Goto(IF MaxSplitSize = None THEN "release_all" ELSE "release_some")
       [] pc \in {"realloc", "reobtain"} -> DeviceSynchronize /\ Goto("release_all")
       [] pc \in {"retry", "last_obtain"} -> Goto("oom") /\ UNCHANGED eventVars
  /\ UNCHANGED <<segments, heapVars, total, allowed>>

OutOfMemory ==
  /\ pc = "oom"
  /\ Return
  /\ UNCHANGED <<segments, heapVars, eventVars, total, allowed>>

should_split(b, size) ==
  LET remaining == b.size - size
  IN  IF b.small \/ ExpandableSegments
      THEN remaining >= kMinBlockSize
      ELSE BelowMaxSplit(size) /\ remaining > kSmallSize

\* Mutant of AllocFoundBlock: the remaining block is not put in the pool.
AllocFoundBlockLost ==
  LET p     == call.block
      split == should_split(blocks[p], call.size)
      front == [Fresh(blocks[p], TRUE) EXCEPT !.stream = call.stream]
      h     == IF split
               THEN SplitOff(blocks, p, call.size, front, blocks[p])
               ELSE blocks
  IN  /\ pc = "found"
      /\ blocks' = [h EXCEPT ![p].allocated = TRUE]
      /\ active' = active \cup {p}
      /\ stats' = AllocFoundStats(stats, p, call.size, split)
      /\ Return
      /\ UNCHANGED <<segments, cached, eventVars, total, allowed>>

\* The block found is cut to size when what is left of it is worth keeping.
AllocFoundBlock ==
  LET p     == call.block
      n     == call.size
      split == should_split(blocks[p], n)
      front == [Fresh(blocks[p], TRUE) EXCEPT !.stream = call.stream]
      h     == IF split
               THEN SplitOff(blocks, p, n, front, blocks[p])
               ELSE blocks
  IN  /\ pc = "found"
      /\ blocks' = [h EXCEPT ![p].allocated = TRUE]
      /\ cached' = IF split THEN cached \cup {p + n} ELSE cached
      /\ active' = active \cup {p}
      /\ stats' = AllocFoundStats(stats, p, n, split)
      /\ Return
      /\ UNCHANGED <<segments, eventVars, total, allowed>>

-----------------------------------------------------------------------------
(* The specification *)

Init ==
  /\ segments = [a \in {} |-> 0]
  /\ blocks = [p \in {} |-> 0]
  /\ cached = {}
  /\ active = {}
  /\ npu_events = [s \in Streams |-> <<>>]
  /\ completed = [s \in Streams |-> 0]
  /\ work = [s \in Streams |-> <<>>]
  /\ unsynced = {}
  /\ total = 0
  /\ allowed = None
  /\ stats = [small \in BOOLEAN |-> NoStat]
  /\ pc = "idle"
  /\ call = NoCall

\* What the program asks for.
Program ==
  \/ \E bytes \in Requests, s \in Streams : Malloc(bytes, s)
  \/ \E p \in active : Free(p)
  \/ \E p \in active, s \in Streams : RecordStream(p, s) \/ EraseStream(p, s)
  \/ EmptyCache
  \/ \E limit \in Fractions : SetMemoryFraction(limit)

\* The steps of a call that do not depend on where segments come from.
CommonStep ==
  \/ \E s \in Streams : ProcessEvents(s) \/ SynchronizeEvent(s)
  \/ \E p \in cached : GetFreeBlock(p)
  \/ NoFreeBlock
  \/ AllocFoundBlock
  \/ OutOfMemory

SegmentStep ==
  \/ CollectRound
  \/ \E p \in call.targets : CollectBlock(p)
  \/ CollectDone
  \/ \E p \in cached : ReleaseFitting(p) \/ ReleaseLargest(p) \/ ReleaseCached(p)
  \/ ReleaseSomeDone
  \/ ReleaseAllDone
  \/ WithinLimit
  \/ \E base \in Bases : AllocBlock(base)
  \/ AllocBlockFails

Device == \E s \in Streams : DeviceRuns(s)

Next == Program \/ CommonStep \/ SegmentStep \/ Device

Spec == Init /\ [][Next]_vars

\* The same with setMemoryFraction called between other calls only, as by a
\* program of one thread.
OneThreadSpec == Init /\ [][Next /\ (pc # "idle" => allowed' = allowed)]_vars

\* The thread that holds the mutex keeps running.  Nothing is asked of the
\* program, nor of the device: after deviceSynchronize no event is left to
\* wait for, and process_events only looks.
FairSpec == Spec /\ WF_vars(CommonStep \/ SegmentStep)

-----------------------------------------------------------------------------
(* Properties *)

Extent == [lo : Nat, hi : Nat]

TypeOK ==
  /\ DOMAIN segments \subseteq Nat
  /\ segments \in [DOMAIN segments -> Nat]
  /\ DOMAIN blocks \subseteq Nat
  /\ blocks \in [DOMAIN blocks -> Block]
  /\ cached \subseteq DOMAIN blocks
  /\ active \subseteq DOMAIN blocks
  /\ npu_events \in [Streams -> Seq(Nat)]
  /\ completed \in [Streams -> Nat]
  /\ work \in [Streams -> Seq(Extent)]
  /\ unsynced \subseteq [lo : Nat, hi : Nat, stream : Streams]
  /\ total \in Int
  /\ allowed \in Nat \cup {None}
  /\ stats \in [BOOLEAN -> Stat]
  /\ pc \in Steps
  /\ call \in Call

\* No two blocks share memory.
NoOverlap ==
  \A p, q \in DOMAIN blocks : p < q => End(blocks, p) <= q

\* The blocks of a segment cover it from its base to its end without a gap,
\* and belong to the stream and the pool the segment was obtained for.
SegmentsTiled ==
  /\ DOMAIN segments \subseteq DOMAIN blocks
  /\ \A p \in DOMAIN blocks :
       LET b == blocks[p]
       IN  /\ b.seg \in DOMAIN segments
           /\ b.seg <= p
           /\ b.stream = blocks[b.seg].stream
           /\ b.small = blocks[b.seg].small
           /\ \/ End(blocks, p) = b.seg + segments[b.seg]
              \/ /\ End(blocks, p) \in DOMAIN blocks
                 /\ blocks[End(blocks, p)].seg = b.seg

\* Every block is in exactly one place: free in its pool, in active_blocks
\* because the program or an event holds it, or in the hands of malloc.
PoolsPartition ==
  LET taken == IF pc = "found" THEN {call.block} ELSE {}
  IN  /\ {p \in DOMAIN blocks : blocks[p].mapped} = cached \cup active \cup taken
      /\ cached \cap active = {}
      /\ taken \cap (cached \cup active) = {}
      /\ \A p \in DOMAIN blocks :
           LET b == blocks[p]
           IN  /\ p \in active <=> b.allocated \/ b.events > 0
               /\ ~b.allocated => b.uses = {}

\* Free memory is not fragmented for nothing: neighbouring free blocks are one,
\* and so are neighbouring unmapped blocks.
Coalesced ==
  LET idle == cached \cup {p \in DOMAIN blocks : ~blocks[p].mapped}
  IN  \A p, q \in idle :
        Linked(blocks, p, q) => blocks[p].mapped # blocks[q].mapped

\* event_count is the number of events in the queues that name the block, at
\* most one per stream, and only a block the program gave back has any.
EventsCounted ==
  /\ \A p \in DOMAIN blocks :
       /\ blocks[p].events =
            Cardinality({s \in Streams : \E i \in DOMAIN npu_events[s] :
                                            npu_events[s][i] = p})
       /\ blocks[p].allocated => blocks[p].events = 0
  /\ \A s \in Streams :
       /\ \A i, j \in DOMAIN npu_events[s] :
            npu_events[s][i] = npu_events[s][j] => i = j
       /\ \A i \in DOMAIN npu_events[s] : npu_events[s][i] \in active
       /\ completed[s] <= Len(npu_events[s])

\* Memory that a stream still works on is free for nobody: its block waits.
StreamSafe ==
  \A s \in Streams : \A i \in DOMAIN work[s] :
    LET r == work[s][i]
    IN  /\ r.lo \in active
        /\ ~blocks[r.lo].allocated
        /\ End(blocks, r.lo) = r.hi

SizeSum(S) == MapThenSumSet(LAMBDA p : blocks[p].size, S)

\* The running statistics, and total_allocated_memory, agree with a recount of
\* the blocks and of the segments.
StatsExact ==
  \A small \in BOOLEAN :
    LET in(S)    == {p \in S : blocks[p].small = small}
        idle     == in(DOMAIN blocks \ active)
        split    == {p \in idle : IsSplit(blocks, p)}
        mapped   == {p \in in(DOMAIN blocks) : blocks[p].mapped}
        st       == stats[small]
    IN  /\ st.allocation = Cardinality(in(Allocated))
        /\ st.allocated_bytes = SizeSum(in(Allocated))
        /\ st.active = Cardinality(in(active))
        /\ st.active_bytes = SizeSum(in(active))
        /\ st.reserved_bytes = SizeSum(mapped)
        /\ ~ExpandableSegments =>
             /\ st.inactive_split = Cardinality(split)
             /\ st.inactive_split_bytes = SizeSum(split)
             /\ st.segment = Cardinality({a \in DOMAIN segments : a \in in(DOMAIN blocks)})
        /\ total = stats[TRUE].reserved_bytes + stats[FALSE].reserved_bytes

\* Out of memory is the last resort: whatever is still cached shares its
\* segment with memory the program holds, and nothing waits for an event.
OomIsLastResort ==
  pc = "oom" =>
    /\ NoEvents
    /\ \A p \in cached :
         \E q \in Allocated : blocks[q].seg = blocks[p].seg

\* A cached block of max_split_size or more is a whole segment, so that
\* release_available_cached_blocks gives back no memory in use.
OversizeIsWhole ==
  \A p \in cached : ~BelowMaxSplit(blocks[p].size) => ~IsSplit(blocks, p)

\* What the process holds of the device, counted from the blocks.
Obtained == SizeSum({p \in DOMAIN blocks : blocks[p].mapped})

\* "If trying to allocate more than the allowed value in a process, will raise an
\* out of memory error in allocator" (memory.py:97): memory is not obtained beyond
\* the limit, whatever has been split, merged and given back before.
LimitHeld ==
  [][Obtained' > Obtained /\ allowed # None => Obtained' <= allowed]_vars

\* Every call returns, with memory or with an error.
CallReturns == pc # "idle" ~> pc = "idle"

\* What the program sees of the allocator.
Memory == INSTANCE StreamSafeMemory WITH
  live <- [p \in Allocated |-> [hi |-> End(blocks, p), stream |-> blocks[p].stream]],
  uses <- [p \in Allocated |-> blocks[p].uses],
  work <- work,
  tail <- unsynced

KeepsPromise == Memory!Spec

=============================================================================
