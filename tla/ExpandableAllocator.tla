------------------------ MODULE ExpandableAllocator -------------------------
(***************************************************************************)
(* DeviceCachingAllocator with expandable_segments:True, the default: a    *)
(* segment is a range of addresses, reserved once per stream and pool and  *)
(* larger than the device, into which physical memory is mapped by chunks  *)
(* of 2 or 20 MiB as it is needed.  Note [Expandable Segments] of          *)
(* csrc/core/allocator/CachingAllocator.cpp.                               *)
(*                                                                         *)
(* Calls, events and the search of the cache are those of CachingAllocator;*)
(* what replaces its SegmentStep is here.  In `segments' a base address is *)
(* mapped to the size of the reserved range.                               *)
(***************************************************************************)
EXTENDS CachingAllocator

\* CachingAllocatorConfig::expandable_segments(), by default
ASSUME ModeAssumption == ExpandableSegments

VARIABLES
  unmapped,   \* the members of small_blocks.unmapped and large_blocks.unmapped
  handles     \* the addresses at which a chunk is mapped: handles_ of all segments

varsE == <<vars, unmapped, handles>>

-----------------------------------------------------------------------------
(* ExpandableSegment *)

ChunkSize(small) == IF small THEN kSmallBuffer ELSE kLargeBuffer

\* numSegments(device_total + device_total / 8) chunks of addresses
ReservedSize(small) ==
  LET chunk == ChunkSize(small)
  IN  chunk * ((DeviceMemory + DeviceMemory \div 8 + chunk - 1) \div chunk)

\* segmentLeft and segmentRight: the chunk boundary at or before, at or after p.
BoundaryBefore(b, p) ==
  b.seg + ChunkSize(b.small) * ((p - b.seg) \div ChunkSize(b.small))

BoundaryAfter(b, p) ==
  b.seg + ChunkSize(b.small)
            * ((p - b.seg + ChunkSize(b.small) - 1) \div ChunkSize(b.small))

\* The chunks between two boundaries in the segment of b.
Chunks(b, lo, hi) ==
  {b.seg + ChunkSize(b.small) * i :
     i \in (lo - b.seg) \div ChunkSize(b.small)
             .. (hi - b.seg) \div ChunkSize(b.small) - 1}

-----------------------------------------------------------------------------
(* try_allocate_expandable_block *)

\* Mutant of Allocatable: blocks that wait for events count as free.
AllocatableWaiting(p) == ~blocks[p].allocated

Allocatable(p) ==
  LET b == blocks[p] IN ~b.allocated /\ b.events = 0 /\ b.uses = {}

\* Mutant of Reach: the run goes to the end of the segment.
ReachToEnd(p) == blocks[p].seg + segments[blocks[p].seg]

\* The end of the run of allocatable blocks that begins with p.
Reach(p) ==
  LET stops == {q \in DOMAIN blocks :
                  /\ blocks[q].seg = blocks[p].seg
                  /\ q > p
                  /\ ~Allocatable(q)}
  IN  IF stops = {} THEN blocks[p].seg + segments[blocks[p].seg] ELSE Min(stops)

\* A free block right before an unmapped one is used with it.
RunStart(p) ==
  LET before == {q \in PrevSet(blocks, p) : Allocatable(q)}
  IN  IF before = {} THEN p ELSE CHOOSE q \in before : TRUE

Roomy ==
  {p \in unmapped : /\ blocks[p].small = IsSmall(call.size)
                    /\ blocks[p].stream = call.stream
                    /\ Reach(RunStart(p)) - RunStart(p) >= call.size}

StartMapping(p) ==
  /\ pc' = IF pc = "alloc" THEN "map" ELSE "remap"
  /\ call' = [call EXCEPT !.block = p]

\* find_expandable_block: the lowest address with room for the request ...
FindRoom(p) ==
  /\ Allocating
  /\ ~OverLimit
  /\ p \in Roomy
  /\ \A q \in Roomy : p <= q
  /\ StartMapping(RunStart(p))
  /\ UNCHANGED <<segments, heapVars, eventVars, total, allowed, unmapped, handles>>

\* ... or a new range of addresses, with nothing mapped.
ReserveSegment(base) ==
  LET small == IsSmall(call.size)
      size  == ReservedSize(small)
  IN  /\ Allocating
      /\ ~OverLimit
      /\ Roomy = {}
      /\ Clear(base, size)
      /\ segments' = [a \in DOMAIN segments \cup {base} |->
                        IF a = base THEN size ELSE segments[a]]
      /\ blocks' = [x \in DOMAIN blocks \cup {base} |->
                      IF x = base
                      THEN NewBlock(base, size, call.stream, small, FALSE)
                      ELSE blocks[x]]
      /\ unmapped' = unmapped \cup {base}
      /\ StartMapping(base)
      /\ UNCHANGED <<cached, active, stats, eventVars, total, allowed, handles>>

Mapping == pc \in {"map", "remap"}

\* try_allocate_expandable_block maps the candidate, or what follows it, until
\* the candidate is large enough.
Mapped == blocks[call.block].mapped /\ blocks[call.block].size >= call.size

ToMap ==
  IF blocks[call.block].mapped THEN End(blocks, call.block) ELSE call.block

Wanted ==
  LET have == IF blocks[call.block].mapped THEN blocks[call.block].size ELSE 0
  IN  Min({call.size - have, blocks[ToMap].size})

\* map_block(ToMap, Wanted): whole chunks are mapped; what they do not reach
\* stays unmapped, and the new memory joins the free blocks around it.
MapBlock ==
  LET p    == ToMap
      b    == blocks[p]
      hi   == BoundaryAfter(b, p + Wanted)
      size == hi - p
      now  == [b EXCEPT !.mapped = TRUE]
      h    == IF size < b.size
              THEN SplitOff(blocks, p, size, now, Fresh(b, FALSE))
              ELSE [blocks EXCEPT ![p] = now]
  IN  /\ Mapping
      /\ ~Mapped
      /\ total + size <= DeviceMemory
      /\ handles' = handles \cup Chunks(b, p, hi)
      /\ blocks' = Coalesce(h, p)
      /\ unmapped' = (unmapped \ {p}) \cup (IF size < b.size THEN {hi} ELSE {})
      /\ cached' = (cached \ Subsumed(h, p)) \cup {Lead(h, p)}
      /\ total' = total + size
      /\ stats' = [stats EXCEPT ![b.small].reserved_bytes = @ + size]
      /\ call' = [call EXCEPT !.block = Lead(h, p)]
      /\ UNCHANGED <<segments, active, eventVars, allowed, pc>>

\* Mutant of MapDone: the block stays in the pool.
MapDonePooled ==
  /\ Mapping
  /\ Mapped
  /\ pc' = "found"
  /\ UNCHANGED <<segments, heapVars, eventVars, total, allowed, call, unmapped,
                 handles>>

MapDone ==
  /\ Mapping
  /\ Mapped
  /\ cached' = cached \ {call.block}
  /\ pc' = "found"
  /\ UNCHANGED <<segments, blocks, active, stats, eventVars, total, allowed,
                 call, unmapped, handles>>

\* Mutant of ExpandFails: a retry that fails is retried.
ExpandFailsAgain ==
  /\ \/ Allocating /\ OverLimit
     \/ Mapping /\ ~Mapped
  /\ call' = [call EXCEPT !.block = None]
  /\ pc' = "release_all"
  /\ DeviceSynchronize
  /\ UNCHANGED <<segments, heapVars, total, allowed, unmapped, handles>>

\* The limit refuses before anything is looked for, or memCreate finds no
\* memory: the handles created for this call of map are released again.
ExpandFails ==
  /\ \/ Allocating /\ OverLimit
     \/ Mapping /\ ~Mapped
  /\ call' = [call EXCEPT !.block = None]
  /\ IF pc \in {"alloc", "map"}
     THEN pc' = "release_all" /\ DeviceSynchronize
     ELSE pc' = "oom" /\ UNCHANGED eventVars
  /\ UNCHANGED <<segments, heapVars, total, allowed, unmapped, handles>>

-----------------------------------------------------------------------------
(* release_blocks *)

\* Mutant of GatherToUnmap: only the large blocks are gathered.
GatherToUnmapLarge ==
  /\ pc = "release_all"
  /\ NoEvents
  /\ pc' = "unmap"
  /\ call' = [call EXCEPT !.targets = {p \in cached : ~blocks[p].small}]
  /\ UNCHANGED <<segments, heapVars, eventVars, total, allowed, unmapped, handles>>

\* Unmapping changes the pools, so what to unmap is gathered first.
GatherToUnmap ==
  /\ pc = "release_all"
  /\ NoEvents
  /\ pc' = "unmap"
  /\ call' = [call EXCEPT !.targets = cached]
  /\ UNCHANGED <<segments, heapVars, eventVars, total, allowed, unmapped, handles>>

\* helper->synchronizeStream(stream): what was submitted to the stream has run.
SynchronizeStream(s) ==
  /\ work' = [work EXCEPT ![s] = <<>>]
  /\ completed' = [completed EXCEPT ![s] = Len(npu_events[s])]
  /\ unsynced' = {r \in unsynced : r.stream # s}
  /\ UNCHANGED npu_events

\* unmap_block: the chunks that lie entirely in p are unmapped, when the stream of
\* the segment has finished; a piece of p before and after them stays in the pool.
UnmapBlock(p) ==
  LET b     == blocks[p]
      lo    == BoundaryAfter(b, p)
      hi    == BoundaryBefore(b, End(blocks, p))
      gone  == [b EXCEPT !.mapped = FALSE]
      h1    == IF p < lo THEN SplitOff(blocks, p, lo - p, Fresh(b, TRUE), gone)
                         ELSE [blocks EXCEPT ![p] = gone]
      h2    == IF hi < End(blocks, p)
               THEN SplitOff(h1, lo, hi - lo, gone, Fresh(b, TRUE))
               ELSE h1
      h3    == Coalesce(h2, lo)
      lead  == Lead(h2, lo)
      whole == ~IsSplit(h3, lead)
  IN  /\ pc = "unmap"
      /\ p \in call.targets
      /\ call' = [call EXCEPT !.targets = @ \ {p}]
      /\ IF lo >= hi
         THEN UNCHANGED <<segments, heapVars, eventVars, total, unmapped, handles>>
         ELSE /\ SynchronizeStream(b.stream)
              /\ handles' = handles \ Chunks(b, lo, hi)
              /\ cached' = (cached \ {p}) \cup (IF p < lo THEN {p} ELSE {})
                             \cup (IF hi < End(blocks, p) THEN {hi} ELSE {})
              /\ total' = total - (hi - lo)
              /\ stats' = [stats EXCEPT ![b.small].reserved_bytes = @ - (hi - lo)]
              /\ IF whole
                 THEN \* release_expandable_segment
                      /\ segments' = [a \in DOMAIN segments \ {b.seg} |-> segments[a]]
                      /\ blocks' = [x \in DOMAIN h3 \ {lead} |-> h3[x]]
                      /\ unmapped' = unmapped \ Subsumed(h2, lo)
                 ELSE /\ blocks' = h3
                      /\ unmapped' = (unmapped \ Subsumed(h2, lo)) \cup {lead}
                      /\ UNCHANGED segments
              /\ UNCHANGED active
      /\ UNCHANGED <<allowed, pc>>

UnmapDone ==
  /\ pc = "unmap"
  /\ call.targets = {}
  /\ AfterRelease
  /\ UNCHANGED <<segments, heapVars, eventVars, total, allowed, unmapped, handles>>

-----------------------------------------------------------------------------
(* The specification *)

InitE == Init /\ unmapped = {} /\ handles = {}

ExpandStep ==
  \/ \E p \in unmapped : FindRoom(p)
  \/ \E base \in Bases : ReserveSegment(base)
  \/ MapBlock
  \/ MapDone
  \/ ExpandFails
  \/ GatherToUnmap
  \/ \E p \in call.targets : UnmapBlock(p)
  \/ UnmapDone

NextE ==
  \/ (Program \/ CommonStep \/ Device) /\ UNCHANGED <<unmapped, handles>>
  \/ ExpandStep

SpecE == InitE /\ [][NextE]_varsE

\* setMemoryFraction is called between other calls only.
OneThreadSpecE == InitE /\ [][NextE /\ (pc # "idle" => allowed' = allowed)]_varsE

\* The thread that holds the mutex keeps running.
FairSpecE ==
  /\ SpecE
  /\ WF_varsE((CommonStep /\ UNCHANGED <<unmapped, handles>>) \/ ExpandStep)

-----------------------------------------------------------------------------
(* Properties, besides those of CachingAllocator *)

TypeOKE ==
  /\ TypeOK
  /\ unmapped \subseteq DOMAIN blocks
  /\ handles \subseteq Nat

\* Physical memory is where the blocks say it is: exactly the chunks that
\* mapped blocks touch are mapped, and unmapped blocks are whole chunks.
HandlesAgree ==
  /\ unmapped = {p \in DOMAIN blocks : ~blocks[p].mapped}
  /\ handles = UNION {LET b == blocks[p]
                      IN  Chunks(b, BoundaryBefore(b, p), BoundaryAfter(b, End(blocks, p))) :
                      p \in DOMAIN blocks \ unmapped}
  /\ \A p \in unmapped :
       LET b == blocks[p]
       IN  /\ p = BoundaryBefore(b, p)
           /\ End(blocks, p) = BoundaryAfter(b, End(blocks, p))
           /\ handles \cap Chunks(b, p, End(blocks, p)) = {}

\* Out of memory is raised only when no chunk is free as a whole.
OomIsLastResortE ==
  pc = "oom" =>
    /\ NoEvents
    /\ \A p \in cached : BoundaryAfter(blocks[p], p)
                           >= BoundaryBefore(blocks[p], End(blocks, p))

\* map_block only ever meets an unmapped block that lies inside the segment.
MapsUnmappedOnly ==
  Mapping /\ ~Mapped => ToMap \in unmapped

\* Every call returns, for as long as there is room for another reservation:
\* try_allocate_expandable_block and release_blocks come to an end.
NoAddressesLeft ==
  /\ Allocating
  /\ \A base \in Bases : ~Clear(base, ReservedSize(IsSmall(call.size)))

CallReturnsE == pc # "idle" ~> pc = "idle" \/ NoAddressesLeft

=============================================================================
