------------------------------ MODULE BlockHeap ------------------------------
(***************************************************************************)
(* The blocks of one device's caching allocator, as values: the sizes the  *)
(* allocator works with, and what splitting and merging do to the list of  *)
(* blocks of a segment.                                                    *)
(*                                                                         *)
(* Sizes and addresses count kMinBlockSize units (512 bytes).  A heap h    *)
(* maps the address of every Block object to the block.  Block.prev and    *)
(* Block.next are the neighbours by address in the same segment: two       *)
(* segments the driver happens to place next to each other are not linked. *)
(***************************************************************************)
EXTENDS Integers

CONSTANT Streams    \* the streams of the device, as the void* of Block.stream

-----------------------------------------------------------------------------
(* Size policy *)

kMinBlockSize  == 1
kSmallSize     == 2048
kSmallBuffer   == 4096
kLargeBuffer   == 40960
kMinLargeAlloc == 20480
kRoundLarge    == 4096

\* The only conversion from bytes: 32 bytes of padding, rounded up to 512.
round_size(bytes) ==
  IF bytes + 32 < 512 THEN kMinBlockSize ELSE (bytes + 32 + 511) \div 512

\* get_pool: which of small_blocks and large_blocks serves a request.
IsSmall(size) == size <= kSmallSize

get_allocation_size(size) ==
  IF size <= kSmallSize THEN kSmallBuffer
  ELSE IF size < kMinLargeAlloc THEN kLargeBuffer
  ELSE kRoundLarge * ((size + kRoundLarge - 1) \div kRoundLarge)

-----------------------------------------------------------------------------
(* Blocks *)

Block ==
  [ size      : Nat \ {0},
    seg       : Nat,              \* base address of the segment it is part of
    stream    : Streams,
    small     : BOOLEAN,          \* pool->is_small
    allocated : BOOLEAN,
    uses      : SUBSET Streams,   \* stream_uses
    events    : Nat,              \* event_count
    mapped    : BOOLEAN,
    age       : Nat ]             \* gc_count

NewBlock(seg, size, stream, small, mapped) ==
  [ size |-> size, seg |-> seg, stream |-> stream, small |-> small,
    allocated |-> FALSE, uses |-> {}, events |-> 0,
    mapped |-> mapped, age |-> 0 ]

\* A new Block object for part of b: same segment, stream and pool.
Fresh(b, mapped) == NewBlock(b.seg, b.size, b.stream, b.small, mapped)

End(h, p) == p + h[p].size

\* h[p].next = q
Linked(h, p, q) == End(h, p) = q /\ h[p].seg = h[q].seg

PrevSet(h, p) == {q \in DOMAIN h : Linked(h, q, p)}
NextSet(h, p) == {q \in DOMAIN h : Linked(h, p, q)}

IsSplit(h, p) == PrevSet(h, p) # {} \/ NextSet(h, p) # {}

-----------------------------------------------------------------------------
(* Splitting and merging *)

\* Mutant of SplitOff: the remaining block keeps its size.
SplitOffUncut(h, p, n, front, rest) ==
  [ x \in DOMAIN h \cup {p + n} |->
      IF x = p THEN [front EXCEPT !.size = n]
      ELSE IF x = p + n THEN [rest EXCEPT !.size = h[p].size]
      ELSE h[x] ]

\* Block p is cut after n units: front takes its address, rest what is left.
SplitOff(h, p, n, front, rest) ==
  [ x \in DOMAIN h \cup {p + n} |->
      IF x = p THEN [front EXCEPT !.size = n]
      ELSE IF x = p + n THEN [rest EXCEPT !.size = h[p].size - n]
      ELSE h[x] ]

\* Mutant of Mergeable: mapped and unmapped blocks merge.
MergeableUnmapped(h, d, s) ==
  ~h[s].allocated /\ h[s].events = 0 /\ h[s].uses = {}

\* try_merge_blocks(dst, src): the conditions under which src is subsumed.
Mergeable(h, d, s) ==
  /\ ~h[s].allocated
  /\ h[s].events = 0
  /\ h[s].uses = {}
  /\ h[d].mapped = h[s].mapped

\* The neighbours of d that try_merge_blocks would subsume.
SubsumedPrev(h, d) == {q \in PrevSet(h, d) : Mergeable(h, d, q)}
SubsumedNext(h, d) == {q \in NextSet(h, d) : Mergeable(h, d, q)}
Subsumed(h, d) == SubsumedPrev(h, d) \cup SubsumedNext(h, d)

\* The address of d after it has subsumed its previous neighbour.
Lead(h, d) ==
  IF SubsumedPrev(h, d) = {} THEN d ELSE CHOOSE q \in SubsumedPrev(h, d) : TRUE

MergePrev(h, d) ==
  IF SubsumedPrev(h, d) = {} THEN h
  ELSE LET q == Lead(h, d)
       IN  [ x \in DOMAIN h \ {d} |->
               IF x = q THEN [h[d] EXCEPT !.size = h[q].size + @] ELSE h[x] ]

\* Mutant of MergeNext: only the previous neighbour is merged.
MergeNextNever(h, d) == h

MergeNext(h, d) ==
  IF SubsumedNext(h, d) = {} THEN h
  ELSE LET q == CHOOSE r \in SubsumedNext(h, d) : TRUE
       IN  [ x \in DOMAIN h \ {q} |->
               IF x = d THEN [h[d] EXCEPT !.size = @ + h[q].size] ELSE h[x] ]

\* try_merge_blocks with the previous, then with the next neighbour.
Coalesce(h, d) == MergeNext(MergePrev(h, d), Lead(h, d))

=============================================================================
