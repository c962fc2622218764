-------------------------- MODULE AllocatorFrontEnd --------------------------
(***************************************************************************)
(* DefaultCachingAllocator of csrc/core/allocator/CachingAllocator.cpp:    *)
(* the table of allocated blocks in front of one caching allocator per     *)
(* device, called by several threads, and the pool of events they share.   *)
(*                                                                         *)
(* The table and each device allocator have a mutex of their own, and no   *)
(* call holds both: a call is a step under the one and a step under the    *)
(* other.  insert_events is a step per event, since two device allocators  *)
(* may take from the pool of one device at once.                           *)
(*                                                                         *)
(* A device allocator is what CachingAllocator says of it, blocks being    *)
(* whole segments here: a freed block waits for its events, then is cached *)
(* for its own stream.  What malloc does when memory runs out is left to   *)
(* that module.                                                            *)
(***************************************************************************)
EXTENDS Integers, FiniteSets, FiniteSetsExt, Sequences, SequencesExt

CONSTANTS
  Threads,
  Devices,     \* 0 .. the last one
  Streams,
  DeviceOf,    \* the device of a stream
  Addresses,   \* device pointers
  HomeOf,      \* the device whose memory an address is in
  Events,      \* the event objects there can be
  MaxWork,     \* bound: kernels that wait on a stream
  MaxRecorded, \* bound: streams recorded on blocks, until their events are done
  None

ASSUME FrontEndAssumption ==
  /\ 0 \in Devices /\ Devices \subseteq Nat
  /\ IsFiniteSet(Streams)
  /\ DeviceOf \in [Streams -> Devices]
  /\ HomeOf \in [Addresses -> Devices]
  /\ MaxWork \in Nat /\ MaxRecorded \in Nat
  /\ None \notin Devices \cup Streams \cup Addresses \cup Threads \cup Events
  /\ Events \cap Addresses = {}

VARIABLES
  allocated_blocks,  \* the pointers in the table
  blocks,            \* the block at each address
  npu_events,        \* per device allocator and stream, events with their block
  event_pool,        \* per device, the events to use again
  device_index,      \* the device an event was recorded on, if it was
  owner,             \* the thread in insert_events, per device allocator
  work,              \* per stream, what has not run: addresses used, and events
  context,           \* the current device of each thread, if it has one
  call,              \* the call each thread is in
  held,              \* the pointers the program owns
  chosen             \* history: the device each thread has settled on

device == <<blocks, npu_events, event_pool, device_index, owner>>

vars == <<allocated_blocks, device, work, context, call, held, chosen>>

NoCall == [op |-> "none", ptr |-> None, left |-> {}, saved |-> None]

Begins(t, op, p) ==
  call' = [call EXCEPT ![t] = [NoCall EXCEPT !.op = op, !.ptr = p]]

Returns(t) == call' = [call EXCEPT ![t] = NoCall]

Calls(t, op) == call[t].op = op

Uses(s, x) == x \in Range(work[s])

\* getDeviceIndex(): a thread without a context gets that of device 0.
Current(t) == IF context[t] = None THEN 0 ELSE context[t]

Init ==
  /\ allocated_blocks = {}
  /\ blocks = [p \in Addresses |->
                [state |-> "none", stream |-> None, uses |-> {}, event_count |-> 0]]
  /\ npu_events = [d \in Devices |-> [s \in Streams |-> <<>>]]
  /\ event_pool = [d \in Devices |-> {}]
  /\ device_index = [e \in Events |-> None]
  /\ owner = [d \in Devices |-> None]
  /\ work = [s \in Streams |-> <<>>]
  /\ context = [t \in Threads |-> None]
  /\ call = [t \in Threads |-> NoCall]
  /\ held = {}
  /\ chosen = [t \in Threads |-> None]

-----------------------------------------------------------------------------
(* The program and the streams *)

Settles(t, d) ==
  /\ context' = [context EXCEPT ![t] = d]
  /\ chosen' = [chosen EXCEPT ![t] = d]

SetDevice(t, d) ==
  /\ Calls(t, "none")
  /\ Settles(t, d)
  /\ UNCHANGED <<allocated_blocks, device, work, call, held>>

\* setMemoryFraction(fraction, device) takes the thread to that device, and leaves
\* it there.  (The limit itself is in CachingAllocator.)
SetMemoryFraction(t, d) ==
  /\ Calls(t, "none")
  /\ Settles(t, d)
  /\ UNCHANGED <<allocated_blocks, device, work, call, held>>

\* A kernel that uses memory the program holds.
Launch(s, p) ==
  /\ p \in held
  /\ Cardinality({i \in DOMAIN work[s] : work[s][i] \in Addresses}) < MaxWork
  /\ work' = [work EXCEPT ![s] = Append(@, p)]
  /\ UNCHANGED <<allocated_blocks, device, context, call, held, chosen>>

Run(s) ==
  /\ work[s] # <<>>
  /\ work' = [work EXCEPT ![s] = Tail(@)]
  /\ UNCHANGED <<allocated_blocks, device, context, call, held, chosen>>

-----------------------------------------------------------------------------
(* Events *)

Completed(e) == \A s \in Streams : ~Uses(s, e)

\* Mutant of Ready: only the first event of a queue is asked.
ReadyAsFirst(q) ==
  IF q # <<>> /\ Completed(q[1].event) THEN Len(q) ELSE 0

\* process_events stops at the first event of a queue that has not completed.
Ready(q) ==
  Cardinality({i \in DOMAIN q : \A j \in 1 .. i : Completed(q[j].event)})

InQueue(q, p) == \E i \in DOMAIN q : q[i].block = p

\* The first n entries of the queues of d are taken out: their events go back to
\* their pools, and a block whose last event it was is free.  (A block is in the
\* queue of a stream once.)
Take(d, n) ==
  LET head(s) == SubSeq(npu_events[d][s], 1, n[s])
  IN  /\ npu_events' = [npu_events EXCEPT ![d] =
            [s \in Streams |-> SubSeq(@[s], n[s] + 1, Len(@[s]))]]
      /\ event_pool' = [x \in Devices |-> event_pool[x] \cup
            {e \in Events : \E s \in Streams : \E i \in DOMAIN head(s) :
                head(s)[i].event = e /\ head(s)[i].pool = x}]

\* The streams whose queue loses an entry of p.
Taken(d, n, p) == {s \in Streams : InQueue(SubSeq(npu_events[d][s], 1, n[s]), p)}

Settled(d, n) ==
  LET left(p) == blocks[p].event_count - Cardinality(Taken(d, n, p))
  IN  [p \in Addresses |->
         IF Taken(d, n, p) = {} THEN blocks[p]
         ELSE [blocks[p] EXCEPT !.event_count = left(p),
                                !.state = IF left(p) = 0 THEN "cached" ELSE @]]

\* Neither pooled nor queued.
Unused(e) ==
  \A x \in Devices :
    /\ e \notin event_pool[x]
    /\ \A s \in Streams : \A i \in DOMAIN npu_events[x][s] : npu_events[x][s][i].event # e

\* EventPool::get: one of the pool, or a new one.
PoolGet(d) ==
  IF event_pool[d] # {} THEN event_pool[d] ELSE {e \in Events : Unused(e)}

-----------------------------------------------------------------------------
(* malloc *)

\* DeviceCachingAllocator::malloc, for a stream of the thread's device: a block
\* cached for that stream, or new memory.
DeviceMalloc(t, s, p) ==
  LET d == Current(t)
      n == [r \in Streams |-> Ready(npu_events[d][r])]
      b == Settled(d, n)
  IN  /\ Calls(t, "none")
      /\ owner[d] = None
      /\ DeviceOf[s] = d /\ HomeOf[p] = d
      /\ \/ b[p].state = "cached" /\ b[p].stream = s
         \/ b[p].state = "none"
      /\ Take(d, n)
      /\ blocks' = [b EXCEPT ![p] =
                      [state |-> "active", stream |-> s, uses |-> {}, event_count |-> 0]]
      /\ Settles(t, d)
      /\ Begins(t, "malloc", p)
      /\ UNCHANGED <<allocated_blocks, device_index, owner, work, held>>

AddAllocatedBlock(t) ==
  /\ Calls(t, "malloc")
  /\ allocated_blocks' = allocated_blocks \cup {call[t].ptr}
  /\ held' = held \cup {call[t].ptr}
  /\ Returns(t)
  /\ UNCHANGED <<device, work, context, chosen>>

-----------------------------------------------------------------------------
(* free *)

\* The program frees a pointer once, when every stream that may still use it is
\* its own or recorded.
MayFree(p) ==
  /\ p \in held
  /\ \A s \in Streams : Uses(s, p) => s \in blocks[p].uses \cup {blocks[p].stream}

\* Mutant of FreeLookup: get_allocated_block(ptr), without remove.
FreeLookupOnly(t, p) ==
  /\ Calls(t, "none")
  /\ MayFree(p)
  /\ held' = held \ {p}
  /\ Begins(t, IF p \in allocated_blocks THEN "free" ELSE "invalid", p)
  /\ UNCHANGED <<allocated_blocks, device, work, context, chosen>>

FreeLookup(t, p) ==
  /\ Calls(t, "none")
  /\ MayFree(p)
  /\ held' = held \ {p}
  /\ allocated_blocks' = allocated_blocks \ {p}
  /\ Begins(t, IF p \in allocated_blocks THEN "free" ELSE "invalid", p)
  /\ UNCHANGED <<device, work, context, chosen>>

\* Without other streams the block is cached at once.  Otherwise insert_events
\* goes to the block's device, and takes the streams out of the block.
DeviceFree(t) ==
  LET p == call[t].ptr
      d == HomeOf[p]
  IN  /\ Calls(t, "free")
      /\ owner[d] = None
      /\ IF blocks[p].uses = {}
         THEN /\ blocks' = [blocks EXCEPT ![p].state = "cached"]
              /\ Returns(t)
              /\ UNCHANGED <<owner, context>>
         ELSE /\ blocks' = [blocks EXCEPT ![p].uses = {}]
              /\ owner' = [owner EXCEPT ![d] = t]
              /\ context' = [context EXCEPT ![t] = d]
              /\ call' = [call EXCEPT ![t].op = "insert",
                                      ![t].left = blocks[p].uses,
                                      ![t].saved = context[t]]
      /\ UNCHANGED <<allocated_blocks, npu_events, event_pool, device_index,
                     work, held, chosen>>

\* Mutant of PoolFor: the pool of the block's device.
PoolForBlock(p, s) == HomeOf[p]

\* insert_events takes an event from the pool of the stream's device.
PoolFor(p, s) == DeviceOf[s]

Counted(p) == [blocks EXCEPT ![p].event_count = @ + 1]

\* The event is recorded on the stream, with the stream's device current.
\* (Which event of the pool is of no consequence.)
InsertEvent(t, s) ==
  LET p == call[t].ptr
      d == PoolFor(p, s)
      e == CHOOSE x \in PoolGet(d) : TRUE
  IN  /\ Calls(t, "insert")
      /\ s \in call[t].left
      /\ PoolGet(d) # {}
      /\ event_pool' = [event_pool EXCEPT ![d] = @ \ {e}]
      /\ device_index' = [device_index EXCEPT ![e] = DeviceOf[s]]
      /\ work' = [work EXCEPT ![s] = Append(@, e)]
      /\ blocks' = Counted(p)
      /\ npu_events' = [npu_events EXCEPT ![HomeOf[p]][s] =
                          Append(@, [event |-> e, pool |-> d, block |-> p])]
      /\ context' = [context EXCEPT ![t] = DeviceOf[s]]
      /\ call' = [call EXCEPT ![t].left = @ \ {s}]
      /\ UNCHANGED <<allocated_blocks, owner, held, chosen>>

\* Mutant of InsertDone: the context is left as it is.
InsertDoneThere(t) ==
  /\ Calls(t, "insert")
  /\ call[t].left = {}
  /\ owner' = [owner EXCEPT ![HomeOf[call[t].ptr]] = None]
  /\ Returns(t)
  /\ UNCHANGED <<allocated_blocks, blocks, npu_events, event_pool, device_index,
                 work, context, held, chosen>>

\* insertEventWrapper goes back to the context it found, if it found one.
InsertDone(t) ==
  /\ Calls(t, "insert")
  /\ call[t].left = {}
  /\ owner' = [owner EXCEPT ![HomeOf[call[t].ptr]] = None]
  /\ context' = IF call[t].saved = None THEN context
                ELSE [context EXCEPT ![t] = call[t].saved]
  /\ Returns(t)
  /\ UNCHANGED <<allocated_blocks, blocks, npu_events, event_pool, device_index,
                 work, held, chosen>>

-----------------------------------------------------------------------------
(* recordStream, eraseStream *)

\* The lookup and the step under the device's mutex are one step: the program
\* does not free the pointer meanwhile, so what the lookup found stays.
StreamCall(t, p, uses) ==
  /\ Calls(t, "none")
  /\ p \in held
  /\ owner[HomeOf[p]] = None
  /\ IF p \in allocated_blocks
     THEN /\ blocks' = [blocks EXCEPT ![p].uses = uses]
          /\ UNCHANGED call
     ELSE /\ Begins(t, "invalid", p)
          /\ UNCHANGED blocks
  /\ UNCHANGED <<allocated_blocks, npu_events, event_pool, device_index, owner,
                 work, context, held, chosen>>

\* The streams that are recorded, or being recorded, and not yet done with.
Recorded ==
  Cardinality({x \in Addresses \X Streams : x[2] \in blocks[x[1]].uses})
  + Cardinality({x \in Threads \X Streams :
                   Calls(x[1], "insert") /\ x[2] \in call[x[1]].left})
  + MapThenSumSet(LAMBDA p : blocks[p].event_count, Addresses)

RecordStream(t, p, s) ==
  /\ Recorded < MaxRecorded
  /\ StreamCall(t, p, blocks[p].uses \cup {s})

\* The caller vouches that s is done with the block, which has no event to drop
\* while it is held.  (Unless the block's own stream is current on its device,
\* the call changes nothing.)
EraseStream(t, p, s) ==
  /\ ~Uses(s, p)
  /\ s \in blocks[p].uses
  /\ StreamCall(t, p, blocks[p].uses \ {s})

-----------------------------------------------------------------------------
(* emptyCache, emptyDeviceCache *)

EmptyCache(t) ==
  /\ Calls(t, "none")
  /\ context[t] # None
  /\ call' = [call EXCEPT ![t] = [NoCall EXCEPT !.op = "empty", !.left = Devices]]
  /\ UNCHANGED <<allocated_blocks, device, work, context, held, chosen>>

\* IsOomError calls it for the current device.
EmptyDeviceCache(t) ==
  /\ Calls(t, "none")
  /\ context[t] # None
  /\ call' = [call EXCEPT ![t] = [NoCall EXCEPT !.op = "empty", !.left = {context[t]}]]
  /\ UNCHANGED <<allocated_blocks, device, work, context, held, chosen>>

\* Mutant of StreamsIdle: unmapHandles does not wait.
StreamsIdleNot(S) == TRUE

\* unmapHandles waits for the stream of the memory that it unmaps.  (memFree, in
\* the mode without expandable segments, is said to wait by itself.)
StreamsIdle(S) == \A s \in S : work[s] = <<>>

\* release_cached_blocks: waits for the thread's device and for the events of d,
\* and gives what is cached for d back to the device.
ReleaseCachedBlocks(t, d) ==
  LET n == [s \in Streams |-> Len(npu_events[d][s])]
      b == Settled(d, n)
      released == {p \in Addresses : HomeOf[p] = d /\ b[p].state = "cached"}
  IN  /\ Calls(t, "empty")
      /\ d \in call[t].left /\ \A x \in call[t].left : d <= x
      /\ owner[d] = None
      /\ \A s \in Streams : DeviceOf[s] = context[t] => work[s] = <<>>
      /\ \A s \in Streams : Ready(npu_events[d][s]) = n[s]
      /\ StreamsIdle({b[p].stream : p \in released})
      /\ Take(d, n)
      /\ blocks' = [p \in Addresses |->
                      IF p \in released THEN [b[p] EXCEPT !.state = "none"] ELSE b[p]]
      /\ IF call[t].left = {d} THEN Returns(t)
         ELSE call' = [call EXCEPT ![t].left = @ \ {d}]
      /\ UNCHANGED <<allocated_blocks, device_index, owner, work, context, held, chosen>>

-----------------------------------------------------------------------------

Next ==
  \/ \E t \in Threads :
       \/ \E d \in Devices : SetDevice(t, d) \/ SetMemoryFraction(t, d)
       \/ \E s \in Streams, p \in Addresses :
            \/ DeviceMalloc(t, s, p)
            \/ RecordStream(t, p, s)
            \/ EraseStream(t, p, s)
       \/ AddAllocatedBlock(t)
       \/ \E p \in Addresses : FreeLookup(t, p)
       \/ DeviceFree(t)
       \/ \E s \in Streams : InsertEvent(t, s)
       \/ InsertDone(t)
       \/ EmptyCache(t)
       \/ EmptyDeviceCache(t)
       \/ \E d \in Devices : ReleaseCachedBlocks(t, d)
  \/ \E s \in Streams :
       \/ \E p \in Addresses : Launch(s, p)
       \/ Run(s)

Spec == Init /\ [][Next]_vars

-----------------------------------------------------------------------------
(* Properties *)

Ops == {"none", "malloc", "free", "insert", "empty", "invalid"}

\* Every variable has its type.
TypeOK ==
  /\ allocated_blocks \subseteq Addresses
  /\ blocks \in [Addresses ->
       [state : {"none", "cached", "active"}, stream : Streams \cup {None},
        uses : SUBSET Streams, event_count : Nat]]
  /\ npu_events \in [Devices -> [Streams -> Seq([event : Events, pool : Devices, block : Addresses])]]
  /\ event_pool \in [Devices -> SUBSET Events]
  /\ device_index \in [Events -> Devices \cup {None}]
  /\ owner \in [Devices -> Threads \cup {None}]
  /\ work \in [Streams -> Seq(Addresses \cup Events)]
  /\ context \in [Threads -> Devices \cup {None}]
  /\ chosen \in [Threads -> Devices \cup {None}]
  /\ call \in [Threads ->
       [op : Ops, ptr : Addresses \cup {None},
        left : (SUBSET Streams) \cup (SUBSET Devices), saved : Devices \cup {None}]]
  /\ held \subseteq Addresses

Waiting(p) == \E d \in Devices, s \in Streams : InQueue(npu_events[d][s], p)

Carries(t, p) == call[t].ptr = p /\ call[t].op \in {"malloc", "free", "insert"}

\* A block is in one place: in the table, in the hands of one thread on its way
\* in or out, waiting for its events, or with the device allocator.  So malloc
\* never returns a pointer that is in use, and what the program holds is found:
\* neither "invalid device pointer" nor the assertion of recordStream is reached.
OneOwner ==
  /\ \A p \in allocated_blocks : blocks[p].state = "active" /\ ~Waiting(p)
  /\ \A t \in Threads : \A p \in Addresses :
       Carries(t, p) =>
         /\ blocks[p].state = "active"
         /\ p \notin allocated_blocks
         /\ Calls(t, "insert") \/ ~Waiting(p)
         /\ \A u \in Threads \ {t} : ~Carries(u, p)
  /\ held \subseteq allocated_blocks
  /\ \A t \in Threads : ~Calls(t, "invalid")

\* A block that malloc may hand out for its stream is used by no other stream's
\* outstanding work, however the threads and the devices interleave.
SafeReuse ==
  \A p \in Addresses : blocks[p].state = "cached" =>
    \A s \in Streams \ {blocks[p].stream} : ~Uses(s, p)

\* An event is in one queue or one pool, that of the device it was recorded on
\* (so the check of NPUGuardImpl::record never fails), and a freed block counts
\* its events: no block is forgotten while its device allocator is at rest.
EventsOwned ==
  /\ \A d \in Devices : \A e \in event_pool[d] : device_index[e] = d
  /\ \A d, x \in Devices : \A s, r \in Streams :
       \A i \in DOMAIN npu_events[d][s] : \A j \in DOMAIN npu_events[x][r] :
         npu_events[d][s][i].event = npu_events[x][r][j].event =>
           <<d, s, i>> = <<x, r, j>>
  /\ \A d \in Devices : \A s \in Streams : \A i \in DOMAIN npu_events[d][s] :
       /\ device_index[npu_events[d][s][i].event] = DeviceOf[s]
       /\ \A x \in Devices : npu_events[d][s][i].event \notin event_pool[x]
  /\ \A p \in Addresses :
       /\ blocks[p].event_count =
            Cardinality({s \in Streams : InQueue(npu_events[HomeOf[p]][s], p)})
       /\ blocks[p].state = "active" =>
            \/ p \in allocated_blocks
            \/ blocks[p].event_count > 0
            \/ \E t \in Threads : Carries(t, p)

\* A thread in no call is on the device that it has settled on: by setDevice, by a
\* malloc, or by setMemoryFraction, which alone takes it to another device.  No
\* free leaves it on the device of a stream it recorded an event on.
DeviceKept ==
  \A t \in Threads : Calls(t, "none") /\ chosen[t] # None => context[t] = chosen[t]

\* "we have to wait for the stream to finish before this memory is truly free"
\* (CachingAllocator.cpp:405): memory that is back with the device is used by no
\* outstanding work, whatever device the thread that gave it back was on.
SafeRelease ==
  \A p \in Addresses : blocks[p].state = "none" => \A s \in Streams : ~Uses(s, p)
=============================================================================
