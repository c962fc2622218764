# Verification of torch_npu ("PyTorch Backend")

The repository is a device-agnostic layer between PyTorch and an accelerator
(the `PrivateUse1` device; the one backend in the tree is the Ascend NPU).
About two thirds of its 135,000 lines are operator kernels, one stateless call
into the vendor's library after another, and 16,000 more are vendored headers.
What has state, invariants and concurrency is small, and is what this project
is about. Its centre is `DeviceCachingAllocator` in
`csrc/core/allocator/CachingAllocator.cpp`: every tensor passes through it, it
is the component most of the others rely on, and a mistake in it shows as
corrupted data in a place that has nothing to do with it.

Paths below are relative to `src/`.

## 1. Inventory

| Component | State | Operations | Hard because | Status |
|---|---|---|---|---|
| Device caching allocator (`csrc/core/allocator/CachingAllocator.cpp`) | blocks linked into segments, two pools, active blocks, queues of events per stream, statistics, a limit | malloc, free, recordStream, eraseStream, emptyCache, setMemoryFraction | long sequences of splits and merges; asynchronous streams; a ladder of fallbacks when memory runs out; a limit set without the lock | modelled |
| ... with expandable segments (same file; the default) | the same, and reserved address ranges with chunks of physical memory mapped into them | the same, with map, unmap and reserve for the segments | three notions of boundary (block, chunk, range) that must agree; mapping fails half way | modelled |
| Allocator front end (`DefaultCachingAllocator`, same file) and event pool (`EventPool.h`) | `allocated_blocks`: pointer to block, under a lock of its own; pools of events, one per device, that all device allocators share | malloc, free, recordStream, eraseStream, emptyCache, setMemoryFraction, and their forwarding to the device of the block | two locks that are never held together; events recorded one by one on other devices, from inside a free; a memory address that comes back | modelled |
| Task queue (`backends/npu/core/NPUQueue.*`) | a ring, two `working` flags, three eventfds, a status; a second ring of things to release | Enqueue, Dequeue, MakeSureQueueEmpty, start and exit, errors | lock-free, wake-ups that must not be lost, an error that drains the ring | modelled, except the second ring |
| Operator commands (`backends/npu/framework/OpCommand.*`, `OpParamMaker.*`, `utils/NpuUtils.cpp`) | a stack of reusable commands per thread | take, fill, run, and run again after out of memory | a map shared by threads; a retry of work that may have had effects | planned |
| Device context (`csrc/backend/NPUFunctions.cpp`, `backends/npu/adapter/acl_device_adapter.cpp`, `torch_backend/backend/device.py`) | per thread the current and the pending device; the set of devices with a context | SetDevice, ExchangeDevice, MaybeExchangeDevice, guards | every free with events moves the thread to other devices and back | the current device, as the allocator uses it; the pending device has no caller in the repository |
| Streams and events (`csrc/backend/NPUStream.cpp`, `NPUEvent.h`) | pools of 32 streams per priority, round-robin counters, lazily created events | getStreamFromPool, setCurrentStream, record, block, query | identifiers packed into bits; counters that wrap | planned |
| Peer-to-peer access (`backends/npu/core/NPUPeerToPeerAccess.cpp`) | a matrix of enabled pairs, a count per device | get_p2p_access | one of two calls fails | planned |
| Random number generator (`csrc/backend/NPUGeneratorImpl.cpp`) | seed and Philox offset | set, get, reserve an increment | offsets that must not overlap | planned |
| Host allocator (`csrc/backend/NPUCachingHostAllocator.cpp`) | none of its own: a thin layer over PyTorch's `CachingHostAllocatorImpl` | | | not planned: the logic is not in the repository |
| Options and initialization (`backends/npu/core/register`, `NpuDeviceRAII.cpp`, `NPUHooks.cpp`) | a table filled once | | sequential, runs once | not planned |
| Views and contiguous copies (`backends/npu/framework/contiguous`, `backends/npu/aten/common` with `CopyKernel.cpp`, `ResizeNpu.h`) | for each storage the shape it was last described with; a cache of optimizers and their parameters, by hash | find the optimizer for a view, copy by it, resize, set | six optimizers recognise a view by its sizes, strides and offset, a seventh by way of an inferred view, whose two copies use the cache themselves; the description is rewritten by other operations | base format; partly |
| Other operator kernels (`backends/npu/aten`) | none | one call into the vendor's library after another | no protocol | not planned |
| Python and C++ bindings, code generation, vendored headers | none | | argument conversion | not planned |

How they interact. A tensor's storage calls the front end, which picks the
`DeviceCachingAllocator` of the current device; that takes its mutex for the
whole of the call. When it frees a block that other streams have used it takes
an event from the pool, records it on each of these streams and queues it;
the events are looked at by later calls of malloc, and waited for when memory
runs out. The free may be of another device than the thread's: insert_events
makes the device of each stream current in turn, and the wrapper around it goes
back. A copy of a view that is not contiguous asks the optimizers in turn, or takes
from the cache the one that an equal view had. Operators find their stream and their device through the device
context, hand their parameters to a command, and run it directly on the stream.
An operator that runs out of memory empties the cache of the device and runs
again. (The task queue, which would run commands in a thread of its own, is
compiled and registers its callbacks, but nothing in the tree creates a
`Repository`.)

What makes each one correct:

* Device allocator: memory is never handed out twice, nor while a stream still
  uses it, nor given back to the driver while it is used; no block is leaked;
  free neighbours are merged; out of memory is raised only when nothing can be
  given back; a limit is kept, by a program that sets it between its calls; the statistics are exact; each call ends.
* Front end: a block has one owner, among the table, threads half way through a call,
  queues of events and device allocators; it is handed out when its users are done, on every
  device; memory goes back to a device when nothing uses it, whichever device the thread is on;
  an event is used by one block at a time and stays on its device; no free leaves a thread on another device.
* Views: whichever optimizer takes a view, it copies the elements of the view, in order; the
  cache changes nothing, although copies inside of copies fill it; the storage is large enough.
* Task queue: tasks run once and in order; nobody sleeps for ever; after an
  error nothing runs and everything is released; MakeSureQueueEmpty means empty.
* Device context: an operation runs on the device its guard chose; leaving a
  guard restores the device.
* Stream pool: identifiers denote one stream; counters stay in range.
* Peer access: enabled pairs, cache and counts agree.

The `hazards` of `PROJECT.json` list, line by line, where these can go wrong.

## 2. The modules

| Module | Content |
|---|---|
| `StreamSafeMemory` | What a device allocator promises to the program: the abstract specification. |
| `BlockHeap` | Blocks as values: size classes, splitting, merging. No state; shared by both allocators. |
| `CachingAllocator` | `DeviceCachingAllocator` with segments from `memAlloc` (`expandable_segments:False`). |
| `ExpandableAllocator` | The same with expandable segments: extends `CachingAllocator` and replaces its `SegmentStep`. |
| `BlockHeapProofs` | Lemmas about splitting and merging, and about heaps that are tiled. |
| `CachingAllocatorProofs` | The inductive invariant and the theorems about `CachingAllocator`, last that its free memory is coalesced and that out of memory is the last resort. |
| `StatisticsProofs` | That its statistics are exact, and that it keeps to the limit; the laws of sums over finite sets of blocks. |
| `PromiseProofs` | That it implements `StreamSafeMemory`. |
| `ExpandableAllocatorProofs` | The same for the default mode: the inductive invariant and the theorems about `ExpandableAllocator`, on the lemmas of the modules above. |
| `AllocatorFrontEnd` | `DefaultCachingAllocator`: the table of pointers, the pools of events, several threads on several devices. |
| `AllocatorFrontEndProofs` | Its inductive invariant and the theorems about it. |
| `ContiguousOpt` | The optimizers that copy a view, each with the test by which it recognises one. No state. |
| `ContiguousCache` | The table of them, and the cache as a value: a hit, what is stored, what a copy with the cache does. No state. |
| `CombinedOpt` | The optimizer that copies twice, through the cache, and the table of all of them. No state. |
| `ViewCopy` | A storage, its description, a view, the cache: the operations that make views or redescribe the storage, and the copies of copy_, contiguous and clone. |
| `ViewCopyProofs` | The laws of sizes and strides, the optimizers that copy exactly, the inductive invariant and the theorems about `ViewCopy`. |
| `TaskStream` | What the task queue promises: tasks run in order, once, and not after a failure. |
| `TaskQueue` | `Repository`: producers, waiters and the consumer, one access to shared memory at a time. |
| `TaskQueueProofs` | Its inductive invariant, the theorems about it, and that it implements `TaskStream`. |
| `MCCachingAllocator`, `MCExpandableAllocator`, `MCAllocatorFrontEnd`, `MCViewCopy`, `MCTaskQueue` | The instances for TLC. |

### From the code to the model: the allocator

*One call at a time.* Every public method of `DeviceCachingAllocator` holds
`mutex` from start to end, so that one call is in progress: `call` holds its
`AllocParams` and its progress, `pc` the step it has reached, `"idle"` when the
mutex is free. `free`, `recordStream` and `eraseStream` are single steps,
since nothing they do can be seen half done. `malloc` and `emptyCache` take many,
because they loop, and because two things do not respect the mutex: the
streams of the device (`DeviceRuns`) and `setMemoryFraction`, both of which
may come between any two steps.

*Sizes* are counted in units of 512 bytes, the allocator's own smallest block;
`round_size` is the only place with bytes. The real constants (2 MiB, 20 MiB,
1 MiB, 10 MiB) are used, so that the size classes and their boundaries are
those of the code.

*Blocks.* `blocks` maps the address of each `Block` object to the block.
`prev` and `next` are not stored: two blocks are linked when they touch and have
the same segment (`Linked`). That this is enough is what `SegmentsTiled` says:
the chain of a segment has no gap. `cached` is the union of the `blocks` sets
of the two pools, `active` is `active_blocks`, `unmapped` the union of the
`unmapped` sets. The ordered sets are modelled by their comparison (`Precedes`)
and `lower_bound` by `Best`.

*Events.* `npu_events[s]` is the queue of stream `s`; an event is represented by
the block it was recorded for. `completed[s]` says how many of them the device
has passed, and `query()` reads it. `work[s]` is what the events stand for: the
freed ranges that unfinished work of `s` still touches. The allocator never
looks at `work`; it is there so that the properties can speak of real use of
memory and not of the allocator's book-keeping. `unsynced` serves the same end for
the block's own stream, for which the allocator records no event: it notes
segments freed into since the last `deviceSynchronize`.

*malloc* is, in order: `process_events` (`ProcessEvents`), `get_free_block`
(`GetFreeBlock`, `NoFreeBlock`), `garbage_collect_cached_blocks` (`CollectRound`,
`CollectBlock`, `CollectDone`), `alloc_block` (`WithinLimit`, `AllocBlock`, `AllocBlockFails`),
`release_available_cached_blocks` (`ReleaseFitting`, `ReleaseLargest`,
`ReleaseSomeDone`), `alloc_block` again, `release_cached_blocks`
(`SynchronizeEvent`, `ReleaseCached`, `ReleaseAllDone`), `alloc_block` for the last
time, and then `alloc_found_block` (`AllocFoundBlock`) or the error
(`OutOfMemory`). With expandable segments `alloc_block` is `FindRoom` or
`ReserveSegment`, then `MapBlock` until `MapDone`, with `ExpandFails`; and
`release_blocks` is `GatherToUnmap`, `UnmapBlock`, `UnmapDone`. `map` of
`PROJECT.json` gives the lines of each definition. The test of the limit (`WithinLimit`) and memAlloc with the update of
the total (`AllocBlock`) are two steps, with `setMemoryFraction` possible in between. A round of garbage
collection that finds no block old enough ends it, as `block_freed` does.

*deviceSynchronize* waits for the device the calling thread is on (`NPUFunctions.cpp:58`). The modules of the device
allocators take this to be their own device, which holds of malloc: the front end takes the allocator of the current
device. emptyCache of the front end calls it for devices the thread is not on; that is a question of `AllocatorFrontEnd`
(`SafeRelease`). With expandable segments `unmapHandles` also waits for the stream of the
segment (`SynchronizeStream`), whatever the device.

*The driver* may refuse memory at any moment, since the device is shared with
other processes, and places a segment at any base of `Bases` that is free.

*Options* are read once from the environment: they are CONSTANTS, and
`ConfigAssumption` states what the parser of the options enforces.

*StreamSafeMemory* has ranges the program holds (`live`), the streams recorded
on them (`uses`), unfinished work on freed ranges (`work`) and the stream that
used a piece of memory last (`tail`). Its `Allocate` demands that the new range
overlaps none that is held, none that unfinished work uses, and reaches into
memory last used by another stream only after a synchronization of the device.
Which addresses and sizes are chosen is left open. The allocators implement it
under the mapping at the end of `CachingAllocator` (`Memory`): a free that has to
wait for events and one that does not are both `Release`.

### From the code to the model: the front end

*Two locks.* `allocated_blocks` has its mutex, each device allocator has its own, and no
call holds both. A call is a step under the one and a step under the other, with `call[t]` saying
where thread `t` stands: malloc is `DeviceMalloc`, then `AddAllocatedBlock`; free is `FreeLookup`,
then `DeviceFree`, and if other streams have used the block, an `InsertEvent` for each of
them and `InsertDone`. `owner[d]` is the thread that is inside insert_events of device
allocator `d`; all other calls of that allocator are one step and wait for it. insert_events is taken
event by event because two device allocators may use the pool of one device at
the same time. `emptyCache` is a step per device.

*Device allocators* are what `CachingAllocator` says of them, with whole segments for blocks: a
block that is freed waits for its events or is cached for its stream, malloc first takes out
the events that have completed (`Ready`, `Take`, `Settled`) and then finds a cached block of the
stream or new memory, `release_cached_blocks` waits and gives back what is cached. It waits for the device the
thread is on, for the events of the allocator, and in `unmapHandles` for the stream of the memory that is
unmapped (`StreamsIdle`). This is the default mode. Without expandable segments memory goes back by memFree, of
which the comment at `CachingAllocator.cpp:403` says that it synchronizes, unlike memUnmap; what the vendor's
function does is not in the repository, and the same wait stands for it. Sizes,
splitting and what happens when memory runs out are in `CachingAllocator`.

*Events* are values here. `PoolGet` is any event of the pool, or one that is new, `device_index` is what
`NPUGuardImpl::record` remembers and checks. An entry of a queue keeps the pool its event was
taken from, as the deleter of the pointer does.

*Devices.* `context[t]` is the current device of the thread, which `insertEventWrapper` changes and
restores. `setMemoryFraction` changes it too and does not restore it (`CachingAllocator.cpp:2200`;
`Memory.cpp:28` and `memory.py` have no guard either): after it the thread is on the device whose limit it set. `chosen[t]`
is history: the device the thread set itself, by either, or first allocated on.

*Work* of a stream is the sequence of what it has not run yet: uses of memory, and recorded events.
An event has completed when it is in no stream any more. The program frees a pointer it holds, once, when
every stream that may still use it is the block's or recorded (`MayFree`), and does not use a pointer in
one thread while it frees it in another.

### From the code to the model: views

*A copy is the places it reads.* What is in memory does not matter: an operator of the device is modelled by the
sequence of places of the storage it copies from, and a copy is right if these are the
places of the view's elements (`Elements`). Each `can_use_...` operator is the test of an optimizer and
returns the parameters it extracts, each `..._to_contiguous` the places read with them.

*Description and view.* `storage.base` is `npu_desc_`, the sizes and strides the storage was last described with, and
`view` the tensor in hand. Views change only the view; an operand (`AsOperand`), `resize_` and the
`set_` inside a combined copy change the description. A tensor is at first the whole of its storage.

*The combined optimizer* infers a first view, copies it into a new storage, or redescribes the storage when
the first view is all of it, and copies the second view out of that with one of the plain optimizers. Its
two copies are composed (`ThroughTransfer`). It may enlarge the storage, and does so also when it then fails
(`PlacesAfter`).

*A copy* takes the path of the code. copy_ to a destination that is as it was made (`fresh`, which is `CheckClone`)
tries reshape and slice first, without the cache (`copy_d2d_dtype_format`), and goes to `copy_d2d_dtype_baseformat` when neither
applies. clone, which is also what contiguous() calls, tries the same two with the cache.

*The cache* is found by a hash of few values, so that different views have the same: an entry is used if its
description is equal. `params` are those found when it was stored. The two copies of a combined one go the same way as
any other (`CopyByGivenCases`): each looks its own description up and may store a slice or a permutation under it,
although the storage is described so only for the time of that copy, or belongs to a tensor that is gone afterwards. What is
stored depends on the order: a slice or permutation stores its entry before it copies, a combined copy after,
over what its own copies may have put at that hash. Whether there is room is asked before any of them
(`ContiguousOpt.cpp:162`), so that a combined copy whose own copies take the last place leaves the cache one entry over
`CachedMaxSize`; it is never further over (`TypeOK`).

*Left out:* formats other than ND, which tensors of at most three dimensions do not have
(`MaxDims`); types, since a copy with a conversion goes by another path; the
`reshapeV2` branch, which makes a new tensor; tensors on the host.

### From the code to the model: the task queue

*One access at a time.* Nothing in `Repository` is atomic but the status, and the
consumer takes no lock. Every action of `TaskQueue` is therefore one read or one
write of something shared: an index, a `working` flag, `need_empty`, the status, an
eventfd. `pc[t]` says where thread `t` stands in its call, `consumer` where the
consumer does. Where a protocol needs a write to be seen before a read (a flag is cleared
and the ring looked at again; an index is moved and a flag looked at) the code has a full fence
(`__sync_synchronize`) in between, which is what makes interleaving these steps a faithful
picture of it. There is none after `SetReadWorking(true)` and `SetWriteWorking(true)`: seen late,
these cost a signal that was not needed, which the model has as well, since a flag may
change between the test and the signal. Two reads in one condition are one step where only one of
them can change the outcome.

*Locks.* `mu_enqueue` is held from the test of `IsFullQueue` to the move of the index:
while a thread is at `publish` no other enters `WriteQueue`. `mu_empty` is held in
`double`, `await` and `clear`, that is also while its holder sleeps.

*Sleeping.* An eventfd is a Boolean: reading resets its counter to zero and the value
read is not used. A thread that reads one that is not set waits. `EINTR` and errors
of these calls are left out.

*Executing* a task is `Succeed` or `Fail`; what is executed is what the slot holds at
that moment. Releasing reads the slot again, and moving the index is a step of its own.
`ReportError` sets the status, resets the index and signals two eventfds one after
another, and anything may come between.

*The program* calls from `Producers` and `Waiters`; the same thread may be both. It may
destroy the queue when nobody is in a call (the condition of any destructor), if
`Shutdown`. `sent`, `ran`, `released`, `failed` and `mark` are history: no guard reads
them.

*TaskStream* accepts tasks while there is room, executes the next one accepted, or
fails; after that it executes nothing. `TaskQueue` implements it with the ring one
place smaller than its capacity; the queue is handed over by `Publish`, and not
where the content is written.

## 3. What is checked

All of the runs together take about ten minutes on two cores; the longest, `front_end`
and `view_copy`, one or two each.

| Run | Instance | Question |
|---|---|---|
| `segments` | 2 streams, 22 MiB device with 2 places for a segment, requests of 1000 B and 5 MiB, 3 blocks in use | heap, pools, events, statistics, out of memory, promise |
| `options` | `max_split_size_mb:21`, `garbage_collection_threshold:0.5`, a limit of 30 MiB set between calls on a 44 MiB device, requests just above 1 MiB and 20 MiB and of 40 MiB | oversize blocks, the limit, garbage collection, promise |
| `returns` | everything on, the limit set at any time, 1 stream | each call returns |
| `expandable` | 2 streams, 40 MiB device, 2 ranges, requests of 1000 B, 5 MiB, exactly a chunk, two chunks, more than a range | the default mode: blocks, chunks and ranges agree |
| `expandable_returns` | 1 stream, 3 ranges | the loops over map and unmap end |
| `expandable_limit` | 1 stream, a limit of 30 MiB set between calls, requests of 5 and 25 MiB | violation, see section 5 |
| `front_end` | 2 threads, 2 devices with a stream each, 2 addresses of the first, 4 events, 2 streams recorded at a time | one owner, safe reuse and release, events and their pools, current device |
| `view_copy` | tensors of 2,1,2 and 3,2, up to 4 operations, resized to 2,2 or 6, a cache for one entry (two with a combined one), three hashes | every optimizer copies what it should, cached or not; the storage suffices |
| `view_copy_exact` | a tensor of 2,2,2, up to 3 operations, no cache | violation, see section 5 |
| `task_queue` | one thread that enqueues and waits, ring of 4, 5 tasks, any may fail | order, release, nobody sleeps for ever |
| `queue_empty` | a thread that enqueues, one that waits, ring of 2, 2 tasks, any may fail, the queue is destroyed | an empty queue is one whose tasks have run; waiting and destruction end |
| `queue_error` | one thread, ring of 2, 2 tasks, any may fail | violation, see section 5 |

**Types.** The type invariants of the default mode (`TypeOKE`) and of the front end (`TypeOK`) are in no run, because they are proved
(`TypeCorrectE`, `TypesHold`).

**Safety.** `NoOverlap` and `SegmentsTiled`: splitting and merging neither lose
nor duplicate memory. `PoolsPartition`: a block is in its pool, active, or in the
hands of malloc, and nowhere else. `Coalesced`: free neighbours are one block;
it needs every path by which a block becomes free to merge both ways.
`EventsCounted`: `event_count` is the number of queued events, whatever the order
in which events complete, are popped, synchronized or erased. `StreamSafe`: memory
that a stream still works on belongs to a block that is active and whose extent
is unchanged. `StatsExact`: the statistics, kept by increments, equal a recount.
`OomIsLastResort`: when the error is raised, no event is outstanding and
everything cached shares its segment with memory in use.
`OversizeIsWhole`: with a `max_split_size`, a cached block of that size or more is a
whole segment; `release_available_cached_blocks` relies on this without testing
it, and it is true only because sizes above 10 MiB are rounded up to 2 MiB
while the limit is a multiple of 1 MiB above 20. `HandlesAgree`: exactly the
chunks that mapped blocks touch are mapped, and unmapped blocks are whole chunks.
`MapsUnmappedOnly`: the loop that maps what follows a candidate never meets
the end of a segment or a block in use; the code dereferences `next` without
a test. `OomIsLastResortE` is `OomIsLastResort` for chunks.

Of the front end: `OneOwner`: a block is in the table, or carried by one thread, or waits for events, or is
with its device allocator. So malloc returns no pointer that is in use, although the block enters the
table after the device's lock was left, and free and recordStream find what the program holds.
`SafeReuse`: a block malloc may hand out is used by no outstanding work of another stream; the
completed events are a prefix of each queue, and a block is in one queue per stream.
`EventsOwned`: an event is in one queue or one pool, that of the device it was recorded on, and
a freed block is never forgotten. `DeviceKept`: a thread that is in no call is on the device it has settled on, which only
setDevice, its first malloc and setMemoryFraction change; no free leaves it on the device of a stream it recorded an event on.
`SafeRelease`: memory that is back with its device is used by no outstanding work. emptyCache goes over all devices and
waits for the one the thread is on, so that for the other devices this rests on the events and on the wait for
the stream that unmapping has.

Of the views: `CopyOfViewExact`: a view made by narrowing, selecting, transposing, expanding and squeezing the described
tensor, in any order, is copied exactly, by whichever optimizer takes it. `CacheTransparent`: a copy reads what its
optimizer would read of the view as it is now, had nothing ever been stored, whatever copies of other views, and
copies inside of combined ones, have left in the cache. `NeverNested`: no copy inside of a combined one finds an entry
of a combined copy. The code passes `OpenCombined = false` there "to avoid recursion" (`combined_opt.cpp:138`), which keeps the
optimizer from being tried, but not a stored one from being used. `StorageHolds`: the
storage holds the view and its description after every resize, and no copy reads outside of it.

Of the task queue: `ReleasedInOrder`: the parameters of every task go to
the release queue in order and once, also when the error path takes over in the
middle. `EmptyMeansExecuted`: when MakeSureQueueEmpty has seen an empty ring,
everything sent before it was called has been executed, unless a task failed;
a signal left over in `efd_empty` must not pass for that.

**Refinement.** `KeepsOrder`: `TaskQueue` implements `TaskStream`, so that no slot is
overwritten before it was executed, nothing is executed twice, and nothing after an error.
`KeepsPromise`: both allocators implement `StreamSafeMemory`. In
`options` this is the question whether the memory that the middle
rungs give back is still in use, by any stream.

**Action properties.** `LimitHeld`: memory is not obtained beyond the limit, what is held being counted from the blocks, so
that `total_allocated_memory` must have been right through every release before. It is claimed of a program that sets
the limit between its calls (`OneThreadSpec`, in which `allowed` keeps its value while a call is in progress). It is false of one that lowers
it in one thread while another is between the test and memAlloc: `setMemoryFraction` takes no lock, and the limit is then
exceeded by one segment. `returns` has this interleaving, and the theorems about `Spec` (`KeepsPromise` and `OversizeIsWhole` among them) cover it. `CacheTransparent`, above, is the
other one.

**Liveness.** `CallReturns`: garbage collection, the releasing loops and
the retries end, and a call that took the mutex returns, also when the limit changes under it: a retry
that fails must end in the error and not in another retry. `CallReturnsE` says it of
the expandable mode, as long as there are addresses to reserve.
The fairness is weak fairness of the steps of the call in progress: the
thread that holds the mutex keeps running. It is one condition on their
disjunction, because it is one thread. Nothing is assumed of the program, which
may stop calling, nor of the device, whose work may take for ever: the code
looks at events without waiting, except after `deviceSynchronize`, which returns
when everything submitted is complete and is one step of the model.

`EnqueueReturns`: a thread that found the ring full is woken, also by an error.
`TasksRun`: the consumer does not sleep over a ring with tasks. `EmptyReturns`:
MakeSureQueueEmpty returns, unless a task failed. `DestroyReturns`: the consumer sees that it
must leave, wherever it is. The fairness is that every thread that is inside the queue keeps
running (weak fairness of `Continue(t)` for each, and of `Dequeue`), which includes that executing a task
ends. A thread is never obliged to call. Weak fairness suffices since every thread is
sequential, and an eventfd that one thread waits for is read by no other.

**Bounds.** `MaxActive` bounds the blocks held by the program or waiting for events;
it guards `Malloc` only. `MaxAge` is where `gc_count` saturates: ages are only compared
with their average, and what matters is that blocks of different ages exist.
`Bases`, `DeviceMemory`, `Requests` and `Fractions` are small sets. Two segments
are enough for all that happens between segments (none is ever merged with
another); three blocks in one segment are enough for a merge on both sides; two
streams are enough for a pool per stream, for events completing in either order,
and for `eraseStream` in the middle of a queue. The requests of each run sit on
the boundaries of the size classes the run is about. Streams are interchangeable, so
the safety runs of the device allocators use them as a symmetry set; the runs for liveness have one stream
and no symmetry. Deadlock is checked in the native mode, where some step is
always possible. In the expandable mode a request may find every range of the
small set `Bases` reserved (`NoAddressesLeft`), which cannot happen with the
addresses of a real device; only there the check for deadlock is off.

For the front end, two threads are enough for each pair of calls to meet between the two locks, two
addresses for one to be reused while the other is on its way, and a stream on each device for an
event of another device than the block's. `MaxWork` bounds the kernels that wait on a stream,
`MaxRecorded` the streams that are recorded and not yet done with, so that `Events` has
enough of them. With both addresses on one device two threads meet in one device allocator; that the device allocators
fill and empty each other's pools of events correctly is left to `EventsOwnedHolds`, which allows memory on any device. Threads and addresses are interchangeable. The theorems of section 4 hold for any number of all of
these.

For the views, `MaxOps` bounds the operations other than copies, `MaxDims` and `MaxNumel` the size of a
view. Two of the operations and a copy reach every optimizer, the combined one included; three are needed
for a description that another operation has left. The sizes of `Bases` have a dimension of size 1, and equal and
unequal ones. Deadlock is not checked: clone may divide by zero (section 5), and a process that has does nothing more.

For the queue, `MaxTasks` bounds what is enqueued and `Capacity` replaces 4096. A ring of 4
with 5 tasks fills up, empties, and wraps around; a ring of 2 has one usable place, so that every
second Enqueue finds it full. `task_queue` has one thread because the comment on
`mu_enqueue` (`NPUQueue.h:130`) says that callers are serialized; `queue_empty` has two because
`mu_empty` exists. There the system may really stop, once all tasks are
enqueued, the consumer has left after an error, or the queue is destroyed:
deadlock is not checked, and that nobody is stuck is said by the liveness properties.

Every property has a mutant in `PROJECT.json`: a plausible slip in the code (an
event that is not counted down, a merge in one direction only, a missing
`deviceSynchronize`, a test that leaves out what is about to be obtained) that
makes the run fail.

## 4. What is proved

`CachingAllocatorProofs` proves, for all values of the constants, with
`ConfigAssumption` and `EnvironmentAssumption` as the only assumptions:

| Theorem | Statement |
|---|---|
| `Invariance` | `Spec => []IInv` |
| `TypeCorrect` | `Spec => []TypeOK` |
| `BlocksDisjoint` | `Spec => []NoOverlap` |
| `SegmentsCovered` | `Spec => []SegmentsTiled` |
| `BlocksAccounted` | `Spec => []PoolsPartition` |
| `EventCountExact` | `Spec => []EventsCounted` |
| `MemoryWaits` | `Spec => []StreamSafe` |
| `OversizeCachedWhole` | `Spec => []OversizeIsWhole` |

On top of `IInv`, from the same assumptions, `CachingAllocatorProofs` (the first three), `StatisticsProofs` and
`PromiseProofs` prove:

| Theorem | Statement |
|---|---|
| `FreeInvariance` | `Spec => [](IInv /\ FreeInv)` |
| `FreeMemoryCoalesced` | `Spec => []Coalesced` |
| `OutOfMemoryIsLast` | `Spec => []OomIsLastResort` |
| `StatisticsExact` | `Spec => []StatsExact` |
| `LimitRespected` | `OneThreadSpec => LimitHeld` |
| `SyncInvariance` | `Spec => [](IInv /\ SyncInv)` |
| `PromiseKept` | `Spec => KeepsPromise`, the implementation of `StreamSafeMemory` |

`ExpandableAllocatorProofs` proves them of the default mode. To the two assumptions comes `ModeAssumption`, that
`expandable_segments` is on, which is what `ExpandableAllocator` is about:

| Theorem | Statement |
|---|---|
| `InvarianceE` | `SpecE => []EInv` |
| `TypeCorrectE` | `SpecE => []TypeOKE` |
| `RangesCovered` | `SpecE => []SegmentsTiled` |
| `BlocksAccountedE` | `SpecE => []PoolsPartition` |
| `FreeMemoryCoalescedE` | `SpecE => []Coalesced` |
| `EventCountExactE` | `SpecE => []EventsCounted` |
| `HandlesExact` | `SpecE => []HandlesAgree` |
| `OnlyUnmappedMapped` | `SpecE => []MapsUnmappedOnly` |
| `OutOfMemoryIsLastE` | `SpecE => []OomIsLastResortE` |
| `StatisticsExactE` | `SpecE => []StatsExact` |
| `PromiseKeptE` | `SpecE => KeepsPromise`, the implementation of `StreamSafeMemory` |

`AllocatorFrontEndProofs` proves, for any number of threads, devices, streams, addresses and
events, from `FrontEndAssumption`:

| Theorem | Statement |
|---|---|
| `Invariance` | `Spec => []IInv` |
| `TypesHold` | `Spec => []TypeOK` |
| `OneOwnerHolds` | `Spec => []OneOwner` |
| `SafeReuseHolds` | `Spec => []SafeReuse` |
| `EventsOwnedHolds` | `Spec => []EventsOwned` |
| `DeviceKeptHolds` | `Spec => []DeviceKept` |
| `SafeReleaseHolds` | `Spec => []SafeRelease` |

`TaskQueueProofs` proves, for any number of producers and waiters, any capacity above one and any number of
tasks, from `QueueAssumption`:

| Theorem | Statement |
|---|---|
| `Invariance` | `Spec => []IInv` |
| `TypeCorrect` | `Spec => []TypeOK` |
| `EmptyMeansAllExecuted` | `Spec => []EmptyMeansExecuted` |
| `ReleasesInOrder` | `Spec => [](Orderly => ReleasedInOrder)` |
| `ReleasedInOrderWhenCalm` | `Spec => []ReleasedInOrder`, if `Calm` |
| `KeepsTheOrder` | `Spec => KeepsOrder`, the implementation of `TaskStream`, if `Calm` |

`Calm` says that no task fails or that the queue is not destroyed, and the run `task_queue` has it. Without it
`KeepsOrder` is false: between the break on `ERROR_EXIT` and the test at the top of
`StartConsume` (`NPUQueue.cpp:514`) the destructor may replace the error by `NEED_EXIT`, and the consumer
goes round once more and executes what was enqueued after the failure. `Orderly`, in
`ReleasesInOrder`, is the weakest form of that condition: no failed queue is being destroyed *now*.

`ViewCopyProofs` proves, for tensors of any sizes and any number of dimensions, any limits and any number of
hashes, from `ViewAssumption`:

| Theorem | Statement |
|---|---|
| `ShapesAlways` | `Spec => []Shapes` |
| `KeptAlways` | `Spec => []Kept` |
| `ViewTypes` | `Spec => []TypeOK` |
| `CacheIsTransparent` | `Spec => CacheTransparent`, for every copy, the combined ones included |
| `ExactCopies` | `CopyExact` of every copy whose case is not select, indexing or combined (or a process that has divided by zero) |
| `StorageSuffices` | the first two parts of `StorageHolds`, and the third of every copy whose case is not combined |
| `PlainCopiesExact` | `CopyOfViewExact` of every copy whose case is not combined |

### The device allocator

The inductive invariant is `IInv == SharedInv /\ AllMapped /\ SegmentCall`, with
`SharedInv == HeapInv /\ QueueInv /\ CallInv /\ CountInv`. `SharedInv` holds in both modes: the lemmas
about the program's calls, the common steps of malloc and the device assume nothing else, and
`ExpandableAllocatorProofs` uses them again. None of its parts is inductive alone:

* `HeapInv`. The segments are tiled by their blocks (`Tiled`, with `Whole` for a
  segment that is one block) and `PoolsPartition` holds. Releasing a block gives
  back the segment at its address, which keeps the tiling only if the block is
  the whole segment. `CollectBlock` and `ReleaseCached` test that;
  `ReleaseFitting` and `ReleaseLargest` do not, and need `SplitBounded`: a segment
  more than 1 MiB above `max_split_size` is never split. `SmallSegments` and the lower
  bound on large blocks rule out the other pool.
* `QueueInv`. `event_count` is a cardinality (`EventsOfActive`), the queues have no
  repetition, and the i-th piece of unfinished work is the one that the i-th
  outstanding event stands behind (`WorkBehindEvents`). `free_block` is called for a
  block whose count reaches zero: that this block is active, freed and named
  in no other queue is this part.
* `CallInv`. What the call has found out is still true when it uses it: the
  block found is large enough and of the right stream and pool, the ladder is on a rung it can be on.
* `CountInv`. The remaining variables are of their types.
* `AllMapped` and `SegmentCall` are what sets the mode without expandable segments apart: a
  segment from `memAlloc` has no unmapped block, and the blocks to be collected are still whole segments
  when they are.

The lemmas go by operation: `BlockHeapProofs` shows that splitting, merging on either
side, a new segment and a released one keep `Tiled`;
`CachingAllocatorProofs` has a lemma per action for the heap (`FreeBlockKeeps`,
`AllocFoundBlockKeeps`, `ReleaseKeeps`, ...) and for the queues (`DequeueKeeps`,
`EraseStreamKeeps`, `FreeUsedKeeps`, ...), and puts them together for `Program`,
`CommonStep`, `SegmentStep` and `Device`. `IInv` was checked by TLC on the instances of
`segments` and `options`.

`Coalesced` and `OomIsLastResort` need `FreeInv == Separate /\ LastResort`, which TLC found invariant on both
instances too. `Separate` includes the block that malloc has taken out of its pool, because what remains of it
returns to the pool when it is cut. It is kept for two reasons. `free_block` merges a block with both of
its neighbours: a free block next to the merged one would have been next to a block it absorbed, and those were
free and apart (`FreeBlockSeparates`). And `alloc_found_block` gives the right part back and keeps the left part: what is
next to the remainder was next to the block found (`AllocFoundSeparates`). `LastResort` is that
`release_cached_blocks` empties the queues and leaves no whole segment, and that this is still so
when the error is raised: the mutex is held, and neither the device nor `setMemoryFraction`, which do not wait for it,
touches the cache.

`StatsExact` compares numbers that are kept by increments with cardinalities and sums. `StatsInv` says the same by
`Tally(heap, set, number, bytes)`, for the sets the statistics count: blocks used, active, mapped, and idle in a
split segment. The laws of `Tally` (`TallyAdd`, `TallyRemove`, `TallySwap`, `TallySame`) come first. The sum of the sizes is a
fold, a recursive function on the subsets of a set; `SumExists`, `SumUnique` and `BytesStep` give its recursion, and
`BytesRemove` that the order does not matter, each by induction on the size of a set. The induction theorems of the library cannot
be cited, so the lemmas reason on a least counterexample (`FiniteSetInduction`). The operations then have a lemma each. `free_block`
is the subtle one: the code adjusts `inactive_split` by how many of the neighbours it absorbed were split parts
themselves, and by whether the result is a whole segment (`FreeBlockCounts`). `HandsOutCounts` is the same
question when a block is cut or handed out whole. For segments, `release_block` may only subtract because the block
is a whole one (`ReleasedUnsplit`), which is again `SplitBounded`.

The refinement maps `live` and `uses` to the active and allocated blocks, `work` and `tail` to `work` and
`unsynced`. `SyncInv` couples them with the heap: what was used since the last synchronization is a segment the
allocator holds, for that stream (`UnsyncedHeld`), segments are apart, and `unsynced` is empty whenever the
malloc ladder is about to give segments back (`SyncedFirst`). Then `Allocate` is allowed when `alloc_found_block`
hands out a block: it is apart from the blocks held by `Tiled`, from unfinished work by `StreamSafe`, whose blocks are
active, and from what other streams used last because it lies within a segment of its own stream
(`AllocFoundSeen`). `FreeSeen`, `RecordSeen` and `EraseSeen` are the other steps the program sees;
splitting, merging, events and segments are stutters (`Unseen`), for which a merge must leave the stream of a segment's
first block alone (`FreeBlockStreams`).

### Expandable segments

`EInv == SharedInv /\ Separate /\ PhysicalInv /\ PhaseInv` was checked by TLC on the instance of `expandable`
before it was proved.

* `PhysicalInv` relates blocks, chunks and reserved ranges. Ranges do not overlap (`SegmentsApart`), have
  the size that is reserved for their pool (`Reserved`), and unmapped blocks are whole chunks (`Aligned`) and never
  neighbours (`SeparateUnmapped`). A chunk has a handle exactly if no unmapped block covers it (`HandlesInv`), and
  `total_allocated_memory` is the size of a chunk times the number of mapped ones, for each of the two sizes
  (`TotalInv`). `HandlesAgree` compares the handles with the chunks that mapped blocks touch; that
  the two agree needs that every address of a range is in one of its blocks (`Covered`) and that
  no chunk is touched both by a mapped and by an unmapped block (`TouchedChunks`).
* `PhaseInv` is about a call that maps or unmaps. `Candidate` says that the memory the call is after begins with
  the candidate block, lies in its segment and is held by nobody. `UnsyncedHeld`, `SynchronizedE` and `LastResortE`
  are what `SyncInv` and `LastResort` are in the other mode.

`map_block` and `unmap_block` are the same operation seen twice: cut the middle out of an idle block,
turn it into the other kind, merge it with both neighbours. `Carve` is the cut, `Merged` the merge and `Moved`
what the heap is after both, with the kind as a parameter, so that tiling, separation and alignment are
proved once. `Dropped` is the other end of `unmap_block`: the merged block is a whole segment and goes.

Two arguments are not local. The loop of `try_allocate_expandable_block` follows `next` without a test. A
candidate that was found has room for the request up to the end of its segment, but a new range is reserved
without regard to the request, and may be the smaller of the two. It is one unmapped block then, so that the first
`map_block` asks for all of it, and a range is larger than the device (`ReservedSize`): the driver refuses, whatever
`total_allocated_memory` has counted (`TargetInside`, `CandidateMaps`). This is where the proof needs that a device has
memory at all (`DeviceMemory > 0`). And `release_blocks` goes round only once, before the last retry. Cached blocks that are
left have no chunk of their own (`Chunkless`), so the retry maps all it needs in one step or nothing
(`MapReaches`): malloc cannot have obtained a chunk that it then leaves cached when it raises the error.

The statistics are those of `StatisticsProofs`, with the steps the two modes share. `CarveGain` adds what a cut makes mapped or
unmapped, and `CoalesceMapped` that the merge after it changes nothing (`MovedCounts`, `DroppedCounts`).

The refinement is that of the other mode; mapping, unmapping and reserving are stutters.

### The front end

`IInv` has a part for each of the properties and three that carry them.

* `WorkInv` is what makes `SafeReuse` inductive. Every use of memory by a stream that has not run is
  accounted for: the program holds the memory, or the stream is the block's own, or a thread that is
  freeing the block has still to record the stream (`ToRecord`), or an event queued for the block is
  behind the use in the stream (`Guarded`). A free moves a use from the first to the third, an
  `InsertEvent` from the third to the fourth; an event that is taken out has completed, so that no use is
  left in front of it (`TakeKeepsGuard`).
* `QueueInv` and `CountInv` say that a queue names a block once, so that the number of queues a block is
  taken out of is what `Settled` subtracts (`SettledBlock`).
* `CallInv` says that a thread in insert_events owns the device allocator of its block. This is why
  process_events of another thread never frees a block of which only some of the events are queued yet
  (`AfterTake`), although each `InsertEvent` lets other threads run.

`TakeQueues`, `TakeNamed`, `TakeKeepsEvents` and `AfterTake` are about taking events out of the queues, which
malloc and emptyCache share; then there is a lemma for each action, and `StepKeeps` puts them together. `ReadyPrefix` shows that
the count of completed events is the length of a completed prefix. The proof needs nothing of
`PoolGet` but that what it returns is queued nowhere and in no other pool (`PoolGetFresh`).

### The task queue

`IInv == TypeOK /\ CallInv /\ StatusInv /\ SlotInv /\ OrderInv /\ MarkInv` was checked by TLC on the
instances of `task_queue` and `queue_empty` and on one with two producers, failures and a destructor.

* `SlotInv` is about the ring alone: the slots from `read_idx` to `write_idx` hold tasks, the consumer
  holds one of them while it executes or releases it, and the slot that a producer has written but not yet published is
  not one of them. The last needs the test for a full ring to be still right when the index moves: the
  consumer only makes room, and `mu_enqueue` keeps other producers out (`CallInv`).
* `StatusInv` shows that only the consumer moves `read_idx` while it reads. `Throw` resets the index too, without
  a lock (`NPUQueue.cpp:311`), but a thread throws only when it has seen `ERROR_EXIT`, and then the consumer is past its
  drain. This is also why nothing is executed after an error unless the queue is destroyed.
* `OrderInv` couples the ring with the history: as many slots are in use as tasks have been sent and not given back
  (`Passed`), and they hold those tasks in order. After a failure it is needed while the consumer drains
  and not any more once the error is reported, when the indices are made equal by force.
* `MarkInv` adds that what was sent before a call is never unsent. Together with `OrderInv`, an empty ring means
  that everything sent is executed (`EmptyIsExecuted`), whatever is enqueued in between.

`RingGrows` and `RingShrinks` are the arithmetic of the masked indices. `RingSteps` separates the few actions that
do something to the ring (`WriteQueue`, `Publish`, `Throw`, `Succeed`, `Fail`, `Release`, `Drain`, `ReportError`)
from the rest, so that the other lemmas are about those. The refinement maps `Publish` to `Accept`, `Succeed` to
`Execute` and `Fail` to `Fail`, and the rest to stuttering (`StreamNext`).

### Views

The operators of `ContiguousOpt` are recursive functions on the positions of a sequence. What each of them is, for a
sequence of any length, comes from the existence of the function (`StepsExist`), and facts about it by
induction on a *set* of positions (`UpTo`, `DownFrom`), which the provers can use because it needs no operator as a parameter. Then
come the laws of strides: a stride is the size of what is inside of it (`StrideSteps`), strides and sizes
tell the last place (`Telescoping`), and a dimension of size 1 says nothing (`ElementsSame`, `ElementsAppended`).

With these the optimizers that are exact for *every* view can be told from those that are exact
because of where the view comes from. `SliceExact` takes the offset apart and puts it together again (`LocationSum`).
`PermuteExact` needs that the order of the dimensions is a permutation, also of equal strides (`ReorderedPermutes`).
`BroadcastExact` and `ReshapeExact` need only that strides of dimensions of size 1 do not matter. `can_use_select` and
`can_use_indexing` are not among them (section 5): they are exact of a view that is no reshape (below).

`Kept == Shapes /\ CacheHolds /\ CopyHolds /\ Room` is inductive; its parts are not without each other.

* `Room` is about places. A view never reaches further than the view it is made of: each operation has a
  lemma, from `NarrowWithin` to `SplitWithin`, that its places are `Within` those of the last. `resize_` makes room for
  the sizes and the offset, and describes a storage that has grown with at most as many places as it has. A combined
  copy only adds places.
* `CacheHolds`: an entry has the parameters that its optimizer finds for the description it is stored with. A hit
  compares the whole description, so that they are those of the view at hand (`HitIs`). It is kept by what the copies inside of
  a combined one store too, because they store it under the description they were given, and not
  under that of the storage at rest. The bound on the number of entries goes with it: a
  combined copy makes room for itself once, before its two copies, of which the second has none left if
  the first has taken the last (`TypeOK`).

*The cache is transparent* is a statement about steps, since what a combined copy reads depends on how large its storage
was when it began. A copy that goes through the cache is compared with one that does not, from the inside out. A copy
inside of a combined one reads the same whatever the cache holds (`GivenSame`): on a hit the entry has the
parameters of this description, but it may be of another case than the one that the list would try first. So
two optimizers that both take a view must read the same places. Slices and permutations, which are what is
stored, are exact. A view that is both a permutation and a selection is contiguous and all of what
it would be selected from (`SelectsAll`), so that reshape, which comes first, takes it and is exact too. With an
entry of a combined copy the inner copy reads nothing in the model, and the combined one
fails. `SecondSame`, `ThroughSame` and `TwoSame` compose the two copies,
`CombinedSame` the copy with the places of the storage; `RunAfresh` is the result for every optimizer.

`NextSplit` reduces the steps to five: the described tensor is taken up again, a view of the view, an operand,
`resize_` and a copy. A strided slice reads inside of the description whatever its start is (`StridedInside`), because
`end` is cut to the size: hence `StorageSuffices` also for select, where the copy may be wrong, and for indexing.

*Select and indexing.* Both decide by sizes and strides, and are right because of how the view was made: the
invariant `Linear` says that a view which is no reshape is `AtBase`. The base is then contiguous, and the view is
`Embedded` in it: the offset is that of a place `c` of the base, and each dimension of the view either runs along one
dimension of the base, from that place on, by a whole number of steps and without leaving it, or it has size 1 or stride 0;
and no two run along the same. Narrowing moves the place (`MovedEmbeds`), selecting moves it and forgets the
dimension (`RemovedEmbeds`), transposing and expanding relabel the dimensions (`Relabelled`). `AsOperand` and `resize_` keep
it because they call the view a reshape unless it is the whole of the new description. Of an embedded view the offset can be
taken apart into the place by division (`LocationIs`), since in a contiguous base a stride is larger than what lies inside
of it (`StrideBelow`). Hence `IndexingExact`: a dimension that has at least two places and a stride that is a multiple
of the base's stride in its position runs along that dimension and no other (`IndexingAlong`). And
`SelectExact`: the dimensions that are left run along those of the base with the same size and stride, so the place is 0 along
them (`RunsAlong`), and the offset is a whole number of steps along the one that is lacking. Neither holds of an arbitrary view,
which is why the theorem is about a reachable one.

### Not proved

Only model-checked: liveness (the prover has no rule for it here); of `ViewCopy`, what the combined optimizer reads, since it
copies twice, with strides reconstructed from the sizes of a view it has inferred, and `NeverNested`. The theorem
about its copies is that they do not depend on the cache; that it never meets an entry of its own kind is a fact about the strides of
inferred views, of which there is no proof. The theorem does not use it: it says what is read when something is.

## 5. Disagreements between the code and what is said of it

* `queue_error`. MakeSureQueueEmpty throws "The Inner error is reported as above" when a task has
  failed (`NPUQueue.cpp:261`). It may wait for ever instead. The caller enqueues two tasks;
  the first fails when the second Enqueue has tested the status, and
  the second task is published after the consumer has set `read_idx` to `write_idx` (line 311). The
  consumer ends with a task in the ring. MakeSureQueueEmpty waits until the ring is
  empty (line 237) without looking at the status: its first `eventfd_read` (line 242) takes the one
  signal the error has sent, its second never returns. One thread is enough.
* `view_copy_exact`. `copy_d2d_dtype_baseformat` copies a "Discontiguous source tensor" to a contiguous one
  (`CopyKernel.cpp:354`). `can_use_select` compares the sizes and strides of the view with those of the
  storage's description, and takes `offset / base_stride[dim]` for the place of the selection, dropping
  the remainder (`select_opt.cpp:89`). A tensor of sizes 2,2,2, viewed as 2,4 and narrowed to the middle two
  columns, has the sizes and strides of a selection of the middle dimension: its copy is made of the places
  0,1,4,5 of the storage, and should be of 1,2,5,6. It takes a reshape, which is why `CopyOfViewExact`,
  which is about views without one, holds (`PlainCopiesExact` proves it of the single optimizers).
* `expandable_limit`. `set_per_process_memory_fraction` promises an out of memory error for an attempt to allocate more than the
  allowed value (`torch_backend/backend/memory.py:97`). In the default mode the limit is compared with the request rounded
  to 2 MiB (`CachingAllocator.cpp:1743`), and then whole chunks of 20 MiB are mapped for it: under a limit of 30 MiB a
  request of 25 MiB is tested as 26 and leaves 40 MiB allocated. One thread is enough.

Noted, without a run:

* `setMemoryFraction` takes neither the mutex nor care of the thread's device. A limit lowered by one thread between the test
  and memAlloc of another is exceeded by a segment (section 3), and the caller is left on the device whose limit it set
  (`CachingAllocator.cpp:2200`).
* `garbage_collect_cached_blocks` is said not to synchronize, unlike `release_cached_blocks` (line 1674). It calls
  `deviceSynchronize` (line 1702), and has to, as `KeepsPromise` shows.
* The note at the head of the allocator says that blocks of 200 MB or more are not split
  (`CachingAllocator.cpp:60`). `should_split` knows only `max_split_size`, which has no limit by default.
* `can_use_indexing` accepts an end that passes the dimension by less than a step (`indexing_opt.cpp:73` has `end - step > size`,
  where `>=` would be exact).
* The test for a slice divides the offset by every stride of the description (`slice_opt.cpp:119`). An operand that was
  an expanded dimension of size 1 leaves a stride of 0 there, and the process dies of the division: in clone and contiguous(), and in
  copy_ to a new destination, which all try a slice first. The model has it as the last copy of a
  process (`DivideByZero`); it takes a view that is a reshape.

## 6. What is not modelled

In the modelled components: the read-only queries (`getDeviceStats`,
`snapshot`, `cacheInfo`), the peak and accumulated counters, of the statistics
`requested_bytes`, `oversize_allocations` and `oversize_segments`, the trace of
allocations and its contexts, out-of-memory observers, the callbacks that may free memory
(`FreeNPUMemoryCallbacks`: the registry is empty in this tree), exceptions
thrown by the device's event and memory functions other than out of memory, and
the ignored results of `memMap` (both in the list of hazards). Switching
between the two modes with blocks left over cannot happen, since the options are
read once. `int64` statistics do not overflow at these sizes.

Of the front end: the uncached mode (`PYTORCH_NO_MEMORY_CACHING`), in which there is nothing to manage;
exceptions thrown while an event is recorded. That recordStream and eraseStream look a block up under one lock and change it
under the other is one step of the model, because the program keeps the pointer meanwhile. Of the device context: the pending device of
`MaybeSetDevice` and `MaybeExchangeDevice` (nothing in the repository calls them) and the set of devices that have a context, which is
read without its lock (a hazard).

Of the views: the formats of the device other than ND, copies between devices and with a change of type, tensors whose view has another
number of elements than the description and that `reshapeV2` replaces, what a copy inside of a combined one would do with
an entry of a combined one (`NeverNested` says that it finds none), and that the cache is filled by several
threads without a lock (a hazard: what a hash map does then is not defined).

Of the task queue: `ReleaseQueue`, its thread, and that `InitRepo` starts the consumer before it;
interrupted or failing calls on eventfds; `GetPara`, which is for logging. Two things were tried on the model and are kept as hazards, because
nothing in the repository says that they should not happen: with two producers a
wake-up may be lost (the comment at `NPUQueue.h:130` excludes them), and a queue
that is destroyed right after an Enqueue, or right after an error, may drop a task, or run one more
(lines 406 and 514).

The other components are as in section 1. Most of the lines of the repository are kernels
(`OpInterface.cpp`, `KernelNpuOutputSize.cpp`, `aten/ops`) that compute a shape and call the vendor's library, and headers of that
library: they keep no state and no step of theirs can meet another's. A model of them would be a copy of
them, so that the modelled lines stay a small share of the whole.

## 7. Plan

The order is by how much depends on a component and how little tests say of it.

1. *Done.* `BlockHeap`, `StreamSafeMemory`, `CachingAllocator`, its proofs;
   `ExpandableAllocator`.
2. *Done.* `TaskStream`, `TaskQueue` and its proofs.
3. *Done.* `AllocatorFrontEnd` and its proofs.
4. *Done.* `ContiguousOpt`, `CombinedOpt`, `ViewCopy` and its proofs.
5. `ReleaseQueue`, the second ring, which the consumer fills by spinning while a thread
   of its own empties it: composed with `TaskQueue`, everything released is freed, unless an
   error drops it, and the destructor waits for the rest.
6. `StreamPool`: identifiers and counters, with the width of the counter. `OpCommands`: the
   stack of a thread, nested commands, the retry. `PeerAccess`. The generator's offsets.
7. *Done.* The proofs for `ExpandableAllocator`.

## 8. Running it

    tlc -workers 2 -config CachingAllocator.cfg MCCachingAllocator
    tlc -workers 2 -config TaskQueue.cfg MCTaskQueue
    tlc -workers 2 -config FrontEnd.cfg MCAllocatorFrontEnd
    tlc -workers 2 -config Options.cfg MCCachingAllocator
    tlc -workers 2 -config ViewCopy.cfg MCViewCopy
    tlapm CachingAllocatorProofs.tla
    tlapm AllocatorFrontEndProofs.tla
    tlapm StatisticsProofs.tla
    tlapm PromiseProofs.tla
    tlapm ExpandableAllocatorProofs.tla
    tlapm TaskQueueProofs.tla
    tlapm ViewCopyProofs.tla

`tlapm` needs two to four minutes for each of the first two, five for `ExpandableAllocatorProofs`, six for
`ViewCopyProofs`, one or two for each of the others, and half a minute for `BlockHeapProofs`.
