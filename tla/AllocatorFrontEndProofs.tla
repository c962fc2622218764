----------------------- MODULE AllocatorFrontEndProofs -----------------------
(***************************************************************************)
(* The safety of AllocatorFrontEnd, for any number of threads, devices,    *)
(* streams, addresses and events.                                          *)
(*                                                                         *)
(* IInv, the inductive invariant, has these parts beside the types.        *)
(*   QueueInv  the queues of a device allocator name blocks of its device, *)
(*             and a queue names a block once.                             *)
(*   CountInv  the event_count of a block is the number of its queues.     *)
(*   PlaceInv  a block in use is in the table, queued or carried, and what *)
(*             the program holds is in the table.                          *)
(*   CarryInv  a block a thread carries is nowhere else (OneOwner), unless *)
(*             its events are being recorded.                              *)
(*   CallInv   a thread in insert_events has the device allocator to       *)
(*             itself, and the streams still to record are not queued.     *)
(*   WorkInv   work that uses memory is accounted for: the program holds   *)
(*             the memory, or the block's own stream does the work, or a   *)
(*             freeing thread is still to record its stream, or an event   *)
(*             recorded behind the work is queued.                         *)
(*   EventInv  an event is in one queue or one pool.                       *)
(*   ThreadInv what a thread in insert_events goes back to is the device   *)
(*             it has settled on.                                          *)
(***************************************************************************)
EXTENDS AllocatorFrontEnd, FiniteSetTheorems, SequenceTheorems, TLAPS

Entry == [event : Events, pool : Devices, block : Addresses]

\* The streams with an event of p queued, at the allocator of its device.
Named(p) == {s \in Streams : InQueue(npu_events[HomeOf[p]][s], p)}

\* A queue is about blocks of its device, and about each of them once.
QueueInv ==
  \A d \in Devices, s \in Streams : \A i \in DOMAIN npu_events[d][s] :
    /\ HomeOf[npu_events[d][s][i].block] = d
    /\ \A j \in DOMAIN npu_events[d][s] :
         npu_events[d][s][i].block = npu_events[d][s][j].block => i = j

CountInv == \A p \in Addresses : blocks[p].event_count = Cardinality(Named(p))

\* A block in use is in the table, waits for events, or is carried.
PlaceInv ==
  /\ \A p \in allocated_blocks : blocks[p].state = "active" /\ Named(p) = {}
  /\ \A p \in Addresses : Named(p) # {} => blocks[p].state = "active"
  /\ \A p \in Addresses : blocks[p].state = "active" =>
       p \in allocated_blocks \/ Named(p) # {} \/ \E t \in Threads : Carries(t, p)
  /\ held \subseteq allocated_blocks

\* A block that is carried is nowhere else, unless its events are being recorded.
CarryInv ==
  \A t \in Threads : \A p \in Addresses :
    Carries(t, p) =>
      /\ blocks[p].state = "active"
      /\ p \notin allocated_blocks
      /\ Calls(t, "insert") \/ Named(p) = {}
      /\ \A u \in Threads \ {t} : ~Carries(u, p)

CallInv ==
  \A t \in Threads :
    /\ call[t].op \in {"malloc", "free", "insert"} => call[t].ptr \in Addresses
    /\ Calls(t, "insert") =>
         /\ owner[HomeOf[call[t].ptr]] = t
         /\ call[t].left \subseteq Streams
         /\ call[t].left \cap Named(call[t].ptr) = {}
         /\ call[t].left \cup Named(call[t].ptr) # {}
    /\ Calls(t, "empty") => call[t].left \subseteq Devices
    /\ ~Calls(t, "invalid")

\* Every use of p on s comes before an event that is queued for p.
Guarded(s, p) ==
  \E i \in DOMAIN npu_events[HomeOf[p]][s] :
    /\ npu_events[HomeOf[p]][s][i].block = p
    /\ \A j \in DOMAIN work[s] : work[s][j] = p =>
         \E k \in DOMAIN work[s] : k > j /\ work[s][k] = npu_events[HomeOf[p]][s][i].event

\* A thread is to record s, in the call that frees p.
ToRecord(t, s, p) ==
  /\ call[t].ptr = p
  /\ \/ Calls(t, "free") /\ s \in blocks[p].uses
     \/ Calls(t, "insert") /\ s \in call[t].left

WorkInv ==
  \A s \in Streams : \A p \in Addresses : Uses(s, p) =>
    \/ p \in held
    \/ blocks[p].state # "none" /\ blocks[p].stream = s
    \/ \E t \in Threads : ToRecord(t, s, p)
    \/ Guarded(s, p)

EventInv ==
  /\ \A d \in Devices : \A e \in event_pool[d] : device_index[e] = d
  /\ \A d, x \in Devices : \A s, r \in Streams :
       \A i \in DOMAIN npu_events[d][s] : \A j \in DOMAIN npu_events[x][r] :
         npu_events[d][s][i].event = npu_events[x][r][j].event =>
           d = x /\ s = r /\ i = j
  /\ \A d \in Devices : \A s \in Streams : \A i \in DOMAIN npu_events[d][s] :
       /\ npu_events[d][s][i].pool = DeviceOf[s]
       /\ device_index[npu_events[d][s][i].event] = DeviceOf[s]
       /\ \A x \in Devices : npu_events[d][s][i].event \notin event_pool[x]

ThreadInv ==
  \A t \in Threads : chosen[t] # None =>
    IF Calls(t, "insert") THEN call[t].saved = chosen[t] ELSE context[t] = chosen[t]

IInv ==
  /\ TypeOK
  /\ QueueInv /\ CountInv /\ PlaceInv /\ CarryInv /\ CallInv
  /\ WorkInv /\ EventInv /\ ThreadInv

-----------------------------------------------------------------------------
(* Queues *)

\* The two parts of a queue.
LEMMA QueueSplit ==
  ASSUME NEW S, NEW q \in Seq(S), NEW n \in Nat, n <= Len(q)
  PROVE  /\ SubSeq(q, 1, n) \in Seq(S)
         /\ DOMAIN SubSeq(q, 1, n) = 1 .. n
         /\ \A i \in 1 .. n : SubSeq(q, 1, n)[i] = q[i]
         /\ SubSeq(q, n + 1, Len(q)) \in Seq(S)
         /\ DOMAIN SubSeq(q, n + 1, Len(q)) = 1 .. Len(q) - n
         /\ \A i \in 1 .. Len(q) - n : SubSeq(q, n + 1, Len(q))[i] = q[i + n]
<1>1. /\ SubSeq(q, 1, n) \in Seq(S)
      /\ Len(SubSeq(q, 1, n)) = n
      /\ \A i \in 1 .. n : SubSeq(q, 1, n)[i] = q[i]
  <2>1. \A i \in 1 .. n : q[i] \in S
    OBVIOUS
  <2> QED  BY <2>1
<1>2. /\ SubSeq(q, n + 1, Len(q)) \in Seq(S)
      /\ Len(SubSeq(q, n + 1, Len(q))) = Len(q) - n
      /\ \A i \in 1 .. Len(q) - n : SubSeq(q, n + 1, Len(q))[i] = q[i + n]
  <2>1. \A i \in n + 1 .. Len(q) : q[i] \in S
    OBVIOUS
  <2> QED  BY <2>1
<1> QED  BY <1>1, <1>2, LenProperties

\* The events that have completed are the first ones: what is counted is a prefix.
LEMMA ReadyPrefix ==
  ASSUME NEW S, NEW q \in Seq(S)
  PROVE  /\ Ready(q) \in Nat
         /\ Ready(q) <= Len(q)
         /\ \A i \in 1 .. Ready(q) : Completed(q[i].event)
<1> DEFINE R == {i \in DOMAIN q : \A j \in 1 .. i : Completed(q[j].event)}
<1>1. R \in SUBSET (1 .. Len(q)) /\ DOMAIN q = 1 .. Len(q) /\ Len(q) \in Nat
  OBVIOUS
<1>2. /\ IsFiniteSet(1 .. Len(q))
      /\ Cardinality(1 .. Len(q)) = Len(q)
  BY <1>1, FS_Interval
<1>3. IsFiniteSet(R) /\ Cardinality(R) <= Len(q) /\ Cardinality(R) \in Nat
  BY <1>1, <1>2, FS_Subset, FS_CardinalityType
<1>4. ASSUME NEW i \in 1 .. Cardinality(R), i \notin R
      PROVE  FALSE
  <2>1. R \subseteq 1 .. i - 1
    <3> SUFFICES ASSUME NEW k \in R, k >= i  PROVE FALSE
      BY <1>1
    <3>1. i \in DOMAIN q /\ \A j \in 1 .. i : j \in 1 .. k
      BY <1>1, <1>3
    <3> QED  BY <3>1, <1>4
  <2>2. IsFiniteSet(1 .. i - 1) /\ Cardinality(1 .. i - 1) = i - 1
    <3>1. 1 \in Int /\ i - 1 \in Int /\ i - 1 >= 0
      BY <1>3
    <3>2. Cardinality(1 .. i - 1) = IF 1 > i - 1 THEN 0 ELSE i - 1 - 1 + 1
      BY <3>1, FS_Interval
    <3>3. IsFiniteSet(1 .. i - 1)
      BY <3>1, FS_Interval
    <3> QED  BY <3>1, <3>2, <3>3
  <2>3. Cardinality(R) <= i - 1
    BY <2>1, <2>2, FS_Subset
  <2> QED  BY <2>3, <1>3
<1>5. Ready(q) = Cardinality(R)
  BY DEF Ready
<1>6. ASSUME NEW i \in 1 .. Cardinality(R)  PROVE Completed(q[i].event)
  <2>1. i \in R
    BY <1>4
  <2> QED  BY <2>1, <1>3
<1> QED  BY <1>3, <1>5, <1>6

-----------------------------------------------------------------------------
(* Take *)

\* What Take needs: there are as many entries as it takes.
Takes(d, n) ==
  /\ d \in Devices
  /\ n \in [Streams -> Nat]
  /\ \A s \in Streams : n[s] <= Len(npu_events[d][s])
  /\ Take(d, n)

LEMMA TypeQueues ==
  ASSUME TypeOK
  PROVE  npu_events \in [Devices -> [Streams -> Seq(Entry)]]
BY DEF TypeOK, Entry

\* The queues of d lose their first entries, the others are as they were.
LEMMA TakeQueues ==
  ASSUME TypeOK, NEW d, NEW n, Takes(d, n)
  PROVE  /\ npu_events' \in [Devices -> [Streams -> Seq(Entry)]]
         /\ \A s \in Streams :
              /\ DOMAIN npu_events'[d][s] = 1 .. Len(npu_events[d][s]) - n[s]
              /\ \A i \in 1 .. Len(npu_events[d][s]) - n[s] :
                   npu_events'[d][s][i] = npu_events[d][s][i + n[s]]
         /\ \A x \in Devices \ {d} : npu_events'[x] = npu_events[x]
<1> DEFINE rest == [s \in Streams |->
                      SubSeq(npu_events[d][s], n[s] + 1, Len(npu_events[d][s]))]
<1>1. /\ d \in Devices /\ n \in [Streams -> Nat]
      /\ \A s \in Streams : n[s] <= Len(npu_events[d][s])
      /\ npu_events' = [npu_events EXCEPT ![d] = rest]
  BY DEF Takes, Take
<1>2. npu_events \in [Devices -> [Streams -> Seq(Entry)]]
  BY TypeQueues
<1>3. ASSUME NEW s \in Streams
      PROVE  /\ rest[s] \in Seq(Entry)
             /\ DOMAIN rest[s] = 1 .. Len(npu_events[d][s]) - n[s]
             /\ \A i \in 1 .. Len(npu_events[d][s]) - n[s] :
                  rest[s][i] = npu_events[d][s][i + n[s]]
  <2>1. npu_events[d][s] \in Seq(Entry) /\ n[s] \in Nat /\ n[s] <= Len(npu_events[d][s])
    BY <1>1, <1>2
  <2>2. rest[s] = SubSeq(npu_events[d][s], n[s] + 1, Len(npu_events[d][s]))
    OBVIOUS
  <2> DEFINE q == npu_events[d][s]
             k == n[s]
  <2>3. q \in Seq(Entry) /\ k \in Nat /\ k <= Len(q) /\ rest[s] = SubSeq(q, k + 1, Len(q))
    BY <2>1, <2>2
  <2>4. SUFFICES /\ rest[s] \in Seq(Entry)
                 /\ DOMAIN rest[s] = 1 .. Len(q) - k
                 /\ \A i \in 1 .. Len(q) - k : rest[s][i] = q[i + k]
    OBVIOUS
  <2> HIDE DEF rest, q, k
  <2>5. /\ SubSeq(q, k + 1, Len(q)) \in Seq(Entry)
        /\ DOMAIN SubSeq(q, k + 1, Len(q)) = 1 .. Len(q) - k
        /\ \A i \in 1 .. Len(q) - k : SubSeq(q, k + 1, Len(q))[i] = q[i + k]
    BY <2>3, QueueSplit
  <2> QED  BY <2>3, <2>5
<1>4. rest \in [Streams -> Seq(Entry)]
  BY <1>3
<1> HIDE DEF rest
<1>5. /\ npu_events' \in [Devices -> [Streams -> Seq(Entry)]]
      /\ npu_events'[d] = rest
      /\ \A x \in Devices \ {d} : npu_events'[x] = npu_events[x]
  BY <1>1, <1>2, <1>4
<1> QED  BY <1>3, <1>5

\* The first entries, which are taken.
Heads(d, n, s) == SubSeq(npu_events[d][s], 1, n[s])

LEMMA TakeHeads ==
  ASSUME TypeOK, NEW d, NEW n, Takes(d, n), NEW s \in Streams
  PROVE  /\ DOMAIN Heads(d, n, s) = 1 .. n[s]
         /\ \A i \in 1 .. n[s] :
              /\ i \in DOMAIN npu_events[d][s]
              /\ Heads(d, n, s)[i] = npu_events[d][s][i]
<1> DEFINE q == npu_events[d][s]
           k == n[s]
<1>1. q \in Seq(Entry) /\ k \in Nat /\ k <= Len(q)
  BY TypeQueues DEF Takes
<1>2. Heads(d, n, s) = SubSeq(q, 1, k)
  BY DEF Heads
<1>3. SUFFICES /\ DOMAIN Heads(d, n, s) = 1 .. k
               /\ \A i \in 1 .. k : i \in DOMAIN q /\ Heads(d, n, s)[i] = q[i]
  OBVIOUS
<1> HIDE DEF q, k
<1>4. /\ DOMAIN SubSeq(q, 1, k) = 1 .. k
      /\ \A i \in 1 .. k : SubSeq(q, 1, k)[i] = q[i]
  BY <1>1, QueueSplit
<1>5. 1 .. k \subseteq DOMAIN q
  BY <1>1
<1> QED  BY <1>2, <1>4, <1>5

\* The events taken, and no others, enter a pool, that of their entry.
LEMMA TakePool ==
  ASSUME TypeOK, NEW d, NEW n, Takes(d, n), NEW x \in Devices
  PROVE  /\ event_pool'[x] \in SUBSET Events
         /\ \A e \in event_pool'[x] \ event_pool[x] :
              \E s \in Streams : \E i \in 1 .. n[s] :
                /\ i \in DOMAIN npu_events[d][s]
                /\ npu_events[d][s][i].event = e
                /\ npu_events[d][s][i].pool = x
<1>1. event_pool'[x] = event_pool[x] \cup
        {e \in Events : \E s \in Streams : \E i \in DOMAIN Heads(d, n, s) :
           Heads(d, n, s)[i].event = e /\ Heads(d, n, s)[i].pool = x}
  BY DEF Takes, Take, Heads
<1>2. event_pool[x] \subseteq Events
  BY DEF TypeOK
<1>3. ASSUME NEW e \in event_pool'[x] \ event_pool[x]
      PROVE  \E s \in Streams : \E i \in 1 .. n[s] :
                /\ i \in DOMAIN npu_events[d][s]
                /\ npu_events[d][s][i].event = e
                /\ npu_events[d][s][i].pool = x
  <2>1. PICK s \in Streams : \E i \in DOMAIN Heads(d, n, s) :
          Heads(d, n, s)[i].event = e /\ Heads(d, n, s)[i].pool = x
    BY <1>1
  <2>2. /\ DOMAIN Heads(d, n, s) = 1 .. n[s]
        /\ \A i \in 1 .. n[s] :
              /\ i \in DOMAIN npu_events[d][s]
              /\ Heads(d, n, s)[i] = npu_events[d][s][i]
    BY TakeHeads
  <2> QED  BY <2>1, <2>2
<1> QED  BY <1>1, <1>2, <1>3

\* A block loses the streams whose queue loses its entry.
LEMMA TakeNamed ==
  ASSUME TypeOK, QueueInv, NEW d, NEW n, Takes(d, n), NEW p \in Addresses
  PROVE  /\ Taken(d, n, p) \subseteq Named(p)
         /\ HomeOf[p] # d => Taken(d, n, p) = {}
         /\ Named(p)' = Named(p) \ Taken(d, n, p)
<1>1. ASSUME NEW s \in Streams
      PROVE  s \in Taken(d, n, p) <=>
               \E i \in 1 .. n[s] : i \in DOMAIN npu_events[d][s] /\ npu_events[d][s][i].block = p
  <2>1. s \in Taken(d, n, p) <=>
          \E i \in DOMAIN Heads(d, n, s) : Heads(d, n, s)[i].block = p
    BY DEF Taken, InQueue, Heads
  <2>2. /\ DOMAIN Heads(d, n, s) = 1 .. n[s]
        /\ \A i \in 1 .. n[s] :
              /\ i \in DOMAIN npu_events[d][s]
              /\ Heads(d, n, s)[i] = npu_events[d][s][i]
    BY TakeHeads
  <2> QED  BY <2>1, <2>2
<1>2. d \in Devices /\ n \in [Streams -> Nat]
  BY DEF Takes
<1>3. ASSUME NEW s \in Taken(d, n, p)
      PROVE  HomeOf[p] = d /\ s \in Named(p)
  <2>1. s \in Streams
    BY DEF Taken
  <2>2. PICK i \in DOMAIN npu_events[d][s] : npu_events[d][s][i].block = p
    BY <1>1, <2>1
  <2>3. HomeOf[p] = d
    BY <1>2, <2>1, <2>2 DEF QueueInv
  <2> QED  BY <2>1, <2>2, <2>3 DEF Named, InQueue
<1>4. CASE HomeOf[p] # d
  <2>1. HomeOf[p] \in Devices
    BY FrontEndAssumption
  <2>2. npu_events'[HomeOf[p]] = npu_events[HomeOf[p]]
    BY <1>4, <2>1, TakeQueues
  <2>3. Named(p)' = Named(p)
    BY <2>2 DEF Named, InQueue
  <2> QED  BY <1>3, <1>4, <2>3
<1>5. CASE HomeOf[p] = d
  <2>1. ASSUME NEW s \in Streams
        PROVE  s \in Named(p)' <=> s \in Named(p) /\ s \notin Taken(d, n, p)
    <3> DEFINE q == npu_events[d][s]
    <3>1. q \in Seq(Entry) /\ n[s] \in Nat /\ n[s] <= Len(q) /\ DOMAIN q = 1 .. Len(q)
      BY TypeQueues DEF Takes
    <3>2. /\ DOMAIN npu_events'[d][s] = 1 .. Len(q) - n[s]
          /\ \A i \in 1 .. Len(q) - n[s] : npu_events'[d][s][i] = q[i + n[s]]
      BY TakeQueues
    <3>3. s \in Named(p)' <=> \E i \in 1 .. Len(q) - n[s] : q[i + n[s]].block = p
      BY <1>5, <3>2 DEF Named, InQueue
    <3>4. s \in Named(p) <=> \E i \in DOMAIN q : q[i].block = p
      BY <1>5 DEF Named, InQueue
    <3>5. \A i, j \in DOMAIN q : q[i].block = q[j].block => i = j
      BY <1>2 DEF QueueInv
    <3>6. ASSUME s \in Named(p)'  PROVE s \in Named(p) /\ s \notin Taken(d, n, p)
      <4>1. PICK i \in 1 .. Len(q) - n[s] : q[i + n[s]].block = p
        BY <3>3, <3>6
      <4>2. i + n[s] \in DOMAIN q /\ i + n[s] > n[s]
        BY <3>1
      <4>3. ASSUME NEW j \in 1 .. n[s], j \in DOMAIN q, q[j].block = p
            PROVE  FALSE
        <5>1. j = i + n[s]
          BY <3>5, <4>1, <4>2, <4>3
        <5> QED  BY <3>1, <4>2, <4>3, <5>1
      <4> QED  BY <1>1, <3>4, <4>1, <4>2, <4>3
    <3>7. ASSUME s \in Named(p), s \notin Taken(d, n, p)  PROVE s \in Named(p)'
      <4>1. PICK i \in DOMAIN q : q[i].block = p
        BY <3>4, <3>7
      <4>2. i > n[s]
        BY <1>1, <3>1, <3>7, <4>1
      <4>3. i - n[s] \in 1 .. Len(q) - n[s] /\ (i - n[s]) + n[s] = i
        BY <3>1, <4>1, <4>2
      <4> QED  BY <3>3, <4>1, <4>3
    <3> QED  BY <3>6, <3>7
  <2>2. Named(p)' \subseteq Streams /\ Named(p) \subseteq Streams
    BY DEF Named
  <2> QED  BY <1>3, <1>5, <2>1, <2>2
<1> QED  BY <1>4, <1>5

Block == [state : {"none", "cached", "active"}, stream : Streams \cup {None},
          uses : SUBSET Streams, event_count : Nat]

LEMMA NamedFinite ==
  ASSUME NEW p
  PROVE  Named(p) \subseteq Streams /\ IsFiniteSet(Named(p)) /\ Cardinality(Named(p)) \in Nat
<1>1. Named(p) \subseteq Streams
  BY DEF Named
<1>2. IsFiniteSet(Streams)
  BY FrontEndAssumption
<1>3. IsFiniteSet(Named(p))
  BY <1>1, <1>2, FS_Subset
<1> QED  BY <1>1, <1>3, FS_CardinalityType

\* Settled counts what is left, and frees the blocks that have lost all.
LEMMA SettledBlock ==
  ASSUME TypeOK, QueueInv, CountInv, NEW d, NEW n, Takes(d, n), NEW p \in Addresses
  PROVE  /\ Settled(d, n)[p] \in Block
         /\ Settled(d, n)[p].stream = blocks[p].stream
         /\ Settled(d, n)[p].uses = blocks[p].uses
         /\ Settled(d, n)[p].event_count = Cardinality(Named(p)')
         /\ Settled(d, n)[p].state =
              IF Named(p) # {} /\ Named(p)' = {} THEN "cached" ELSE blocks[p].state
<1> DEFINE T == Taken(d, n, p)
           left == blocks[p].event_count - Cardinality(T)
<1>1. blocks[p] \in Block
  BY DEF TypeOK, Block
<1>2. /\ IsFiniteSet(Named(p)) /\ Cardinality(Named(p)) \in Nat
      /\ blocks[p].event_count = Cardinality(Named(p))
  BY NamedFinite DEF CountInv
<1>3. T \subseteq Named(p) /\ Named(p)' = Named(p) \ T
  BY TakeNamed
<1>4. Settled(d, n)[p] = IF T = {} THEN blocks[p]
         ELSE [blocks[p] EXCEPT !.event_count = left,
                                !.state = IF left = 0 THEN "cached" ELSE @]
  BY DEF Settled
<1>5. CASE T = {}
  <2>1. Named(p)' = Named(p)
    BY <1>3, <1>5
  <2> QED  BY <1>1, <1>2, <1>4, <1>5, <2>1
<1>6. CASE T # {}
  <2>1. Named(p) # {}
    BY <1>3, <1>6
  <2>2. Named(p) \cap T = T
    BY <1>3
  <2>3. /\ IsFiniteSet(Named(p) \ T)
        /\ Cardinality(Named(p) \ T) = Cardinality(Named(p)) - Cardinality(T)
    <3>1. /\ IsFiniteSet(Named(p) \ T)
          /\ Cardinality(Named(p) \ T) = Cardinality(Named(p)) - Cardinality(Named(p) \cap T)
      BY <1>2, FS_Difference
    <3> QED  BY <2>2, <3>1
  <2>4. left = Cardinality(Named(p)') /\ left \in Nat
    <3>1. Cardinality(Named(p) \ T) \in Nat
      BY <2>3, FS_CardinalityType
    <3> QED  BY <1>2, <1>3, <2>3, <3>1
  <2>5. left = 0 <=> Named(p)' = {}
    BY <1>3, <2>3, <2>4, FS_EmptySet
  <2> HIDE DEF left, T
  <2>6. Settled(d, n)[p] = [blocks[p] EXCEPT !.event_count = left,
                              !.state = IF left = 0 THEN "cached" ELSE @]
    BY <1>4, <1>6
  <2> QED  BY <1>1, <2>1, <2>4, <2>5, <2>6 DEF Block
<1> QED  BY <1>5, <1>6

LEMMA TakeKeepsQueues ==
  ASSUME TypeOK, QueueInv, NEW d, NEW n, Takes(d, n)
  PROVE  QueueInv'
<1> SUFFICES ASSUME NEW x \in Devices, NEW s \in Streams, NEW i \in DOMAIN npu_events'[x][s]
             PROVE  /\ HomeOf[npu_events'[x][s][i].block] = x
                    /\ \A j \in DOMAIN npu_events'[x][s] :
                         npu_events'[x][s][i].block = npu_events'[x][s][j].block => i = j
  BY DEF QueueInv
<1>1. CASE x # d
  <2>1. npu_events'[x] = npu_events[x]
    BY <1>1, TakeQueues
  <2> QED  BY <2>1 DEF QueueInv
<1>2. CASE x = d
  <2> DEFINE q == npu_events[d][s]
             k == n[s]
  <2>1. q \in Seq(Entry) /\ k \in Nat /\ k <= Len(q) /\ DOMAIN q = 1 .. Len(q)
    BY <1>2, TypeQueues DEF Takes
  <2>2. /\ DOMAIN npu_events'[x][s] = 1 .. Len(q) - k
        /\ \A j \in 1 .. Len(q) - k : npu_events'[x][s][j] = q[j + k]
    BY <1>2, TakeQueues
  <2>3. \A j \in DOMAIN q : HomeOf[q[j].block] = d
    BY <1>2 DEF QueueInv
  <2>4. \A j, l \in DOMAIN q : q[j].block = q[l].block => j = l
    BY <1>2 DEF QueueInv
  <2> HIDE DEF q, k
  <2>5. ASSUME NEW j \in 1 .. Len(q) - k  PROVE j + k \in DOMAIN q
    BY <2>1
  <2>6. i + k \in DOMAIN q /\ npu_events'[x][s][i] = q[i + k]
    BY <2>2, <2>5
  <2>7. ASSUME NEW j \in DOMAIN npu_events'[x][s],
               npu_events'[x][s][i].block = npu_events'[x][s][j].block
        PROVE  i = j
    <3>1. j + k \in DOMAIN q /\ npu_events'[x][s][j] = q[j + k]
      BY <2>2, <2>5
    <3>2. i + k = j + k
      BY <2>4, <2>6, <2>7, <3>1
    <3> QED  BY <2>1, <2>2, <3>2
  <2> QED  BY <1>2, <2>3, <2>6, <2>7
<1> QED  BY <1>1, <1>2

LEMMA TakeKeepsEvents ==
  ASSUME TypeOK, EventInv, NEW d, NEW n, Takes(d, n), device_index' = device_index
  PROVE  EventInv'
<1> DEFINE off(x, s) == IF x = d THEN n[s] ELSE 0
<1>1. ASSUME NEW x \in Devices, NEW s \in Streams, NEW i \in DOMAIN npu_events'[x][s]
      PROVE  /\ i \in Nat /\ off(x, s) \in Nat
             /\ i + off(x, s) \in DOMAIN npu_events[x][s]
             /\ npu_events'[x][s][i] = npu_events[x][s][i + off(x, s)]
             /\ x = d => i + off(x, s) > n[s]
  <2> DEFINE q == npu_events[x][s]
  <2>1. q \in Seq(Entry) /\ DOMAIN q = 1 .. Len(q)
    BY TypeQueues
  <2>2. CASE x # d
    <3>1. npu_events'[x] = npu_events[x]
      BY <2>2, TakeQueues
    <3> QED  BY <2>1, <2>2, <3>1
  <2>3. CASE x = d
    <3>1. n[s] \in Nat /\ n[s] <= Len(q)
      BY <2>3 DEF Takes
    <3>2. /\ DOMAIN npu_events'[x][s] = 1 .. Len(q) - n[s]
          /\ \A j \in 1 .. Len(q) - n[s] : npu_events'[x][s][j] = q[j + n[s]]
      BY <2>3, TakeQueues
    <3> HIDE DEF q
    <3>3. i \in Nat /\ i + n[s] \in DOMAIN q /\ i + n[s] > n[s]
      BY <2>1, <3>1, <3>2
    <3>4. npu_events'[x][s][i] = q[i + n[s]]
      BY <3>2
    <3> QED  BY <2>3, <3>1, <3>3, <3>4 DEF q
  <2> QED  BY <2>2, <2>3
<1>2. d \in Devices
  BY DEF Takes
<1> HIDE DEF off
<1>3. ASSUME NEW x \in Devices, NEW e \in event_pool'[x]
      PROVE  device_index'[e] = x
  <2>1. CASE e \in event_pool[x]
    BY <2>1 DEF EventInv
  <2>2. CASE e \notin event_pool[x]
    <3>1. PICK s \in Streams : \E i \in DOMAIN npu_events[d][s] :
            npu_events[d][s][i].event = e /\ npu_events[d][s][i].pool = x
      BY <2>2, TakePool
    <3> QED  BY <1>2, <3>1 DEF EventInv
  <2> QED  BY <2>1, <2>2
<1>4. ASSUME NEW x \in Devices, NEW y \in Devices, NEW s \in Streams, NEW r \in Streams,
             NEW i \in DOMAIN npu_events'[x][s], NEW j \in DOMAIN npu_events'[y][r],
             npu_events'[x][s][i].event = npu_events'[y][r][j].event
      PROVE  x = y /\ s = r /\ i = j
  <2>1. /\ i \in Nat /\ off(x, s) \in Nat
        /\ i + off(x, s) \in DOMAIN npu_events[x][s]
        /\ npu_events'[x][s][i] = npu_events[x][s][i + off(x, s)]
    BY <1>1
  <2>2. /\ j \in Nat /\ off(y, r) \in Nat
        /\ j + off(y, r) \in DOMAIN npu_events[y][r]
        /\ npu_events'[y][r][j] = npu_events[y][r][j + off(y, r)]
    BY <1>1
  <2>3. x = y /\ s = r /\ i + off(x, s) = j + off(y, r)
    BY <1>4, <2>1, <2>2 DEF EventInv
  <2> QED  BY <2>1, <2>2, <2>3
<1>5. ASSUME NEW x \in Devices, NEW s \in Streams, NEW i \in DOMAIN npu_events'[x][s],
             NEW y \in Devices
      PROVE  npu_events'[x][s][i].event \notin event_pool'[y]
  <2> DEFINE k == i + off(x, s)
  <2>1. /\ k \in DOMAIN npu_events[x][s]
        /\ npu_events'[x][s][i] = npu_events[x][s][k]
        /\ x = d => k > n[s]
    BY <1>1
  <2> HIDE DEF k
  <2>2. npu_events[x][s][k].event \notin event_pool[y]
    BY <2>1 DEF EventInv
  <2>3. SUFFICES ASSUME npu_events[x][s][k].event \in event_pool'[y] \ event_pool[y]
                 PROVE  FALSE
    BY <2>1, <2>2
  <2>4. PICK r \in Streams : \E j \in 1 .. n[r] :
          j \in DOMAIN npu_events[d][r] /\ npu_events[d][r][j].event = npu_events[x][s][k].event
    BY <2>3, TakePool
  <2>5. PICK j \in 1 .. n[r] :
          j \in DOMAIN npu_events[d][r] /\ npu_events[d][r][j].event = npu_events[x][s][k].event
    BY <2>4
  <2>6. d = x /\ r = s /\ j = k
    BY <1>2, <2>1, <2>5 DEF EventInv
  <2>7. n[s] \in Nat
    BY DEF Takes
  <2> QED  BY <2>1, <2>5, <2>6, <2>7
<1>6. ASSUME NEW x \in Devices, NEW s \in Streams, NEW i \in DOMAIN npu_events'[x][s]
      PROVE  /\ npu_events'[x][s][i].pool = DeviceOf[s]
             /\ device_index'[npu_events'[x][s][i].event] = DeviceOf[s]
  <2>1. /\ i + off(x, s) \in DOMAIN npu_events[x][s]
        /\ npu_events'[x][s][i] = npu_events[x][s][i + off(x, s)]
    BY <1>1
  <2> QED  BY <2>1 DEF EventInv
<1> QED  BY <1>3, <1>4, <1>5, <1>6 DEF EventInv

\* What is taken has completed, so that nothing is left of what it stood behind.
LEMMA TakeKeepsGuard ==
  ASSUME TypeOK, NEW d, NEW n, Takes(d, n), work' = work,
         \A r \in Streams : \A i \in 1 .. n[r] : Completed(npu_events[d][r][i].event),
         NEW s \in Streams, NEW p \in Addresses, Uses(s, p), Guarded(s, p)
  PROVE  Guarded(s, p)'
<1> DEFINE h == HomeOf[p]
           q == npu_events[h][s]
<1>1. h \in Devices /\ q \in Seq(Entry) /\ DOMAIN q = 1 .. Len(q)
  <2>1. h \in Devices
    BY FrontEndAssumption
  <2>2. npu_events \in [Devices -> [Streams -> Seq(Entry)]]
    BY TypeQueues
  <2>3. q \in Seq(Entry)
    BY <2>1, <2>2
  <2> HIDE DEF q, h
  <2> QED  BY <2>1, <2>3
<1>2. PICK i \in DOMAIN q :
        /\ q[i].block = p
        /\ \A j \in DOMAIN work[s] : work[s][j] = p =>
             \E k \in DOMAIN work[s] : k > j /\ work[s][k] = q[i].event
  BY DEF Guarded
<1>3. Uses(s, q[i].event)
  BY <1>2 DEF Uses, Range
<1>4. CASE h # d
  <2>1. npu_events'[h] = npu_events[h]
    BY <1>1, <1>4, TakeQueues
  <2> QED  BY <2>1 DEF Guarded
<1>5. CASE h = d
  <2>1. n[s] \in Nat /\ n[s] <= Len(q)
    BY <1>5 DEF Takes
  <2>2. i > n[s]
    <3>1. i \in 1 .. n[s] => Completed(q[i].event)
      BY <1>5
    <3>2. ~Completed(q[i].event)
      BY <1>3 DEF Completed
    <3> QED  BY <1>1, <1>2, <2>1, <3>1, <3>2
  <2>3. /\ DOMAIN npu_events'[d][s] = 1 .. Len(q) - n[s]
        /\ \A j \in 1 .. Len(q) - n[s] : npu_events'[d][s][j] = q[j + n[s]]
    BY <1>5, TakeQueues
  <2>4. i - n[s] \in 1 .. Len(q) - n[s] /\ (i - n[s]) + n[s] = i
    BY <1>1, <2>1, <2>2
  <2>5. i - n[s] \in DOMAIN npu_events'[h][s] /\ npu_events'[h][s][i - n[s]] = q[i]
    BY <1>5, <2>3, <2>4
  <2> QED  BY <1>2, <2>5 DEF Guarded
<1> QED  BY <1>4, <1>5

-----------------------------------------------------------------------------
(* Calls *)

Call == [op : Ops, ptr : Addresses \cup {None},
         left : (SUBSET Streams) \cup (SUBSET Devices), saved : Devices \cup {None}]

LEMMA CallTypes ==
  ASSUME TypeOK
  PROVE  call \in [Threads -> Call]
BY DEF TypeOK, Call

\* What a call that begins, or returns, does to the calls.
LEMMA BeginsCall ==
  ASSUME TypeOK, NEW t \in Threads, NEW op \in Ops, NEW p \in Addresses \cup {None},
         Begins(t, op, p)
  PROVE  /\ call' \in [Threads -> Call]
         /\ call'[t].op = op /\ call'[t].ptr = p /\ call'[t].left = {}
         /\ \A u \in Threads \ {t} : call'[u] = call[u]
<1> DEFINE r == [NoCall EXCEPT !.op = op, !.ptr = p]
<1>1. NoCall \in Call
  BY DEF Call, NoCall, Ops
<1>2. r \in Call
  BY <1>1 DEF Call
<1>3. r.op = op /\ r.ptr = p /\ r.left = {}
  BY DEF NoCall
<1>4. call' = [call EXCEPT ![t] = r]
  BY DEF Begins
<1> HIDE DEF r
<1> QED  BY <1>2, <1>3, <1>4, CallTypes

LEMMA ReturnsCall ==
  ASSUME TypeOK, NEW t \in Threads, Returns(t)
  PROVE  /\ call' \in [Threads -> Call]
         /\ call'[t] = NoCall
         /\ \A u \in Threads \ {t} : call'[u] = call[u]
<1>1. NoCall \in Call
  BY DEF Call, NoCall, Ops
<1> QED  BY <1>1, CallTypes DEF Returns

\* Names depend on the queues alone.
LEMMA SameNames ==
  ASSUME npu_events' = npu_events, NEW p
  PROVE  Named(p)' = Named(p)
BY DEF Named, InQueue

\* A thread that is in the same call carries and records what it did.
LEMMA SameCall ==
  ASSUME NEW t, call'[t] = call[t]
  PROVE  /\ \A p : Carries(t, p)' <=> Carries(t, p)
         /\ \A op : Calls(t, op)' <=> Calls(t, op)
BY DEF Carries, Calls

-----------------------------------------------------------------------------
(* The actions *)

LEMMA SetDeviceKeeps ==
  ASSUME IInv, NEW t \in Threads, NEW d \in Devices, SetDevice(t, d) \/ SetMemoryFraction(t, d)
  PROVE  IInv'
<1>1. /\ Calls(t, "none")
      /\ context' = [context EXCEPT ![t] = d] /\ chosen' = [chosen EXCEPT ![t] = d]
      /\ UNCHANGED <<allocated_blocks, device, work, call, held>>
  BY DEF SetDevice, SetMemoryFraction, Settles
<1>2. TypeOK'
  <2>1. /\ context' \in [Threads -> Devices \cup {None}]
        /\ chosen' \in [Threads -> Devices \cup {None}]
    BY <1>1 DEF IInv, TypeOK
  <2> QED  BY <1>1, <2>1 DEF IInv, TypeOK, device
<1>3. QueueInv' /\ CountInv' /\ PlaceInv' /\ CarryInv' /\ CallInv' /\ WorkInv' /\ EventInv'
  <2>1. \A p : Named(p)' = Named(p)
    BY <1>1, SameNames DEF device
  <2>2. QueueInv' /\ EventInv'
    BY <1>1 DEF IInv, QueueInv, EventInv, device
  <2>3. CountInv' /\ PlaceInv' /\ CarryInv' /\ CallInv'
    BY <1>1, <2>1 DEF IInv, CountInv, PlaceInv, CarryInv, CallInv, Carries, Calls, device
  <2>4. WorkInv'
    BY <1>1 DEF IInv, WorkInv, Uses, ToRecord, Guarded, Calls, device
  <2> QED  BY <2>2, <2>3, <2>4
<1>4. ThreadInv'
  BY <1>1 DEF IInv, TypeOK, ThreadInv, Calls
<1> QED  BY <1>2, <1>3, <1>4 DEF IInv

\* The other parts do not speak of work.
LEMMA WorkAlone ==
  ASSUME IInv, UNCHANGED <<allocated_blocks, device, context, call, held, chosen>>,
         work' \in [Streams -> Seq(Addresses \cup Events)], WorkInv'
  PROVE  IInv'
<1>1. TypeOK'
  BY DEF IInv, TypeOK, device
<1>2. \A p : Named(p)' = Named(p)
  BY SameNames DEF device
<1>3. QueueInv' /\ EventInv' /\ ThreadInv'
  BY DEF IInv, QueueInv, EventInv, ThreadInv, Calls, device
<1>4. CountInv' /\ PlaceInv'
  BY <1>2 DEF IInv, CountInv, PlaceInv, Carries, device
<1>5. CarryInv'
  BY <1>2 DEF IInv, CarryInv, Carries, Calls, device
<1>6. CallInv'
  BY <1>2 DEF IInv, CallInv, Calls, device
<1> QED  BY <1>1, <1>3, <1>4, <1>5, <1>6 DEF IInv

LEMMA LaunchKeeps ==
  ASSUME IInv, NEW s \in Streams, NEW p \in Addresses, Launch(s, p)
  PROVE  IInv'
<1>1. /\ p \in held
      /\ work' = [work EXCEPT ![s] = Append(work[s], p)]
      /\ UNCHANGED <<allocated_blocks, device, context, call, held, chosen>>
  BY DEF Launch
<1>2. /\ work \in [Streams -> Seq(Addresses \cup Events)]
      /\ work' \in [Streams -> Seq(Addresses \cup Events)]
  BY <1>1 DEF IInv, TypeOK
<1>3. /\ DOMAIN work'[s] = 1 .. Len(work[s]) + 1
      /\ DOMAIN work[s] = 1 .. Len(work[s]) /\ Len(work[s]) \in Nat
      /\ \A i \in 1 .. Len(work[s]) : work'[s][i] = work[s][i]
      /\ work'[s][Len(work[s]) + 1] = p
  <2>1. work'[s] = Append(work[s], p)
    BY <1>1, <1>2
  <2> QED  BY <1>2, <2>1
<1>4. \A r \in Streams \ {s} : work'[r] = work[r]
  BY <1>1, <1>2
<1>5. ASSUME NEW r \in Streams, NEW q \in Addresses, Uses(r, q)', ~(r = s /\ q = p)
      PROVE  /\ Uses(r, q)
             /\ Guarded(r, q) => Guarded(r, q)'
  <2>1. CASE r # s
    BY <1>1, <1>4, <1>5, <2>1 DEF Uses, Guarded, device
  <2>2. CASE r = s
    <3>1. \A j \in DOMAIN work'[s] : work'[s][j] = q =>
            j \in DOMAIN work[s] /\ work[s][j] = q
      BY <1>3, <1>5, <2>2
    <3>2. Uses(r, q)
      BY <1>5, <2>2, <3>1 DEF Uses, Range
    <3>3. ASSUME Guarded(r, q)  PROVE Guarded(r, q)'
      <4>1. PICK i \in DOMAIN npu_events[HomeOf[q]][r] :
              /\ npu_events[HomeOf[q]][r][i].block = q
              /\ \A j \in DOMAIN work[r] : work[r][j] = q =>
                   \E k \in DOMAIN work[r] :
                     k > j /\ work[r][k] = npu_events[HomeOf[q]][r][i].event
        BY <3>3 DEF Guarded
      <4>2. ASSUME NEW j \in DOMAIN work'[r], work'[r][j] = q
            PROVE  \E k \in DOMAIN work'[r] :
                     k > j /\ work'[r][k] = npu_events[HomeOf[q]][r][i].event
        <5>1. PICK k \in DOMAIN work[r] :
                k > j /\ work[r][k] = npu_events[HomeOf[q]][r][i].event
          BY <2>2, <3>1, <4>1, <4>2
        <5>2. k \in DOMAIN work'[r] /\ work'[r][k] = work[r][k]
          BY <1>3, <2>2, <5>1
        <5> QED  BY <5>1, <5>2
      <4> QED  BY <1>1, <4>1, <4>2 DEF Guarded, device
    <3> QED  BY <3>2, <3>3
  <2> QED  BY <2>1, <2>2
<1>6. WorkInv'
  <2>1. ASSUME NEW r \in Streams, NEW q \in Addresses, Uses(r, q)'
        PROVE  \/ q \in held'
               \/ blocks'[q].state # "none" /\ blocks'[q].stream = r
               \/ \E t \in Threads : ToRecord(t, r, q)'
               \/ Guarded(r, q)'
    <3>1. CASE r = s /\ q = p
      BY <1>1, <3>1
    <3>2. CASE ~(r = s /\ q = p)
      <4>1. Uses(r, q) /\ (Guarded(r, q) => Guarded(r, q)')
        BY <1>5, <2>1, <3>2
      <4> QED  BY <1>1, <4>1 DEF IInv, WorkInv, ToRecord, Calls, device
    <3> QED  BY <3>1, <3>2
  <2> QED  BY <1>1, <2>1 DEF IInv, WorkInv, device
<1> QED  BY <1>1, <1>2, <1>6, WorkAlone

LEMMA RunKeeps ==
  ASSUME IInv, NEW s \in Streams, Run(s)
  PROVE  IInv'
<1>1. /\ work[s] # <<>>
      /\ work' = [work EXCEPT ![s] = Tail(work[s])]
      /\ UNCHANGED <<allocated_blocks, device, context, call, held, chosen>>
  BY DEF Run
<1>2. /\ work \in [Streams -> Seq(Addresses \cup Events)]
      /\ work' \in [Streams -> Seq(Addresses \cup Events)]
  BY <1>1 DEF IInv, TypeOK
<1>3. /\ DOMAIN work'[s] = 1 .. Len(work[s]) - 1
      /\ DOMAIN work[s] = 1 .. Len(work[s]) /\ Len(work[s]) \in Nat
      /\ \A i \in 1 .. Len(work[s]) - 1 : work'[s][i] = work[s][i + 1]
  <2>1. work'[s] = Tail(work[s])
    BY <1>1, <1>2
  <2> QED  BY <1>1, <1>2, <2>1
<1>4. \A r \in Streams \ {s} : work'[r] = work[r]
  BY <1>1, <1>2
<1>5. ASSUME NEW r \in Streams, NEW q \in Addresses, Uses(r, q)'
      PROVE  /\ Uses(r, q)
             /\ Guarded(r, q) => Guarded(r, q)'
  <2>1. CASE r # s
    BY <1>1, <1>4, <1>5, <2>1 DEF Uses, Guarded, device
  <2>2. CASE r = s
    <3>1. \A j \in DOMAIN work'[s] : j + 1 \in DOMAIN work[s] /\ work[s][j + 1] = work'[s][j]
      BY <1>3
    <3>2. Uses(r, q)
      BY <1>5, <2>2, <3>1 DEF Uses, Range
    <3>3. ASSUME Guarded(r, q)  PROVE Guarded(r, q)'
      <4>1. PICK i \in DOMAIN npu_events[HomeOf[q]][r] :
              /\ npu_events[HomeOf[q]][r][i].block = q
              /\ \A j \in DOMAIN work[r] : work[r][j] = q =>
                   \E k \in DOMAIN work[r] :
                     k > j /\ work[r][k] = npu_events[HomeOf[q]][r][i].event
        BY <3>3 DEF Guarded
      <4>2. ASSUME NEW j \in DOMAIN work'[r], work'[r][j] = q
            PROVE  \E k \in DOMAIN work'[r] :
                     k > j /\ work'[r][k] = npu_events[HomeOf[q]][r][i].event
        <5>1. PICK k \in DOMAIN work[r] :
                k > j + 1 /\ work[r][k] = npu_events[HomeOf[q]][r][i].event
          BY <2>2, <3>1, <4>1, <4>2
        <5>2. /\ k - 1 \in DOMAIN work'[r] /\ k - 1 > j
              /\ (k - 1) + 1 = k
          BY <1>3, <2>2, <5>1
        <5>3. work'[r][k - 1] = work[r][k]
          BY <1>3, <2>2, <5>2
        <5> QED  BY <5>1, <5>2, <5>3
      <4> QED  BY <1>1, <4>1, <4>2 DEF Guarded, device
    <3> QED  BY <3>2, <3>3
  <2> QED  BY <2>1, <2>2
<1>6. WorkInv'
  <2>1. ASSUME NEW r \in Streams, NEW q \in Addresses, Uses(r, q)'
        PROVE  \/ q \in held'
               \/ blocks'[q].state # "none" /\ blocks'[q].stream = r
               \/ \E t \in Threads : ToRecord(t, r, q)'
               \/ Guarded(r, q)'
    <3>1. Uses(r, q) /\ (Guarded(r, q) => Guarded(r, q)')
      BY <1>5, <2>1
    <3> QED  BY <1>1, <3>1 DEF IInv, WorkInv, ToRecord, Calls, device
  <2> QED  BY <1>1, <2>1 DEF IInv, WorkInv, device
<1> QED  BY <1>1, <1>2, <1>6, WorkAlone

\* What follows when a step leaves the queues, the pools and the work alone.
LEMMA SameQueues ==
  ASSUME IInv, UNCHANGED <<npu_events, event_pool, device_index, work>>
  PROVE  /\ QueueInv' /\ EventInv'
         /\ \A p : Named(p)' = Named(p)
         /\ \A s, p : (Uses(s, p)' <=> Uses(s, p)) /\ (Guarded(s, p)' <=> Guarded(s, p))
<1>1. QueueInv'
  BY DEF IInv, QueueInv
<1>2. EventInv'
  BY DEF IInv, EventInv
<1>3. \A p : Named(p)' = Named(p)
  BY SameNames
<1>4. \A s, p : (Uses(s, p)' <=> Uses(s, p)) /\ (Guarded(s, p)' <=> Guarded(s, p))
  BY DEF Uses, Guarded
<1> QED  BY <1>1, <1>2, <1>3, <1>4

\* The block a thread carries.
LEMMA CarriedBlock ==
  ASSUME IInv, NEW t \in Threads, call[t].op \in {"malloc", "free", "insert"}
  PROVE  /\ call[t].ptr \in Addresses /\ Carries(t, call[t].ptr)
         /\ blocks[call[t].ptr].state = "active"
         /\ call[t].ptr \notin allocated_blocks /\ call[t].ptr \notin held
         /\ ~Calls(t, "insert") => Named(call[t].ptr) = {}
         /\ \A u \in Threads \ {t} : ~Carries(u, call[t].ptr)
<1>1. call[t].ptr \in Addresses
  BY DEF IInv, CallInv
<1>2. Carries(t, call[t].ptr)
  BY DEF Carries
<1>3. /\ blocks[call[t].ptr].state = "active"
      /\ call[t].ptr \notin allocated_blocks
      /\ ~Calls(t, "insert") => Named(call[t].ptr) = {}
      /\ \A u \in Threads \ {t} : ~Carries(u, call[t].ptr)
  BY <1>1, <1>2 DEF IInv, CarryInv
<1>4. call[t].ptr \notin held
  BY <1>3 DEF IInv, PlaceInv
<1> QED  BY <1>1, <1>2, <1>3, <1>4

LEMMA AddAllocatedBlockKeeps ==
  ASSUME IInv, NEW t \in Threads, AddAllocatedBlock(t)
  PROVE  IInv'
<1> DEFINE p == call[t].ptr
<1>1. /\ call[t].op = "malloc"
      /\ allocated_blocks' = allocated_blocks \cup {p}
      /\ held' = held \cup {p}
      /\ Returns(t)
      /\ UNCHANGED <<device, work, context, chosen>>
  BY DEF AddAllocatedBlock, Calls
<1>2. /\ p \in Addresses /\ Carries(t, p)
      /\ blocks[p].state = "active" /\ Named(p) = {}
      /\ \A u \in Threads \ {t} : ~Carries(u, p)
  BY <1>1, CarriedBlock DEF Calls
<1>3. /\ call' \in [Threads -> Call]
      /\ call'[t].op = "none" /\ call'[t].ptr = None
      /\ \A u \in Threads \ {t} : call'[u] = call[u]
  BY <1>1, ReturnsCall DEF IInv, NoCall
<1>4. /\ QueueInv' /\ EventInv'
      /\ \A q : Named(q)' = Named(q)
      /\ \A s, q : (Uses(s, q)' <=> Uses(s, q)) /\ (Guarded(s, q)' <=> Guarded(s, q))
  BY <1>1, SameQueues DEF device
<1> HIDE DEF p
<1>5. TypeOK'
  BY <1>1, <1>2, <1>3 DEF IInv, TypeOK, Call, device
<1>6. \A u \in Threads : \A q : Carries(u, q)' => u # t /\ q # p /\ Carries(u, q)
  BY <1>2, <1>3 DEF Carries
<1>7. \A u \in Threads : \A q : Carries(u, q) => q = p \/ Carries(u, q)'
  BY <1>2, <1>3 DEF Carries, p
<1>8. CountInv' /\ PlaceInv'
  BY <1>1, <1>2, <1>4, <1>7 DEF IInv, CountInv, PlaceInv, device
<1>9. CarryInv'
  BY <1>1, <1>3, <1>4, <1>6 DEF IInv, CarryInv, Calls, device
<1>10. CallInv'
  BY <1>1, <1>3, <1>4 DEF IInv, CallInv, Calls, device
<1>11. WorkInv'
  BY <1>1, <1>3, <1>4 DEF IInv, WorkInv, ToRecord, Calls, device
<1>12. ThreadInv'
  BY <1>1, <1>3 DEF IInv, ThreadInv, Calls
<1> QED  BY <1>4, <1>5, <1>8, <1>9, <1>10, <1>11, <1>12 DEF IInv

LEMMA FreeLookupKeeps ==
  ASSUME IInv, NEW t \in Threads, NEW p \in Addresses, FreeLookup(t, p)
  PROVE  IInv'
<1>1. /\ call[t].op = "none"
      /\ p \in held
      /\ \A s \in Streams : Uses(s, p) => s \in blocks[p].uses \cup {blocks[p].stream}
      /\ held' = held \ {p}
      /\ allocated_blocks' = allocated_blocks \ {p}
      /\ UNCHANGED <<device, work, context, chosen>>
  BY DEF FreeLookup, MayFree, Calls
<1>2. p \in allocated_blocks /\ blocks[p].state = "active" /\ Named(p) = {}
  BY <1>1 DEF IInv, PlaceInv
<1>3. Begins(t, "free", p)
  BY <1>2 DEF FreeLookup
<1>4. /\ call' \in [Threads -> Call]
      /\ call'[t].op = "free" /\ call'[t].ptr = p
      /\ \A u \in Threads \ {t} : call'[u] = call[u]
  BY <1>3, BeginsCall DEF IInv, Ops
<1>5. /\ QueueInv' /\ EventInv'
      /\ \A q : Named(q)' = Named(q)
      /\ \A s, q : (Uses(s, q)' <=> Uses(s, q)) /\ (Guarded(s, q)' <=> Guarded(s, q))
  BY <1>1, SameQueues DEF device
<1>6. TypeOK'
  BY <1>1, <1>4 DEF IInv, TypeOK, Call, device
<1>7. \A u \in Threads : ~Carries(u, p)
  BY <1>2 DEF IInv, CarryInv
<1>8. /\ Carries(t, p)' /\ \A q : Carries(t, q)' => q = p
      /\ \A u \in Threads \ {t} : \A q : Carries(u, q)' <=> Carries(u, q)
      /\ \A q : ~Carries(t, q)
  BY <1>1, <1>4 DEF Carries
<1>9. CountInv'
  BY <1>1, <1>5 DEF IInv, CountInv, device
<1>10. PlaceInv'
  BY <1>1, <1>2, <1>5, <1>8 DEF IInv, PlaceInv, device
<1>11. CarryInv'
  BY <1>1, <1>2, <1>4, <1>5, <1>7, <1>8 DEF IInv, CarryInv, Calls, device
<1>12. CallInv'
  BY <1>1, <1>4, <1>5 DEF IInv, CallInv, Calls, device
<1>13. WorkInv'
  <2>1. ASSUME NEW s \in Streams, NEW q \in Addresses, Uses(s, q)'
        PROVE  \/ q \in held'
               \/ blocks'[q].state # "none" /\ blocks'[q].stream = s
               \/ \E u \in Threads : ToRecord(u, s, q)'
               \/ Guarded(s, q)'
    <3>1. CASE q = p
      <4>1. s \in blocks[p].uses => ToRecord(t, s, p)'
        BY <1>1, <1>4 DEF ToRecord, Calls, device
      <4> QED  BY <1>1, <1>2, <1>5, <2>1, <3>1, <4>1 DEF device
    <3>2. CASE q # p
      <4>1. \A u \in Threads : ToRecord(u, s, q) => ToRecord(u, s, q)'
        BY <1>1, <1>4 DEF ToRecord, Calls, device
      <4> QED  BY <1>1, <1>5, <2>1, <3>2, <4>1 DEF IInv, WorkInv, device
    <3> QED  BY <3>1, <3>2
  <2> QED  BY <1>1, <2>1 DEF IInv, WorkInv, device
<1>14. ThreadInv'
  BY <1>1, <1>4 DEF IInv, ThreadInv, Calls
<1> QED  BY <1>5, <1>6, <1>9, <1>10, <1>11, <1>12, <1>13, <1>14 DEF IInv

\* emptyCache and emptyDeviceCache begin.
LEMMA EmptyBegins ==
  ASSUME IInv, NEW t \in Threads, NEW devices \in SUBSET Devices,
         Calls(t, "none"),
         call' = [call EXCEPT ![t] = [NoCall EXCEPT !.op = "empty", !.left = devices]],
         UNCHANGED <<allocated_blocks, device, work, context, held, chosen>>
  PROVE  IInv'
<1> DEFINE r == [NoCall EXCEPT !.op = "empty", !.left = devices]
<1>1. r \in Call /\ r.op = "empty" /\ r.left = devices
  <2>1. NoCall \in Call
    BY DEF Call, NoCall, Ops
  <2>2. devices \in (SUBSET Streams) \cup (SUBSET Devices) /\ "empty" \in Ops
    BY DEF Ops
  <2>4. r \in Call
    BY <2>1, <2>2 DEF Call
  <2>3. r.op = "empty" /\ r.left = devices
    BY DEF NoCall
  <2> QED  BY <2>3, <2>4
<1> HIDE DEF r
<1>2. /\ call' \in [Threads -> Call]
      /\ call'[t].op = "empty" /\ call'[t].left = devices
      /\ \A u \in Threads \ {t} : call'[u] = call[u]
  BY <1>1, CallTypes DEF r, IInv
<1>3. /\ QueueInv' /\ EventInv'
      /\ \A q : Named(q)' = Named(q)
      /\ \A s, q : (Uses(s, q)' <=> Uses(s, q)) /\ (Guarded(s, q)' <=> Guarded(s, q))
  BY SameQueues DEF device
<1>4. TypeOK'
  BY <1>2 DEF IInv, TypeOK, Call, device
<1>5. \A u \in Threads : \A q : Carries(u, q)' <=> Carries(u, q)
  BY <1>2 DEF Carries, Calls
<1>6. CountInv' /\ PlaceInv'
  BY <1>3, <1>5 DEF IInv, CountInv, PlaceInv, device
<1>7. CarryInv'
  BY <1>2, <1>3, <1>5 DEF IInv, CarryInv, Calls, Carries, device
<1>8. CallInv'
  BY <1>2, <1>3 DEF IInv, CallInv, Calls, device
<1>9. WorkInv'
  BY <1>2, <1>3 DEF IInv, WorkInv, ToRecord, Calls, device
<1>10. ThreadInv'
  BY <1>2 DEF IInv, ThreadInv, Calls
<1> QED  BY <1>3, <1>4, <1>6, <1>7, <1>8, <1>9, <1>10 DEF IInv

LEMMA EmptyKeeps ==
  ASSUME IInv, NEW t \in Threads, EmptyCache(t) \/ EmptyDeviceCache(t)
  PROVE  IInv'
<1>1. CASE EmptyCache(t)
  BY <1>1, EmptyBegins DEF EmptyCache
<1>2. CASE EmptyDeviceCache(t)
  <2>1. {context[t]} \in SUBSET Devices
    BY <1>2 DEF EmptyDeviceCache, IInv, TypeOK
  <2> QED  BY <1>2, <2>1, EmptyBegins DEF EmptyDeviceCache
<1> QED  BY <1>1, <1>2

LEMMA InsertDoneKeeps ==
  ASSUME IInv, NEW t \in Threads, InsertDone(t)
  PROVE  IInv'
<1> DEFINE p == call[t].ptr
           h == HomeOf[p]
<1>1. /\ call[t].op = "insert" /\ call[t].left = {}
      /\ owner' = [owner EXCEPT ![h] = None]
      /\ context' = IF call[t].saved = None THEN context
                    ELSE [context EXCEPT ![t] = call[t].saved]
      /\ Returns(t)
      /\ UNCHANGED <<allocated_blocks, blocks, npu_events, event_pool, device_index,
                     work, held, chosen>>
  BY DEF InsertDone, Calls
<1>2. /\ p \in Addresses /\ Carries(t, p)
      /\ blocks[p].state = "active" /\ p \notin allocated_blocks
      /\ \A u \in Threads \ {t} : ~Carries(u, p)
  BY <1>1, CarriedBlock DEF Calls
<1>3. /\ call' \in [Threads -> Call]
      /\ call'[t].op = "none" /\ call'[t].ptr = None
      /\ \A u \in Threads \ {t} : call'[u] = call[u]
  BY <1>1, ReturnsCall DEF IInv, NoCall
<1>4. /\ QueueInv' /\ EventInv'
      /\ \A q : Named(q)' = Named(q)
      /\ \A s, q : (Uses(s, q)' <=> Uses(s, q)) /\ (Guarded(s, q)' <=> Guarded(s, q))
  BY <1>1, SameQueues
<1>5. h \in Devices /\ owner[h] = t /\ Named(p) # {}
  <2>1. h \in Devices
    BY <1>2, FrontEndAssumption
  <2>2. owner[h] = t /\ Named(p) # {}
    BY <1>1 DEF IInv, CallInv, Calls
  <2> QED  BY <2>1, <2>2
<1>6. call[t].saved \in Devices \cup {None}
  BY CallTypes DEF IInv, Call
<1> HIDE DEF p, h
<1>7. /\ context' \in [Threads -> Devices \cup {None}]
      /\ \A u \in Threads \ {t} : context'[u] = context[u]
      /\ call[t].saved # None => context'[t] = call[t].saved
  BY <1>1, <1>6 DEF IInv, TypeOK
<1>8. /\ owner' \in [Devices -> Threads \cup {None}]
      /\ \A x \in Devices \ {h} : owner'[x] = owner[x]
  BY <1>1, <1>5 DEF IInv, TypeOK
<1>9. TypeOK'
  BY <1>1, <1>3, <1>7, <1>8 DEF IInv, TypeOK, Call
<1>10. \A u \in Threads : \A q : Carries(u, q)' => u # t /\ Carries(u, q)
  BY <1>3 DEF Carries
<1>11. \A u \in Threads : \A q : Carries(u, q) => q = p \/ Carries(u, q)'
  BY <1>3 DEF Carries, p
<1>12. CountInv' /\ PlaceInv'
  BY <1>1, <1>2, <1>4, <1>5, <1>11 DEF IInv, CountInv, PlaceInv
<1>13. CarryInv'
  BY <1>1, <1>3, <1>4, <1>10 DEF IInv, CarryInv, Calls
<1>14. CallInv'
  <2>1. ASSUME NEW u \in Threads \ {t}, call[u].op = "insert"
        PROVE  owner'[HomeOf[call[u].ptr]] = owner[HomeOf[call[u].ptr]]
    <3>1. call[u].ptr \in Addresses /\ owner[HomeOf[call[u].ptr]] = u
      BY <2>1 DEF IInv, CallInv, Calls
    <3>2. HomeOf[call[u].ptr] \in Devices \ {h}
      BY <3>1, <1>5, FrontEndAssumption
    <3> QED  BY <1>8, <3>2
  <2> QED  BY <1>3, <1>4, <2>1 DEF IInv, CallInv, Calls
<1>15. WorkInv'
  <2>1. \A s, q : ~ToRecord(t, s, q)
    BY <1>1 DEF ToRecord, Calls
  <2>2. \A u \in Threads \ {t} : \A s, q : ToRecord(u, s, q) => ToRecord(u, s, q)'
    BY <1>1, <1>3 DEF ToRecord, Calls
  <2>3. \A u \in Threads : \A s, q : ToRecord(u, s, q) => ToRecord(u, s, q)'
    BY <2>1, <2>2
  <2> QED  BY <1>1, <1>4, <2>3 DEF IInv, WorkInv
<1>16. ThreadInv'
  BY <1>1, <1>3, <1>7 DEF IInv, ThreadInv, Calls
<1> QED  BY <1>4, <1>9, <1>12, <1>13, <1>14, <1>15, <1>16 DEF IInv

\* recordStream and eraseStream change the streams of a block the program holds.
LEMMA StreamCallKeeps ==
  ASSUME IInv, NEW t \in Threads, NEW p \in Addresses, NEW uses \in SUBSET Streams,
         StreamCall(t, p, uses)
  PROVE  IInv'
<1>1. /\ p \in held /\ p \in allocated_blocks
      /\ blocks' = [blocks EXCEPT ![p].uses = uses]
      /\ UNCHANGED <<allocated_blocks, npu_events, event_pool, device_index, owner,
                     work, context, call, held, chosen>>
  BY DEF StreamCall, IInv, PlaceInv
<1>2. /\ QueueInv' /\ EventInv'
      /\ \A q : Named(q)' = Named(q)
      /\ \A s, q : (Uses(s, q)' <=> Uses(s, q)) /\ (Guarded(s, q)' <=> Guarded(s, q))
  BY <1>1, SameQueues
<1>3. blocks \in [Addresses -> Block]
  BY DEF IInv, TypeOK, Block
<1>4. /\ blocks' \in [Addresses -> Block]
      /\ \A q \in Addresses \ {p} : blocks'[q] = blocks[q]
      /\ \A q \in Addresses : /\ blocks'[q].state = blocks[q].state
                              /\ blocks'[q].stream = blocks[q].stream
                              /\ blocks'[q].event_count = blocks[q].event_count
  BY <1>1, <1>3 DEF Block
<1>5. TypeOK'
  BY <1>1, <1>4 DEF IInv, TypeOK, Block
<1>6. \A u, q : Carries(u, q)' <=> Carries(u, q)
  BY <1>1 DEF Carries
<1>7. CountInv' /\ PlaceInv'
  BY <1>1, <1>2, <1>4, <1>6 DEF IInv, CountInv, PlaceInv
<1>8. CarryInv'
  BY <1>1, <1>2, <1>4, <1>6 DEF IInv, CarryInv, Calls
<1>9. CallInv'
  BY <1>1, <1>2 DEF IInv, CallInv, Calls
<1>10. WorkInv'
  <2>1. ASSUME NEW s \in Streams, NEW q \in Addresses, q # p, NEW u \in Threads
        PROVE  ToRecord(u, s, q) => ToRecord(u, s, q)'
    BY <1>1, <1>4, <2>1 DEF ToRecord, Calls
  <2>2. \A s \in Streams : \A q \in Addresses : Uses(s, q)' =>
          \/ q \in held'
          \/ blocks'[q].state # "none" /\ blocks'[q].stream = s
          \/ \E u \in Threads : ToRecord(u, s, q)'
          \/ Guarded(s, q)'
    BY <1>1, <1>2, <1>4, <2>1 DEF IInv, WorkInv
  <2> QED  BY <2>2 DEF WorkInv
<1>11. ThreadInv'
  BY <1>1 DEF IInv, ThreadInv, Calls
<1> QED  BY <1>2, <1>5, <1>7, <1>8, <1>9, <1>10, <1>11 DEF IInv

LEMMA RecordKeeps ==
  ASSUME IInv, NEW t \in Threads, NEW p \in Addresses, NEW s \in Streams,
         RecordStream(t, p, s) \/ EraseStream(t, p, s)
  PROVE  IInv'
<1>1. blocks[p].uses \in SUBSET Streams
  BY DEF IInv, TypeOK
<1>2. CASE RecordStream(t, p, s)
  <2>1. blocks[p].uses \cup {s} \in SUBSET Streams
    BY <1>1
  <2>2. StreamCall(t, p, blocks[p].uses \cup {s})
    BY <1>2 DEF RecordStream
  <2> QED  BY <2>1, <2>2, StreamCallKeeps
<1>3. CASE EraseStream(t, p, s)
  <2>1. blocks[p].uses \ {s} \in SUBSET Streams
    BY <1>1
  <2>2. StreamCall(t, p, blocks[p].uses \ {s})
    BY <1>3 DEF EraseStream
  <2> QED  BY <2>1, <2>2, StreamCallKeeps
<1> QED  BY <1>2, <1>3

LEMMA DeviceFreeKeeps ==
  ASSUME IInv, NEW t \in Threads, DeviceFree(t)
  PROVE  IInv'
<1> DEFINE p == call[t].ptr
           h == HomeOf[p]
<1>1. /\ call[t].op = "free" /\ owner[h] = None
      /\ UNCHANGED <<allocated_blocks, npu_events, event_pool, device_index,
                     work, held, chosen>>
  BY DEF DeviceFree, Calls
<1>2. /\ p \in Addresses /\ Carries(t, p)
      /\ blocks[p].state = "active" /\ Named(p) = {}
      /\ p \notin allocated_blocks /\ p \notin held
      /\ \A u \in Threads \ {t} : ~Carries(u, p)
  BY <1>1, CarriedBlock DEF Calls
<1>3. /\ QueueInv' /\ EventInv'
      /\ \A q : Named(q)' = Named(q)
      /\ \A s, q : (Uses(s, q)' <=> Uses(s, q)) /\ (Guarded(s, q)' <=> Guarded(s, q))
  BY <1>1, SameQueues
<1>4. blocks \in [Addresses -> Block]
  BY DEF IInv, TypeOK, Block
<1>5. h \in Devices
  BY <1>2, FrontEndAssumption
<1>6. CASE blocks[p].uses = {}
  <2>1. /\ blocks' = [blocks EXCEPT ![p].state = "cached"]
        /\ Returns(t)
        /\ UNCHANGED <<owner, context>>
    BY <1>6 DEF DeviceFree
  <2>2. /\ call' \in [Threads -> Call]
        /\ call'[t].op = "none" /\ call'[t].ptr = None
        /\ \A u \in Threads \ {t} : call'[u] = call[u]
    BY <2>1, ReturnsCall DEF IInv, NoCall
  <2>3. \A s \in Streams : \A q : ~ToRecord(t, s, q)
    BY <1>1, <1>6 DEF ToRecord, Calls
  <2>4. \A u \in Threads : \A q : Carries(u, q) => q = p \/ Carries(u, q)'
    BY <2>2 DEF Carries
  <2> HIDE DEF p, h
  <2>5. /\ blocks' \in [Addresses -> Block]
        /\ blocks'[p].state = "cached"
        /\ \A q \in Addresses \ {p} : blocks'[q] = blocks[q]
        /\ \A q \in Addresses : /\ blocks'[q].stream = blocks[q].stream
                                /\ blocks'[q].uses = blocks[q].uses
                                /\ blocks'[q].event_count = blocks[q].event_count
    BY <1>2, <1>4, <2>1 DEF Block
  <2>6. TypeOK'
    BY <1>1, <2>1, <2>2, <2>5 DEF IInv, TypeOK, Block, Call
  <2>7. \A u \in Threads : \A q : Carries(u, q)' => u # t /\ q # p /\ Carries(u, q)
    BY <1>2, <2>2 DEF Carries
  <2>8. CountInv'
    BY <1>3, <2>5 DEF IInv, CountInv
  <2>9. PlaceInv'
    <3>1. allocated_blocks \subseteq Addresses /\ p \notin allocated_blocks
      BY <1>2 DEF IInv, TypeOK
    <3>2. \A q \in allocated_blocks' : blocks'[q].state = "active" /\ Named(q)' = {}
      BY <1>1, <1>3, <2>5, <3>1 DEF IInv, PlaceInv
    <3>3. \A q \in Addresses : Named(q)' # {} => blocks'[q].state = "active"
      BY <1>2, <1>3, <2>5 DEF IInv, PlaceInv
    <3>4. ASSUME NEW q \in Addresses, blocks'[q].state = "active"
          PROVE  q \in allocated_blocks' \/ Named(q)' # {} \/ \E u \in Threads : Carries(u, q)'
      <4>1. q # p /\ blocks[q].state = "active"
        BY <2>5, <3>4
      <4>2. q \in allocated_blocks \/ Named(q) # {} \/ \E u \in Threads : Carries(u, q)
        BY <4>1 DEF IInv, PlaceInv
      <4> QED  BY <1>1, <1>3, <2>4, <4>1, <4>2
    <3>5. held' \subseteq allocated_blocks'
      BY <1>1 DEF IInv, PlaceInv
    <3> QED  BY <3>2, <3>3, <3>4, <3>5 DEF PlaceInv
  <2>10. CarryInv'
    BY <1>1, <1>3, <2>2, <2>5, <2>7 DEF IInv, CarryInv, Calls
  <2>11. CallInv'
    BY <1>1, <1>3, <2>1, <2>2 DEF IInv, CallInv, Calls
  <2>12. WorkInv'
    <3>1. ASSUME NEW s \in Streams, NEW q \in Addresses, Uses(s, q)'
          PROVE  \/ q \in held'
                 \/ blocks'[q].state # "none" /\ blocks'[q].stream = s
                 \/ \E u \in Threads : ToRecord(u, s, q)'
                 \/ Guarded(s, q)'
      <4>1. \A u \in Threads \ {t} : ToRecord(u, s, q) => ToRecord(u, s, q)'
        BY <2>2, <2>5 DEF ToRecord, Calls
      <4>2. blocks[q].state # "none" => blocks'[q].state # "none"
        BY <2>5
      <4> QED  BY <1>1, <1>3, <2>3, <2>5, <3>1, <4>1, <4>2 DEF IInv, WorkInv
    <3> QED  BY <3>1 DEF WorkInv
  <2>13. ThreadInv'
    BY <1>1, <2>1, <2>2 DEF IInv, ThreadInv, Calls
  <2> QED  BY <1>3, <2>6, <2>8, <2>9, <2>10, <2>11, <2>12, <2>13 DEF IInv
<1>7. CASE blocks[p].uses # {}
  <2> DEFINE r == [call[t] EXCEPT !.op = "insert", !.left = blocks[p].uses,
                                  !.saved = context[t]]
  <2>1. /\ blocks' = [blocks EXCEPT ![p].uses = {}]
        /\ owner' = [owner EXCEPT ![h] = t]
        /\ context' = [context EXCEPT ![t] = h]
        /\ call' = [call EXCEPT ![t].op = "insert", ![t].left = blocks[p].uses,
                                ![t].saved = context[t]]
    BY <1>7 DEF DeviceFree
  <2>2. r \in Call /\ r.op = "insert" /\ r.left = blocks[p].uses /\ r.saved = context[t]
        /\ r.ptr = p
    <3>1. call[t] \in Call /\ context[t] \in Devices \cup {None}
      BY CallTypes DEF IInv, TypeOK
    <3>2. blocks[p].uses \in SUBSET Streams /\ "insert" \in Ops
      BY <1>2, <1>4 DEF Block, Ops
    <3> QED  BY <3>1, <3>2 DEF Call
  <2>3. call' = [call EXCEPT ![t] = r]
    BY <2>1, CallTypes DEF IInv
  <2> HIDE DEF r
  <2>4. /\ call' \in [Threads -> Call] /\ call'[t] = r
        /\ \A u \in Threads \ {t} : call'[u] = call[u]
    BY <2>2, <2>3, CallTypes DEF IInv
  <2>5. \A u \in Threads : \A q : Carries(u, q)' <=> Carries(u, q)
    BY <1>1, <2>2, <2>4 DEF Carries
  <2> HIDE DEF p, h
  <2>6. /\ blocks' \in [Addresses -> Block]
        /\ \A q \in Addresses \ {p} : blocks'[q] = blocks[q]
        /\ \A q \in Addresses : /\ blocks'[q].state = blocks[q].state
                                /\ blocks'[q].stream = blocks[q].stream
                                /\ blocks'[q].event_count = blocks[q].event_count
    BY <1>2, <1>4, <2>1 DEF Block
  <2>7. /\ owner' \in [Devices -> Threads \cup {None}]
        /\ owner'[h] = t
        /\ \A x \in Devices \ {h} : owner'[x] = owner[x]
    BY <1>5, <2>1 DEF IInv, TypeOK
  <2>8. /\ context' \in [Threads -> Devices \cup {None}]
        /\ \A u \in Threads \ {t} : context'[u] = context[u]
    BY <1>5, <2>1 DEF IInv, TypeOK
  <2>9. TypeOK'
    BY <1>1, <2>4, <2>6, <2>7, <2>8 DEF IInv, TypeOK, Block, Call
  <2>10. CountInv' /\ PlaceInv'
    BY <1>1, <1>3, <2>5, <2>6 DEF IInv, CountInv, PlaceInv, TypeOK
  <2>11. CarryInv'
    BY <1>1, <1>3, <2>2, <2>4, <2>5, <2>6 DEF IInv, CarryInv, Calls
  <2>12. CallInv'
    <3>1. ASSUME NEW u \in Threads \ {t}, call[u].op = "insert"
          PROVE  owner'[HomeOf[call[u].ptr]] = owner[HomeOf[call[u].ptr]]
      <4>1. call[u].ptr \in Addresses /\ owner[HomeOf[call[u].ptr]] = u
        BY <3>1 DEF IInv, CallInv, Calls
      <4>2. HomeOf[call[u].ptr] \in Devices \ {h}
        BY <1>1, <4>1, FrontEndAssumption DEF h, p
      <4> QED  BY <2>7, <4>2
    <3>2. blocks[p].uses \subseteq Streams
      BY <1>2, <1>4 DEF Block
    <3>3. /\ owner'[HomeOf[call'[t].ptr]] = t
          /\ call'[t].left = blocks[p].uses /\ call'[t].ptr = p
          /\ call'[t].op = "insert"
      BY <2>2, <2>4, <2>7 DEF h
    <3> QED  BY <1>2, <1>3, <1>7, <2>4, <3>1, <3>2, <3>3 DEF IInv, CallInv, Calls
  <2>13. WorkInv'
    <3>1. ASSUME NEW s \in Streams, NEW q \in Addresses, Uses(s, q)'
          PROVE  \/ q \in held'
                 \/ blocks'[q].state # "none" /\ blocks'[q].stream = s
                 \/ \E u \in Threads : ToRecord(u, s, q)'
                 \/ Guarded(s, q)'
      <4>1. \A u \in Threads \ {t} : ToRecord(u, s, q) => ToRecord(u, s, q)'
        <5>1. SUFFICES ASSUME NEW u \in Threads \ {t}, ToRecord(u, s, q)
                       PROVE  ToRecord(u, s, q)'
          OBVIOUS
        <5>2. Carries(u, q)
          BY <5>1 DEF ToRecord, Carries, Calls
        <5>3. q # p
          BY <1>2, <5>2
        <5> QED  BY <2>4, <2>6, <5>1, <5>3 DEF ToRecord, Calls
      <4>2. ToRecord(t, s, q) => ToRecord(t, s, q)'
        BY <1>1, <2>2, <2>4 DEF ToRecord, Calls, p
      <4> QED  BY <1>1, <1>3, <2>6, <3>1, <4>1, <4>2 DEF IInv, WorkInv
    <3> QED  BY <3>1 DEF WorkInv
  <2>14. ThreadInv'
    <3>1. chosen[t] # None => call'[t].saved = chosen[t]
      BY <1>1, <2>2, <2>4 DEF IInv, ThreadInv, Calls
    <3> QED  BY <1>1, <2>2, <2>4, <2>8, <3>1 DEF IInv, ThreadInv, Calls
  <2> QED  BY <1>3, <2>9, <2>10, <2>11, <2>12, <2>13, <2>14 DEF IInv
<1> QED  BY <1>6, <1>7

\* What is appended to a sequence is at a place of its own, behind the others.
LEMMA Appending ==
  ASSUME NEW S, NEW w \in Seq(S), NEW e \in S
  PROVE  \E n : /\ n \notin DOMAIN w /\ DOMAIN Append(w, e) = DOMAIN w \cup {n}
               /\ \A i \in DOMAIN w : Append(w, e)[i] = w[i] /\ n > i
               /\ Append(w, e)[n] = e
<1>1. /\ Len(w) \in Nat /\ DOMAIN w = 1 .. Len(w)
      /\ DOMAIN Append(w, e) = 1 .. Len(w) + 1
      /\ \A i \in 1 .. Len(w) : Append(w, e)[i] = w[i]
      /\ Append(w, e)[Len(w) + 1] = e
  OBVIOUS
<1>2. PICK n : n = Len(w) + 1
  OBVIOUS
<1>3. /\ n \notin 1 .. Len(w) /\ 1 .. Len(w) + 1 = (1 .. Len(w)) \cup {n}
      /\ \A i \in 1 .. Len(w) : n > i
  BY <1>1, <1>2
<1> QED  BY <1>1, <1>2, <1>3

\* The event insert_events gets is queued nowhere, and in no other pool.
LEMMA PoolGetFresh ==
  ASSUME IInv, NEW d \in Devices, NEW e \in PoolGet(d)
  PROVE  /\ e \in Events
         /\ \A x \in Devices, s \in Streams : \A i \in DOMAIN npu_events[x][s] :
              npu_events[x][s][i].event # e
         /\ \A x \in Devices \ {d} : e \notin event_pool[x]
<1>1. CASE event_pool[d] # {}
  <2>1. e \in event_pool[d]
    BY <1>1 DEF PoolGet
  <2> QED  BY <2>1 DEF IInv, TypeOK, EventInv
<1>2. CASE event_pool[d] = {}
  <2>1. e \in Events /\ Unused(e)
    BY <1>2 DEF PoolGet
  <2> QED  BY <2>1 DEF Unused
<1> QED  BY <1>1, <1>2

LEMMA InsertEventKeeps ==
  ASSUME IInv, NEW t \in Threads, NEW s \in Streams, InsertEvent(t, s)
  PROVE  IInv'
<1>p. PICK p : p = call[t].ptr
  OBVIOUS
<1>h. PICK h : h = HomeOf[p]
  OBVIOUS
<1>d. PICK d : d = DeviceOf[s]
  OBVIOUS
<1>e. PICK e : e = CHOOSE x \in PoolGet(d) : TRUE
  OBVIOUS
<1>y. PICK entry : entry = [event |-> e, pool |-> d, block |-> p]
  OBVIOUS
<1>q. PICK q : q = npu_events[h][s]
  OBVIOUS
<1> DEFINE r == [call[t] EXCEPT !.left = @ \ {s}]
<1>1. /\ call[t].op = "insert" /\ s \in call[t].left /\ PoolGet(d) # {}
      /\ event_pool' = [event_pool EXCEPT ![d] = @ \ {e}]
      /\ device_index' = [device_index EXCEPT ![e] = d]
      /\ work' = [work EXCEPT ![s] = Append(@, e)]
      /\ blocks' = [blocks EXCEPT ![p].event_count = @ + 1]
      /\ npu_events' = [npu_events EXCEPT ![h][s] = Append(@, entry)]
      /\ context' = [context EXCEPT ![t] = d]
      /\ call' = [call EXCEPT ![t].left = @ \ {s}]
      /\ UNCHANGED <<allocated_blocks, owner, held, chosen>>
  BY <1>p, <1>h, <1>d, <1>e, <1>y DEF InsertEvent, PoolFor, Counted, Calls
<1>2. /\ p \in Addresses /\ Carries(t, p)
      /\ blocks[p].state = "active" /\ p \notin allocated_blocks
      /\ \A u \in Threads \ {t} : ~Carries(u, p)
  BY <1>1, <1>p, CarriedBlock DEF Calls
<1>3. h \in Devices /\ d \in Devices
  BY <1>2, <1>h, <1>d, FrontEndAssumption
<1>4. e \in PoolGet(d)
  BY <1>1, <1>e
<1>5. /\ owner[h] = t /\ call[t].left \subseteq Streams /\ call[t].left \cap Named(p) = {}
      /\ s \notin Named(p)
  <2>1. owner[h] = t /\ call[t].left \subseteq Streams /\ call[t].left \cap Named(p) = {}
    BY <1>1, <1>p, <1>h DEF IInv, CallInv, Calls
  <2> QED  BY <1>1, <2>1
<1>6. /\ entry.event = e /\ entry.pool = d /\ entry.block = p
  BY <1>y
<1>7. r \in Call /\ r.op = "insert" /\ r.ptr = p /\ r.left = call[t].left \ {s}
      /\ r.saved = call[t].saved
  <2>1. call[t] \in Call
    BY CallTypes DEF IInv
  <2>2. call[t].left \ {s} \in SUBSET Streams
    BY <1>5
  <2> QED  BY <1>1, <1>p, <2>1, <2>2 DEF Call
<1>8. /\ call' \in [Threads -> Call] /\ call'[t] = r
      /\ \A u \in Threads \ {t} : call'[u] = call[u]
  <2>1. call' = [call EXCEPT ![t] = r]
    BY <1>1, CallTypes DEF IInv
  <2> HIDE DEF r
  <2> QED  BY <1>7, <2>1, CallTypes DEF IInv
<1>9. \A u \in Threads : \A x : Carries(u, x)' <=> Carries(u, x)
  BY <1>1, <1>7, <1>8 DEF Carries
<1> HIDE DEF r
<1>11. /\ e \in Events /\ e \notin Addresses
       /\ \A x \in Devices, y \in Streams : \A i \in DOMAIN npu_events[x][y] :
            npu_events[x][y][i].event # e
       /\ \A x \in Devices \ {d} : e \notin event_pool[x]
  <2>1. /\ e \in Events
        /\ \A x \in Devices, y \in Streams : \A i \in DOMAIN npu_events[x][y] :
             npu_events[x][y][i].event # e
        /\ \A x \in Devices \ {d} : e \notin event_pool[x]
    BY <1>3, <1>4, PoolGetFresh
  <2> QED  BY <2>1, FrontEndAssumption
<1>12. entry \in Entry
  BY <1>2, <1>3, <1>11, <1>y DEF Entry
<1>13. npu_events \in [Devices -> [Streams -> Seq(Entry)]] /\ q \in Seq(Entry)
  <2>1. npu_events \in [Devices -> [Streams -> Seq(Entry)]]
    BY TypeQueues DEF IInv
  <2> QED  BY <1>3, <1>q, <2>1
<1>14. /\ npu_events' \in [Devices -> [Streams -> Seq(Entry)]]
       /\ npu_events'[h][s] = Append(q, entry)
       /\ \A x \in Devices, y \in Streams :
            x # h \/ y # s => npu_events'[x][y] = npu_events[x][y]
  <2>1. Append(q, entry) \in Seq(Entry)
    BY <1>12, <1>13
  <2>2. npu_events' = [npu_events EXCEPT ![h][s] = Append(q, entry)]
    BY <1>1, <1>3, <1>13, <1>q
  <2> QED  BY <1>3, <1>13, <2>1, <2>2
<1>15. PICK n : /\ n \notin DOMAIN q /\ DOMAIN npu_events'[h][s] = DOMAIN q \cup {n}
                /\ \A i \in DOMAIN q : npu_events'[h][s][i] = q[i]
                /\ npu_events'[h][s][n] = entry
  <2>1. \E n : /\ n \notin DOMAIN q /\ DOMAIN Append(q, entry) = DOMAIN q \cup {n}
               /\ \A i \in DOMAIN q : Append(q, entry)[i] = q[i] /\ n > i
               /\ Append(q, entry)[n] = entry
    BY <1>12, <1>13, Appending
  <2> QED  BY <1>14, <2>1
<1>16. ASSUME NEW x \in Devices, NEW y \in Streams, NEW i \in DOMAIN npu_events'[x][y]
       PROVE  \/ i \in DOMAIN npu_events[x][y] /\ npu_events'[x][y][i] = npu_events[x][y][i]
              \/ x = h /\ y = s /\ i = n /\ npu_events'[x][y][i] = entry
  <2>1. CASE x = h /\ y = s
    BY <1>15, <1>q, <2>1
  <2>2. CASE ~(x = h /\ y = s)
    BY <1>14, <2>2
  <2> QED  BY <2>1, <2>2
<1>17. ASSUME NEW x \in Devices, NEW y \in Streams, NEW i \in DOMAIN npu_events[x][y]
       PROVE  i \in DOMAIN npu_events'[x][y] /\ npu_events'[x][y][i] = npu_events[x][y][i]
  <2>1. CASE x = h /\ y = s
    BY <1>15, <1>q, <2>1
  <2>2. CASE ~(x = h /\ y = s)
    BY <1>14, <2>2
  <2> QED  BY <2>1, <2>2
<1>18. \A i \in DOMAIN q : q[i].block # p
  BY <1>5, <1>q, <1>h DEF Named, InQueue
<1>19. QueueInv'
  <2>1. ASSUME NEW x \in Devices, NEW y \in Streams, NEW i \in DOMAIN npu_events'[x][y]
        PROVE  HomeOf[npu_events'[x][y][i].block] = x
    BY <1>6, <1>16, <1>h DEF IInv, QueueInv
  <2>2. ASSUME NEW x \in Devices, NEW y \in Streams, NEW i \in DOMAIN npu_events'[x][y],
               NEW j \in DOMAIN npu_events'[x][y],
               npu_events'[x][y][i].block = npu_events'[x][y][j].block
        PROVE  i = j
    <3>1. CASE /\ i \in DOMAIN npu_events[x][y]
               /\ npu_events'[x][y][i] = npu_events[x][y][i]
               /\ j \in DOMAIN npu_events[x][y]
               /\ npu_events'[x][y][j] = npu_events[x][y][j]
      BY <2>2, <3>1 DEF IInv, QueueInv
    <3>2. CASE x = h /\ y = s /\ i = n /\ npu_events'[x][y][i] = entry
      <4>1. ~(j \in DOMAIN npu_events[x][y] /\ npu_events'[x][y][j] = npu_events[x][y][j])
        BY <1>6, <1>18, <1>q, <2>2, <3>2
      <4>2. j = n
        BY <1>16, <4>1
      <4> QED  BY <3>2, <4>2
    <3>3. CASE x = h /\ y = s /\ j = n /\ npu_events'[x][y][j] = entry
      <4>1. ~(i \in DOMAIN npu_events[x][y] /\ npu_events'[x][y][i] = npu_events[x][y][i])
        BY <1>6, <1>18, <1>q, <2>2, <3>3
      <4>2. i = n
        BY <1>16, <4>1
      <4> QED  BY <3>3, <4>2
    <3> QED  BY <1>16, <3>1, <3>2, <3>3
  <2> QED  BY <2>1, <2>2 DEF QueueInv
<1>20. Named(p)' = Named(p) \cup {s}
  <2>1. s \in Named(p)'
    <3>1. InQueue(npu_events'[h][s], p)
      BY <1>6, <1>15 DEF InQueue
    <3> QED  BY <3>1, <1>h DEF Named
  <2>2. ASSUME NEW y \in Streams, y # s
        PROVE  y \in Named(p)' <=> y \in Named(p)
    BY <1>3, <1>14, <1>h, <2>2 DEF Named, InQueue
  <2>3. Named(p)' \subseteq Streams /\ Named(p) \subseteq Streams
    BY DEF Named
  <2> QED  BY <2>1, <2>2, <2>3
<1>21. ASSUME NEW x \in Addresses, x # p
       PROVE  Named(x)' = Named(x)
  <2>1. HomeOf[x] \in Devices
    BY FrontEndAssumption
  <2>2. ASSUME NEW y \in Streams
        PROVE  y \in Named(x)' <=> y \in Named(x)
    <3>k. PICK k : k = HomeOf[x]
      OBVIOUS
    <3>1. ASSUME NEW i \in DOMAIN npu_events'[k][y], npu_events'[k][y][i].block = x
          PROVE  i \in DOMAIN npu_events[k][y] /\ npu_events[k][y][i].block = x
      <4>1. npu_events'[k][y][i] # entry
        BY <1>6, <1>21, <3>1
      <4> QED  BY <1>16, <2>1, <3>k, <3>1, <4>1
    <3>2. ASSUME NEW i \in DOMAIN npu_events[k][y], npu_events[k][y][i].block = x
          PROVE  i \in DOMAIN npu_events'[k][y] /\ npu_events'[k][y][i].block = x
      BY <1>17, <2>1, <3>k, <3>2
    <3> QED  BY <3>k, <3>1, <3>2 DEF Named, InQueue
  <2>3. Named(x)' \subseteq Streams /\ Named(x) \subseteq Streams
    BY DEF Named
  <2> QED  BY <2>2, <2>3
<1>22. blocks \in [Addresses -> Block]
  BY DEF IInv, TypeOK, Block
<1>23. /\ blocks' \in [Addresses -> Block]
       /\ blocks'[p].event_count = blocks[p].event_count + 1
       /\ \A x \in Addresses \ {p} : blocks'[x] = blocks[x]
       /\ \A x \in Addresses : /\ blocks'[x].state = blocks[x].state
                               /\ blocks'[x].stream = blocks[x].stream
                               /\ blocks'[x].uses = blocks[x].uses
  <2>1. PICK c \in Nat : c = blocks[p].event_count + 1
    BY <1>2, <1>22 DEF Block
  <2>2. blocks' = [blocks EXCEPT ![p].event_count = c]
    BY <1>1, <2>1
  <2> QED  BY <1>2, <1>22, <2>1, <2>2 DEF Block
<1>24. CountInv'
  <2>1. /\ IsFiniteSet(Named(p)) /\ Cardinality(Named(p)) \in Nat
        /\ blocks[p].event_count = Cardinality(Named(p))
    BY <1>2, NamedFinite DEF IInv, CountInv
  <2>2. Cardinality(Named(p) \cup {s}) = Cardinality(Named(p)) + 1
    BY <1>5, <2>1, FS_AddElement
  <2> QED  BY <1>20, <1>21, <1>23, <2>1, <2>2 DEF IInv, CountInv
<1>25. PlaceInv'
  <2>1. \A x \in allocated_blocks' : x \in Addresses /\ x # p
    BY <1>1, <1>2 DEF IInv, TypeOK
  <2>2. \A x \in allocated_blocks' : blocks'[x].state = "active" /\ Named(x)' = {}
    BY <1>1, <1>21, <1>23, <2>1 DEF IInv, PlaceInv
  <2>3. \A x \in Addresses : Named(x)' # {} => blocks'[x].state = "active"
    BY <1>2, <1>21, <1>23 DEF IInv, PlaceInv
  <2>4. \A x \in Addresses : blocks'[x].state = "active" =>
          x \in allocated_blocks' \/ Named(x)' # {} \/ \E u \in Threads : Carries(u, x)'
    BY <1>1, <1>2, <1>9, <1>21, <1>23 DEF IInv, PlaceInv
  <2>5. held' \subseteq allocated_blocks'
    BY <1>1 DEF IInv, PlaceInv
  <2> QED  BY <2>2, <2>3, <2>4, <2>5 DEF PlaceInv
<1>26. CarryInv'
  BY <1>1, <1>2, <1>7, <1>8, <1>9, <1>21, <1>23 DEF IInv, CarryInv, Calls
<1>27. CallInv'
  <2>1. ASSUME NEW u \in Threads \ {t}, call[u].op = "insert"
        PROVE  \A x : x = call[u].ptr => Named(x)' = Named(x)
    <3>1. call[u].ptr \in Addresses
      BY <2>1 DEF IInv, CallInv, Calls
    <3>2. call[u].ptr # p
      BY <1>2, <2>1 DEF Carries
    <3> QED  BY <1>21, <3>1, <3>2
  <2>2. /\ call'[t].op = "insert" /\ call'[t].ptr = p
        /\ owner'[HomeOf[call'[t].ptr]] = t
        /\ call'[t].left \subseteq Streams
        /\ call'[t].left \cap Named(p)' = {}
        /\ call'[t].left \cup Named(p)' # {}
    BY <1>1, <1>h, <1>5, <1>7, <1>8, <1>20
  <2> QED  BY <1>1, <1>2, <1>8, <2>1, <2>2 DEF IInv, CallInv, Calls
<1>28. /\ device_index' \in [Events -> Devices \cup {None}]
       /\ device_index'[e] = d
       /\ \A x \in Events \ {e} : device_index'[x] = device_index[x]
       /\ event_pool' \in [Devices -> SUBSET Events]
       /\ e \notin event_pool'[d]
       /\ \A x \in Devices : event_pool'[x] \subseteq event_pool[x]
  <2>1. /\ device_index \in [Events -> Devices \cup {None}]
        /\ event_pool \in [Devices -> SUBSET Events]
    BY DEF IInv, TypeOK
  <2> QED  BY <1>1, <1>3, <1>11, <2>1
<1>29. EventInv'
  <2>1. ASSUME NEW x \in Devices, NEW f \in event_pool'[x]
        PROVE  device_index'[f] = x
    <3>1. f \in event_pool[x] /\ f \in Events /\ f # e
      BY <1>11, <1>28
    <3> QED  BY <1>28, <3>1 DEF IInv, EventInv
  <2>2. ASSUME NEW x \in Devices, NEW y \in Devices, NEW a \in Streams, NEW b \in Streams,
               NEW i \in DOMAIN npu_events'[x][a], NEW j \in DOMAIN npu_events'[y][b],
               npu_events'[x][a][i].event = npu_events'[y][b][j].event
        PROVE  x = y /\ a = b /\ i = j
    <3>1. CASE /\ i \in DOMAIN npu_events[x][a]
               /\ npu_events'[x][a][i] = npu_events[x][a][i]
               /\ j \in DOMAIN npu_events[y][b]
               /\ npu_events'[y][b][j] = npu_events[y][b][j]
      BY <2>2, <3>1 DEF IInv, EventInv
    <3>2. CASE x = h /\ a = s /\ i = n /\ npu_events'[x][a][i] = entry
      <4>1. ~(j \in DOMAIN npu_events[y][b] /\ npu_events'[y][b][j] = npu_events[y][b][j])
        BY <1>6, <1>11, <2>2, <3>2
      <4>2. y = h /\ b = s /\ j = n
        BY <1>16, <4>1
      <4> QED  BY <3>2, <4>2
    <3>3. CASE y = h /\ b = s /\ j = n /\ npu_events'[y][b][j] = entry
      <4>1. ~(i \in DOMAIN npu_events[x][a] /\ npu_events'[x][a][i] = npu_events[x][a][i])
        BY <1>6, <1>11, <2>2, <3>3
      <4>2. x = h /\ a = s /\ i = n
        BY <1>16, <4>1
      <4> QED  BY <3>3, <4>2
    <3> QED  BY <1>16, <3>1, <3>2, <3>3
  <2>3. ASSUME NEW x \in Devices, NEW y \in Streams, NEW i \in DOMAIN npu_events'[x][y]
        PROVE  /\ npu_events'[x][y][i].pool = DeviceOf[y]
               /\ device_index'[npu_events'[x][y][i].event] = DeviceOf[y]
               /\ \A z \in Devices : npu_events'[x][y][i].event \notin event_pool'[z]
    <3>1. CASE i \in DOMAIN npu_events[x][y] /\ npu_events'[x][y][i] = npu_events[x][y][i]
      <4>1. npu_events[x][y][i].event # e
        BY <1>11, <3>1
      <4>2. /\ npu_events[x][y][i].pool = DeviceOf[y]
            /\ device_index[npu_events[x][y][i].event] = DeviceOf[y]
            /\ \A z \in Devices : npu_events[x][y][i].event \notin event_pool[z]
        BY <3>1 DEF IInv, EventInv
      <4>3. npu_events[x][y][i].event \in Events
        <5>1. npu_events[x][y] \in Seq(Entry)
          BY <1>13
        <5>2. npu_events[x][y][i] \in Entry
          BY <3>1, <5>1
        <5> QED  BY <5>2 DEF Entry
      <4> QED  BY <1>28, <3>1, <4>1, <4>2, <4>3
    <3>2. CASE x = h /\ y = s /\ i = n /\ npu_events'[x][y][i] = entry
      <4>1. /\ npu_events'[x][y][i].event = e
            /\ npu_events'[x][y][i].pool = d
            /\ DeviceOf[y] = d
        BY <1>6, <1>d, <3>2
      <4>2. \A z \in Devices : e \notin event_pool'[z]
        BY <1>11, <1>28
      <4> QED  BY <1>28, <4>1, <4>2
    <3> QED  BY <1>16, <3>1, <3>2
  <2> QED  BY <2>1, <2>2, <2>3 DEF EventInv
<1>30. /\ work \in [Streams -> Seq(Addresses \cup Events)]
       /\ work' \in [Streams -> Seq(Addresses \cup Events)]
       /\ work'[s] = Append(work[s], e)
       /\ \A y \in Streams \ {s} : work'[y] = work[y]
  <2>1. work \in [Streams -> Seq(Addresses \cup Events)]
    BY DEF IInv, TypeOK
  <2>2. work' = [work EXCEPT ![s] = Append(work[s], e)]
    BY <1>1, <2>1
  <2>3. Append(work[s], e) \in Seq(Addresses \cup Events)
    BY <1>11, <2>1
  <2> QED  BY <2>1, <2>2, <2>3
<1>m. PICK m : /\ m \notin DOMAIN work[s] /\ DOMAIN work'[s] = DOMAIN work[s] \cup {m}
               /\ \A i \in DOMAIN work[s] : work'[s][i] = work[s][i] /\ m > i
               /\ work'[s][m] = e
  <2>0. PICK w : w = work[s]
    OBVIOUS
  <2>t. PICK T : T = Addresses \cup Events
    OBVIOUS
  <2>1. w \in Seq(T) /\ e \in T
    BY <1>11, <1>30, <2>0, <2>t
  <2>2. \E k : /\ k \notin DOMAIN w /\ DOMAIN Append(w, e) = DOMAIN w \cup {k}
               /\ \A i \in DOMAIN w : Append(w, e)[i] = w[i] /\ k > i
               /\ Append(w, e)[k] = e
    BY <2>1, Appending
  <2> QED  BY <1>30, <2>0, <2>2
<1>31. ASSUME NEW y \in Streams, NEW i \in DOMAIN work'[y]
       PROVE  \/ i \in DOMAIN work[y] /\ work'[y][i] = work[y][i]
              \/ y = s /\ i = m /\ work'[y][i] = e
  BY <1>30, <1>m
<1>32. ASSUME NEW y \in Streams, NEW i \in DOMAIN work[y]
       PROVE  i \in DOMAIN work'[y] /\ work'[y][i] = work[y][i]
  BY <1>30, <1>m
<1>33. ASSUME NEW y \in Streams, NEW x \in Addresses, Uses(y, x)'
       PROVE  Uses(y, x)
  BY <1>11, <1>31, <1>33 DEF Uses, Range
<1>34. ASSUME NEW y \in Streams, NEW x \in Addresses, Guarded(y, x)
       PROVE  Guarded(y, x)'
  <2>1. HomeOf[x] \in Devices
    BY FrontEndAssumption
  <2>2. PICK i \in DOMAIN npu_events[HomeOf[x]][y] :
          /\ npu_events[HomeOf[x]][y][i].block = x
          /\ \A j \in DOMAIN work[y] : work[y][j] = x =>
               \E k \in DOMAIN work[y] : k > j /\ work[y][k] = npu_events[HomeOf[x]][y][i].event
    BY <1>34 DEF Guarded
  <2>3. /\ i \in DOMAIN npu_events'[HomeOf[x]][y]
        /\ npu_events'[HomeOf[x]][y][i] = npu_events[HomeOf[x]][y][i]
    BY <1>17, <2>1
  <2>4. ASSUME NEW j \in DOMAIN work'[y], work'[y][j] = x
        PROVE  \E k \in DOMAIN work'[y] :
                 k > j /\ work'[y][k] = npu_events'[HomeOf[x]][y][i].event
    <3>1. j \in DOMAIN work[y] /\ work[y][j] = x
      BY <1>11, <1>31, <2>4
    <3>2. PICK k \in DOMAIN work[y] :
            k > j /\ work[y][k] = npu_events[HomeOf[x]][y][i].event
      BY <2>2, <3>1
    <3>3. k \in DOMAIN work'[y] /\ work'[y][k] = work[y][k]
      BY <1>32
    <3> QED  BY <2>3, <3>2, <3>3
  <2> QED  BY <2>2, <2>3, <2>4 DEF Guarded
<1>35. Guarded(s, p)'
  <2>1. n \in DOMAIN npu_events'[HomeOf[p]][s] /\ npu_events'[HomeOf[p]][s][n] = entry
    BY <1>15, <1>h
  <2>2. m \in DOMAIN work'[s] /\ work'[s][m] = e
    BY <1>m
  <2>3. ASSUME NEW j \in DOMAIN work'[s], work'[s][j] = p
        PROVE  m > j
    <3>1. j # m
      BY <1>2, <1>11, <2>2, <2>3
    <3> QED  BY <1>m, <3>1
  <2>4. /\ npu_events'[HomeOf[p]][s][n].block = p
        /\ \A j \in DOMAIN work'[s] : work'[s][j] = p =>
             \E k \in DOMAIN work'[s] : k > j /\ work'[s][k] = npu_events'[HomeOf[p]][s][n].event
    BY <1>6, <2>1, <2>2, <2>3
  <2> QED  BY <2>1, <2>4 DEF Guarded
<1>36. WorkInv'
  <2>1. ASSUME NEW y \in Streams, NEW x \in Addresses, Uses(y, x)'
        PROVE  \/ x \in held'
               \/ blocks'[x].state # "none" /\ blocks'[x].stream = y
               \/ \E u \in Threads : ToRecord(u, y, x)'
               \/ Guarded(y, x)'
    <3>1. \A u \in Threads \ {t} : ToRecord(u, y, x) => ToRecord(u, y, x)'
      BY <1>8, <1>23 DEF ToRecord, Calls
    <3>2. ToRecord(t, y, x) => x = p /\ (y = s \/ ToRecord(t, y, x)')
      BY <1>1, <1>p, <1>7, <1>8 DEF ToRecord, Calls
    <3>3. x = p /\ y = s => Guarded(y, x)'
      BY <1>35
    <3> QED  BY <1>1, <1>23, <1>33, <1>34, <2>1, <3>1, <3>2, <3>3 DEF IInv, WorkInv
  <2> QED  BY <2>1 DEF WorkInv
<1>37. /\ context' \in [Threads -> Devices \cup {None}]
       /\ \A u \in Threads \ {t} : context'[u] = context[u]
  <2>1. context \in [Threads -> Devices \cup {None}]
    BY DEF IInv, TypeOK
  <2> QED  BY <1>1, <1>3, <2>1
<1>38. ThreadInv'
  BY <1>1, <1>7, <1>8, <1>37 DEF IInv, ThreadInv, Calls
<1>39. TypeOK'
  BY <1>1, <1>8, <1>14, <1>23, <1>28, <1>30, <1>37 DEF IInv, TypeOK, Block, Call, Entry
<1> QED
  BY <1>19, <1>24, <1>25, <1>26, <1>27, <1>29, <1>36, <1>38, <1>39 DEF IInv

\* What is true of block q, which is b[q] now, when completed events were taken
\* out of queues.
Restored(b, q) ==
  /\ b[q] \in Block
  /\ b[q].stream = blocks[q].stream /\ b[q].uses = blocks[q].uses
  /\ b[q].event_count = Cardinality(Named(q)')
  /\ q \in allocated_blocks => b[q].state = "active" /\ Named(q)' = {}
  /\ \A u \in Threads : Carries(u, q) => b[q].state = "active" /\ Named(q)' = Named(q)
  /\ Named(q)' # {} => b[q].state = "active"
  /\ b[q].state = "active" =>
       q \in allocated_blocks \/ Named(q)' # {} \/ \E u \in Threads : Carries(u, q)
  /\ \A r \in Streams : Uses(r, q) =>
       \/ q \in held
       \/ b[q].state # "none" /\ b[q].stream = r
       \/ \E u \in Threads : ToRecord(u, r, q)
       \/ Guarded(r, q)'

\* What a thread finds when it has taken completed events out of the queues of a
\* device allocator that no thread is inserting into.
LEMMA AfterTake ==
  ASSUME IInv, NEW d, NEW n, Takes(d, n), owner[d] = None,
         UNCHANGED <<work, device_index>>,
         \A s \in Streams : \A i \in 1 .. n[s] : Completed(npu_events[d][s][i].event),
         NEW b, b = Settled(d, n), NEW p \in Addresses
  PROVE  Restored(b, p)
<1>1. /\ b[p] \in Block
      /\ b[p].stream = blocks[p].stream /\ b[p].uses = blocks[p].uses
      /\ b[p].event_count = Cardinality(Named(p)')
      /\ b[p].state = IF Named(p) # {} /\ Named(p)' = {} THEN "cached" ELSE blocks[p].state
  BY SettledBlock DEF IInv
<1>2. /\ Taken(d, n, p) \subseteq Named(p)
      /\ HomeOf[p] # d => Taken(d, n, p) = {}
      /\ Named(p)' = Named(p) \ Taken(d, n, p)
  BY TakeNamed DEF IInv
<1>3. Named(p) # {} => blocks[p].state = "active"
  BY DEF IInv, PlaceInv
<1>4. p \in allocated_blocks => blocks[p].state = "active" /\ Named(p) = {}
  BY DEF IInv, PlaceInv
<1>5. ASSUME NEW t \in Threads, Carries(t, p)
      PROVE  b[p].state = "active" /\ Named(p)' = Named(p)
  <2>1. blocks[p].state = "active" /\ (Calls(t, "insert") \/ Named(p) = {})
    BY <1>5 DEF IInv, CarryInv
  <2>2. Calls(t, "insert") => HomeOf[p] # d
    <3>1. Calls(t, "insert") => owner[HomeOf[p]] = t
      BY <1>5 DEF IInv, CallInv, Carries
    <3> QED  BY <3>1, FrontEndAssumption
  <2>3. Named(p)' = Named(p)
    BY <1>2, <2>1, <2>2
  <2> QED  BY <1>1, <2>1, <2>3
<1>6. Named(p)' # {} => b[p].state = "active"
  BY <1>1, <1>2, <1>3
<1>7. b[p].state = "active" =>
        p \in allocated_blocks \/ Named(p)' # {} \/ \E t \in Threads : Carries(t, p)
  <2>1. b[p].state = "active" => blocks[p].state = "active" /\ ~(Named(p) # {} /\ Named(p)' = {})
    BY <1>1
  <2> QED  BY <2>1 DEF IInv, PlaceInv
<1>9. ASSUME NEW s \in Streams, Uses(s, p)
      PROVE  \/ p \in held
             \/ b[p].state # "none" /\ b[p].stream = s
             \/ \E t \in Threads : ToRecord(t, s, p)
             \/ Guarded(s, p)'
  <2>1. Guarded(s, p) => Guarded(s, p)'
    BY <1>9, TakeKeepsGuard DEF IInv
  <2>2. blocks[p].state # "none" => b[p].state # "none"
    BY <1>1
  <2> QED  BY <1>1, <1>9, <2>1, <2>2 DEF IInv, WorkInv
<1>10. p \in allocated_blocks => b[p].state = "active" /\ Named(p)' = {}
  BY <1>1, <1>2, <1>4
<1> QED  BY <1>1, <1>5, <1>6, <1>7, <1>9, <1>10 DEF Restored

\* The types, the queues and the events after such a step.
LEMMA AfterTakeTypes ==
  ASSUME IInv, NEW d, NEW n, Takes(d, n), UNCHANGED <<work, device_index>>
  PROVE  /\ npu_events' \in [Devices -> [Streams -> Seq(Entry)]]
         /\ event_pool' \in [Devices -> SUBSET Events]
         /\ QueueInv' /\ EventInv'
<1>1. npu_events' \in [Devices -> [Streams -> Seq(Entry)]]
  BY TakeQueues DEF IInv
<1>2. \A x \in Devices : event_pool'[x] \in SUBSET Events
  BY TakePool DEF IInv
<1>3. \E f : event_pool' = [x \in Devices |-> f[x]]
  <2> DEFINE f == [x \in Devices |-> event_pool[x] \cup
            {e \in Events : \E s \in Streams : \E i \in DOMAIN Heads(d, n, s) :
                Heads(d, n, s)[i].event = e /\ Heads(d, n, s)[i].pool = x}]
  <2>1. event_pool' = f
    BY DEF Takes, Take, Heads
  <2>2. f = [x \in Devices |-> f[x]]
    OBVIOUS
  <2> HIDE DEF f
  <2> QED  BY <2>1, <2>2
<1>4. event_pool' \in [Devices -> SUBSET Events]
  BY <1>2, <1>3
<1>5. QueueInv'
  BY TakeKeepsQueues DEF IInv
<1>6. EventInv'
  BY TakeKeepsEvents DEF IInv
<1> QED  BY <1>1, <1>4, <1>5, <1>6

LEMMA DeviceMallocKeeps ==
  ASSUME IInv, NEW t \in Threads, NEW s \in Streams, NEW p \in Addresses,
         DeviceMalloc(t, s, p)
  PROVE  IInv'
<1> PICK d : d = Current(t)
  OBVIOUS
<1> PICK n : n = [r \in Streams |-> Ready(npu_events[d][r])]
  OBVIOUS
<1> PICK b : b = Settled(d, n)
  OBVIOUS
<1> PICK new : new = [state |-> "active", stream |-> s, uses |-> {}, event_count |-> 0]
  OBVIOUS
<1>1. /\ call[t].op = "none" /\ owner[d] = None
      /\ \/ b[p].state = "cached" /\ b[p].stream = s
         \/ b[p].state = "none"
      /\ Take(d, n)
      /\ blocks' = [b EXCEPT ![p] = new]
      /\ context' = [context EXCEPT ![t] = d] /\ chosen' = [chosen EXCEPT ![t] = d]
      /\ Begins(t, "malloc", p)
      /\ UNCHANGED <<allocated_blocks, device_index, owner, work, held>>
  BY DEF DeviceMalloc, Settles, Calls
<1>2. d \in Devices
  BY FrontEndAssumption DEF Current, IInv, TypeOK
<1>3. npu_events \in [Devices -> [Streams -> Seq(Entry)]]
  BY TypeQueues DEF IInv
<1>4. ASSUME NEW r \in Streams
      PROVE  /\ n[r] \in Nat /\ n[r] <= Len(npu_events[d][r])
             /\ \A i \in 1 .. n[r] : Completed(npu_events[d][r][i].event)
  <2> PICK q : q = npu_events[d][r]
    OBVIOUS
  <2>1. q \in Seq(Entry) /\ n[r] = Ready(q)
    BY <1>2, <1>3
  <2>2. Ready(q) \in Nat /\ Ready(q) <= Len(q) /\ \A i \in 1 .. Ready(q) : Completed(q[i].event)
    BY <2>1, ReadyPrefix
  <2> QED  BY <2>1, <2>2
<1>5. Takes(d, n)
  BY <1>1, <1>2, <1>4 DEF Takes
<1>6. /\ npu_events' \in [Devices -> [Streams -> Seq(Entry)]]
      /\ event_pool' \in [Devices -> SUBSET Events]
      /\ QueueInv' /\ EventInv'
  BY <1>1, <1>5, AfterTakeTypes
<1>r. \A q \in Addresses : Restored(b, q)
  BY <1>1, <1>4, <1>5, AfterTake
<1>a. \A q \in Addresses :
        /\ b[q] \in Block
        /\ b[q].stream = blocks[q].stream /\ b[q].uses = blocks[q].uses
        /\ b[q].event_count = Cardinality(Named(q)')
  BY <1>r DEF Restored
<1>b. \A q \in Addresses :
        /\ q \in allocated_blocks => b[q].state = "active" /\ Named(q)' = {}
        /\ Named(q)' # {} => b[q].state = "active"
        /\ b[q].state = "active" =>
             q \in allocated_blocks \/ Named(q)' # {} \/ \E u \in Threads : Carries(u, q)
  BY <1>r DEF Restored
<1>c. \A q \in Addresses, u \in Threads :
        Carries(u, q) => b[q].state = "active" /\ Named(q)' = Named(q)
  BY <1>r DEF Restored
<1>u. \A q \in Addresses, r \in Streams : Uses(r, q) =>
        \/ q \in held
        \/ b[q].state # "none" /\ b[q].stream = r
        \/ \E u \in Threads : ToRecord(u, r, q)
        \/ Guarded(r, q)'
  BY <1>r DEF Restored
<1>8. /\ b[p].state # "active" /\ Named(p)' = {} /\ p \notin allocated_blocks
      /\ p \notin held /\ \A u \in Threads : ~Carries(u, p)
  <2>1. b[p].state # "active"
    BY <1>1
  <2>2. Named(p)' = {} /\ p \notin allocated_blocks /\ \A u \in Threads : ~Carries(u, p)
    BY <1>b, <1>c, <2>1
  <2>3. p \notin held
    BY <2>2 DEF IInv, PlaceInv
  <2> QED  BY <1>1, <1>b, <2>1, <2>2, <2>3
<1>9. /\ new \in Block /\ new.state = "active" /\ new.stream = s /\ new.event_count = 0
  BY DEF Block
<1>10. /\ blocks' \in [Addresses -> Block] /\ blocks'[p] = new
       /\ \A q \in Addresses \ {p} : blocks'[q] = b[q]
  <2>1. b = [q \in Addresses |-> b[q]]
    BY DEF Settled
  <2> QED  BY <1>1, <1>a, <1>9, <2>1
<1>11. /\ call' \in [Threads -> Call]
       /\ call'[t].op = "malloc" /\ call'[t].ptr = p
       /\ \A u \in Threads \ {t} : call'[u] = call[u]
  BY <1>1, BeginsCall DEF IInv, Ops
<1>12. /\ context' \in [Threads -> Devices \cup {None}] /\ context'[t] = d
       /\ chosen' \in [Threads -> Devices \cup {None}] /\ chosen'[t] = d
       /\ \A u \in Threads \ {t} : context'[u] = context[u] /\ chosen'[u] = chosen[u]
  BY <1>1, <1>2 DEF IInv, TypeOK
<1>13. TypeOK'
  BY <1>1, <1>6, <1>10, <1>11, <1>12 DEF IInv, TypeOK, Block, Call, Entry
<1>14. /\ Carries(t, p)' /\ \A q : Carries(t, q)' => q = p
       /\ \A u \in Threads \ {t} : \A q : Carries(u, q)' <=> Carries(u, q)
       /\ \A q : ~Carries(t, q)
  BY <1>1, <1>11 DEF Carries
<1>15. CountInv'
  <2> SUFFICES ASSUME NEW q \in Addresses
               PROVE  blocks'[q].event_count = Cardinality(Named(q)')
    BY DEF CountInv
  <2>1. CASE q = p
    BY <1>8, <1>9, <1>10, <2>1, FS_EmptySet
  <2>2. CASE q # p
    BY <1>a, <1>10, <2>2
  <2> QED  BY <2>1, <2>2
<1>16. PlaceInv'
  <2>1. \A q \in allocated_blocks' : blocks'[q].state = "active" /\ Named(q)' = {}
    BY <1>1, <1>b, <1>8, <1>10 DEF IInv, TypeOK
  <2>2. \A q \in Addresses : Named(q)' # {} => blocks'[q].state = "active"
    BY <1>b, <1>8, <1>10
  <2>3. \A q \in Addresses : blocks'[q].state = "active" =>
          q \in allocated_blocks' \/ Named(q)' # {} \/ \E u \in Threads : Carries(u, q)'
    <3>1. ASSUME NEW q \in Addresses \ {p}, blocks'[q].state = "active"
          PROVE  q \in allocated_blocks' \/ Named(q)' # {} \/ \E u \in Threads : Carries(u, q)'
      <4>1. b[q].state = "active"
        BY <1>10, <3>1
      <4>2. q \in allocated_blocks \/ Named(q)' # {} \/ \E u \in Threads : Carries(u, q)
        BY <1>b, <3>1, <4>1
      <4>3. \A u \in Threads : Carries(u, q) => Carries(u, q)'
        BY <1>14
      <4> QED  BY <1>1, <4>2, <4>3
    <3> QED  BY <1>14, <3>1
  <2>4. held' \subseteq allocated_blocks'
    BY <1>1 DEF IInv, PlaceInv
  <2> QED  BY <2>1, <2>2, <2>3, <2>4 DEF PlaceInv
<1>17. CarryInv'
  <2>1. ASSUME NEW u \in Threads \ {t}, NEW q \in Addresses, Carries(u, q)'
        PROVE  /\ blocks'[q].state = "active"
               /\ q \notin allocated_blocks'
               /\ Calls(u, "insert")' \/ Named(q)' = {}
               /\ \A w \in Threads \ {u} : ~Carries(w, q)'
    <3>1. Carries(u, q) /\ q # p
      BY <1>8, <1>14, <2>1
    <3>2. b[q].state = "active" /\ Named(q)' = Named(q) /\ blocks'[q] = b[q]
      BY <1>c, <1>10, <3>1
    <3>3. /\ q \notin allocated_blocks
          /\ Calls(u, "insert") \/ Named(q) = {}
          /\ \A w \in Threads \ {u} : ~Carries(w, q)
      BY <3>1 DEF IInv, CarryInv
    <3>4. Calls(u, "insert")' <=> Calls(u, "insert")
      BY <1>11 DEF Calls
    <3> QED  BY <1>1, <1>14, <3>1, <3>2, <3>3, <3>4
  <2>2. ASSUME NEW q \in Addresses, Carries(t, q)'
        PROVE  /\ blocks'[q].state = "active"
               /\ q \notin allocated_blocks'
               /\ Named(q)' = {}
               /\ \A w \in Threads \ {t} : ~Carries(w, q)'
    BY <1>1, <1>8, <1>9, <1>10, <1>14, <2>2
  <2> QED  BY <2>1, <2>2 DEF CarryInv
<1>18. CallInv'
  <2>1. ASSUME NEW u \in Threads \ {t}, call[u].op = "insert"
        PROVE  \A x : x = call[u].ptr => Named(x)' = Named(x)
    <3>1. call[u].ptr \in Addresses /\ Carries(u, call[u].ptr)
      BY <2>1 DEF IInv, CallInv, Carries
    <3> QED  BY <1>c, <3>1
  <2> QED  BY <1>1, <1>11, <2>1 DEF IInv, CallInv, Calls
<1>19. WorkInv'
  <2>1. ASSUME NEW r \in Streams, NEW q \in Addresses, Uses(r, q)'
        PROVE  \/ q \in held'
               \/ blocks'[q].state # "none" /\ blocks'[q].stream = r
               \/ \E u \in Threads : ToRecord(u, r, q)'
               \/ Guarded(r, q)'
    <3>1. Uses(r, q)
      BY <1>1, <2>1 DEF Uses
    <3>2. \/ q \in held
          \/ b[q].state # "none" /\ b[q].stream = r
          \/ \E u \in Threads : ToRecord(u, r, q)
          \/ Guarded(r, q)'
      BY <1>u, <3>1
    <3>3. \A u \in Threads : ToRecord(u, r, q) => Carries(u, q)
      BY DEF ToRecord, Carries, Calls
    <3>4. CASE q = p
      <4>1. ~Guarded(r, q)'
        <5>1. r \notin Named(p)'
          BY <1>8
        <5> QED  BY <3>4, <5>1 DEF Guarded, Named, InQueue
      <4>2. b[p].state # "none" /\ b[p].stream = r
        BY <1>8, <3>2, <3>3, <3>4, <4>1
      <4> QED  BY <1>1, <1>9, <1>10, <3>4, <4>2
    <3>5. CASE q # p
      <4>1. blocks'[q] = b[q] /\ b[q].uses = blocks[q].uses
        BY <1>a, <1>10, <3>5
      <4>2. \A u \in Threads : ToRecord(u, r, q) => ToRecord(u, r, q)'
        BY <1>1, <1>11, <4>1 DEF ToRecord, Calls
      <4> QED  BY <1>1, <3>2, <4>1, <4>2
    <3> QED  BY <3>4, <3>5
  <2> QED  BY <2>1 DEF WorkInv
<1>20. ThreadInv'
  BY <1>11, <1>12 DEF IInv, ThreadInv, Calls
<1> QED  BY <1>6, <1>13, <1>15, <1>16, <1>17, <1>18, <1>19, <1>20 DEF IInv

LEMMA ReleaseCachedBlocksKeeps ==
  ASSUME IInv, NEW t \in Threads, NEW d \in Devices, ReleaseCachedBlocks(t, d)
  PROVE  IInv'
<1> PICK n : n = [s \in Streams |-> Len(npu_events[d][s])]
  OBVIOUS
<1> PICK b : b = Settled(d, n)
  OBVIOUS
<1> PICK released : released = {p \in Addresses : HomeOf[p] = d /\ b[p].state = "cached"}
  OBVIOUS
<1>1. /\ call[t].op = "empty" /\ owner[d] = None
      /\ \A s \in Streams : Ready(npu_events[d][s]) = n[s]
      /\ Take(d, n)
      /\ blocks' = [p \in Addresses |->
                      IF p \in released THEN [b[p] EXCEPT !.state = "none"] ELSE b[p]]
      /\ StreamsIdle({b[p].stream : p \in released})
      /\ \/ Returns(t)
         \/ call' = [call EXCEPT ![t].left = @ \ {d}]
      /\ UNCHANGED <<allocated_blocks, device_index, owner, work, context, held, chosen>>
  BY DEF ReleaseCachedBlocks, Calls
<1>2. npu_events \in [Devices -> [Streams -> Seq(Entry)]]
  BY TypeQueues DEF IInv
<1>3. ASSUME NEW s \in Streams
      PROVE  /\ n[s] \in Nat /\ n[s] <= Len(npu_events[d][s])
             /\ \A i \in 1 .. n[s] : Completed(npu_events[d][s][i].event)
  <2> PICK q : q = npu_events[d][s]
    OBVIOUS
  <2>1. q \in Seq(Entry) /\ n[s] = Ready(q)
    BY <1>1, <1>2
  <2>2. Ready(q) \in Nat /\ Ready(q) <= Len(q) /\ \A i \in 1 .. Ready(q) : Completed(q[i].event)
    BY <2>1, ReadyPrefix
  <2> QED  BY <2>1, <2>2
<1>4. Takes(d, n)
  BY <1>1, <1>3 DEF Takes
<1>5. /\ npu_events' \in [Devices -> [Streams -> Seq(Entry)]]
      /\ event_pool' \in [Devices -> SUBSET Events]
      /\ QueueInv' /\ EventInv'
  BY <1>1, <1>4, AfterTakeTypes
<1>r. \A q \in Addresses : Restored(b, q)
  BY <1>1, <1>3, <1>4, AfterTake
<1>a. \A q \in Addresses :
        /\ b[q] \in Block
        /\ b[q].stream = blocks[q].stream /\ b[q].uses = blocks[q].uses
        /\ b[q].event_count = Cardinality(Named(q)')
  BY <1>r DEF Restored
<1>b. \A q \in Addresses :
        /\ q \in allocated_blocks => b[q].state = "active" /\ Named(q)' = {}
        /\ Named(q)' # {} => b[q].state = "active"
        /\ b[q].state = "active" =>
             q \in allocated_blocks \/ Named(q)' # {} \/ \E u \in Threads : Carries(u, q)
  BY <1>r DEF Restored
<1>c. \A q \in Addresses, u \in Threads :
        Carries(u, q) => b[q].state = "active" /\ Named(q)' = Named(q)
  BY <1>r DEF Restored
<1>u. \A q \in Addresses, r \in Streams : Uses(r, q) =>
        \/ q \in held
        \/ b[q].state # "none" /\ b[q].stream = r
        \/ \E u \in Threads : ToRecord(u, r, q)
        \/ Guarded(r, q)'
  BY <1>r DEF Restored
<1>7. ASSUME NEW q \in Addresses
      PROVE  /\ blocks'[q] \in Block
             /\ blocks'[q].stream = b[q].stream /\ blocks'[q].uses = b[q].uses
             /\ blocks'[q].event_count = b[q].event_count
             /\ blocks'[q].state = IF q \in released THEN "none" ELSE b[q].state
  <2>1. blocks'[q] = IF q \in released THEN [b[q] EXCEPT !.state = "none"] ELSE b[q]
    BY <1>1
  <2> QED  BY <1>a, <2>1 DEF Block
<1>8. blocks' \in [Addresses -> Block]
  <2>1. blocks' = [q \in Addresses |-> blocks'[q]]
    BY <1>1
  <2> QED  BY <1>7, <2>1
<1>9. \A q \in Addresses : blocks'[q].state = "active" <=> b[q].state = "active"
  BY <1>7
<1>10. /\ call' \in [Threads -> Call]
       /\ call'[t].op \in {"none", "empty"}
       /\ call'[t].op = "empty" => call'[t].left \subseteq Devices
       /\ \A u \in Threads \ {t} : call'[u] = call[u]
  <2>1. CASE Returns(t)
    BY <2>1, ReturnsCall DEF IInv, NoCall
  <2>2. CASE call' = [call EXCEPT ![t].left = @ \ {d}]
    <3> PICK r : r = [call[t] EXCEPT !.left = @ \ {d}]
      OBVIOUS
    <3>1. call[t] \in Call /\ call[t].left \ {d} \in SUBSET Devices
      BY <1>1, CallTypes DEF IInv, CallInv, Calls
    <3>2. r \in Call /\ r.op = "empty" /\ r.left = call[t].left \ {d}
      BY <1>1, <3>1 DEF Call
    <3>3. call' = [call EXCEPT ![t] = r]
      BY <2>2, CallTypes DEF IInv
    <3> QED  BY <3>1, <3>2, <3>3, CallTypes DEF IInv
  <2> QED  BY <1>1, <2>1, <2>2
<1>11. \A u \in Threads : \A q : Carries(u, q)' <=> Carries(u, q)
  BY <1>1, <1>10 DEF Carries
<1>12. TypeOK'
  BY <1>1, <1>5, <1>8, <1>10 DEF IInv, TypeOK, Block, Call, Entry
<1>13. CountInv'
  BY <1>a, <1>7 DEF CountInv
<1>14. PlaceInv'
  <2>1. \A q \in allocated_blocks' : blocks'[q].state = "active" /\ Named(q)' = {}
    BY <1>1, <1>b, <1>9 DEF IInv, TypeOK
  <2>2. \A q \in Addresses : Named(q)' # {} => blocks'[q].state = "active"
    BY <1>b, <1>9
  <2>3. \A q \in Addresses : blocks'[q].state = "active" =>
          q \in allocated_blocks' \/ Named(q)' # {} \/ \E u \in Threads : Carries(u, q)'
    BY <1>1, <1>b, <1>9, <1>11
  <2>4. held' \subseteq allocated_blocks'
    BY <1>1 DEF IInv, PlaceInv
  <2> QED  BY <2>1, <2>2, <2>3, <2>4 DEF PlaceInv
<1>15. CarryInv'
  <2> SUFFICES ASSUME NEW u \in Threads, NEW q \in Addresses, Carries(u, q)'
               PROVE  /\ blocks'[q].state = "active"
                      /\ q \notin allocated_blocks'
                      /\ Calls(u, "insert")' \/ Named(q)' = {}
                      /\ \A w \in Threads \ {u} : ~Carries(w, q)'
    BY DEF CarryInv
  <2>1. Carries(u, q) /\ u # t
    BY <1>1, <1>11 DEF Carries
  <2>2. b[q].state = "active" /\ Named(q)' = Named(q)
    BY <1>c, <2>1
  <2>3. /\ q \notin allocated_blocks
        /\ Calls(u, "insert") \/ Named(q) = {}
        /\ \A w \in Threads \ {u} : ~Carries(w, q)
    BY <2>1 DEF IInv, CarryInv
  <2>4. Calls(u, "insert")' <=> Calls(u, "insert")
    BY <1>10, <2>1 DEF Calls
  <2> QED  BY <1>1, <1>9, <1>11, <2>2, <2>3, <2>4
<1>16. CallInv'
  <2>1. ASSUME NEW u \in Threads \ {t}, call[u].op = "insert"
        PROVE  \A x : x = call[u].ptr => Named(x)' = Named(x)
    <3>1. call[u].ptr \in Addresses /\ Carries(u, call[u].ptr)
      BY <2>1 DEF IInv, CallInv, Carries
    <3> QED  BY <1>c, <3>1
  <2> QED  BY <1>1, <1>10, <2>1 DEF IInv, CallInv, Calls
<1>17. WorkInv'
  <2>1. ASSUME NEW r \in Streams, NEW q \in Addresses, Uses(r, q)'
        PROVE  \/ q \in held'
               \/ blocks'[q].state # "none" /\ blocks'[q].stream = r
               \/ \E u \in Threads : ToRecord(u, r, q)'
               \/ Guarded(r, q)'
    <3>1. Uses(r, q)
      BY <1>1, <2>1 DEF Uses
    <3>2. \/ q \in held
          \/ b[q].state # "none" /\ b[q].stream = r
          \/ \E u \in Threads : ToRecord(u, r, q)
          \/ Guarded(r, q)'
      BY <1>u, <3>1
    <3>3. q \notin released
      <4> SUFFICES ASSUME q \in released PROVE FALSE
        OBVIOUS
      <4>1. b[q].state = "cached"
        OBVIOUS
      <4>2. q \notin held /\ Named(q)' = {} /\ \A u \in Threads : ~Carries(u, q)
        BY <1>b, <1>c, <4>1 DEF IInv, PlaceInv
      <4>3. \A u \in Threads : ~ToRecord(u, r, q)
        BY <4>2 DEF ToRecord, Carries, Calls
      <4>4. ~Guarded(r, q)'
        BY <4>2 DEF Guarded, Named, InQueue
      <4>5. b[q].stream = r
        BY <3>2, <4>2, <4>3, <4>4
      <4>6. work[r] = <<>>
        BY <1>1, <4>5 DEF StreamsIdle
      <4> QED  BY <3>1, <4>6 DEF Uses, Range
    <3>4. \A u \in Threads : ToRecord(u, r, q) => ToRecord(u, r, q)'
      <4>1. blocks'[q].uses = blocks[q].uses
        BY <1>a, <1>7
      <4>2. ~ToRecord(t, r, q)
        BY <1>1 DEF ToRecord, Calls
      <4>3. \A u \in Threads \ {t} : call'[u] = call[u]
        BY <1>10
      <4> QED  BY <4>1, <4>2, <4>3 DEF ToRecord, Calls
    <3> QED  BY <1>1, <1>7, <3>2, <3>3, <3>4
  <2> QED  BY <2>1 DEF WorkInv
<1>18. ThreadInv'
  BY <1>1, <1>10 DEF IInv, ThreadInv, Calls
<1> QED  BY <1>5, <1>12, <1>13, <1>14, <1>15, <1>16, <1>17, <1>18 DEF IInv

-----------------------------------------------------------------------------
(* The invariant, and what follows from it *)

LEMMA InitHolds == Init => IInv
<1> SUFFICES ASSUME Init PROVE IInv
  OBVIOUS
<1>1. TypeOK
  BY FrontEndAssumption DEF Init, TypeOK, NoCall, Ops
<1>2. \A p \in Addresses : Named(p) = {}
  BY FrontEndAssumption DEF Init, Named, InQueue
<1>3. \A t \in Threads : call[t].op = "none"
  BY DEF Init, NoCall
<1>4. \A s \in Streams : \A x : ~Uses(s, x)
  BY DEF Init, Uses, Range
<1>5. QueueInv /\ EventInv
  BY FrontEndAssumption DEF Init, QueueInv, EventInv
<1>6. CountInv
  BY <1>2, FS_EmptySet DEF Init, CountInv
<1>7. PlaceInv
  BY <1>2 DEF Init, PlaceInv
<1>8. CarryInv /\ CallInv
  BY <1>3 DEF CarryInv, CallInv, Carries, Calls
<1>9. WorkInv
  BY <1>4 DEF Init, WorkInv
<1>10. ThreadInv
  BY DEF Init, ThreadInv
<1> QED  BY <1>1, <1>5, <1>6, <1>7, <1>8, <1>9, <1>10 DEF IInv

LEMMA StepKeeps ==
  ASSUME IInv, [Next]_vars
  PROVE  IInv'
<1>1. CASE UNCHANGED vars
  <2>1. UNCHANGED <<allocated_blocks, device, work, call, context, held, chosen>>
    BY <1>1 DEF vars
  <2>2. work' \in [Streams -> Seq(Addresses \cup Events)] /\ WorkInv'
    BY <2>1 DEF IInv, TypeOK, WorkInv, Uses, ToRecord, Guarded, Calls, device
  <2> QED  BY <2>1, <2>2, WorkAlone
<1>2. ASSUME NEW t \in Threads, NEW d \in Devices, SetDevice(t, d) \/ SetMemoryFraction(t, d)
      PROVE  IInv'
  BY <1>2, SetDeviceKeeps
<1>3. ASSUME NEW t \in Threads, NEW s \in Streams, NEW p \in Addresses,
             DeviceMalloc(t, s, p)
      PROVE  IInv'
  BY <1>3, DeviceMallocKeeps
<1>4. ASSUME NEW t \in Threads, NEW s \in Streams, NEW p \in Addresses,
             RecordStream(t, p, s) \/ EraseStream(t, p, s)
      PROVE  IInv'
  BY <1>4, RecordKeeps
<1>5. ASSUME NEW t \in Threads, AddAllocatedBlock(t)  PROVE IInv'
  BY <1>5, AddAllocatedBlockKeeps
<1>6. ASSUME NEW t \in Threads, NEW p \in Addresses, FreeLookup(t, p)  PROVE IInv'
  BY <1>6, FreeLookupKeeps
<1>7. ASSUME NEW t \in Threads, DeviceFree(t)  PROVE IInv'
  BY <1>7, DeviceFreeKeeps
<1>8. ASSUME NEW t \in Threads, NEW s \in Streams, InsertEvent(t, s)  PROVE IInv'
  BY <1>8, InsertEventKeeps
<1>9. ASSUME NEW t \in Threads, InsertDone(t)  PROVE IInv'
  BY <1>9, InsertDoneKeeps
<1>10. ASSUME NEW t \in Threads, EmptyCache(t) \/ EmptyDeviceCache(t)  PROVE IInv'
  BY <1>10, EmptyKeeps
<1>11. ASSUME NEW t \in Threads, NEW d \in Devices, ReleaseCachedBlocks(t, d)  PROVE IInv'
  BY <1>11, ReleaseCachedBlocksKeeps
<1>12. ASSUME NEW s \in Streams, NEW p \in Addresses, Launch(s, p)  PROVE IInv'
  BY <1>12, LaunchKeeps
<1>13. ASSUME NEW s \in Streams, Run(s)  PROVE IInv'
  BY <1>13, RunKeeps
<1> QED
  BY <1>1, <1>2, <1>3, <1>4, <1>5, <1>6, <1>7, <1>8, <1>9, <1>10, <1>11, <1>12, <1>13 DEF Next

\* The inductive invariant holds however the threads and the streams interleave.
THEOREM Invariance == Spec => []IInv
<1>1. IInv /\ [Next]_vars => IInv'
  BY StepKeeps
<1> QED  BY <1>1, InitHolds, PTL DEF Spec

\* Every variable has its type, for any number of threads and devices.
THEOREM TypesHold == Spec => []TypeOK
<1>1. IInv => TypeOK
  BY DEF IInv
<1> QED  BY <1>1, Invariance, PTL

\* A block is in one place: malloc returns no pointer that is in use, and free and
\* recordStream find every pointer the program holds.
THEOREM OneOwnerHolds == Spec => []OneOwner
<1>1. ASSUME IInv  PROVE OneOwner
  <2>1. ASSUME NEW p \in Addresses, Waiting(p)  PROVE Named(p) # {}
    <3>1. PICK d \in Devices, s \in Streams : InQueue(npu_events[d][s], p)
      BY <2>1 DEF Waiting
    <3>2. HomeOf[p] = d
      BY <1>1, <3>1 DEF IInv, QueueInv, InQueue
    <3> QED  BY <3>1, <3>2 DEF Named
  <2>2. \A p \in allocated_blocks : blocks[p].state = "active" /\ ~Waiting(p)
    BY <1>1, <2>1 DEF IInv, PlaceInv, TypeOK
  <2>3. \A t \in Threads : \A p \in Addresses : Carries(t, p) =>
          /\ blocks[p].state = "active"
          /\ p \notin allocated_blocks
          /\ Calls(t, "insert") \/ ~Waiting(p)
          /\ \A u \in Threads \ {t} : ~Carries(u, p)
    BY <1>1, <2>1 DEF IInv, CarryInv
  <2> QED  BY <1>1, <2>2, <2>3 DEF OneOwner, IInv, PlaceInv, CallInv
<1> QED  BY <1>1, Invariance, PTL

\* A block that malloc may hand out is used by no other stream's outstanding work:
\* the free waits for an event behind every such use.
THEOREM SafeReuseHolds == Spec => []SafeReuse
<1>1. ASSUME IInv  PROVE SafeReuse
  <2> SUFFICES ASSUME NEW p \in Addresses, blocks[p].state = "cached",
                      NEW s \in Streams, s # blocks[p].stream, Uses(s, p)
               PROVE  FALSE
    BY DEF SafeReuse
  <2>1. Named(p) = {} /\ p \notin allocated_blocks
    BY <1>1 DEF IInv, PlaceInv
  <2>2. p \notin held
    BY <1>1, <2>1 DEF IInv, PlaceInv, WorkInv
  <2>3. \A t \in Threads : ~ToRecord(t, s, p)
    <3>1. \A t \in Threads : ~Carries(t, p)
      BY <1>1 DEF IInv, CarryInv
    <3> QED  BY <3>1 DEF ToRecord, Carries, Calls
  <2>4. ~Guarded(s, p)
    <3>1. s \notin Named(p)
      BY <2>1
    <3> QED  BY <3>1 DEF Guarded, Named, InQueue
  <2> QED  BY <1>1, <2>2, <2>3, <2>4 DEF IInv, WorkInv
<1> QED  BY <1>1, Invariance, PTL

\* An event is in one queue or one pool, and the events of a freed block are
\* counted: none is recorded on two devices, no block is forgotten.
THEOREM EventsOwnedHolds == Spec => []EventsOwned
<1>1. ASSUME IInv  PROVE EventsOwned
  <2>1. \A d, x \in Devices : \A s, r \in Streams :
          \A i \in DOMAIN npu_events[d][s] : \A j \in DOMAIN npu_events[x][r] :
            npu_events[d][s][i].event = npu_events[x][r][j].event =>
              <<d, s, i>> = <<x, r, j>>
    BY <1>1 DEF IInv, EventInv
  <2>2. ASSUME NEW p \in Addresses
        PROVE  /\ blocks[p].event_count =
                    Cardinality({s \in Streams : InQueue(npu_events[HomeOf[p]][s], p)})
               /\ blocks[p].state = "active" =>
                    \/ p \in allocated_blocks
                    \/ blocks[p].event_count > 0
                    \/ \E t \in Threads : Carries(t, p)
    <3>1. blocks[p].event_count = Cardinality(Named(p))
      BY <1>1 DEF IInv, CountInv
    <3>2. Named(p) # {} => Cardinality(Named(p)) > 0
      <4>1. IsFiniteSet(Named(p)) /\ Cardinality(Named(p)) \in Nat
        BY NamedFinite
      <4>2. Cardinality(Named(p)) = 0 <=> Named(p) = {}
        BY <4>1, FS_EmptySet
      <4> QED  BY <4>1, <4>2
    <3>3. blocks[p].state = "active" =>
            p \in allocated_blocks \/ Named(p) # {} \/ \E t \in Threads : Carries(t, p)
      BY <1>1 DEF IInv, PlaceInv
    <3>4. blocks[p].event_count =
            Cardinality({s \in Streams : InQueue(npu_events[HomeOf[p]][s], p)})
      BY <3>1 DEF Named
    <3> QED  BY <3>1, <3>2, <3>3, <3>4
  <2>3. /\ \A d \in Devices : \A e \in event_pool[d] : device_index[e] = d
        /\ \A d \in Devices : \A s \in Streams : \A i \in DOMAIN npu_events[d][s] :
             /\ device_index[npu_events[d][s][i].event] = DeviceOf[s]
             /\ \A x \in Devices : npu_events[d][s][i].event \notin event_pool[x]
    BY <1>1 DEF IInv, EventInv
  <2> QED  BY <2>1, <2>2, <2>3 DEF EventsOwned
<1> QED  BY <1>1, Invariance, PTL

\* Memory that is back with the device is used by no outstanding work: the events
\* of a block are behind the uses by other streams, and emptyCache waits for the
\* stream of the block, even for a device that is not the thread's own.
THEOREM SafeReleaseHolds == Spec => []SafeRelease
<1>1. ASSUME IInv  PROVE SafeRelease
  <2> SUFFICES ASSUME NEW p \in Addresses, blocks[p].state = "none",
                      NEW s \in Streams, Uses(s, p)
               PROVE  FALSE
    BY DEF SafeRelease
  <2>1. Named(p) = {} /\ p \notin allocated_blocks /\ p \notin held
    BY <1>1 DEF IInv, PlaceInv
  <2>2. \A t \in Threads : ~ToRecord(t, s, p)
    <3>1. \A t \in Threads : ~Carries(t, p)
      BY <1>1 DEF IInv, CarryInv
    <3> QED  BY <3>1 DEF ToRecord, Carries, Calls
  <2>3. ~Guarded(s, p)
    BY <2>1 DEF Guarded, Named, InQueue
  <2> QED  BY <1>1, <2>1, <2>2, <2>3 DEF IInv, WorkInv
<1> QED  BY <1>1, Invariance, PTL

\* A thread in no call is on the device it has settled on, setMemoryFraction being
\* one of the calls that settle it.
THEOREM DeviceKeptHolds == Spec => []DeviceKept
<1>1. ASSUME IInv  PROVE DeviceKept
  BY <1>1 DEF IInv, ThreadInv, DeviceKept, Calls
<1> QED  BY <1>1, Invariance, PTL
=============================================================================
