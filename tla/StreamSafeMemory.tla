-------------------------- MODULE StreamSafeMemory --------------------------
(***************************************************************************)
(* What the device allocators promise, whatever their caching: a range of  *)
(* device memory that is handed out                                        *)
(*   - overlaps no range that the program still holds,                     *)
(*   - overlaps no freed range that work of a stream recorded on it still  *)
(*     uses,                                                               *)
(*   - and reaches into memory freed on another stream only after the      *)
(*     device has been synchronized.                                       *)
(* (Note at the head of csrc/core/allocator/CachingAllocator.cpp.)         *)
(***************************************************************************)
EXTENDS Integers, Sequences

CONSTANT Streams

VARIABLES
  live,    \* the ranges held by the program: lo -> [hi, stream]
  uses,    \* the streams recorded on each of them
  work,    \* per stream, the freed ranges its outstanding work uses, in order
  tail     \* ranges last used by a stream since the last synchronization

vars == <<live, uses, work, tail>>

Disjoint(lo, hi, r) == hi <= r.lo \/ r.hi <= lo

Init ==
  /\ live = [lo \in {} |-> 0]
  /\ uses = [lo \in {} |-> {}]
  /\ work = [s \in Streams |-> <<>>]
  /\ tail = {}

Allocate(lo, hi, s) ==
  /\ lo < hi
  /\ \A l \in DOMAIN live : hi <= l \/ live[l].hi <= lo
  /\ \A t \in Streams : \A i \in DOMAIN work[t] : Disjoint(lo, hi, work[t][i])
  /\ \A r \in tail : r.stream # s => Disjoint(lo, hi, r)
  /\ live' = [l \in DOMAIN live \cup {lo} |->
                IF l = lo THEN [hi |-> hi, stream |-> s] ELSE live[l]]
  /\ uses' = [l \in DOMAIN uses \cup {lo} |-> IF l = lo THEN {} ELSE uses[l]]
  /\ UNCHANGED <<work, tail>>

Record(lo, s) ==
  /\ lo \in DOMAIN live
  /\ uses' = [uses EXCEPT ![lo] = @ \cup {s}]
  /\ UNCHANGED <<live, work, tail>>

\* The range is given back: what other streams do with it is now unfinished
\* work, and its own stream was the last to use the memory around it.
Release(lo) ==
  /\ lo \in DOMAIN live
  /\ live' = [l \in DOMAIN live \ {lo} |-> live[l]]
  /\ uses' = [l \in DOMAIN live \ {lo} |-> uses[l]]
  /\ work' = [s \in Streams |->
                IF s \in uses[lo]
                THEN Append(work[s], [lo |-> lo, hi |-> live[lo].hi])
                ELSE work[s]]
  /\ \E r \in tail' : /\ r.lo <= lo /\ live[lo].hi <= r.hi
                      /\ r.stream = live[lo].stream
                      /\ tail' = tail \cup {r}

\* s finishes the oldest work that uses a freed range.
Run(s) ==
  /\ work[s] # <<>>
  /\ work' = [work EXCEPT ![s] = Tail(@)]
  /\ UNCHANGED <<live, uses, tail>>

\* The program vouches that s is done with the range at lo.
Forget(lo, s) ==
  /\ IF lo \in DOMAIN uses
     THEN uses' = [uses EXCEPT ![lo] = @ \ {s}]
     ELSE UNCHANGED uses
  /\ \/ UNCHANGED work
     \/ \E i \in DOMAIN work[s] :
          /\ work[s][i].lo = lo
          /\ work' = [work EXCEPT ![s] = SubSeq(@, 1, i - 1) \o SubSeq(@, i + 1, Len(@))]
  /\ UNCHANGED <<live, tail>>

Synchronize ==
  /\ work' = [s \in Streams |-> <<>>]
  /\ tail' = {}
  /\ UNCHANGED <<live, uses>>

\* The addresses and sizes are the implementation's to choose.
Next ==
  \/ \E lo \in DOMAIN live' : \E s \in Streams : Allocate(lo, live'[lo].hi, s)
  \/ \E lo \in DOMAIN live : Release(lo)
  \/ \E lo \in DOMAIN live, s \in Streams : Record(lo, s)
  \/ \E s \in Streams : \/ Run(s)
                        \/ \E lo \in DOMAIN live : Forget(lo, s)
                        \/ \E i \in DOMAIN work[s] : Forget(work[s][i].lo, s)
  \/ Synchronize

Spec == Init /\ [][Next]_vars

=============================================================================
