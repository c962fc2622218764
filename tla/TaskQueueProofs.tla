--------------------------- MODULE TaskQueueProofs ---------------------------
(***************************************************************************)
(* TaskQueue implements TaskStream, releases tasks in order, and is empty  *)
(* only when all tasks have been executed; for any number of threads, any  *)
(* capacity and any number of tasks.                                       *)
(*                                                                         *)
(* IInv, the inductive invariant, has these parts beside the types.        *)
(*   CallInv    a thread that enqueues has a task, one thread at a time    *)
(*              has written a slot it has not published, and a queue is    *)
(*              destroyed when every other thread is idle.                 *)
(*   StatusInv  nothing moves the read index but the consumer while the    *)
(*              consumer reads: an error is reported, or thrown, only when *)
(*              the consumer is on its way out.                            *)
(*   SlotInv    the slots from read_idx to write_idx hold tasks, and the   *)
(*              slot that is written is not one of them.                   *)
(*   OrderInv   the slots hold the tasks that have been sent and not been  *)
(*              released, in order.                                        *)
(*   MarkInv    what was sent before a call is not forgotten.              *)
(* A queue that is destroyed after a task has failed may run a task more   *)
(* (NPUQueue.cpp:514): OrderInv is about the time before (Orderly).        *)
(***************************************************************************)
EXTENDS TaskQueue, SequenceTheorems, TLAPS

-----------------------------------------------------------------------------
(* The ring *)

\* How many slots there are from i to j, going along the ring, and the k-th slot
\* after i.
Distance(i, j) == IF i <= j THEN j - i ELSE j - i + Capacity

Slot(i, k) == IF i + k < Capacity THEN i + k ELSE i + k - Capacity

\* The slots in use.
InUse == Distance(read_idx, write_idx)

\* Where the consumer is when it looks at a slot, and when it holds one.
Holding == {"call", "release", "advance", "skip"}
Draining == {"drain", "skip", "failed"}
Reading == {"read"} \cup Holding \cup Draining

\* Where it is once an error has been reported.
Leaving == {"reset", "tell", "tell2", "nothing", "error", "rest", "start", "start2", "exit"}

\* Where it goes on only if the error has been thrown.
Idling == {"dequeue", "loop", "resume", "pause", "empty", "wait"}

Quits(t) == pc[t] \in {"destroy", "join", "destroyed"}

Throwing(t) == pc[t] \in {"throw", "forget"}

\* The queue is not destroyed after a failure.
Orderly == failed => \A t \in Threads : ~Quits(t)

-----------------------------------------------------------------------------
(* The invariant *)

CallInv ==
  /\ \A t \in Threads : Enqueuing(t) => task[t] \in 1 .. MaxTasks
  /\ \A t \in Threads, u \in Threads : pc[t] = "publish" /\ pc[u] = "publish" => t = u
  /\ \A t \in Threads, u \in Threads : Quits(t) /\ t # u => pc[u] = "idle"
  /\ \A t \in Threads : Quits(t) => Shutdown
  /\ failed => Failures

StatusInv ==
  /\ repo_status = "ERROR_EXIT" => consumer \in Leaving
  /\ \A t \in Threads : Throwing(t) =>
       repo_status \in {"ERROR_EXIT", "CAN_EXIT"} /\ consumer \notin Reading
  /\ ~failed =>
       /\ repo_status # "ERROR_EXIT"
       /\ \A t \in Threads : ~Throwing(t)
       /\ consumer \notin Draining \cup {"reset", "tell", "tell2"}
  /\ failed /\ Orderly =>
       \/ consumer \in Draining
       \/ /\ repo_status \in {"ERROR_EXIT", "CAN_EXIT"}
          /\ consumer \in Leaving \cup Idling
          /\ consumer \in Idling => repo_status = "CAN_EXIT"

SlotInv ==
  /\ \A k \in 0 .. InUse - 1 : datas[Slot(read_idx, k)] \in Nat
  /\ consumer \in Holding => read_idx # write_idx
  /\ consumer \in {"advance", "skip"} => released # <<>>
  /\ \A t \in Threads : pc[t] = "publish" =>
       datas[write_idx] = task[t] /\ After(write_idx) # read_idx

\* How many slots the consumer has given back.
Passed == IF consumer \in {"advance", "skip"} THEN Len(released) - 1 ELSE Len(released)

PrefixInv ==
  Orderly =>
    /\ Len(released) <= Len(sent) /\ \A i \in 1 .. Len(released) : released[i] = sent[i]
    /\ Len(ran) <= Len(sent) /\ \A i \in 1 .. Len(ran) : ran[i] = sent[i]

RingInv ==
  Orderly /\ (~failed \/ consumer \in Draining) =>
    /\ InUse = Len(sent) - Passed
    /\ \A k \in 0 .. InUse - 1 : datas[Slot(read_idx, k)] = sent[Passed + k + 1]

RanInv ==
  ~failed => Len(ran) = IF consumer = "release" THEN Len(released) + 1 ELSE Len(released)

OrderInv == PrefixInv /\ RingInv /\ RanInv

MarkInv ==
  /\ \A t \in Threads : mark[t] <= Len(sent)
  /\ EmptyMeansExecuted

IInv ==
  /\ TypeOK
  /\ CallInv /\ StatusInv /\ SlotInv /\ OrderInv /\ MarkInv

\* The types, by who changes the variables.
ThreadTypes ==
  /\ pc \in [Threads -> ThreadSteps]
  /\ task \in [Threads -> Nat \cup {None}]
  /\ mark \in [Threads -> Nat]
  /\ issued \in Nat

SharedTypes ==
  /\ datas \in [0 .. Capacity - 1 -> Nat \cup {None}]
  /\ read_idx \in 0 .. Capacity - 1 /\ write_idx \in 0 .. Capacity - 1
  /\ read_working \in BOOLEAN /\ write_working \in BOOLEAN /\ need_empty \in BOOLEAN
  /\ efd_read \in BOOLEAN /\ efd_write \in BOOLEAN /\ efd_empty \in BOOLEAN
  /\ repo_status \in Status
  /\ sent \in Seq(Nat) /\ ran \in Seq(Nat) /\ released \in Seq(Nat)
  /\ failed \in BOOLEAN

-----------------------------------------------------------------------------
(* Lemmas about the ring *)

LEMMA AfterNext ==
  ASSUME NEW i \in 0 .. Capacity - 1
  PROVE  /\ After(i) = IF i + 1 = Capacity THEN 0 ELSE i + 1
         /\ After(i) \in 0 .. Capacity - 1 /\ After(i) # i
<1>1. Capacity \in Nat /\ Capacity > 1
  BY QueueAssumption
<1>2. \A x \in 0 .. Capacity - 1 : x % Capacity = x
  BY <1>1
<1>3. Capacity % Capacity = 0
  BY <1>1
<1> QED  BY <1>1, <1>2, <1>3 DEF After

LEMMA RingPlaces ==
  ASSUME NEW r \in 0 .. Capacity - 1, NEW w \in 0 .. Capacity - 1
  PROVE  /\ Distance(r, w) \in 0 .. Capacity - 1
         /\ Distance(r, w) = 0 <=> r = w
         /\ Slot(r, 0) = r
         /\ Slot(r, Distance(r, w)) = w
         /\ \A k \in 0 .. Capacity - 1 : Slot(r, k) \in 0 .. Capacity - 1
         /\ \A k \in 0 .. Distance(r, w) - 1 : k \in 0 .. Capacity - 1 /\ Slot(r, k) # w
  BY QueueAssumption DEF Distance, Slot

\* A slot is published, if that does not make the ring look empty.
LEMMA RingGrows ==
  ASSUME NEW r \in 0 .. Capacity - 1, NEW w \in 0 .. Capacity - 1, After(w) # r
  PROVE  /\ After(w) \in 0 .. Capacity - 1
         /\ Distance(r, After(w)) = Distance(r, w) + 1
<1>1. After(w) = IF w + 1 = Capacity THEN 0 ELSE w + 1
  BY AfterNext
<1> QED  BY <1>1, QueueAssumption DEF Distance

\* A slot is given back.
LEMMA RingShrinks ==
  ASSUME NEW r \in 0 .. Capacity - 1, NEW w \in 0 .. Capacity - 1, r # w
  PROVE  /\ After(r) \in 0 .. Capacity - 1
         /\ After(r) # After(w)
         /\ Distance(After(r), w) = Distance(r, w) - 1
         /\ \A k \in 0 .. Capacity - 2 : Slot(After(r), k) = Slot(r, k + 1)
<1>1. /\ After(w) = IF w + 1 = Capacity THEN 0 ELSE w + 1
      /\ After(r) = IF r + 1 = Capacity THEN 0 ELSE r + 1
  BY AfterNext
<1> QED  BY <1>1, QueueAssumption DEF Distance, Slot

-----------------------------------------------------------------------------
(* Types *)

LEMMA TypeParts == TypeOK <=> ThreadTypes /\ SharedTypes /\ consumer \in ConsumerSteps
BY DEF TypeOK, ThreadTypes, SharedTypes

\* A thread that is in a call goes on to its next step: it starts no other call,
\* and it writes a slot only when nobody else has one to publish.  It finds the
\* queue empty before it says so.
GoesOn(t) ==
  /\ Quiet(t, pc[t], pc'[t])
  /\ pc[t] # "idle" /\ failed' = failed
  /\ Enqueuing(t)' => Enqueuing(t)
  /\ Quits(t)' <=> Quits(t)
  /\ pc'[t] = "publish" => \A u \in Threads : pc[u] # "publish"
  /\ pc'[t] = "done" => IsEmptyQueue

LEMMA Moved ==
  ASSUME TypeOK, NEW t \in Threads, NEW from, NEW to, Quiet(t, from, to)
  PROVE  /\ pc[t] = from /\ pc'[t] = to
         /\ \A u \in Threads : u # t => pc'[u] = pc[u] /\ task'[u] = task[u] /\ mark'[u] = mark[u]
         /\ to # "idle" => task'[t] = task[t] /\ mark'[t] = mark[t]
         /\ to = "idle" => task'[t] = None /\ mark'[t] = 0
         /\ issued' = issued /\ consumer' = consumer
BY DEF Quiet, Step, TypeOK

LEMMA ThreadGoesOn ==
  ASSUME TypeOK, NEW t \in Threads, Continue(t)
  PROVE  GoesOn(t) /\ pc'[t] \in ThreadSteps
<1> USE DEF history
<1>a. ASSUME NEW from, NEW to, Quiet(t, from, to)
      PROVE  Quiet(t, pc[t], pc'[t]) /\ pc[t] = from /\ pc'[t] = to
  BY <1>a, Moved
<1>1. CASE CheckStatus(t)
  <2>1. GoesOn(t)
    BY <1>a, <1>1 DEF CheckStatus, GoesOn, Enqueuing, Quits
  <2>2. pc'[t] \in ThreadSteps
    BY <1>a, <1>1 DEF CheckStatus, ThreadSteps
  <2> QED  BY <2>1, <2>2
<1>2. CASE SetWriteWorking(t)
  <2>1. GoesOn(t)
    BY <1>a, <1>2 DEF SetWriteWorking, GoesOn, Enqueuing, Quits
  <2>2. pc'[t] \in ThreadSteps
    BY <1>a, <1>2 DEF SetWriteWorking, ThreadSteps
  <2> QED  BY <2>1, <2>2
<1>3. CASE WriteQueue(t)
  <2>1. GoesOn(t)
    BY <1>a, <1>3 DEF WriteQueue, GoesOn, Enqueuing, Quits
  <2>2. pc'[t] \in ThreadSteps
    BY <1>a, <1>3 DEF WriteQueue, ThreadSteps
  <2> QED  BY <2>1, <2>2
<1>4. CASE Publish(t)
  <2>1. GoesOn(t)
    BY <1>a, <1>4 DEF Publish, GoesOn, Enqueuing, Quits
  <2>2. pc'[t] \in ThreadSteps
    BY <1>a, <1>4 DEF Publish, ThreadSteps
  <2> QED  BY <2>1, <2>2
<1>5. CASE NotifyConsumer(t)
  <2>1. GoesOn(t)
    BY <1>a, <1>5 DEF NotifyConsumer, GoesOn, Enqueuing, Quits
  <2>2. pc'[t] \in ThreadSteps
    BY <1>a, <1>5 DEF NotifyConsumer, ThreadSteps
  <2> QED  BY <2>1, <2>2
<1>6. CASE ClearWriteWorking(t)
  <2>1. GoesOn(t)
    BY <1>a, <1>6 DEF ClearWriteWorking, GoesOn, Enqueuing, Quits
  <2>2. pc'[t] \in ThreadSteps
    BY <1>a, <1>6 DEF ClearWriteWorking, ThreadSteps
  <2> QED  BY <2>1, <2>2
<1>7. CASE CheckFull(t)
  <2>1. GoesOn(t)
    BY <1>a, <1>7 DEF CheckFull, GoesOn, Enqueuing, Quits
  <2>2. pc'[t] \in ThreadSteps
    BY <1>a, <1>7 DEF CheckFull, ThreadSteps
  <2> QED  BY <2>1, <2>2
<1>8. CASE WaitDequeue(t)
  <2>1. GoesOn(t)
    BY <1>a, <1>8 DEF WaitDequeue, GoesOn, Enqueuing, Quits
  <2>2. pc'[t] \in ThreadSteps
    BY <1>a, <1>8 DEF WaitDequeue, ThreadSteps
  <2> QED  BY <2>1, <2>2
<1>9. CASE Throw(t)
  <2>1. GoesOn(t)
    BY <1>a, <1>9 DEF Throw, GoesOn, Enqueuing, Quits
  <2>2. pc'[t] \in ThreadSteps
    BY <1>a, <1>9 DEF Throw, ThreadSteps
  <2> QED  BY <2>1, <2>2
<1>10. CASE LookEmpty(t)
  <2>1. GoesOn(t)
    BY <1>a, <1>10 DEF LookEmpty, GoesOn, Enqueuing, Quits
  <2>2. pc'[t] \in ThreadSteps
    BY <1>a, <1>10 DEF LookEmpty, ThreadSteps
  <2> QED  BY <2>1, <2>2
<1>11. CASE SetNeed(t)
  <2>1. GoesOn(t)
    BY <1>a, <1>11 DEF SetNeed, GoesOn, Enqueuing, Quits
  <2>2. pc'[t] \in ThreadSteps
    BY <1>a, <1>11 DEF SetNeed, ThreadSteps
  <2> QED  BY <2>1, <2>2
<1>12. CASE DoubleCheck(t)
  <2>1. GoesOn(t)
    BY <1>a, <1>12 DEF DoubleCheck, GoesOn, Enqueuing, Quits
  <2>2. pc'[t] \in ThreadSteps
    BY <1>a, <1>12 DEF DoubleCheck, ThreadSteps
  <2> QED  BY <2>1, <2>2
<1>13. CASE WaitEmpty(t)
  <2>1. GoesOn(t)
    BY <1>a, <1>13 DEF WaitEmpty, GoesOn, Enqueuing, Quits
  <2>2. pc'[t] \in ThreadSteps
    BY <1>a, <1>13 DEF WaitEmpty, ThreadSteps
  <2> QED  BY <2>1, <2>2
<1>14. CASE ClearNeed(t)
  <2>1. GoesOn(t)
    BY <1>a, <1>14 DEF ClearNeed, GoesOn, Enqueuing, Quits
  <2>2. pc'[t] \in ThreadSteps
    BY <1>a, <1>14 DEF ClearNeed, ThreadSteps
  <2> QED  BY <2>1, <2>2
<1>15. CASE ReturnEmpty(t)
  <2>1. GoesOn(t)
    BY <1>a, <1>15 DEF ReturnEmpty, GoesOn, Enqueuing, Quits
  <2>2. pc'[t] \in ThreadSteps
    BY <1>a, <1>15 DEF ReturnEmpty, ThreadSteps
  <2> QED  BY <2>1, <2>2
<1>16. CASE JoinConsumer(t)
  <2>1. GoesOn(t)
    BY <1>a, <1>16 DEF JoinConsumer, GoesOn, Enqueuing, Quits
  <2>2. pc'[t] \in ThreadSteps
    BY <1>a, <1>16 DEF JoinConsumer, ThreadSteps
  <2> QED  BY <2>1, <2>2
<1> QED
  BY <1>1, <1>2, <1>3, <1>4, <1>5, <1>6, <1>7, <1>8, <1>9, <1>10, <1>11, <1>12, <1>13, <1>14, <1>15, <1>16 DEF Continue

LEMMA ConsumerGoesOn ==
  ASSUME Dequeue
  PROVE  /\ \E from \in ConsumerSteps, to \in ConsumerSteps : Consume(from, to)
         /\ failed' = failed \/ Failures
<1> USE DEF ConsumerSteps
<1>1. CASE StartConsume
  BY <1>1 DEF StartConsume
<1>2. CASE SetReadWorking
  BY <1>2 DEF SetReadWorking
<1>3. CASE ReadQueue
  BY <1>3 DEF ReadQueue
<1>4. CASE Succeed
  BY <1>4 DEF Succeed
<1>5. CASE Fail
  BY <1>5 DEF Fail
<1>6. CASE Release
  BY <1>6 DEF Release
<1>7. CASE Drain
  BY <1>7 DEF Drain
<1>8. CASE ReportError
  BY <1>8 DEF ReportError
<1>9. CASE CheckExit
  BY <1>9 DEF CheckExit
<1>10. CASE ClearReadWorking
  BY <1>10 DEF ClearReadWorking
<1>11. CASE CheckEmpty
  BY <1>11 DEF CheckEmpty
<1>12. CASE WaitEnqueue
  BY <1>12 DEF WaitEnqueue
<1>13. CASE NotifyEmpty
  BY <1>13 DEF NotifyEmpty
<1>14. CASE NotifyProducer
  BY <1>14 DEF NotifyProducer
<1> QED
  BY <1>1, <1>2, <1>3, <1>4, <1>5, <1>6, <1>7, <1>8, <1>9, <1>10, <1>11, <1>12, <1>13, <1>14 DEF Dequeue

LEMMA ThreadTypesKept ==
  ASSUME TypeOK, Next
  PROVE  ThreadTypes' /\ consumer' \in ConsumerSteps
<1> USE DEF ThreadTypes
<1>0. ThreadTypes /\ SharedTypes /\ consumer \in ConsumerSteps
  BY TypeParts
<1>1. ASSUME NEW t \in Threads, Call(t)
      PROVE  ThreadTypes' /\ consumer' \in ConsumerSteps
  <2>1. CASE Enqueue(t)
    BY <1>0, <2>1 DEF Enqueue, Step, threads, ThreadSteps
  <2>2. CASE MakeSureQueueEmpty(t)
    <3>1. Len(sent) \in Nat
      BY <1>0 DEF SharedTypes
    <3> QED  BY <1>0, <2>2, <3>1 DEF MakeSureQueueEmpty, Step, threads, ThreadSteps
  <2>3. CASE Destroy(t)
    BY <1>0, <2>3 DEF Destroy, Quiet, Step, ThreadSteps
  <2> QED  BY <1>1, <2>1, <2>2, <2>3 DEF Call
<1>2. ASSUME NEW t \in Threads, Continue(t)
      PROVE  ThreadTypes' /\ consumer' \in ConsumerSteps
  <2>1. GoesOn(t) /\ pc'[t] \in ThreadSteps
    BY <1>2, ThreadGoesOn
  <2> QED  BY <1>0, <2>1 DEF GoesOn, Quiet, Step
<1>3. ASSUME Dequeue
      PROVE  ThreadTypes' /\ consumer' \in ConsumerSteps
  <2>1. PICK from \in ConsumerSteps, to \in ConsumerSteps : Consume(from, to)
    BY <1>3, ConsumerGoesOn
  <2> QED  BY <1>0, <2>1 DEF Consume, threads
<1> QED  BY <1>1, <1>2, <1>3 DEF Next

\* What the consumer takes out of a slot is a task.
LEMMA HeldTask ==
  ASSUME TypeOK, SlotInv, read_idx # write_idx
  PROVE  datas[read_idx] \in Nat /\ 0 \in 0 .. InUse - 1 /\ Slot(read_idx, 0) = read_idx
<1>1. read_idx \in 0 .. Capacity - 1 /\ write_idx \in 0 .. Capacity - 1
  BY DEF TypeOK
<1>2. InUse \in Nat /\ InUse # 0 /\ Slot(read_idx, 0) = read_idx
  BY <1>1, RingPlaces DEF InUse
<1>3. 0 \in 0 .. InUse - 1
  BY <1>2
<1> QED  BY <1>2, <1>3 DEF SlotInv

LEMMA SharedTypesKept ==
  ASSUME TypeOK, CallInv, SlotInv, Next
  PROVE  SharedTypes'
<1> USE DEF indices, flags, efds, threads, history, Status
<1>0. SharedTypes
  BY TypeParts
<1>a. After(read_idx) \in 0 .. Capacity - 1 /\ After(write_idx) \in 0 .. Capacity - 1
  BY <1>0, AfterNext DEF SharedTypes
<1>1. ASSUME NEW t \in Threads, Enqueue(t) PROVE SharedTypes'
  BY <1>0, <1>1 DEF Enqueue, SharedTypes
<1>2. ASSUME NEW t \in Threads, MakeSureQueueEmpty(t) PROVE SharedTypes'
  BY <1>0, <1>2 DEF MakeSureQueueEmpty, SharedTypes
<1>3. ASSUME NEW t \in Threads, Destroy(t) PROVE SharedTypes'
  BY <1>0, <1>3 DEF Destroy, SharedTypes
<1>4. ASSUME NEW t \in Threads, CheckStatus(t) PROVE SharedTypes'
  BY <1>0, <1>4 DEF CheckStatus, SharedTypes
<1>5. ASSUME NEW t \in Threads, SetWriteWorking(t) PROVE SharedTypes'
  BY <1>0, <1>5 DEF SetWriteWorking, SharedTypes
<1>6. ASSUME NEW t \in Threads, WriteQueue(t) PROVE SharedTypes'
  <2>1. task[t] \in Nat \cup {None}
    BY DEF TypeOK
  <2> QED  BY <1>0, <1>6, <2>1 DEF WriteQueue, SharedTypes
<1>7. ASSUME NEW t \in Threads, Publish(t) PROVE SharedTypes'
  <2>1. task[t] \in Nat
    BY <1>7 DEF Publish, Quiet, Step, CallInv, Enqueuing
  <2>2. Append(sent, task[t]) \in Seq(Nat)
    BY <1>0, <2>1 DEF SharedTypes
  <2> QED  BY <1>0, <1>a, <1>7, <2>2 DEF Publish, SharedTypes
<1>8. ASSUME NEW t \in Threads, NotifyConsumer(t) PROVE SharedTypes'
  BY <1>0, <1>8 DEF NotifyConsumer, SharedTypes
<1>9. ASSUME NEW t \in Threads, ClearWriteWorking(t) PROVE SharedTypes'
  BY <1>0, <1>9 DEF ClearWriteWorking, SharedTypes
<1>10. ASSUME NEW t \in Threads, CheckFull(t) PROVE SharedTypes'
  BY <1>0, <1>10 DEF CheckFull, SharedTypes
<1>11. ASSUME NEW t \in Threads, WaitDequeue(t) PROVE SharedTypes'
  BY <1>0, <1>11 DEF WaitDequeue, SharedTypes
<1>12. ASSUME NEW t \in Threads, Throw(t) PROVE SharedTypes'
  BY <1>0, <1>12 DEF Throw, SharedTypes
<1>13. ASSUME NEW t \in Threads, LookEmpty(t) PROVE SharedTypes'
  BY <1>0, <1>13 DEF LookEmpty, SharedTypes
<1>14. ASSUME NEW t \in Threads, SetNeed(t) PROVE SharedTypes'
  BY <1>0, <1>14 DEF SetNeed, SharedTypes
<1>15. ASSUME NEW t \in Threads, DoubleCheck(t) PROVE SharedTypes'
  BY <1>0, <1>15 DEF DoubleCheck, SharedTypes
<1>16. ASSUME NEW t \in Threads, WaitEmpty(t) PROVE SharedTypes'
  BY <1>0, <1>16 DEF WaitEmpty, SharedTypes
<1>17. ASSUME NEW t \in Threads, ClearNeed(t) PROVE SharedTypes'
  BY <1>0, <1>17 DEF ClearNeed, SharedTypes
<1>18. ASSUME NEW t \in Threads, ReturnEmpty(t) PROVE SharedTypes'
  BY <1>0, <1>18 DEF ReturnEmpty, SharedTypes
<1>19. ASSUME NEW t \in Threads, JoinConsumer(t) PROVE SharedTypes'
  BY <1>0, <1>19 DEF JoinConsumer, SharedTypes
<1>20. CASE StartConsume
  BY <1>0, <1>20 DEF StartConsume, Consume, SharedTypes
<1>21. CASE SetReadWorking
  BY <1>0, <1>21 DEF SetReadWorking, Consume, SharedTypes
<1>22. CASE ReadQueue
  BY <1>0, <1>22 DEF ReadQueue, Consume, SharedTypes
<1>23. CASE Succeed
  <2>1. read_idx # write_idx
    BY <1>23 DEF Succeed, Consume, SlotInv, Holding
  <2>2. Append(ran, datas[read_idx]) \in Seq(Nat)
    BY <1>0, <2>1, HeldTask DEF SharedTypes
  <2> QED  BY <1>0, <1>a, <1>23, <2>2 DEF Succeed, Consume, SharedTypes
<1>24. CASE Fail
  BY <1>0, <1>24 DEF Fail, Consume, SharedTypes
<1>25. CASE Release
  <2>1. read_idx # write_idx
    BY <1>25 DEF Release, Consume, SlotInv, Holding
  <2>2. Append(released, datas[read_idx]) \in Seq(Nat)
    BY <1>0, <2>1, HeldTask DEF SharedTypes
  <2>3. /\ read_idx' \in {read_idx, After(read_idx)}
        /\ released' \in {released, Append(released, datas[read_idx])}
    BY <1>25 DEF Release
  <2>4. UNCHANGED <<datas, write_idx, flags, efds, repo_status, sent, ran, failed>>
    BY <1>25 DEF Release, Consume
  <2>5. read_idx' \in 0 .. Capacity - 1 /\ released' \in Seq(Nat)
    BY <1>0, <1>a, <2>2, <2>3 DEF SharedTypes
  <2> QED  BY <1>0, <2>4, <2>5 DEF SharedTypes
<1>26. CASE Drain
  <2>2. read_idx # write_idx => Append(released, datas[read_idx]) \in Seq(Nat)
    BY <1>0, HeldTask DEF SharedTypes
  <2>3. /\ read_idx' \in {read_idx, After(read_idx)}
        /\ \/ released' = released
           \/ read_idx # write_idx /\ released' = Append(released, datas[read_idx])
    BY <1>26 DEF Drain, IsEmptyQueue
  <2>4. UNCHANGED <<datas, write_idx, flags, efds, repo_status, sent, ran, failed>>
    BY <1>26 DEF Drain, Consume
  <2>5. read_idx' \in 0 .. Capacity - 1 /\ released' \in Seq(Nat)
    BY <1>0, <1>a, <2>2, <2>3 DEF SharedTypes
  <2> QED  BY <1>0, <2>4, <2>5 DEF SharedTypes
<1>27. CASE ReportError
  <2>1. /\ read_idx' \in {read_idx, write_idx} /\ repo_status' \in {repo_status, "ERROR_EXIT"}
        /\ efd_read' = efd_read
        /\ efd_write' \in {efd_write, TRUE} /\ efd_empty' \in {efd_empty, TRUE}
    BY <1>27 DEF ReportError
  <2>2. UNCHANGED <<datas, write_idx, flags, history>>
    BY <1>27 DEF ReportError, Consume
  <2>3. /\ read_idx' \in 0 .. Capacity - 1 /\ repo_status' \in Status
        /\ efd_write' \in BOOLEAN /\ efd_empty' \in BOOLEAN
    BY <1>0, <2>1 DEF SharedTypes
  <2> QED  BY <1>0, <2>1, <2>2, <2>3 DEF SharedTypes
<1>28. CASE CheckExit
  <2>1. repo_status' \in {repo_status, "CAN_EXIT"}
    BY <1>28 DEF CheckExit
  <2>2. UNCHANGED <<indices, flags, efds, history>>
    BY <1>28 DEF CheckExit, Consume
  <2> QED  BY <1>0, <2>1, <2>2 DEF SharedTypes
<1>29. CASE ClearReadWorking
  BY <1>0, <1>29 DEF ClearReadWorking, Consume, SharedTypes
<1>30. CASE CheckEmpty
  BY <1>0, <1>30 DEF CheckEmpty, Consume, SharedTypes
<1>31. CASE WaitEnqueue
  BY <1>0, <1>31 DEF WaitEnqueue, Consume, SharedTypes
<1>32. CASE NotifyEmpty
  <2>1. efd_empty' \in {efd_empty, TRUE}
    BY <1>32 DEF NotifyEmpty
  <2>2. UNCHANGED <<indices, flags, efd_read, efd_write, repo_status, history>>
    BY <1>32 DEF NotifyEmpty, Consume
  <2> QED  BY <1>0, <2>1, <2>2 DEF SharedTypes
<1>33. CASE NotifyProducer
  <2>1. efd_write' \in {efd_write, TRUE}
    BY <1>33 DEF NotifyProducer
  <2>2. UNCHANGED <<indices, flags, efd_read, efd_empty, repo_status, history>>
    BY <1>33 DEF NotifyProducer, Consume
  <2> QED  BY <1>0, <2>1, <2>2 DEF SharedTypes
<1> QED
  BY <1>1, <1>2, <1>3, <1>4, <1>5, <1>6, <1>7, <1>8, <1>9, <1>10, <1>11, <1>12, <1>13, <1>14, <1>15, <1>16, <1>17, <1>18, <1>19, <1>20, <1>21, <1>22, <1>23, <1>24, <1>25, <1>26, <1>27, <1>28, <1>29, <1>30, <1>31, <1>32, <1>33 DEF Next, Call, Continue, Dequeue

LEMMA TypeKeeps == TypeOK /\ CallInv /\ SlotInv /\ Next => TypeOK'
BY TypeParts, ThreadTypesKept, SharedTypesKept DEF TypeOK, ThreadTypes, SharedTypes

-----------------------------------------------------------------------------
(* Calls *)

\* A call starts when the queue exists, and ends in its own thread.
LEMMA CallInvKeeps ==
  ASSUME TypeOK, CallInv, Next
  PROVE  CallInv'
<1> USE DEF CallInv, Quits
<1>1. ASSUME NEW t \in Threads, Call(t) PROVE CallInv'
  <2>0. \A u \in Threads : ~Quits(u)
    BY <1>1 DEF Call
  <2>1. CASE Enqueue(t)
    <3>1. /\ pc[t] = "idle" /\ pc'[t] \in {"throw", "enqueue"}
          /\ \A u \in Threads : u # t => pc'[u] = pc[u] /\ task'[u] = task[u]
      BY <2>1 DEF Enqueue, Step, TypeOK
    <3>2. task'[t] = issued + 1 /\ issued + 1 \in 1 .. MaxTasks
      BY <2>1, QueueAssumption DEF Enqueue, TypeOK
    <3>3. failed' = failed
      BY <2>1 DEF Enqueue, history
    <3>4. (\A u \in Threads : Enqueuing(u) => task[u] \in 1 .. MaxTasks)'
      BY <3>1, <3>2 DEF Enqueuing
    <3> QED  BY <2>0, <3>1, <3>3, <3>4
  <2>2. CASE MakeSureQueueEmpty(t)
    <3>1. /\ pc'[t] = "look"
          /\ \A u \in Threads : u # t => pc'[u] = pc[u]
          /\ task' = task /\ failed' = failed
      BY <2>2 DEF MakeSureQueueEmpty, Step, TypeOK, history
    <3> QED  BY <2>0, <3>1 DEF Enqueuing
  <2>3. CASE Destroy(t)
    <3>1. Shutdown /\ \A u \in Threads : pc[u] = "idle"
      BY <2>3 DEF Destroy
    <3>2. pc'[t] = "destroy" /\ \A u \in Threads : u # t => pc'[u] = "idle"
      BY <2>3, <3>1, Moved DEF Destroy
    <3>3. failed' = failed
      BY <2>3 DEF Destroy, history
    <3> QED  BY <3>1, <3>2, <3>3 DEF Enqueuing
  <2> QED  BY <1>1, <2>1, <2>2, <2>3 DEF Call
<1>2. ASSUME NEW t \in Threads, Continue(t) PROVE CallInv'
  <2>1. GoesOn(t)
    BY <1>2, ThreadGoesOn
  <2>2. /\ \A u \in Threads : u # t => pc'[u] = pc[u] /\ task'[u] = task[u]
        /\ pc'[t] # "idle" => task'[t] = task[t]
    BY <2>1, Moved DEF GoesOn
  <2>3. (\A u \in Threads : Enqueuing(u) => task[u] \in 1 .. MaxTasks)'
    BY <2>1, <2>2 DEF GoesOn, Enqueuing
  <2>4. (\A u \in Threads, v \in Threads : pc[u] = "publish" /\ pc[v] = "publish" => u = v)'
    BY <2>1, <2>2 DEF GoesOn
  <2>5. (\A u \in Threads : Quits(u) => Shutdown /\ \A v \in Threads : u # v => pc[v] = "idle")'
    <3>1. \A u \in Threads : Quits(u) => u = t
      BY <2>1, <2>2 DEF GoesOn
    <3>2. \A u \in Threads : Quits(u)' => u = t /\ Quits(t)
      BY <2>1, <2>2, <3>1 DEF GoesOn
    <3> QED  BY <2>2, <3>2
  <2> QED  BY <2>1, <2>3, <2>4, <2>5 DEF GoesOn
<1>3. ASSUME Dequeue PROVE CallInv'
  <2>1. PICK from \in ConsumerSteps, to \in ConsumerSteps : Consume(from, to)
    BY <1>3, ConsumerGoesOn
  <2>2. failed' = failed \/ Failures
    BY <1>3, ConsumerGoesOn
  <2> QED  BY <2>1, <2>2 DEF Consume, threads, Enqueuing
<1> QED  BY <1>1, <1>2, <1>3 DEF Next

\* An error is reported, and taken, when the consumer does not read.
LEMMA StatusInvKeeps ==
  ASSUME IInv, Next
  PROVE  StatusInv'
<1> USE DEF IInv, TypeOK, indices, flags, efds, threads, history
<1>1. ASSUME NEW t \in Threads, Call(t), Enqueue(t) PROVE StatusInv'
  BY <1>1 DEF Call, Enqueue, Step, Quiet, StatusInv, CallInv, Throwing, Orderly, Quits, Leaving, Idling, Reading, Holding, Draining
<1>2. ASSUME NEW t \in Threads, Call(t), MakeSureQueueEmpty(t) PROVE StatusInv'
  BY <1>2 DEF Call, MakeSureQueueEmpty, Step, Quiet, StatusInv, CallInv, Throwing, Orderly, Quits, Leaving, Idling, Reading, Holding, Draining
<1>3. ASSUME NEW t \in Threads, Call(t), Destroy(t) PROVE StatusInv'
  BY <1>3 DEF Call, Destroy, Step, Quiet, StatusInv, CallInv, Throwing, Orderly, Quits, Leaving, Idling, Reading, Holding, Draining
<1>4. ASSUME NEW t \in Threads, CheckStatus(t) PROVE StatusInv'
  BY <1>4 DEF CheckStatus, Quiet, Step, StatusInv, CallInv, Throwing, Orderly, Quits, Leaving, Idling, Reading, Holding, Draining
<1>5. ASSUME NEW t \in Threads, SetWriteWorking(t) PROVE StatusInv'
  BY <1>5 DEF SetWriteWorking, Quiet, Step, StatusInv, CallInv, Throwing, Orderly, Quits, Leaving, Idling, Reading, Holding, Draining
<1>6. ASSUME NEW t \in Threads, WriteQueue(t) PROVE StatusInv'
  BY <1>6 DEF WriteQueue, IsFullQueue, Quiet, Step, StatusInv, CallInv, Throwing, Orderly, Quits, Leaving, Idling, Reading, Holding, Draining
<1>7. ASSUME NEW t \in Threads, Publish(t) PROVE StatusInv'
  BY <1>7 DEF Publish, Quiet, Step, StatusInv, CallInv, Throwing, Orderly, Quits, Leaving, Idling, Reading, Holding, Draining
<1>8. ASSUME NEW t \in Threads, NotifyConsumer(t) PROVE StatusInv'
  BY <1>8 DEF NotifyConsumer, Quiet, Step, StatusInv, CallInv, Throwing, Orderly, Quits, Leaving, Idling, Reading, Holding, Draining
<1>9. ASSUME NEW t \in Threads, ClearWriteWorking(t) PROVE StatusInv'
  BY <1>9 DEF ClearWriteWorking, Quiet, Step, StatusInv, CallInv, Throwing, Orderly, Quits, Leaving, Idling, Reading, Holding, Draining
<1>10. ASSUME NEW t \in Threads, CheckFull(t) PROVE StatusInv'
  BY <1>10 DEF CheckFull, IsFullQueue, Quiet, Step, StatusInv, CallInv, Throwing, Orderly, Quits, Leaving, Idling, Reading, Holding, Draining
<1>11. ASSUME NEW t \in Threads, WaitDequeue(t) PROVE StatusInv'
  BY <1>11 DEF WaitDequeue, Quiet, Step, StatusInv, CallInv, Throwing, Orderly, Quits, Leaving, Idling, Reading, Holding, Draining
<1>12. ASSUME NEW t \in Threads, Throw(t) PROVE StatusInv'
  BY <1>12 DEF Throw, Quiet, Step, StatusInv, CallInv, Throwing, Orderly, Quits, Leaving, Idling, Reading, Holding, Draining
<1>13. ASSUME NEW t \in Threads, LookEmpty(t) PROVE StatusInv'
  BY <1>13 DEF LookEmpty, IsEmptyQueue, Quiet, Step, StatusInv, CallInv, Throwing, Orderly, Quits, Leaving, Idling, Reading, Holding, Draining
<1>14. ASSUME NEW t \in Threads, SetNeed(t) PROVE StatusInv'
  BY <1>14 DEF SetNeed, Quiet, Step, StatusInv, CallInv, Throwing, Orderly, Quits, Leaving, Idling, Reading, Holding, Draining
<1>15. ASSUME NEW t \in Threads, DoubleCheck(t) PROVE StatusInv'
  BY <1>15 DEF DoubleCheck, IsEmptyQueue, Quiet, Step, StatusInv, CallInv, Throwing, Orderly, Quits, Leaving, Idling, Reading, Holding, Draining
<1>16. ASSUME NEW t \in Threads, WaitEmpty(t) PROVE StatusInv'
  BY <1>16 DEF WaitEmpty, Quiet, Step, StatusInv, CallInv, Throwing, Orderly, Quits, Leaving, Idling, Reading, Holding, Draining
<1>17. ASSUME NEW t \in Threads, ClearNeed(t) PROVE StatusInv'
  BY <1>17 DEF ClearNeed, Quiet, Step, StatusInv, CallInv, Throwing, Orderly, Quits, Leaving, Idling, Reading, Holding, Draining
<1>18. ASSUME NEW t \in Threads, ReturnEmpty(t) PROVE StatusInv'
  BY <1>18 DEF ReturnEmpty, Quiet, Step, StatusInv, CallInv, Throwing, Orderly, Quits, Leaving, Idling, Reading, Holding, Draining
<1>19. ASSUME NEW t \in Threads, JoinConsumer(t) PROVE StatusInv'
  BY <1>19 DEF JoinConsumer, Quiet, Step, StatusInv, CallInv, Throwing, Orderly, Quits, Leaving, Idling, Reading, Holding, Draining
<1>20. CASE StartConsume
  BY <1>20 DEF StartConsume, Consume, StatusInv, CallInv, Throwing, Orderly, Quits, Leaving, Idling, Reading, Holding, Draining
<1>21. CASE SetReadWorking
  BY <1>21 DEF SetReadWorking, Consume, StatusInv, CallInv, Throwing, Orderly, Quits, Leaving, Idling, Reading, Holding, Draining
<1>22. CASE ReadQueue
  BY <1>22 DEF ReadQueue, IsEmptyQueue, Consume, StatusInv, CallInv, Throwing, Orderly, Quits, Leaving, Idling, Reading, Holding, Draining
<1>23. CASE Succeed
  BY <1>23 DEF Succeed, Consume, StatusInv, CallInv, Throwing, Orderly, Quits, Leaving, Idling, Reading, Holding, Draining
<1>24. CASE Fail
  BY <1>24 DEF Fail, Consume, StatusInv, CallInv, Throwing, Orderly, Quits, Leaving, Idling, Reading, Holding, Draining
<1>25. CASE Release
  BY <1>25 DEF Release, Consume, StatusInv, CallInv, Throwing, Orderly, Quits, Leaving, Idling, Reading, Holding, Draining
<1>26. CASE Drain
  BY <1>26 DEF Drain, IsEmptyQueue, Consume, StatusInv, CallInv, Throwing, Orderly, Quits, Leaving, Idling, Reading, Holding, Draining
<1>27. CASE ReportError
  BY <1>27 DEF ReportError, Consume, StatusInv, CallInv, Throwing, Orderly, Quits, Leaving, Idling, Reading, Holding, Draining
<1>28. CASE CheckExit
  BY <1>28 DEF CheckExit, Consume, StatusInv, CallInv, Throwing, Orderly, Quits, Leaving, Idling, Reading, Holding, Draining
<1>29. CASE ClearReadWorking
  BY <1>29 DEF ClearReadWorking, Consume, StatusInv, CallInv, Throwing, Orderly, Quits, Leaving, Idling, Reading, Holding, Draining
<1>30. CASE CheckEmpty
  BY <1>30 DEF CheckEmpty, IsEmptyQueue, Consume, StatusInv, CallInv, Throwing, Orderly, Quits, Leaving, Idling, Reading, Holding, Draining
<1>31. CASE WaitEnqueue
  BY <1>31 DEF WaitEnqueue, Consume, StatusInv, CallInv, Throwing, Orderly, Quits, Leaving, Idling, Reading, Holding, Draining
<1>32. CASE NotifyEmpty
  BY <1>32 DEF NotifyEmpty, IsEmptyQueue, Consume, StatusInv, CallInv, Throwing, Orderly, Quits, Leaving, Idling, Reading, Holding, Draining
<1>33. CASE NotifyProducer
  BY <1>33 DEF NotifyProducer, Consume, StatusInv, CallInv, Throwing, Orderly, Quits, Leaving, Idling, Reading, Holding, Draining
<1> QED
  BY <1>1, <1>2, <1>3, <1>4, <1>5, <1>6, <1>7, <1>8, <1>9, <1>10, <1>11, <1>12, <1>13, <1>14, <1>15, <1>16, <1>17, <1>18, <1>19, <1>20, <1>21, <1>22, <1>23, <1>24, <1>25, <1>26, <1>27, <1>28, <1>29, <1>30, <1>31, <1>32, <1>33 DEF Next, Call, Continue, Dequeue

-----------------------------------------------------------------------------
(* The steps that do something to the ring *)

\* Nothing of the ring changes, and nobody takes or gives a slot.
RingStill ==
  /\ UNCHANGED <<indices, history>>
  /\ \A u \in Threads : pc'[u] = "publish" => pc[u] = "publish" /\ task'[u] = task[u]
  /\ \A u \in Threads : Quits(u) => Quits(u)'
  /\ \/ consumer' = consumer
     \/ /\ {consumer, consumer'} \cap ({"release", "advance"} \cup Draining) = {}
        /\ consumer' = "call" => ~IsEmptyQueue

LEMMA RingSteps ==
  ASSUME TypeOK, CallInv, Next
  PROVE  \/ RingStill
         \/ \E t \in Threads : WriteQueue(t) \/ Publish(t) \/ Throw(t)
         \/ Succeed \/ Fail \/ Release \/ Drain \/ ReportError
<1>1. ASSUME NEW t \in Threads, Call(t) PROVE RingStill
  <2>0. \A u \in Threads : ~Quits(u)
    BY <1>1 DEF Call, Quits
  <2>1. CASE Enqueue(t)
    <3>1. /\ pc'[t] \in {"throw", "enqueue"} /\ \A u \in Threads : u # t => pc'[u] = pc[u] /\ task'[u] = task[u]
          /\ consumer' = consumer /\ UNCHANGED <<indices, history>>
      BY <2>1 DEF Enqueue, Step, TypeOK
    <3> QED  BY <2>0, <3>1 DEF RingStill
  <2>2. CASE MakeSureQueueEmpty(t)
    <3>1. /\ pc'[t] = "look" /\ task' = task /\ \A u \in Threads : u # t => pc'[u] = pc[u]
          /\ consumer' = consumer /\ UNCHANGED <<indices, history>>
      BY <2>2 DEF MakeSureQueueEmpty, Step, TypeOK
    <3> QED  BY <2>0, <3>1 DEF RingStill
  <2>3. CASE Destroy(t)
    <3>1. /\ pc'[t] = "destroy" /\ \A u \in Threads : u # t => pc'[u] = pc[u] /\ task'[u] = task[u]
          /\ consumer' = consumer /\ UNCHANGED <<indices, history>>
      BY <2>3, Moved DEF Destroy
    <3> QED  BY <2>0, <3>1 DEF RingStill
  <2> QED  BY <1>1, <2>1, <2>2, <2>3 DEF Call
<1>2. ASSUME NEW t \in Threads, Continue(t), ~WriteQueue(t), ~Publish(t), ~Throw(t)
      PROVE  RingStill
  <2>1. GoesOn(t)
    BY <1>2, ThreadGoesOn
  <2>2. /\ consumer' = consumer
        /\ \A u \in Threads : u # t => pc'[u] = pc[u] /\ task'[u] = task[u]
    BY <2>1, Moved DEF GoesOn
  <2>a. ASSUME NEW x, NEW y, Quiet(t, x, y)
        PROVE  pc[t] = x /\ pc'[t] = y
    BY <2>a, Moved
  <2>3. UNCHANGED <<indices, history>> /\ pc'[t] # "publish"
    <3> USE DEF indices
    <3>1. CASE CheckStatus(t)
      BY <2>a, <3>1 DEF CheckStatus
    <3>2. CASE SetWriteWorking(t)
      BY <2>a, <3>2 DEF SetWriteWorking
    <3>3. CASE NotifyConsumer(t)
      BY <2>a, <3>3 DEF NotifyConsumer
    <3>4. CASE ClearWriteWorking(t)
      BY <2>a, <3>4 DEF ClearWriteWorking
    <3>5. CASE CheckFull(t)
      BY <2>a, <3>5 DEF CheckFull
    <3>6. CASE WaitDequeue(t)
      BY <2>a, <3>6 DEF WaitDequeue
    <3>7. CASE LookEmpty(t)
      BY <2>a, <3>7 DEF LookEmpty
    <3>8. CASE SetNeed(t)
      BY <2>a, <3>8 DEF SetNeed
    <3>9. CASE DoubleCheck(t)
      BY <2>a, <3>9 DEF DoubleCheck
    <3>10. CASE WaitEmpty(t)
      BY <2>a, <3>10 DEF WaitEmpty
    <3>11. CASE ClearNeed(t)
      BY <2>a, <3>11 DEF ClearNeed
    <3>12. CASE ReturnEmpty(t)
      BY <2>a, <3>12 DEF ReturnEmpty
    <3>13. CASE JoinConsumer(t)
      BY <2>a, <3>13 DEF JoinConsumer
    <3> QED
      BY <1>2, <3>1, <3>2, <3>3, <3>4, <3>5, <3>6, <3>7, <3>8, <3>9, <3>10, <3>11, <3>12, <3>13 DEF Continue
  <2>4. \A u \in Threads : Quits(u) => Quits(u)'
    BY <2>1, <2>2 DEF GoesOn, Quits
  <2> QED  BY <2>2, <2>3, <2>4 DEF RingStill
<1>3. ASSUME Dequeue, ~Succeed, ~Fail, ~Release, ~Drain, ~ReportError
      PROVE  RingStill
  <2>1. /\ UNCHANGED <<indices, history>>
        /\ {consumer, consumer'} \cap ({"release", "advance"} \cup Draining) = {}
        /\ consumer' = "call" => ~IsEmptyQueue
    <3> USE DEF indices, history, Draining
    <3>1. CASE StartConsume
      BY <3>1 DEF StartConsume, Consume
    <3>2. CASE SetReadWorking
      BY <3>2 DEF SetReadWorking, Consume
    <3>3. CASE ReadQueue
      BY <3>3 DEF ReadQueue, Consume
    <3>4. CASE CheckExit
      BY <3>4 DEF CheckExit, Consume
    <3>5. CASE ClearReadWorking
      BY <3>5 DEF ClearReadWorking, Consume
    <3>6. CASE CheckEmpty
      BY <3>6 DEF CheckEmpty, Consume
    <3>7. CASE WaitEnqueue
      BY <3>7 DEF WaitEnqueue, Consume
    <3>8. CASE NotifyEmpty
      BY <3>8 DEF NotifyEmpty, Consume
    <3>9. CASE NotifyProducer
      BY <3>9 DEF NotifyProducer, Consume
    <3> QED
      BY <1>3, <3>1, <3>2, <3>3, <3>4, <3>5, <3>6, <3>7, <3>8, <3>9 DEF Dequeue
  <2>2. pc' = pc /\ task' = task
    <3>1. PICK from \in ConsumerSteps, to \in ConsumerSteps : Consume(from, to)
      BY <1>3, ConsumerGoesOn
    <3> QED  BY <3>1 DEF Consume, threads
  <2> QED  BY <2>1, <2>2 DEF RingStill, Quits
<1> QED  BY <1>1, <1>2, <1>3 DEF Next

-----------------------------------------------------------------------------
(* Slots *)

\* A slot is written outside the ones in use, published when the ring has room
\* for it, and given back when it has been read.
LEMMA SlotInvKeeps ==
  ASSUME TypeOK, CallInv, StatusInv, SlotInv, Next
  PROVE  SlotInv'
<1>0. read_idx \in 0 .. Capacity - 1 /\ write_idx \in 0 .. Capacity - 1
  BY DEF TypeOK
<1>1. ASSUME RingStill PROVE SlotInv'
  BY <1>1 DEF RingStill, SlotInv, InUse, Holding, Draining, indices, history, IsEmptyQueue
<1>2. ASSUME NEW t \in Threads, WriteQueue(t) PROVE SlotInv'
  <2>1. CASE IsFullQueue
    <3>1. Quiet(t, "write", "pause") /\ UNCHANGED <<indices, history>>
      BY <1>2, <2>1 DEF WriteQueue, indices
    <3>2. /\ consumer' = consumer
          /\ \A u \in Threads : pc'[u] = "publish" => pc[u] = "publish" /\ task'[u] = task[u]
      BY <3>1, Moved
    <3> QED  BY <3>1, <3>2 DEF SlotInv, InUse, indices, history
  <2>2. CASE ~IsFullQueue
    <3>1. /\ datas' = [datas EXCEPT ![write_idx] = task[t]]
          /\ read_idx' = read_idx /\ write_idx' = write_idx /\ released' = released
          /\ Quiet(t, "write", "publish") /\ \A u \in Threads : pc[u] # "publish"
      BY <1>2, <2>2 DEF WriteQueue, history
    <3>2. consumer' = consumer /\ task'[t] = task[t] /\ \A u \in Threads : u # t => pc'[u] # "publish"
      BY <3>1, Moved
    <3>3. \A k \in 0 .. InUse - 1 : datas'[Slot(read_idx, k)] = datas[Slot(read_idx, k)]
      <4>1. \A k \in 0 .. InUse - 1 : Slot(read_idx, k) # write_idx /\ Slot(read_idx, k) \in 0 .. Capacity - 1
        BY <1>0, RingPlaces DEF InUse
      <4> QED  BY <3>1, <4>1 DEF TypeOK
    <3>4. datas'[write_idx] = task[t]
      BY <1>0, <3>1 DEF TypeOK
    <3>5. After(write_idx) # read_idx
      BY <2>2 DEF IsFullQueue
    <3>6. InUse' = InUse
      BY <3>1 DEF InUse
    <3> QED  BY <3>1, <3>2, <3>3, <3>4, <3>5, <3>6 DEF SlotInv
  <2> QED  BY <2>1, <2>2
<1>3. ASSUME NEW t \in Threads, Publish(t) PROVE SlotInv'
  <2>1. /\ Quiet(t, "publish", "notify") /\ write_idx' = After(write_idx)
        /\ datas' = datas /\ read_idx' = read_idx /\ released' = released
    BY <1>3 DEF Publish
  <2>2. pc[t] = "publish" /\ pc'[t] = "notify" /\ consumer' = consumer
    BY <2>1, Moved
  <2>3. \A u \in Threads : pc'[u] # "publish"
    BY <2>1, <2>2, Moved DEF CallInv
  <2>4. datas[write_idx] = task[t] /\ After(write_idx) # read_idx /\ task[t] \in Nat
    BY <2>2 DEF SlotInv, CallInv, Enqueuing
  <2>5. InUse' = InUse + 1 /\ InUse \in Nat /\ Slot(read_idx, InUse) = write_idx
    BY <1>0, <2>1, <2>4, RingGrows, RingPlaces DEF InUse
  <2>6. ASSUME NEW k \in 0 .. InUse' - 1 PROVE datas[Slot(read_idx, k)] \in Nat
    <3>1. k \in 0 .. InUse - 1 \/ k = InUse
      BY <2>5
    <3> QED  BY <2>4, <2>5, <3>1 DEF SlotInv
  <2>7. (\A k \in 0 .. InUse - 1 : datas[Slot(read_idx, k)] \in Nat)'
    BY <2>1, <2>6
  <2> QED  BY <2>1, <2>2, <2>3, <2>4, <2>7 DEF SlotInv
<1>4. ASSUME write_idx' = write_idx, read_idx' = write_idx, datas' = datas, released' = released,
             consumer' \notin Holding,
             \A u \in Threads : pc'[u] = "publish" => pc[u] = "publish" /\ task'[u] = task[u]
      PROVE  SlotInv'
  <2>1. InUse' = 0 /\ After(write_idx) # write_idx
    BY <1>0, <1>4, RingPlaces, AfterNext DEF InUse
  <2> QED  BY <1>4, <2>1 DEF SlotInv, Holding
<1>5. ASSUME NEW t \in Threads, Throw(t) PROVE SlotInv'
  <2>1. CASE Quiet(t, "throw", "forget")
    <3>1. UNCHANGED <<indices, history>>
      BY <1>5, <2>1, Moved DEF Throw, Quiet, Step, indices
    <3>2. /\ consumer' = consumer
          /\ \A u \in Threads : pc'[u] = "publish" => pc[u] = "publish" /\ task'[u] = task[u]
      BY <2>1, Moved
    <3> QED  BY <3>1, <3>2 DEF SlotInv, InUse, indices, history
  <2>2. CASE Quiet(t, "forget", "idle")
    <3>1. /\ pc[t] = "forget" /\ consumer' = consumer
          /\ \A u \in Threads : pc'[u] = "publish" => pc[u] = "publish" /\ task'[u] = task[u]
      BY <2>2, Moved
    <3>2. read_idx' = write_idx /\ write_idx' = write_idx /\ datas' = datas /\ released' = released
      BY <1>5, <3>1, Moved DEF Throw, Quiet, Step, history
    <3>3. consumer \notin Holding
      BY <3>1 DEF StatusInv, Throwing, Reading
    <3> QED  BY <1>4, <3>1, <3>2, <3>3
  <2> QED  BY <1>5, <2>1, <2>2 DEF Throw
<1>6. ASSUME UNCHANGED <<datas, read_idx, write_idx, pc, task>>,
             consumer' \in Holding => ~IsEmptyQueue,
             consumer' \in {"advance", "skip"} => released' # <<>>
      PROVE  SlotInv'
  BY <1>6 DEF SlotInv, InUse, IsEmptyQueue
<1>7. CASE Succeed \/ Fail
  <2>1. /\ UNCHANGED <<datas, read_idx, write_idx, pc, task, released>>
        /\ consumer = "call" /\ consumer' \in {"release", "drain"}
    BY <1>7 DEF Succeed, Fail, Consume, threads
  <2> QED  BY <1>6, <2>1 DEF SlotInv, Holding, IsEmptyQueue
<1>8. ASSUME consumer \in {"advance", "skip"}, consumer' \notin Holding,
             read_idx' = After(read_idx), UNCHANGED <<datas, write_idx, pc, task>>
      PROVE  SlotInv'
  <2>1. read_idx # write_idx
    BY <1>8 DEF SlotInv, Holding
  <2>2. /\ After(read_idx) # After(write_idx) /\ InUse' = InUse - 1
        /\ \A k \in 0 .. Capacity - 2 : Slot(After(read_idx), k) = Slot(read_idx, k + 1)
        /\ InUse \in 0 .. Capacity - 1
    BY <1>0, <1>8, <2>1, RingShrinks, RingPlaces DEF InUse
  <2>3. ASSUME NEW k \in 0 .. InUse' - 1 PROVE datas[Slot(After(read_idx), k)] \in Nat
    <3>1. k \in 0 .. Capacity - 2 /\ k + 1 \in 0 .. InUse - 1
      BY <2>2, QueueAssumption
    <3> QED  BY <2>2, <3>1 DEF SlotInv
  <2> QED  BY <1>8, <2>2, <2>3 DEF SlotInv, Holding
<1>9. ASSUME Release \/ Drain PROVE SlotInv'
  <2>1. UNCHANGED <<datas, write_idx, pc, task>>
    BY <1>9 DEF Release, Drain, Consume, threads
  <2>2. CASE consumer \in {"advance", "skip"}
    <3>1. read_idx' = After(read_idx) /\ consumer' \in {"done", "drain"}
      BY <1>9, <2>2 DEF Release, Drain, Consume
    <3> QED  BY <1>8, <2>1, <2>2, <3>1 DEF Holding
  <2>3. CASE consumer \notin {"advance", "skip"}
    <3>1. /\ read_idx' = read_idx
          /\ \/ consumer = "release" /\ consumer' = "advance" /\ released' = Append(released, datas[read_idx])
             \/ consumer' = "skip" /\ ~IsEmptyQueue /\ released' = Append(released, datas[read_idx])
             \/ consumer' = "failed"
      BY <1>9, <2>3 DEF Release, Drain, Consume
    <3>2. consumer = "release" => ~IsEmptyQueue
      BY DEF SlotInv, Holding, IsEmptyQueue
    <3>3. ~IsEmptyQueue => Append(released, datas[read_idx]) # <<>>
      <4>1. released \in Seq(Nat)
        BY DEF TypeOK
      <4>2. ~IsEmptyQueue => datas[read_idx] \in Nat
        BY HeldTask DEF IsEmptyQueue
      <4> QED  BY <4>1, <4>2, AppendProperties
    <3> QED  BY <1>6, <2>1, <3>1, <3>2, <3>3 DEF Holding
  <2> QED  BY <2>2, <2>3
<1>10. CASE ReportError
  <2>1. /\ UNCHANGED <<datas, write_idx, pc, task, released>>
        /\ consumer' \in {"reset", "tell", "tell2", "nothing"}
        /\ read_idx' \in {read_idx, write_idx}
    BY <1>10 DEF ReportError, Consume, threads
  <2>2. CASE read_idx' = read_idx
    BY <1>6, <2>1, <2>2 DEF Holding
  <2>3. CASE read_idx' = write_idx
    BY <1>4, <2>1, <2>3 DEF Holding
  <2> QED  BY <2>1, <2>2, <2>3
<1> QED  BY <1>1, <1>2, <1>3, <1>5, <1>7, <1>9, <1>10, RingSteps

-----------------------------------------------------------------------------
(* Order *)

\* The task that the consumer finds is the first that it has not given back.
LEMMA HeldIsNext ==
  ASSUME TypeOK, SlotInv, OrderInv
  PROVE  /\ Passed \in Nat /\ Passed <= Len(released)
         /\ InUse \in 0 .. Capacity - 1
         /\ Orderly /\ (~failed \/ consumer \in Draining) /\ read_idx # write_idx =>
              Passed + 1 \in 1 .. Len(sent) /\ datas[read_idx] = sent[Passed + 1]
<1>1. /\ read_idx \in 0 .. Capacity - 1 /\ write_idx \in 0 .. Capacity - 1
      /\ released \in Seq(Nat) /\ sent \in Seq(Nat)
  BY DEF TypeOK
<1>2. InUse \in 0 .. Capacity - 1
  BY <1>1, RingPlaces DEF InUse
<1>3. Passed \in Nat /\ Passed <= Len(released)
  <2>1. released # <<>> => Len(released) >= 1
    BY <1>1, EmptySeq
  <2> QED  BY <1>1, <2>1 DEF SlotInv, Passed
<1>4. ASSUME Orderly, ~failed \/ consumer \in Draining, read_idx # write_idx
      PROVE  Passed + 1 \in 1 .. Len(sent) /\ datas[read_idx] = sent[Passed + 1]
  <2>1. /\ InUse = Len(sent) - Passed
        /\ \A k \in 0 .. InUse - 1 : datas[Slot(read_idx, k)] = sent[Passed + k + 1]
    BY <1>4 DEF OrderInv, RingInv
  <2>2. 0 \in 0 .. InUse - 1 /\ Slot(read_idx, 0) = read_idx
    BY <1>4, HeldTask
  <2>3. Len(sent) \in Nat
    BY <1>1
  <2> QED  BY <1>2, <1>3, <2>1, <2>2, <2>3
<1> QED  BY <1>2, <1>3, <1>4

\* What is appended is in the sequence, and the rest stays where it was.
LEMMA Appended ==
  ASSUME NEW s \in Seq(Nat), NEW x \in Nat
  PROVE  /\ Append(s, x) \in Seq(Nat) /\ Len(Append(s, x)) = Len(s) + 1 /\ Len(s) \in Nat
         /\ \A i \in 1 .. Len(s) : Append(s, x)[i] = s[i]
         /\ Append(s, x)[Len(s) + 1] = x
BY AppendProperties

\* A sequence that follows another still does with the next element.
LEMMA NextFollows ==
  ASSUME NEW s \in Seq(Nat), NEW q \in Seq(Nat), NEW x \in Nat,
         Len(s) + 1 <= Len(q), x = q[Len(s) + 1],
         \A i \in 1 .. Len(s) : s[i] = q[i]
  PROVE  /\ Len(Append(s, x)) <= Len(q)
         /\ \A i \in 1 .. Len(Append(s, x)) : Append(s, x)[i] = q[i]
<1>1. ASSUME NEW i \in 1 .. Len(s) + 1
      PROVE  Append(s, x)[i] = q[i]
  <2>1. i \in 1 .. Len(s) \/ i = Len(s) + 1
    BY Appended
  <2> QED  BY <2>1, Appended
<1> QED  BY <1>1, Appended

\* Tasks are executed, and released, in the order in which they were sent.
LEMMA OrderInvKeeps ==
  ASSUME TypeOK, CallInv, StatusInv, SlotInv, OrderInv, Next
  PROVE  OrderInv'
<1>0. /\ read_idx \in 0 .. Capacity - 1 /\ write_idx \in 0 .. Capacity - 1
      /\ sent \in Seq(Nat) /\ ran \in Seq(Nat) /\ released \in Seq(Nat)
      /\ Len(sent) \in Nat /\ Len(ran) \in Nat /\ Len(released) \in Nat
  BY DEF TypeOK
<1>a. /\ Passed \in Nat /\ Passed <= Len(released) /\ InUse \in 0 .. Capacity - 1
      /\ Orderly /\ (~failed \/ consumer \in Draining) /\ read_idx # write_idx =>
           Passed + 1 \in 1 .. Len(sent) /\ datas[read_idx] = sent[Passed + 1]
  BY HeldIsNext
<1>b. ASSUME UNCHANGED <<indices, history>>, \A u \in Threads : Quits(u) => Quits(u)',
             \/ consumer' = consumer
             \/ {consumer, consumer'} \cap ({"release", "advance"} \cup Draining) = {}
      PROVE  OrderInv'
  <2>1. Orderly' => Orderly
    BY <1>b DEF Orderly, history
  <2>2. /\ Passed' = Passed /\ InUse' = InUse
        /\ consumer' = "release" <=> consumer = "release"
        /\ consumer' \in Draining <=> consumer \in Draining
    BY <1>b DEF Passed, InUse, Draining, indices, history
  <2> QED  BY <1>b, <2>1, <2>2 DEF OrderInv, PrefixInv, RingInv, RanInv, indices, history
\* Once an error is reported the ring does not matter any more.
<1>c. ASSUME failed, UNCHANGED history, \A u \in Threads : Quits(u) => Quits(u)',
             consumer' \notin Draining
      PROVE  OrderInv'
  <2>1. Orderly' => Orderly
    BY <1>c DEF Orderly, history
  <2> QED  BY <1>c, <2>1 DEF OrderInv, PrefixInv, RingInv, RanInv, history
<1>1. ASSUME RingStill PROVE OrderInv'
  BY <1>1, <1>b DEF RingStill
<1>2. ASSUME NEW t \in Threads, WriteQueue(t) PROVE OrderInv'
  <2>0. consumer' = consumer /\ \A u \in Threads : Quits(u) => Quits(u)'
    BY <1>2, Moved DEF WriteQueue, Quits
  <2>1. CASE IsFullQueue
    BY <1>2, <1>b, <2>0, <2>1 DEF WriteQueue, indices
  <2>2. CASE ~IsFullQueue
    <3>1. /\ datas' = [datas EXCEPT ![write_idx] = task[t]]
          /\ UNCHANGED <<read_idx, write_idx, history>>
      BY <1>2, <2>2 DEF WriteQueue
    <3>2. ASSUME NEW k \in 0 .. InUse - 1 PROVE datas'[Slot(read_idx, k)] = datas[Slot(read_idx, k)]
      <4>1. Slot(read_idx, k) # write_idx /\ Slot(read_idx, k) \in 0 .. Capacity - 1
        BY <1>0, RingPlaces DEF InUse
      <4> QED  BY <3>1, <4>1 DEF TypeOK
    <3>3. /\ Passed' = Passed /\ InUse' = InUse
          /\ Orderly' => Orderly
      BY <2>0, <3>1 DEF Passed, InUse, Orderly, history
    <3> QED  BY <2>0, <3>1, <3>2, <3>3 DEF OrderInv, PrefixInv, RingInv, RanInv, history
  <2> QED  BY <2>1, <2>2
<1>3. ASSUME NEW t \in Threads, Publish(t) PROVE OrderInv'
  <2>1. /\ Quiet(t, "publish", "notify") /\ write_idx' = After(write_idx)
        /\ sent' = Append(sent, task[t])
        /\ UNCHANGED <<datas, read_idx, ran, released, failed>>
    BY <1>3 DEF Publish
  <2>2. pc[t] = "publish" /\ consumer' = consumer /\ \A u \in Threads : Quits(u) => Quits(u)'
    BY <2>1, Moved DEF Quits
  <2>3. datas[write_idx] = task[t] /\ After(write_idx) # read_idx /\ task[t] \in Nat
    BY <2>2 DEF SlotInv, CallInv, Enqueuing
  <2>4. InUse' = InUse + 1 /\ Slot(read_idx, InUse) = write_idx
    BY <1>0, <2>1, <2>3, RingGrows, RingPlaces DEF InUse
  <2>5. Passed' = Passed /\ (Orderly' => Orderly)
    BY <2>1, <2>2 DEF Passed, Orderly
  <2>6. /\ Len(sent') = Len(sent) + 1 /\ sent'[Len(sent) + 1] = task[t]
        /\ \A i \in 1 .. Len(sent) : sent'[i] = sent[i]
    BY <1>0, <2>1, <2>3, Appended
  <2>7. PrefixInv'
    BY <1>0, <2>1, <2>5, <2>6 DEF OrderInv, PrefixInv
  <2>8. RanInv'
    BY <2>1, <2>2 DEF OrderInv, RanInv
  <2>9. ASSUME Orderly, ~failed \/ consumer \in Draining
        PROVE  /\ InUse' = Len(sent') - Passed
               /\ \A k \in 0 .. InUse' - 1 : datas[Slot(read_idx, k)] = sent'[Passed + k + 1]
    <3>1. /\ InUse = Len(sent) - Passed
          /\ \A k \in 0 .. InUse - 1 : datas[Slot(read_idx, k)] = sent[Passed + k + 1]
      BY <2>9 DEF OrderInv, RingInv
    <3>2. ASSUME NEW k \in 0 .. InUse' - 1
          PROVE  datas[Slot(read_idx, k)] = sent'[Passed + k + 1]
      <4>1. CASE k = InUse
        <5>1. Passed + k + 1 = Len(sent) + 1
          BY <1>0, <1>a, <3>1, <4>1
        <5> QED  BY <2>3, <2>4, <2>6, <4>1, <5>1
      <4>2. CASE k # InUse
        <5>1. k \in 0 .. InUse - 1 /\ Passed + k + 1 \in 1 .. Len(sent)
          BY <1>0, <1>a, <2>4, <3>1, <4>2
        <5> QED  BY <2>6, <3>1, <5>1
      <4> QED  BY <4>1, <4>2
    <3>3. InUse' = Len(sent') - Passed
      BY <1>0, <1>a, <2>4, <2>6, <3>1
    <3> QED  BY <3>2, <3>3
  <2>10. RingInv'
    BY <2>1, <2>2, <2>5, <2>9 DEF RingInv
  <2> QED  BY <2>7, <2>8, <2>10 DEF OrderInv
<1>4. ASSUME NEW t \in Threads, Throw(t) PROVE OrderInv'
  <2>1. /\ Throwing(t) /\ consumer' = consumer /\ UNCHANGED history
        /\ \A u \in Threads : Quits(u) => Quits(u)'
    BY <1>4, Moved DEF Throw, Throwing, Quits
  <2>2. failed /\ consumer \notin Draining
    BY <2>1 DEF StatusInv, Reading
  <2> QED  BY <1>c, <2>1, <2>2
<1>5. CASE ReportError
  <2>1. CASE consumer = "failed"
    <3>1. failed
      BY <2>1 DEF StatusInv, Draining
    <3> QED  BY <1>5, <1>c, <2>1, <3>1 DEF ReportError, Consume, Draining, Quits, history, threads
  <2>2. CASE consumer # "failed"
    <3>1. consumer \in {"reset", "tell", "tell2"}
      BY <1>5, <2>2 DEF ReportError, Consume
    <3>2. failed
      BY <3>1 DEF StatusInv
    <3> QED  BY <1>5, <1>c, <2>2, <3>2 DEF ReportError, Consume, Draining, Quits, history, threads
  <2> QED  BY <2>1, <2>2
<1>6. CASE Succeed
  <2>1. /\ consumer = "call" /\ consumer' = "release" /\ ran' = Append(ran, datas[read_idx])
        /\ UNCHANGED <<datas, read_idx, write_idx, pc, sent, released, failed>>
    BY <1>6 DEF Succeed, Consume, threads
  <2>2. read_idx # write_idx /\ datas[read_idx] \in Nat
    BY <2>1, HeldTask DEF SlotInv, Holding
  <2>3. (Orderly' <=> Orderly) /\ Passed' = Passed /\ Passed = Len(released) /\ InUse' = InUse
    BY <2>1 DEF Orderly, Quits, Passed, InUse
  <2>4. Orderly => ~failed
    BY <2>1 DEF StatusInv, Draining, Leaving, Idling
  <2>5. ~failed => Orderly /\ Len(ran) = Len(released)
    BY <2>1 DEF Orderly, OrderInv, RanInv
  <2>6. PrefixInv'
    <3>1. ASSUME Orderly
          PROVE  Len(ran') <= Len(sent) /\ \A i \in 1 .. Len(ran') : ran'[i] = sent[i]
      <4>1. Len(ran) + 1 \in 1 .. Len(sent) /\ datas[read_idx] = sent[Len(ran) + 1]
        BY <1>a, <2>2, <2>3, <2>4, <2>5, <3>1
      <4>2. \A i \in 1 .. Len(ran) : ran[i] = sent[i]
        BY <3>1 DEF OrderInv, PrefixInv
      <4> QED  BY <1>0, <2>1, <2>2, <4>1, <4>2, NextFollows
    <3> QED  BY <2>1, <2>3, <3>1 DEF OrderInv, PrefixInv
  <2>7. RingInv'
    BY <2>1, <2>3, <2>4 DEF OrderInv, RingInv
  <2>8. RanInv'
    BY <1>0, <2>1, <2>2, <2>5, Appended DEF RanInv
  <2> QED  BY <2>6, <2>7, <2>8 DEF OrderInv
<1>7. CASE Fail
  <2>1. /\ consumer = "call" /\ consumer' = "drain" /\ failed' = TRUE
        /\ UNCHANGED <<datas, read_idx, write_idx, pc, sent, ran, released>>
    BY <1>7 DEF Fail, Consume, threads
  <2>2. (Orderly' => Orderly) /\ Passed' = Passed /\ InUse' = InUse
    BY <2>1 DEF Orderly, Quits, Passed, InUse
  <2>3. Orderly => ~failed
    BY <2>1 DEF StatusInv, Draining, Leaving, Idling
  <2> QED  BY <2>1, <2>2, <2>3 DEF OrderInv, PrefixInv, RingInv, RanInv
\* The next task is given to the release queue.
<1>8. ASSUME (consumer = "release" /\ consumer' = "advance") \/ (consumer = "drain" /\ consumer' = "skip"),
             read_idx # write_idx, released' = Append(released, datas[read_idx]),
             UNCHANGED <<datas, read_idx, write_idx, pc, sent, ran, failed>>
      PROVE  OrderInv'
  <2>1. datas[read_idx] \in Nat
    BY <1>8, HeldTask
  <2>2. (Orderly' <=> Orderly) /\ InUse' = InUse
    BY <1>8 DEF Orderly, Quits, InUse
  <2>3. Len(released') = Len(released) + 1
    BY <1>0, <1>8, <2>1, Appended
  <2>4. Passed = Len(released) /\ Passed' = Passed
    BY <1>0, <1>8, <2>3 DEF Passed
  <2>5. consumer = "release" => (Orderly => ~failed)
    BY DEF StatusInv, Draining, Leaving, Idling
  <2>6. consumer = "drain" => failed
    BY DEF StatusInv, Draining
  <2>7. PrefixInv'
    <3>1. ASSUME Orderly
          PROVE  /\ Len(released') <= Len(sent)
                 /\ \A i \in 1 .. Len(released') : released'[i] = sent[i]
      <4>1. Len(released) + 1 \in 1 .. Len(sent) /\ datas[read_idx] = sent[Len(released) + 1]
        BY <1>a, <1>8, <2>4, <2>5, <3>1 DEF Draining
      <4>2. \A i \in 1 .. Len(released) : released[i] = sent[i]
        BY <3>1 DEF OrderInv, PrefixInv
      <4> QED  BY <1>0, <1>8, <2>1, <4>1, <4>2, NextFollows
    <3> QED  BY <1>8, <2>2, <3>1 DEF OrderInv, PrefixInv
  <2>8. RingInv'
    BY <1>8, <2>2, <2>4, <2>5, <2>6 DEF OrderInv, RingInv, Draining
  <2>9. RanInv'
    BY <1>0, <1>8, <2>3, <2>6 DEF OrderInv, RanInv
  <2> QED  BY <2>7, <2>8, <2>9 DEF OrderInv
\* Its slot is given back.
<1>9. ASSUME (consumer = "advance" /\ consumer' = "done") \/ (consumer = "skip" /\ consumer' = "drain"),
             read_idx' = After(read_idx),
             UNCHANGED <<datas, write_idx, pc, sent, ran, released, failed>>
      PROVE  OrderInv'
  <2>1. read_idx # write_idx
    BY <1>9 DEF SlotInv, Holding
  <2>2. /\ InUse' = InUse - 1
        /\ \A k \in 0 .. Capacity - 2 : Slot(After(read_idx), k) = Slot(read_idx, k + 1)
    BY <1>0, <1>9, <2>1, RingShrinks DEF InUse
  <2>3. (Orderly' <=> Orderly) /\ Passed' = Passed + 1
    BY <1>0, <1>9 DEF Orderly, Quits, Passed
  <2>4. consumer = "skip" => failed
    BY DEF StatusInv, Draining
  <2>5. consumer = "advance" => (Orderly => ~failed)
    BY DEF StatusInv, Draining, Leaving, Idling
  <2>6. ASSUME Orderly, ~failed \/ consumer \in Draining
        PROVE  /\ InUse' = Len(sent) - Passed'
               /\ \A k \in 0 .. InUse' - 1 : datas[Slot(After(read_idx), k)] = sent[Passed' + k + 1]
    <3>1. /\ InUse = Len(sent) - Passed
          /\ \A k \in 0 .. InUse - 1 : datas[Slot(read_idx, k)] = sent[Passed + k + 1]
      BY <2>6 DEF OrderInv, RingInv
    <3>2. ASSUME NEW k \in 0 .. InUse' - 1
          PROVE  datas[Slot(After(read_idx), k)] = sent[Passed' + k + 1]
      <4>1. k \in 0 .. Capacity - 2 /\ k + 1 \in 0 .. InUse - 1
        BY <1>a, <2>2, QueueAssumption
      <4>2. Passed + (k + 1) + 1 = Passed' + k + 1
        BY <1>a, <2>3, <4>1
      <4>3. datas[Slot(read_idx, k + 1)] = sent[Passed + (k + 1) + 1]
        BY <3>1, <4>1
      <4> QED  BY <2>2, <4>1, <4>2, <4>3
    <3> QED  BY <1>0, <1>a, <2>2, <2>3, <3>1, <3>2
  <2>7. RingInv'
    BY <1>9, <2>3, <2>4, <2>5, <2>6 DEF RingInv, Draining
  <2>8. PrefixInv' /\ RanInv'
    BY <1>9, <2>3, <2>4 DEF OrderInv, PrefixInv, RanInv
  <2> QED  BY <2>7, <2>8 DEF OrderInv
<1>10. ASSUME Release \/ Drain PROVE OrderInv'
  <2>1. UNCHANGED <<datas, write_idx, pc, sent, ran, failed>>
    BY <1>10 DEF Release, Drain, Consume, threads
  <2>2. CASE consumer \in {"advance", "skip"}
    <3>1. read_idx' = After(read_idx) /\ released' = released
      BY <1>10, <2>2 DEF Release, Drain, Consume
    <3>2. /\ consumer = "advance" => consumer' = "done"
          /\ consumer = "skip" => consumer' = "drain"
      BY <1>10 DEF Release, Drain, Consume
    <3> QED  BY <1>9, <2>1, <2>2, <3>1, <3>2
  <2>3. CASE consumer' \in {"advance", "skip"}
    <3>1. read_idx' = read_idx /\ released' = Append(released, datas[read_idx])
      BY <1>10, <2>3 DEF Release, Drain, Consume
    <3>2. /\ consumer' = "advance" => consumer = "release"
          /\ consumer' = "skip" => consumer = "drain" /\ ~IsEmptyQueue
      BY <1>10 DEF Release, Drain, Consume
    <3>3. read_idx # write_idx
      BY <2>3, <3>2 DEF SlotInv, Holding, IsEmptyQueue
    <3> QED  BY <1>8, <2>1, <2>3, <3>1, <3>2, <3>3
  <2>4. CASE consumer \notin {"advance", "skip"} /\ consumer' \notin {"advance", "skip"}
    <3>1. /\ consumer = "drain" /\ consumer' = "failed"
          /\ UNCHANGED <<datas, read_idx, write_idx, sent, ran, released, failed, pc>>
      BY <1>10, <2>1, <2>4 DEF Release, Drain, Consume
    <3>2. Passed' = Passed /\ InUse' = InUse /\ (Orderly' <=> Orderly) /\ failed
      BY <3>1 DEF Passed, InUse, Orderly, Quits, StatusInv, Draining
    <3> QED  BY <3>1, <3>2 DEF OrderInv, PrefixInv, RingInv, RanInv, Draining
  <2> QED  BY <2>2, <2>3, <2>4
<1> QED  BY <1>1, <1>2, <1>3, <1>4, <1>5, <1>6, <1>7, <1>10, RingSteps

-----------------------------------------------------------------------------
(* What MakeSureQueueEmpty waits for *)

LEMMA HistoryGrows ==
  ASSUME TypeOK, CallInv, SlotInv, Next
  PROVE  Len(sent) <= Len(sent') /\ Len(ran) <= Len(ran') /\ (failed => failed')
<1>0. /\ sent \in Seq(Nat) /\ ran \in Seq(Nat)
      /\ Len(sent) \in Nat /\ Len(ran) \in Nat
  BY DEF TypeOK
<1>1. ASSUME UNCHANGED <<sent, ran, failed>> PROVE Len(sent) <= Len(sent') /\ Len(ran) <= Len(ran') /\ (failed => failed')
  BY <1>0, <1>1
<1>2. CASE RingStill
  BY <1>1, <1>2 DEF RingStill, history
<1>3. ASSUME NEW t \in Threads, WriteQueue(t) \/ Throw(t) PROVE UNCHANGED <<sent, ran, failed>>
  BY <1>3 DEF WriteQueue, Throw, history
<1>4. ASSUME NEW t \in Threads, Publish(t)
      PROVE  Len(sent) <= Len(sent') /\ Len(ran) <= Len(ran') /\ (failed => failed')
  <2>1. pc[t] = "publish" /\ sent' = Append(sent, task[t]) /\ UNCHANGED <<ran, failed>>
    BY <1>4 DEF Publish, Quiet, Step
  <2>2. task[t] \in Nat
    BY <2>1 DEF CallInv, Enqueuing
  <2> QED  BY <1>0, <2>1, <2>2, Appended
<1>5. CASE Succeed
  <2>1. consumer = "call" /\ ran' = Append(ran, datas[read_idx]) /\ UNCHANGED <<sent, failed>>
    BY <1>5 DEF Succeed, Consume
  <2>2. datas[read_idx] \in Nat
    BY <2>1, HeldTask DEF SlotInv, Holding
  <2> QED  BY <1>0, <2>1, <2>2, Appended
<1>6. CASE Fail
  BY <1>0, <1>6 DEF Fail, Consume
<1>7. CASE Release \/ Drain \/ ReportError
  BY <1>1, <1>7 DEF Release, Drain, ReportError, Consume
<1> QED  BY <1>1, <1>2, <1>3, <1>4, <1>5, <1>6, <1>7, RingSteps

\* When the ring is empty everything that was sent has been executed.
LEMMA EmptyIsExecuted ==
  ASSUME TypeOK, SlotInv, OrderInv, IsEmptyQueue, ~failed
  PROVE  Len(sent) <= Len(ran)
<1>1. /\ read_idx \in 0 .. Capacity - 1 /\ read_idx = write_idx
      /\ Len(sent) \in Nat /\ Len(ran) \in Nat /\ Len(released) \in Nat
  BY DEF TypeOK, IsEmptyQueue
<1>2. InUse = 0
  BY <1>1, RingPlaces DEF InUse
<1>3. Passed \in Nat /\ Passed <= Len(released)
  BY HeldIsNext
<1>4. Len(released) <= Len(ran)
  BY <1>1 DEF OrderInv, RanInv
<1>5. InUse = Len(sent) - Passed
  BY DEF OrderInv, RingInv, Orderly
<1> QED  BY <1>1, <1>2, <1>3, <1>4, <1>5

LEMMA MarkInvKeeps ==
  ASSUME TypeOK, CallInv, SlotInv, OrderInv, MarkInv, Next
  PROVE  MarkInv'
<1>0. /\ Len(sent) \in Nat /\ Len(ran) \in Nat /\ mark \in [Threads -> Nat]
      /\ \A u \in Threads : mark[u] <= Len(sent)
      /\ \A u \in Threads : pc[u] = "done" => failed \/ mark[u] <= Len(ran)
  BY DEF TypeOK, MarkInv, EmptyMeansExecuted
<1>1. /\ Len(sent) <= Len(sent') /\ Len(ran) <= Len(ran') /\ (failed => failed')
      /\ Len(sent') \in Nat /\ Len(ran') \in Nat
  <2>1. sent' \in Seq(Nat) /\ ran' \in Seq(Nat)
    BY SharedTypesKept DEF SharedTypes
  <2> QED  BY <2>1, HistoryGrows
<1>a. ASSUME NEW t \in Threads, mark'[t] \in {0, mark[t], Len(sent)},
             \A u \in Threads : u # t => pc'[u] = pc[u] /\ mark'[u] = mark[u],
             pc'[t] = "done" => mark'[t] = mark[t] /\ (failed \/ mark[t] <= Len(ran))
      PROVE  MarkInv'
  <2>1. \A u \in Threads : mark'[u] <= Len(sent')
    BY <1>0, <1>1, <1>a
  <2>2. ASSUME NEW u \in Threads, pc'[u] = "done" PROVE failed' \/ Len(ran') >= mark'[u]
    <3>1. mark'[u] = mark[u] /\ (failed \/ mark[u] <= Len(ran))
      BY <1>0, <1>a, <2>2
    <3> QED  BY <1>0, <1>1, <3>1
  <2> QED  BY <2>1, <2>2 DEF MarkInv, EmptyMeansExecuted
<1>2. ASSUME NEW t \in Threads, Call(t) PROVE MarkInv'
  <2>1. CASE Enqueue(t)
    <3>1. /\ pc'[t] \in {"throw", "enqueue"} /\ mark' = mark
          /\ \A u \in Threads : u # t => pc'[u] = pc[u]
      BY <2>1 DEF Enqueue, Step, TypeOK
    <3> QED  BY <1>a, <3>1
  <2>2. CASE MakeSureQueueEmpty(t)
    <3>1. /\ pc'[t] = "look" /\ mark'[t] = Len(sent)
          /\ \A u \in Threads : u # t => pc'[u] = pc[u] /\ mark'[u] = mark[u]
      BY <2>2 DEF MakeSureQueueEmpty, Step, TypeOK
    <3> QED  BY <1>a, <3>1
  <2>3. CASE Destroy(t)
    <3>1. /\ pc'[t] = "destroy" /\ mark'[t] = mark[t]
          /\ \A u \in Threads : u # t => pc'[u] = pc[u] /\ mark'[u] = mark[u]
      BY <2>3, Moved DEF Destroy
    <3> QED  BY <1>a, <3>1
  <2> QED  BY <1>2, <2>1, <2>2, <2>3 DEF Call
<1>3. ASSUME NEW t \in Threads, Continue(t) PROVE MarkInv'
  <2>1. GoesOn(t)
    BY <1>3, ThreadGoesOn
  <2>2. /\ \A u \in Threads : u # t => pc'[u] = pc[u] /\ mark'[u] = mark[u]
        /\ mark'[t] \in {0, mark[t]} /\ (pc'[t] # "idle" => mark'[t] = mark[t])
    BY <2>1, Moved DEF GoesOn
  <2>3. pc'[t] = "done" => failed \/ Len(sent) <= Len(ran)
    BY <2>1, EmptyIsExecuted DEF GoesOn
  <2>4. pc'[t] = "done" => mark'[t] = mark[t] /\ (failed \/ mark[t] <= Len(ran))
    BY <1>0, <2>2, <2>3
  <2> QED  BY <1>a, <2>2, <2>4
<1>4. ASSUME Dequeue PROVE MarkInv'
  <2>1. pc' = pc /\ mark' = mark
    <3>1. PICK from \in ConsumerSteps, to \in ConsumerSteps : Consume(from, to)
      BY <1>4, ConsumerGoesOn
    <3> QED  BY <3>1 DEF Consume, threads
  <2> QED  BY <1>0, <1>1, <2>1 DEF MarkInv, EmptyMeansExecuted
<1> QED  BY <1>2, <1>3, <1>4 DEF Next

-----------------------------------------------------------------------------
(* The invariant holds *)

LEMMA InitEstablishes == Init => IInv
<1> SUFFICES ASSUME Init PROVE IInv
  OBVIOUS
<1>0. 0 \in 0 .. Capacity - 1 /\ <<>> \in Seq(Nat) /\ Len(<<>>) = 0
  BY QueueAssumption
<1>1. TypeOK
  BY <1>0 DEF Init, TypeOK, Status, ThreadSteps, ConsumerSteps
<1>2. InUse = 0
  BY <1>0, RingPlaces DEF Init, InUse
<1>3. CallInv
  BY DEF Init, CallInv, Enqueuing, Quits
<1>4. StatusInv
  BY DEF Init, StatusInv, Throwing, Draining
<1>5. SlotInv
  BY <1>2 DEF Init, SlotInv, Holding
<1>6. OrderInv
  BY <1>0, <1>2 DEF Init, OrderInv, PrefixInv, RingInv, RanInv, Passed
<1>7. MarkInv
  BY <1>0 DEF Init, MarkInv, EmptyMeansExecuted
<1> QED  BY <1>1, <1>3, <1>4, <1>5, <1>6, <1>7 DEF IInv

LEMMA NextKeeps == IInv /\ [Next]_vars => IInv'
<1>1. IInv /\ Next => IInv'
  BY TypeKeeps, CallInvKeeps, StatusInvKeeps, SlotInvKeeps, OrderInvKeeps, MarkInvKeeps DEF IInv
<1>2. ASSUME IInv, UNCHANGED vars PROVE IInv'
  <2> USE <1>2 DEF vars, indices, flags, efds, threads, history
  <2>1. TypeOK'
    BY DEF IInv, TypeOK
  <2>2. CallInv'
    BY DEF IInv, CallInv, Enqueuing, Quits
  <2>3. StatusInv'
    BY DEF IInv, StatusInv, Throwing, Orderly, Quits
  <2>4. SlotInv'
    BY DEF IInv, SlotInv, InUse
  <2>5. OrderInv'
    BY DEF IInv, OrderInv, PrefixInv, RingInv, RanInv, Orderly, Quits, InUse, Passed
  <2>6. MarkInv'
    BY DEF IInv, MarkInv, EmptyMeansExecuted
  <2> QED  BY <2>1, <2>2, <2>3, <2>4, <2>5, <2>6 DEF IInv
<1> QED  BY <1>1, <1>2

\* The invariant holds in every reachable state, without any hypothesis.
THEOREM Invariance == Spec => []IInv
BY InitEstablishes, NextKeeps, PTL DEF Spec

-----------------------------------------------------------------------------
(* What the queue promises *)

\* Every variable keeps its type: in particular the indices stay in the ring, and
\* a slot never gives the consumer anything but a task to execute or release.
THEOREM TypeCorrect == Spec => []TypeOK
BY Invariance, PTL DEF IInv

\* MakeSureQueueEmpty sees the queue empty only when everything sent before the
\* call has been executed, or a task has failed, whoever else enqueues.
THEOREM EmptyMeansAllExecuted == Spec => []EmptyMeansExecuted
<1>1. IInv => EmptyMeansExecuted
  BY DEF IInv, MarkInv
<1> QED  BY <1>1, Invariance, PTL

\* What Dequeue gives to the release queue is a prefix of what was sent, as long
\* as the queue is not destroyed after a task has failed.
THEOREM ReleasesInOrder == Spec => [](Orderly => ReleasedInOrder)
<1>1. IInv => (Orderly => ReleasedInOrder)
  <2> SUFFICES ASSUME IInv, Orderly PROVE ReleasedInOrder
    OBVIOUS
  <2>1. /\ sent \in Seq(Nat) /\ released \in Seq(Nat)
        /\ Len(sent) \in Nat /\ Len(released) \in Nat
    BY DEF IInv, TypeOK
  <2>2. /\ Len(released) <= Len(sent)
        /\ \A i \in 1 .. Len(released) : released[i] = sent[i]
    BY DEF IInv, OrderInv, PrefixInv
  <2>3. released = SubSeq(sent, 1, Len(released))
    BY <2>1, <2>2, SeqEqual, SubSeqProperties
  <2> QED  BY <2>2, <2>3 DEF ReleasedInOrder, IsPrefix
<1> QED  BY <1>1, Invariance, PTL

\* The program destroys no queue, or no task fails.
Calm == ~Shutdown \/ ~Failures

LEMMA CalmIsOrderly == IInv /\ Calm => Orderly
BY DEF IInv, CallInv, Calm, Orderly

\* Then what is released is always a prefix of what was sent.
THEOREM ReleasedInOrderWhenCalm ==
  ASSUME Calm
  PROVE  Spec => []ReleasedInOrder
<1>1. IInv /\ (Orderly => ReleasedInOrder) => ReleasedInOrder
  BY CalmIsOrderly
<1> QED  BY <1>1, Invariance, ReleasesInOrder, PTL

-----------------------------------------------------------------------------
(* The queue implements TaskStream *)

LEMMA StreamInit == Init => Stream!Init
BY DEF Init, Stream!Init

\* A task is accepted when it is published, and executed when manager().Call
\* returns; everything else is a stuttering step of the stream.
LEMMA StreamNext ==
  ASSUME IInv, Orderly, Next
  PROVE  Stream!Next \/ UNCHANGED Stream!vars
<1> USE DEF IInv, Stream!vars
<1>0. /\ read_idx \in 0 .. Capacity - 1 /\ write_idx \in 0 .. Capacity - 1
      /\ Len(sent) \in Nat /\ Len(ran) \in Nat /\ Len(released) \in Nat
  BY DEF TypeOK
<1>1. CASE RingStill
  BY <1>1 DEF RingStill, history
<1>2. ASSUME NEW t \in Threads, WriteQueue(t) \/ Throw(t) PROVE UNCHANGED Stream!vars
  BY <1>2 DEF WriteQueue, Throw, history
<1>3. ASSUME NEW t \in Threads, Publish(t) PROVE Stream!Next
  <2>1. /\ pc[t] = "publish" /\ sent' = Append(sent, task[t]) /\ UNCHANGED <<ran, failed>>
    BY <1>3 DEF Publish, Quiet, Step
  <2>2. task[t] \in 1 .. MaxTasks /\ After(write_idx) # read_idx
    BY <2>1 DEF CallInv, Enqueuing, SlotInv
  <2>3. ~failed => Len(sent) - Len(ran) < Capacity - 1
    <3>1. After(write_idx) \in 0 .. Capacity - 1 /\ Distance(read_idx, After(write_idx)) = InUse + 1
      BY <1>0, <2>2, RingGrows DEF InUse
    <3>2. InUse + 1 \in 0 .. Capacity - 1
      BY <1>0, <3>1, RingPlaces
    <3>3. Passed \in Nat /\ Passed <= Len(released) /\ InUse \in 0 .. Capacity - 1
      BY HeldIsNext
    <3>4. ~failed => InUse = Len(sent) - Passed /\ Len(released) <= Len(ran)
      BY <1>0 DEF OrderInv, RingInv, RanInv
    <3> QED  BY <1>0, <3>2, <3>3, <3>4, QueueAssumption
  <2>4. Stream!Accept(task[t])
    BY <2>1, <2>3 DEF Stream!Accept
  <2> QED  BY <2>2, <2>4 DEF Stream!Next
<1>4. ASSUME consumer = "call"
      PROVE  ~failed /\ Len(ran) < Len(sent) /\ datas[read_idx] = sent[Len(ran) + 1]
  <2>1. ~failed /\ read_idx # write_idx
    BY <1>4 DEF StatusInv, SlotInv, Draining, Leaving, Idling, Holding
  <2>2. Passed + 1 \in 1 .. Len(sent) /\ datas[read_idx] = sent[Passed + 1]
    BY <2>1, HeldIsNext
  <2>3. Passed = Len(ran)
    BY <1>4, <2>1 DEF Passed, OrderInv, RanInv
  <2> QED  BY <1>0, <2>1, <2>2, <2>3
<1>5. CASE Succeed
  <2>1. consumer = "call" /\ ran' = Append(ran, datas[read_idx]) /\ UNCHANGED <<sent, failed>>
    BY <1>5 DEF Succeed, Consume
  <2> QED  BY <1>4, <2>1 DEF Stream!Next, Stream!Execute
<1>6. CASE Fail
  <2>1. consumer = "call" /\ failed' = TRUE /\ UNCHANGED <<sent, ran>>
    BY <1>6 DEF Fail, Consume
  <2> QED  BY <1>4, <2>1 DEF Stream!Next, Stream!Fail
<1>7. CASE Release \/ Drain \/ ReportError
  BY <1>7 DEF Release, Drain, ReportError, Consume
<1> QED  BY <1>1, <1>2, <1>3, <1>5, <1>6, <1>7, RingSteps

\* Tasks are executed one by one in the order in which they were accepted, at
\* most Capacity - 1 of them wait, and none is executed after one has failed.
THEOREM KeepsTheOrder ==
  ASSUME Calm
  PROVE  Spec => KeepsOrder
<1>1. IInv /\ [Next]_vars => [Stream!Next]_Stream!vars
  <2>1. ASSUME IInv, Next PROVE [Stream!Next]_Stream!vars
    BY <2>1, CalmIsOrderly, StreamNext
  <2>2. ASSUME UNCHANGED vars PROVE UNCHANGED Stream!vars
    BY <2>2 DEF vars, history, Stream!vars
  <2> QED  BY <2>1, <2>2
<1> QED  BY <1>1, StreamInit, Invariance, PTL DEF Spec, KeepsOrder, Stream!Spec

=============================================================================
