------------------------------ MODULE TaskQueue ------------------------------
(***************************************************************************)
(* Repository of backends/npu/core/NPUQueue.cpp: the ring of tasks between *)
(* the threads that enqueue operators and the thread that executes them.   *)
(*                                                                         *)
(* The ring has no lock that the consumer takes.  Each side announces that *)
(* it is working, and is woken through an eventfd by the other side if it  *)
(* is not.  A thread sets its flag, or moves its index, then passes a full *)
(* fence, and then looks at what the other side has set; every action here *)
(* is one access to shared memory, in the order of the code.               *)
(*                                                                         *)
(* What is read from an eventfd is never looked at, and reading resets it  *)
(* to zero, so an eventfd is whether its counter is above zero.  Calls on  *)
(* eventfds succeed here: no interrupted system call, no error.            *)
(***************************************************************************)
EXTENDS Naturals, Sequences, SequencesExt

CONSTANTS
  Producers,   \* the threads that call Enqueue
  Waiters,     \* the threads that call MakeSureQueueEmpty
  Capacity,    \* kQueueCapacity
  MaxTasks,    \* bound: how many tasks the producers enqueue altogether
  Failures,    \* whether a task may fail
  Shutdown,    \* whether the queue may be destroyed
  None         \* no task

ASSUME QueueAssumption ==
  /\ Capacity \in Nat /\ Capacity > 1
  /\ MaxTasks \in Nat
  /\ Failures \in BOOLEAN
  /\ Shutdown \in BOOLEAN
  /\ None \notin Nat

VARIABLES
  datas,           \* the ring
  read_idx, write_idx,
  read_working,    \* read_idx.working: the consumer will look at the ring
  write_working,   \* write_idx.working: a producer will
  need_empty,      \* somebody is in MakeSureQueueEmpty
  repo_status,
  efd_read,        \* wakes the consumer
  efd_write,       \* wakes a producer
  efd_empty,       \* wakes MakeSureQueueEmpty
  pc,              \* where each thread stands
  task,            \* the task it is enqueuing
  consumer,        \* where the consumer stands
  issued,          \* how many tasks have been handed to Enqueue
  sent,            \* history: the tasks put in the ring
  ran,             \* history: the tasks executed
  released,        \* history: the tasks given to the release queue
  failed,          \* history: a task has failed
  mark             \* history: per thread, the tasks sent before its call

indices == <<datas, read_idx, write_idx>>
flags   == <<read_working, write_working, need_empty>>
efds    == <<efd_read, efd_write, efd_empty>>
threads == <<pc, task, mark, issued>>
history == <<sent, ran, released, failed>>

vars == <<indices, flags, efds, repo_status, threads, consumer, history>>

Threads == Producers \cup Waiters

Status == {"INIT", "NEED_EXIT", "CAN_EXIT", "ERROR_EXIT"}

\* Mutant of After: the index is not masked.
AfterUnmasked(i) == i + 1

After(i) == (i + 1) % Capacity

IsEmptyQueue == read_idx = write_idx

\* Mutant of IsFullQueue: the index does not wrap around.
IsFullQueueUnmasked == write_idx + 1 = read_idx

IsFullQueue == After(write_idx) = read_idx

-----------------------------------------------------------------------------
(* Enqueue *)

\* Thread t takes a step of its call.
Step(t, from, to) == pc[t] = from /\ pc' = [pc EXCEPT ![t] = to]

\* What it was called with is forgotten when it returns.
Quiet(t, from, to) ==
  /\ Step(t, from, to)
  /\ task' = [task EXCEPT ![t] = IF to = "idle" THEN None ELSE @]
  /\ mark' = [mark EXCEPT ![t] = IF to = "idle" THEN 0 ELSE @]
  /\ UNCHANGED <<issued, consumer>>

Enqueue(t) ==
  /\ t \in Producers
  /\ issued < MaxTasks
  /\ Step(t, "idle", IF repo_status = "ERROR_EXIT" THEN "throw" ELSE "enqueue")
  /\ issued' = issued + 1
  /\ task' = [task EXCEPT ![t] = issued + 1]
  /\ UNCHANGED <<indices, flags, efds, repo_status, mark, consumer, history>>

\* A queue that has stopped refuses the task.  (The status RUN is never set.)
CheckStatus(t) ==
  /\ Quiet(t, "enqueue", IF repo_status = "INIT" THEN "begin" ELSE "idle")
  /\ UNCHANGED <<indices, flags, efds, repo_status, history>>

SetWriteWorking(t) ==
  /\ Quiet(t, "begin", "write") \/ Quiet(t, "resume", "write")
  /\ write_working' = TRUE
  /\ UNCHANGED <<indices, read_working, need_empty, efds, repo_status, history>>

\* WriteQueue holds mu_enqueue until the index has moved.
WriteQueue(t) ==
  /\ \A u \in Threads : pc[u] # "publish"
  /\ IF IsFullQueue
     THEN Quiet(t, "write", "pause") /\ UNCHANGED datas
     ELSE /\ Quiet(t, "write", "publish")
          /\ datas' = [datas EXCEPT ![write_idx] = task[t]]
  /\ UNCHANGED <<read_idx, write_idx, flags, efds, repo_status, history>>

Publish(t) ==
  /\ Quiet(t, "publish", "notify")
  /\ write_idx' = After(write_idx)
  /\ sent' = Append(sent, task[t])
  /\ UNCHANGED <<datas, read_idx, flags, efds, repo_status, ran, released, failed>>

NotifyConsumer(t) ==
  /\ \/ Quiet(t, "notify", IF read_working THEN "finish" ELSE "wake") /\ UNCHANGED efd_read
     \/ Quiet(t, "wake", "finish") /\ efd_read' = TRUE
  /\ UNCHANGED <<indices, flags, efd_write, efd_empty, repo_status, history>>

ClearWriteWorking(t) ==
  /\ Quiet(t, "finish", "idle") \/ Quiet(t, "pause", "full")
  /\ write_working' = FALSE
  /\ UNCHANGED <<indices, read_working, need_empty, efds, repo_status, history>>

\* Mutant of CheckFull: the ring is not looked at again before waiting.
CheckFullOnce(t) ==
  /\ Quiet(t, "full", "wait")
  /\ UNCHANGED <<indices, flags, efds, repo_status, history>>

\* The ring was full: it is looked at once more before waiting.
CheckFull(t) ==
  /\ Quiet(t, "full", IF IsFullQueue THEN "wait" ELSE "write")
  /\ UNCHANGED <<indices, flags, efds, repo_status, history>>

WaitDequeue(t) ==
  /\ Quiet(t, "wait", "resume")
  /\ efd_write
  /\ efd_write' = FALSE
  /\ UNCHANGED <<indices, flags, efd_read, efd_empty, repo_status, history>>

\* Both Enqueue and MakeSureQueueEmpty report an error once, and throw.
Throw(t) ==
  /\ \/ /\ Quiet(t, "throw", "forget")
        /\ repo_status' = "CAN_EXIT"
        /\ UNCHANGED read_idx
     \/ /\ Quiet(t, "forget", "idle")
        /\ read_idx' = write_idx
        /\ UNCHANGED repo_status
  /\ UNCHANGED <<datas, write_idx, flags, efds, history>>

-----------------------------------------------------------------------------
(* MakeSureQueueEmpty *)

MakeSureQueueEmpty(t) ==
  /\ t \in Waiters
  /\ Step(t, "idle", "look")
  /\ mark' = [mark EXCEPT ![t] = Len(sent)]
  /\ UNCHANGED <<indices, flags, efds, repo_status, task, issued, consumer, history>>

LookEmpty(t) ==
  /\ Quiet(t, "look", IF IsEmptyQueue THEN "done" ELSE "need")
  /\ UNCHANGED <<indices, flags, efds, repo_status, history>>

\* mu_empty is held from here to ClearNeed, also while waiting.
SetNeed(t) ==
  /\ \A u \in Threads : pc[u] \notin {"double", "await", "clear"}
  /\ Quiet(t, "need", "double")
  /\ need_empty' = TRUE
  /\ UNCHANGED <<indices, read_working, write_working, efds, repo_status, history>>

\* Mutant of DoubleCheck: the queue is not looked at again.
DoubleCheckNot(t) ==
  /\ Quiet(t, "double", "await")
  /\ UNCHANGED <<indices, flags, efds, repo_status, history>>

\* "double-check, very important idea"
DoubleCheck(t) ==
  /\ Quiet(t, "double", IF IsEmptyQueue THEN "clear" ELSE "await")
  /\ UNCHANGED <<indices, flags, efds, repo_status, history>>

WaitEmpty(t) ==
  /\ Quiet(t, "await", "clear")
  /\ efd_empty
  /\ efd_empty' = FALSE
  /\ UNCHANGED <<indices, flags, efd_read, efd_write, repo_status, history>>

\* Mutant of ClearNeed: to be woken is taken for an empty queue.
ClearNeedOnce(t) ==
  /\ Quiet(t, "clear", "done")
  /\ need_empty' = FALSE
  /\ UNCHANGED <<indices, read_working, write_working, efds, repo_status, history>>

ClearNeed(t) ==
  /\ Quiet(t, "clear", "look")
  /\ need_empty' = FALSE
  /\ UNCHANGED <<indices, read_working, write_working, efds, repo_status, history>>

ReturnEmpty(t) ==
  /\ Quiet(t, "done", IF repo_status = "ERROR_EXIT" THEN "throw" ELSE "idle")
  /\ UNCHANGED <<indices, flags, efds, repo_status, history>>

-----------------------------------------------------------------------------
(* The consumer: StartConsume, Dequeue and ReadQueue *)

Consume(from, to) ==
  /\ consumer = from
  /\ consumer' = to
  /\ UNCHANGED <<threads, write_idx, datas, write_working, need_empty, sent>>

\* StartConsume loads the status twice.
StartConsume ==
  /\ \/ Consume("start", IF repo_status = "CAN_EXIT" THEN "exit" ELSE "start2")
     \/ Consume("start2", IF repo_status = "ERROR_EXIT" THEN "exit" ELSE "dequeue")
  /\ UNCHANGED <<read_idx, read_working, efds, repo_status, ran, released, failed>>

SetReadWorking ==
  /\ Consume("dequeue", "loop") \/ Consume("resume", "loop")
  /\ read_working' = TRUE
  /\ UNCHANGED <<read_idx, efds, repo_status, ran, released, failed>>

ReadQueue ==
  /\ \/ Consume("loop", IF repo_status = "CAN_EXIT" THEN "rest" ELSE "read")
     \/ Consume("read", IF IsEmptyQueue THEN "nothing" ELSE "call")
  /\ UNCHANGED <<read_idx, read_working, efds, repo_status, ran, released, failed>>

\* manager().Call executes the task at read_idx.
Succeed ==
  /\ Consume("call", "release")
  /\ ran' = Append(ran, datas[read_idx])
  /\ UNCHANGED <<read_idx, read_working, efds, repo_status, released, failed>>

Fail ==
  /\ Failures
  /\ Consume("call", "drain")
  /\ failed' = TRUE
  /\ UNCHANGED <<read_idx, read_working, efds, repo_status, ran, released>>

\* Mutant of Release: the index moves on first, so that the next slot is released.
ReleaseNext ==
  /\ \/ /\ Consume("release", "advance")
        /\ read_idx' = After(read_idx)
        /\ UNCHANGED released
     \/ /\ Consume("advance", "done")
        /\ released' = Append(released, datas[read_idx])
        /\ UNCHANGED read_idx
  /\ UNCHANGED <<read_working, efds, repo_status, ran, failed>>

\* The task goes to the release queue, and then its slot to the producers.
Release ==
  /\ \/ /\ Consume("release", "advance")
        /\ released' = Append(released, datas[read_idx])
        /\ UNCHANGED read_idx
     \/ /\ Consume("advance", "done")
        /\ read_idx' = After(read_idx)
        /\ UNCHANGED released
  /\ UNCHANGED <<read_working, efds, repo_status, ran, failed>>

\* After an error everything that is left is released without being executed.
Drain ==
  /\ \/ /\ IsEmptyQueue
        /\ Consume("drain", "failed")
        /\ UNCHANGED <<read_idx, released>>
     \/ /\ ~IsEmptyQueue
        /\ Consume("drain", "skip")
        /\ released' = Append(released, datas[read_idx])
        /\ UNCHANGED read_idx
     \/ /\ Consume("skip", "drain")
        /\ read_idx' = After(read_idx)
        /\ UNCHANGED released
  /\ UNCHANGED <<read_working, efds, repo_status, ran, failed>>

\* The error is published, and everybody who waits is woken.
ReportError ==
  /\ \/ Consume("failed", "reset")  /\ repo_status' = "ERROR_EXIT"
                                    /\ UNCHANGED <<read_idx, efds>>
     \/ Consume("reset", "tell")    /\ read_idx' = write_idx
                                    /\ UNCHANGED <<repo_status, efds>>
     \/ Consume("tell", "tell2")    /\ efd_empty' = TRUE
                                    /\ UNCHANGED <<read_idx, repo_status, efd_read, efd_write>>
     \/ Consume("tell2", "nothing") /\ efd_write' = TRUE
                                    /\ UNCHANGED <<read_idx, repo_status, efd_read, efd_empty>>
  /\ UNCHANGED <<read_working, ran, released, failed>>

\* Nothing was read: the consumer leaves if it is told to ...  The test and the
\* compare-exchange are one step: only the consumer leaves NEED_EXIT.
CheckExit ==
  /\ \/ /\ repo_status = "NEED_EXIT"
        /\ Consume("nothing", "rest")
        /\ repo_status' = "CAN_EXIT"
     \/ /\ repo_status # "NEED_EXIT"
        /\ Consume("nothing", "error")
        /\ UNCHANGED repo_status
     \/ /\ Consume("error", IF repo_status = "ERROR_EXIT" THEN "rest" ELSE "pause")
        /\ UNCHANGED repo_status
  /\ UNCHANGED <<read_idx, read_working, efds, ran, released, failed>>

\* ... and waits if the ring is still empty once its flag is cleared.
ClearReadWorking ==
  /\ Consume("pause", "empty") \/ Consume("rest", "start")
  /\ read_working' = FALSE
  /\ UNCHANGED <<read_idx, efds, repo_status, ran, released, failed>>

\* Mutant of CheckEmpty: the ring is not looked at again before waiting.
CheckEmptyNot ==
  /\ Consume("empty", "wait")
  /\ UNCHANGED <<read_idx, read_working, efds, repo_status, ran, released, failed>>

CheckEmpty ==
  /\ Consume("empty", IF IsEmptyQueue THEN "wait" ELSE "loop")
  /\ UNCHANGED <<read_idx, read_working, efds, repo_status, ran, released, failed>>

WaitEnqueue ==
  /\ Consume("wait", "resume")
  /\ efd_read
  /\ efd_read' = FALSE
  /\ UNCHANGED <<read_idx, read_working, efd_write, efd_empty, repo_status,
                 ran, released, failed>>

\* A task is done: whoever waits for an empty queue is woken ...
NotifyEmpty ==
  /\ \/ Consume("done", IF need_empty THEN "done2" ELSE "flow") /\ UNCHANGED efd_empty
     \/ Consume("done2", IF IsEmptyQueue THEN "emptied" ELSE "flow") /\ UNCHANGED efd_empty
     \/ Consume("emptied", "flow") /\ efd_empty' = TRUE
  /\ UNCHANGED <<read_idx, read_working, efd_read, efd_write, repo_status,
                 ran, released, failed>>

\* ... and a producer that may wait for room.
NotifyProducer ==
  /\ \/ Consume("flow", IF write_working THEN "rest" ELSE "room") /\ UNCHANGED efd_write
     \/ Consume("room", "rest") /\ efd_write' = TRUE
  /\ UNCHANGED <<read_idx, read_working, efd_read, efd_empty, repo_status,
                 ran, released, failed>>

-----------------------------------------------------------------------------
(* The destructor *)

\* The last owner destroys the queue: nobody else is in a call.
Destroy(t) ==
  /\ Shutdown
  /\ \A u \in Threads : pc[u] = "idle"
  /\ Quiet(t, "idle", "destroy")
  /\ repo_status' = "NEED_EXIT"
  /\ UNCHANGED <<indices, flags, efds, history>>

\* Mutant of JoinConsumer: the consumer is not woken to see that it must exit.
JoinConsumerAsleep(t) ==
  /\ \/ Quiet(t, "destroy", "join")
     \/ Quiet(t, "join", "destroyed") /\ consumer = "exit"
  /\ UNCHANGED <<indices, flags, efds, repo_status, history>>

JoinConsumer(t) ==
  /\ \/ Quiet(t, "destroy", "join") /\ efd_read' = TRUE
     \/ Quiet(t, "join", "destroyed") /\ consumer = "exit" /\ UNCHANGED efd_read
  /\ UNCHANGED <<indices, flags, efd_write, efd_empty, repo_status, history>>

-----------------------------------------------------------------------------
(* The specification *)

\* InitRepo
Init ==
  /\ datas = [i \in 0 .. Capacity - 1 |-> None]
  /\ read_idx = 0 /\ write_idx = 0
  /\ read_working = FALSE /\ write_working = FALSE /\ need_empty = FALSE
  /\ efd_read = FALSE /\ efd_write = FALSE /\ efd_empty = FALSE
  /\ repo_status = "INIT"
  /\ pc = [t \in Threads |-> "idle"]
  /\ task = [t \in Threads |-> None]
  /\ mark = [t \in Threads |-> 0]
  /\ issued = 0
  /\ consumer = "start"
  /\ sent = <<>> /\ ran = <<>> /\ released = <<>> /\ failed = FALSE

\* What the program asks for, when the queue exists.
Call(t) ==
  /\ \A u \in Threads : pc[u] \notin {"destroy", "join", "destroyed"}
  /\ Enqueue(t) \/ MakeSureQueueEmpty(t) \/ Destroy(t)

Continue(t) ==
  \/ CheckStatus(t) \/ SetWriteWorking(t) \/ WriteQueue(t) \/ Publish(t)
  \/ NotifyConsumer(t) \/ ClearWriteWorking(t) \/ CheckFull(t) \/ WaitDequeue(t)
  \/ Throw(t)
  \/ LookEmpty(t) \/ SetNeed(t) \/ DoubleCheck(t) \/ WaitEmpty(t) \/ ClearNeed(t)
  \/ ReturnEmpty(t)
  \/ JoinConsumer(t)

Dequeue ==
  \/ StartConsume \/ SetReadWorking \/ ReadQueue \/ Succeed \/ Fail \/ Release
  \/ Drain \/ ReportError \/ CheckExit \/ ClearReadWorking \/ CheckEmpty
  \/ WaitEnqueue \/ NotifyEmpty \/ NotifyProducer

Next == (\E t \in Threads : Call(t) \/ Continue(t)) \/ Dequeue

Spec == Init /\ [][Next]_vars

\* Every thread that is in a call, and the consumer, keep running; executing a
\* task comes to an end.  The program need not call.
FairSpec ==
  /\ Spec
  /\ \A t \in Threads : WF_vars(Continue(t))
  /\ WF_vars(Dequeue)

-----------------------------------------------------------------------------
(* Properties *)

ThreadSteps ==
  { "idle", "enqueue", "begin", "write", "publish", "notify", "wake", "finish",
    "pause", "full", "wait", "resume", "throw", "forget", "look", "need",
    "double", "await", "clear", "done", "destroy", "join", "destroyed" }

ConsumerSteps ==
  { "start", "start2", "exit", "dequeue", "loop", "read", "call", "release",
    "advance", "drain", "skip", "failed", "reset", "tell", "tell2", "nothing",
    "error", "pause", "rest", "empty", "wait", "resume", "done", "done2",
    "emptied", "flow", "room" }

TypeOK ==
  /\ datas \in [0 .. Capacity - 1 -> Nat \cup {None}]
  /\ read_idx \in 0 .. Capacity - 1 /\ write_idx \in 0 .. Capacity - 1
  /\ read_working \in BOOLEAN /\ write_working \in BOOLEAN /\ need_empty \in BOOLEAN
  /\ efd_read \in BOOLEAN /\ efd_write \in BOOLEAN /\ efd_empty \in BOOLEAN
  /\ repo_status \in Status
  /\ pc \in [Threads -> ThreadSteps]
  /\ task \in [Threads -> Nat \cup {None}]
  /\ mark \in [Threads -> Nat]
  /\ issued \in Nat
  /\ consumer \in ConsumerSteps
  /\ sent \in Seq(Nat) /\ ran \in Seq(Nat) /\ released \in Seq(Nat)
  /\ failed \in BOOLEAN

\* Tasks are executed in order, once, and not after one has failed.
Stream == INSTANCE TaskStream WITH Tasks <- 1 .. MaxTasks, Room <- Capacity - 1

KeepsOrder == Stream!Spec

\* What goes to the release queue is what was sent, in order and once, whether it
\* was executed, failed or skipped: a slot is read a second time for this, and
\* must still hold the task that was executed from it.
ReleasedInOrder == IsPrefix(released, sent)

\* When MakeSureQueueEmpty sees the queue empty, all that was sent before it was
\* called has been executed, unless a task failed.
EmptyMeansExecuted ==
  \A t \in Threads : pc[t] = "done" => failed \/ Len(ran) >= mark[t]

Enqueuing(t) ==
  pc[t] \in {"enqueue", "begin", "write", "publish", "notify", "wake", "finish",
             "pause", "full", "wait", "resume"}

Emptying(t) == pc[t] \in {"look", "need", "double", "await", "clear", "done"}

\* No wake-up is lost: Enqueue returns, also when the ring was full and also
\* when a task fails.
EnqueueReturns == \A t \in Producers : Enqueuing(t) ~> ~Enqueuing(t)

\* Everything in the ring is executed, unless a task fails.
TasksRun == \A n \in 1 .. MaxTasks : Len(sent) >= n ~> failed \/ Len(ran) >= n

\* MakeSureQueueEmpty returns, unless a task fails.
EmptyReturns == \A t \in Waiters : Emptying(t) ~> ~Emptying(t) \/ failed

\* After an error too: "The Inner error is reported as above. The process exits
\* for this inner error" is what MakeSureQueueEmpty throws.
ErrorReaches == \A t \in Waiters : Emptying(t) ~> ~Emptying(t)

\* The destructor comes to an end.
DestroyReturns ==
  \A t \in Threads : pc[t] \in {"destroy", "join"} ~> pc[t] = "destroyed"

=============================================================================
