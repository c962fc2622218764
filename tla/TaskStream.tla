----------------------------- MODULE TaskStream -----------------------------
(***************************************************************************)
(* What the task queue of backends/npu/core/NPUQueue.cpp promises: tasks   *)
(* are executed one by one in the order in which they were accepted, at    *)
(* most Room of them wait, and once a task has failed nothing that was     *)
(* accepted is executed any more ("ignore other tasks").                   *)
(***************************************************************************)
EXTENDS Naturals, Sequences

CONSTANTS Tasks, Room

VARIABLES
  sent,     \* the tasks accepted, in order
  ran,      \* the tasks executed, in order, without the one that failed
  failed    \* a task has failed

vars == <<sent, ran, failed>>

Init == sent = <<>> /\ ran = <<>> /\ failed = FALSE

\* After a failure there is room for tasks that will never be executed.
Accept(t) ==
  /\ ~failed => Len(sent) - Len(ran) < Room
  /\ sent' = Append(sent, t)
  /\ UNCHANGED <<ran, failed>>

Execute ==
  /\ ~failed
  /\ Len(ran) < Len(sent)
  /\ ran' = Append(ran, sent[Len(ran) + 1])
  /\ UNCHANGED <<sent, failed>>

Fail ==
  /\ ~failed
  /\ Len(ran) < Len(sent)
  /\ failed' = TRUE
  /\ UNCHANGED <<sent, ran>>

Next == (\E t \in Tasks : Accept(t)) \/ Execute \/ Fail

Spec == Init /\ [][Next]_vars

=============================================================================
