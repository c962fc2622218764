----------------------------- MODULE MCTaskQueue -----------------------------
(* Instances of TaskQueue for TLC.  The values of the constants are small    *)
(* enough to be given in the configurations:                                 *)
(*   TaskQueue.cfg       one thread that enqueues and waits, as the queue's  *)
(*                       comments have it; 3 places, 5 tasks, so that the    *)
(*                       ring fills up and the indices wrap around           *)
(*   TaskQueueEmpty.cfg  a second thread waits for the queue to be empty     *)
(*                       while the first fills it; the queue is destroyed    *)
(*   TaskQueueError.cfg  a task fails                                        *)
EXTENDS TaskQueue
=============================================================================
