----------------------------- MODULE WorkQueue -----------------------------
(***************************************************************************)
(* What a task worker promises: tasks run one at a time in the order they  *)
(* were enqueued, each of them once, and nobody touches the queue, whose   *)
(* memory holds the running task's context, until that task has returned.  *)
(***************************************************************************)
EXTENDS Naturals, Sequences

CONSTANTS Tasks, NoTask

VARIABLES
  tasks,     \* the enqueued tasks, the oldest first
  running    \* the task that is running, or NoTask

Init == tasks = << >> /\ running = NoTask

Enqueue(t) ==
  /\ running = NoTask
  /\ tasks' = Append(tasks, t)
  /\ UNCHANGED running

Start ==
  /\ running = NoTask
  /\ tasks # << >>
  /\ running' = Head(tasks)
  /\ UNCHANGED tasks

Finish ==
  /\ running # NoTask
  /\ tasks' = Tail(tasks)
  /\ running' = NoTask

Next == Start \/ Finish \/ \E t \in Tasks : Enqueue(t)

Spec == Init /\ [][Next]_<<tasks, running>>
=============================================================================
