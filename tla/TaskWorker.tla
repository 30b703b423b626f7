----------------------------- MODULE TaskWorker -----------------------------
(***************************************************************************)
(* service/task_worker on an RTOS: threads enqueue tasks for one worker,   *)
(* whose own thread executes them.  The queue is guarded by the worker's   *)
(* semaphore, and the event TASK_AVAIL wakes the worker's thread.  The     *)
(* semaphore and the event behave as the OSAL port of the RTOS makes them. *)
(* The worker has been created; enqueuing threads are preempted anywhere.  *)
(***************************************************************************)
EXTENDS Integers, Sequences, FiniteSets

CONSTANTS
  Callers,         \* the threads that enqueue tasks
  Worker,          \* the worker's own thread: its tasks may enqueue tasks too
  Tasks, NoTask,   \* what can be enqueued, and no task
  Capacity,        \* how many task blocks fit into the queue's buffer at most
  Port,            \* the OSAL backend
  GivenAtStart,    \* FreeRTOS: how often the application gave the semaphore first
  WorkerTicks      \* ticks_to_wait of the worker's thread

Threads == Callers \cup {Worker}

ASSUME WorkerAssumption == Worker \notin Callers
ASSUME TaskAssumption == NoTask \notin Tasks
ASSUME CapacityAssumption == Capacity \in Nat
ASSUME PortAssumption == Port \in {"FreeRTOS", "ThreadX"}
ASSUME GivenAssumption == GivenAtStart \in 0 .. 1
ASSUME TicksAssumption == WorkerTicks \in {"finite", "forever"}

ezSUCCESS == 0
EZ_EVENT_TASK_AVAIL == 1

VARIABLES
  msg_queue,    \* the task blocks, the oldest first
  count,        \* the count of the semaphore
  event,        \* whether TASK_AVAIL is set in the event group
  pc,           \* pc[th]: where th is in EnqueueTask
  task,         \* pc[th] # "out": the task th enqueues
  task_block,   \* whether the task block has been reserved
  ret,          \* the value EnqueueTask is going to return
  wpc,          \* where the worker is in ExecuteTask
  common        \* the task block the worker got from the front of the queue

enqueuing == <<pc, task, task_block, ret>>
taskVars == <<msg_queue, count, event, enqueuing, wpc, common>>

(* The semaphore's max_count is 1.  FreeRTOS creates it empty, ThreadX full.*)
InitialCount == IF Port = "ThreadX" THEN 1 ELSE GivenAtStart

TaskInit ==
  /\ msg_queue = << >>
  /\ count = InitialCount
  /\ event = FALSE
  /\ pc = [th \in Threads |-> "out"]
  /\ task = [th \in Threads |-> NoTask]
  /\ task_block = [th \in Threads |-> FALSE]
  /\ ret = [th \in Threads |-> FALSE]
  /\ wpc = "idle"
  /\ common = NoTask

-----------------------------------------------------------------------------
(* Faulty variants of the definitions below, one plausible slip each.      *)

GivesAfterTimeout(th) == pc' = [pc EXCEPT ![th] = "give"]

ReturnsHoldingSemaphore == "idle"

PopsBack(queue) == SubSeq(queue, 1, Len(queue) - 1)

WaitReturnsFirst(bits) == IF bits = EZ_EVENT_TASK_AVAIL THEN "taking" ELSE "idle"

-----------------------------------------------------------------------------
(* EnqueueTask.                                                            *)

Goto(th, label) == pc' = [pc EXCEPT ![th] = label]

(* A thread calls EnqueueTask; on the worker's thread a running task does. *)
EnqueueTask(th, t) ==
  /\ pc[th] = "out"
  /\ th = Worker => wpc = "running"
  /\ Goto(th, "take")
  /\ task' = [task EXCEPT ![th] = t]
  /\ task_block' = [task_block EXCEPT ![th] = FALSE]
  /\ ret' = [ret EXCEPT ![th] = TRUE]
  /\ UNCHANGED <<msg_queue, count, event, wpc, common>>

SemaphoreTake(th) ==
  /\ pc[th] = "take"
  /\ count > 0
  /\ count' = count - 1
  /\ Goto(th, "reserve")
  /\ UNCHANGED <<msg_queue, event, task, task_block, ret, wpc, common>>

(* Without the semaphore EnqueueTask returns without giving it back.       *)
AfterTakeTimeout(th) == Goto(th, "out")

SemaphoreTakeTimesOut(th) ==
  /\ pc[th] = "take"
  /\ count = 0
  /\ AfterTakeTimeout(th)
  /\ ret' = [ret EXCEPT ![th] = FALSE]
  /\ UNCHANGED <<msg_queue, count, event, task, task_block, wpc, common>>

ReserveAndPush(th) ==
  /\ pc[th] = "reserve"
  /\ Len(msg_queue) < Capacity
  /\ msg_queue' = Append(msg_queue, task[th])
  /\ task_block' = [task_block EXCEPT ![th] = TRUE]
  /\ Goto(th, "set")
  /\ UNCHANGED <<count, event, task, ret, wpc, common>>

(* The context may be larger than any free block: ret stays true.          *)
ReserveFails(th) ==
  /\ pc[th] = "reserve"
  /\ Goto(th, "give")
  /\ UNCHANGED <<msg_queue, count, event, task, task_block, ret, wpc, common>>

(* What ExecuteTask does with the value EventWait returned.                *)
AfterEventWait(bits) == IF bits = ezSUCCESS THEN "taking" ELSE "idle"

(* FreeRTOS hands the bit to a waiting worker and clears it at once.       *)
EventSet(th) ==
  /\ pc[th] = "set"
  /\ event' = ~ (Port = "FreeRTOS" /\ wpc = "waiting")
  /\ wpc' = IF wpc = "waiting" THEN AfterEventWait(EZ_EVENT_TASK_AVAIL) ELSE wpc
  /\ Goto(th, "check")
  /\ UNCHANGED <<msg_queue, count, task, task_block, ret, common>>

(* FreeRTOS returns the bits that are set when xEventGroupSetBits returns. *)
EventSetReturns(th) ==
  /\ pc[th] = "check"
  /\ ret' = [ret EXCEPT ![th] = IF Port = "FreeRTOS" THEN event ELSE TRUE]
  /\ Goto(th, "give")
  /\ UNCHANGED <<msg_queue, count, event, task, task_block, wpc, common>>

SemaphoreGive(th) ==
  /\ pc[th] = "give"
  /\ count' = count + 1
  /\ Goto(th, "out")
  /\ UNCHANGED <<msg_queue, event, task, task_block, ret, wpc, common>>

Continue(th) ==
  \/ SemaphoreTake(th) \/ SemaphoreTakeTimesOut(th)
  \/ ReserveAndPush(th) \/ ReserveFails(th)
  \/ EventSet(th) \/ EventSetReturns(th) \/ SemaphoreGive(th)

-----------------------------------------------------------------------------
(* ExecuteTask, which the worker's thread calls in a loop.                 *)

(* EventWait returns at once when the bit is set; FreeRTOS clears it.      *)
ExecuteTask ==
  /\ wpc = "idle"
  /\ wpc' = IF event THEN AfterEventWait(EZ_EVENT_TASK_AVAIL) ELSE "waiting"
  /\ event' = (event /\ Port = "ThreadX")
  /\ UNCHANGED <<msg_queue, count, enqueuing, common>>

(* After a timeout no bit of the mask is set: EventWait returns 0.         *)
EventWaitTimesOut ==
  /\ wpc = "waiting"
  /\ WorkerTicks = "finite"
  /\ wpc' = AfterEventWait(0)
  /\ UNCHANGED <<msg_queue, count, event, enqueuing, common>>

WorkerTakes ==
  /\ wpc = "taking"
  /\ count > 0
  /\ count' = count - 1
  /\ wpc' = "front"
  /\ UNCHANGED <<msg_queue, event, enqueuing, common>>

WorkerTakeTimesOut ==
  /\ wpc = "taking"
  /\ count = 0
  /\ WorkerTicks = "finite"
  /\ wpc' = "idle"
  /\ UNCHANGED <<msg_queue, count, event, enqueuing, common>>

AfterEmptyQueue == "giving"

(* The task runs with the semaphore held, its block still queued.          *)
GetFront ==
  /\ wpc = "front"
  /\ IF msg_queue = << >>
     THEN wpc' = AfterEmptyQueue /\ UNCHANGED common
     ELSE wpc' = "running" /\ common' = Head(msg_queue)
  /\ UNCHANGED <<msg_queue, count, event, enqueuing>>

FrontGone(queue) == Tail(queue)

TaskReturns ==
  /\ wpc = "running"
  /\ pc[Worker] = "out"
  /\ msg_queue' = FrontGone(msg_queue)
  /\ common' = NoTask
  /\ wpc' = "giving"
  /\ UNCHANGED <<count, event, enqueuing>>

WorkerGives ==
  /\ wpc = "giving"
  /\ count' = count + 1
  /\ wpc' = "idle"
  /\ UNCHANGED <<msg_queue, event, enqueuing, common>>

WorkerNext ==
  \/ ExecuteTask \/ EventWaitTimesOut \/ WorkerTakes \/ WorkerTakeTimesOut
  \/ GetFront \/ TaskReturns \/ WorkerGives

TaskNext ==
  \/ WorkerNext
  \/ \E th \in Threads : Continue(th) \/ \E t \in Tasks : EnqueueTask(th, t)

TaskSpec == TaskInit /\ [][TaskNext]_taskVars

(* Every thread that can go on does: the scheduler is preemptive and a     *)
(* call or task that was started does not hang by itself.  Nobody has to   *)
(* call EnqueueTask.                                                       *)
TaskFairness == WF_taskVars(WorkerNext) /\ \A th \in Threads : WF_taskVars(Continue(th))

TaskFairSpec == TaskSpec /\ TaskFairness

-----------------------------------------------------------------------------
HoldsSemaphore(th) == pc[th] \in {"reserve", "set", "check", "give"}
WorkerHolds == wpc \in {"front", "running", "giving"}

(* Every counter and local variable has its type, the queue its bound.     *)
TaskTypeOK ==
  /\ msg_queue \in Seq(Tasks) /\ Len(msg_queue) <= Capacity
  /\ count \in 0 .. 1
  /\ event \in BOOLEAN
  /\ pc \in [Threads -> {"out", "take", "reserve", "set", "check", "give"}]
  /\ task \in [Threads -> Tasks \cup {NoTask}]
  /\ task_block \in [Threads -> BOOLEAN]
  /\ ret \in [Threads -> BOOLEAN]
  /\ wpc \in {"idle", "waiting", "taking", "front", "running", "giving"}
  /\ common \in Tasks \cup {NoTask}

(* Every path through EnqueueTask and ExecuteTask gives the semaphore back *)
(* exactly if it took it, and one thread at a time is between the two: the *)
(* worker, while it runs a task, or one caller.                            *)
SemaphoreBalanced ==
  /\ count = InitialCount
       <=> (~ WorkerHolds /\ \A th \in Threads : ~ HoldsSemaphore(th))
  /\ \A th \in Threads : HoldsSemaphore(th) => ~ WorkerHolds
  /\ \A a, b \in Threads : HoldsSemaphore(a) /\ HoldsSemaphore(b) => a = b

(* The worker executes the enqueued tasks one by one in order, and no task *)
(* is enqueued while one runs, not even by that task itself.               *)
WorkQueue == INSTANCE WorkQueue WITH tasks <- msg_queue, running <- common

ImplementsWorkQueue == WorkQueue!Spec

(* Once the callers are quiet, every task in the queue is executed.  The   *)
(* header of the module promises it whatever ticks_to_wait the worker uses.*)
CallersQuiet == \A th \in Threads : pc[th] = "out"

Queued(t) == \E i \in DOMAIN msg_queue : msg_queue[i] = t

QueuedTaskRuns ==
  <>[]CallersQuiet => \A t \in Tasks : Queued(t) ~> (common = t)

(* EnqueueTask returns true exactly when the task is in the queue.  It is  *)
(* about to return when it gives the semaphore.                            *)
ResultMatchesQueue ==
  \A th \in Threads : pc[th] = "give" => ret[th] = task_block[th]
=============================================================================
