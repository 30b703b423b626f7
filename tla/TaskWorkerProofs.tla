-------------------------- MODULE TaskWorkerProofs --------------------------
(***************************************************************************)
(* Proofs about TaskWorker, for any number of callers, any set of tasks,   *)
(* any capacity, both OSAL ports and both kinds of waiting.                *)
(***************************************************************************)
EXTENDS TaskWorker, SequenceTheorems, TLAPS

(* The semaphore never exceeds its first count; the worker's pointer into  *)
(* the queue is that of the front, and is valid while the task runs; only  *)
(* a task to be enqueued is ever put into the queue.                       *)
LocalsOK ==
  /\ count <= InitialCount
  /\ wpc = "running" <=> common # NoTask
  /\ wpc = "running" => msg_queue # << >> /\ common = Head(msg_queue)
  /\ \A th \in Threads : pc[th] # "out" => task[th] \in Tasks

IInv == TaskTypeOK /\ SemaphoreBalanced /\ LocalsOK

LEMMA InitialCountType == InitialCount \in 0 .. 1
  BY GivenAssumption DEF InitialCount

(* A step that moves one thread along its code leaves the others where     *)
(* they are.                                                               *)
LEMMA GotoEffect ==
  ASSUME TaskTypeOK, NEW th \in Threads, NEW label, Goto(th, label)
  PROVE  /\ pc'[th] = label
         /\ \A o \in Threads : o # th => pc'[o] = pc[o]
  BY DEF TaskTypeOK, Goto

LEMMA QueueAppend ==
  ASSUME NEW q \in Seq(Tasks), NEW t \in Tasks
  PROVE  /\ Append(q, t) \in Seq(Tasks)
         /\ Append(q, t) # << >>
         /\ Len(Append(q, t)) = Len(q) + 1
         /\ q # << >> => Head(Append(q, t)) = Head(q)
  BY AppendProperties, HeadTailAppend

LEMMA QueueTail ==
  ASSUME NEW q \in Seq(Tasks), q # << >>
  PROVE  /\ Tail(q) \in Seq(Tasks)
         /\ Head(q) \in Tasks
         /\ Len(Tail(q)) = Len(q) - 1
  OBVIOUS

LEMMA InitIInv == TaskInit => IInv
  <1> SUFFICES ASSUME TaskInit PROVE IInv
    OBVIOUS
  <1>1. TaskTypeOK
    <2>1. msg_queue \in Seq(Tasks) /\ Len(msg_queue) <= Capacity
      BY EmptySeq, CapacityAssumption DEF TaskInit
    <2>2. count \in 0 .. 1
      BY InitialCountType DEF TaskInit
    <2> QED
      BY <2>1, <2>2 DEF TaskInit, TaskTypeOK
  <1>2. SemaphoreBalanced
    BY DEF TaskInit, SemaphoreBalanced, HoldsSemaphore, WorkerHolds
  <1>3. LocalsOK
    BY InitialCountType DEF TaskInit, LocalsOK
  <1> QED
    BY <1>1, <1>2, <1>3 DEF IInv

LEMMA TypeStep == IInv /\ [TaskNext]_taskVars => TaskTypeOK'
  <1> SUFFICES ASSUME IInv, [TaskNext]_taskVars PROVE TaskTypeOK'
    OBVIOUS
  <1> USE InitialCountType, CapacityAssumption DEF IInv
  <1>1. CASE UNCHANGED taskVars
    BY <1>1 DEF TaskTypeOK, taskVars, enqueuing
  <1>2. ASSUME NEW th \in Threads, NEW t \in Tasks, EnqueueTask(th, t) PROVE TaskTypeOK'
    BY <1>2 DEF TaskTypeOK, EnqueueTask, Goto
  <1>3. ASSUME NEW th \in Threads, Continue(th) PROVE TaskTypeOK'
    <2>1. CASE SemaphoreTake(th)
      BY <2>1 DEF TaskTypeOK, SemaphoreTake, Goto
    <2>2. CASE SemaphoreTakeTimesOut(th)
      BY <2>2 DEF TaskTypeOK, SemaphoreTakeTimesOut, AfterTakeTimeout, Goto
    <2>3. CASE ReserveAndPush(th)
      <3>1. task[th] \in Tasks
        BY <2>3 DEF LocalsOK, ReserveAndPush
      <3>2. msg_queue' \in Seq(Tasks) /\ Len(msg_queue') <= Capacity
        BY <2>3, <3>1, QueueAppend DEF TaskTypeOK, ReserveAndPush
      <3> QED
        BY <2>3, <3>2 DEF TaskTypeOK, ReserveAndPush, Goto
    <2>4. CASE ReserveFails(th)
      BY <2>4 DEF TaskTypeOK, ReserveFails, Goto
    <2>5. CASE EventSet(th)
      BY <2>5 DEF TaskTypeOK, EventSet, Goto, AfterEventWait
    <2>6. CASE EventSetReturns(th)
      BY <2>6 DEF TaskTypeOK, EventSetReturns, Goto
    <2>7. CASE SemaphoreGive(th)
      <3>1. count = 0
        BY <2>7 DEF SemaphoreBalanced, HoldsSemaphore, SemaphoreGive, TaskTypeOK, LocalsOK
      <3> QED
        BY <2>7, <3>1 DEF TaskTypeOK, SemaphoreGive, Goto
    <2> QED
      BY <1>3, <2>1, <2>2, <2>3, <2>4, <2>5, <2>6, <2>7 DEF Continue
  <1>4. CASE WorkerNext
    <2>1. CASE ExecuteTask
      BY <2>1 DEF TaskTypeOK, ExecuteTask, AfterEventWait, enqueuing
    <2>2. CASE EventWaitTimesOut
      BY <2>2 DEF TaskTypeOK, EventWaitTimesOut, AfterEventWait, enqueuing
    <2>3. CASE WorkerTakes
      BY <2>3 DEF TaskTypeOK, WorkerTakes, enqueuing
    <2>4. CASE WorkerTakeTimesOut
      BY <2>4 DEF TaskTypeOK, WorkerTakeTimesOut, enqueuing
    <2>5. CASE GetFront
      BY <2>5, QueueTail DEF TaskTypeOK, GetFront, AfterEmptyQueue, enqueuing
    <2>6. CASE TaskReturns
      BY <2>6, QueueTail DEF TaskTypeOK, LocalsOK, TaskReturns, FrontGone, enqueuing
    <2>7. CASE WorkerGives
      <3>1. count = 0
        BY <2>7 DEF SemaphoreBalanced, WorkerHolds, WorkerGives, TaskTypeOK, LocalsOK
      <3> QED
        BY <2>7, <3>1 DEF TaskTypeOK, WorkerGives, enqueuing
    <2> QED
      BY <1>4, <2>1, <2>2, <2>3, <2>4, <2>5, <2>6, <2>7 DEF WorkerNext
  <1> QED
    BY <1>1, <1>2, <1>3, <1>4 DEF TaskNext

LEMMA BalanceStep == IInv /\ [TaskNext]_taskVars => SemaphoreBalanced'
  <1> SUFFICES ASSUME IInv, [TaskNext]_taskVars PROVE SemaphoreBalanced'
    OBVIOUS
  <1> USE InitialCountType DEF IInv, HoldsSemaphore, WorkerHolds
  <1>1. CASE UNCHANGED taskVars
    BY <1>1 DEF SemaphoreBalanced, taskVars, enqueuing
  <1>2. ASSUME NEW th \in Threads, NEW t \in Tasks, EnqueueTask(th, t)
        PROVE SemaphoreBalanced'
    BY <1>2, GotoEffect DEF SemaphoreBalanced, EnqueueTask
  <1>3. ASSUME NEW th \in Threads, Continue(th) PROVE SemaphoreBalanced'
    <2>1. CASE SemaphoreTake(th)
      <3>1. count = InitialCount /\ count' # InitialCount
        BY <2>1 DEF SemaphoreTake, TaskTypeOK, LocalsOK
      <3> QED
        BY <2>1, <3>1, GotoEffect DEF SemaphoreBalanced, SemaphoreTake
    <2>2. CASE SemaphoreTakeTimesOut(th)
      BY <2>2, GotoEffect DEF SemaphoreBalanced, SemaphoreTakeTimesOut, AfterTakeTimeout
    <2>3. CASE ReserveAndPush(th)
      BY <2>3, GotoEffect DEF SemaphoreBalanced, ReserveAndPush
    <2>4. CASE ReserveFails(th)
      BY <2>4, GotoEffect DEF SemaphoreBalanced, ReserveFails
    <2>5. CASE EventSet(th)
      BY <2>5, GotoEffect DEF SemaphoreBalanced, EventSet, AfterEventWait
    <2>6. CASE EventSetReturns(th)
      BY <2>6, GotoEffect DEF SemaphoreBalanced, EventSetReturns
    <2>7. CASE SemaphoreGive(th)
      <3>1. count # InitialCount /\ count' = InitialCount
        BY <2>7 DEF SemaphoreBalanced, SemaphoreGive, TaskTypeOK, LocalsOK
      <3> QED
        BY <2>7, <3>1, GotoEffect DEF SemaphoreBalanced, SemaphoreGive
    <2> QED
      BY <1>3, <2>1, <2>2, <2>3, <2>4, <2>5, <2>6, <2>7 DEF Continue
  <1>4. CASE WorkerNext
    <2>1. CASE ExecuteTask
      BY <2>1 DEF SemaphoreBalanced, ExecuteTask, AfterEventWait, enqueuing
    <2>2. CASE EventWaitTimesOut
      BY <2>2 DEF SemaphoreBalanced, EventWaitTimesOut, AfterEventWait, enqueuing
    <2>3. CASE WorkerTakes
      <3>1. count = InitialCount /\ count' # InitialCount
        BY <2>3 DEF WorkerTakes, TaskTypeOK, LocalsOK
      <3> QED
        BY <2>3, <3>1 DEF SemaphoreBalanced, WorkerTakes, enqueuing
    <2>4. CASE WorkerTakeTimesOut
      BY <2>4 DEF SemaphoreBalanced, WorkerTakeTimesOut, enqueuing
    <2>5. CASE GetFront
      BY <2>5 DEF SemaphoreBalanced, GetFront, AfterEmptyQueue, enqueuing
    <2>6. CASE TaskReturns
      BY <2>6 DEF SemaphoreBalanced, TaskReturns, enqueuing
    <2>7. CASE WorkerGives
      <3>1. count # InitialCount /\ count' = InitialCount
        BY <2>7 DEF SemaphoreBalanced, WorkerGives, TaskTypeOK, LocalsOK
      <3> QED
        BY <2>7, <3>1 DEF SemaphoreBalanced, WorkerGives, enqueuing
    <2> QED
      BY <1>4, <2>1, <2>2, <2>3, <2>4, <2>5, <2>6, <2>7 DEF WorkerNext
  <1> QED
    BY <1>1, <1>2, <1>3, <1>4 DEF TaskNext

LEMMA LocalsStep == IInv /\ [TaskNext]_taskVars => LocalsOK'
  <1> SUFFICES ASSUME IInv, [TaskNext]_taskVars PROVE LocalsOK'
    OBVIOUS
  <1> USE InitialCountType DEF IInv
  <1>1. CASE UNCHANGED taskVars
    BY <1>1 DEF LocalsOK, taskVars, enqueuing
  <1>2. ASSUME NEW th \in Threads, NEW t \in Tasks, EnqueueTask(th, t) PROVE LocalsOK'
    BY <1>2, GotoEffect DEF LocalsOK, TaskTypeOK, EnqueueTask
  <1>3. ASSUME NEW th \in Threads, Continue(th) PROVE LocalsOK'
    <2>1. CASE SemaphoreTake(th)
      BY <2>1, GotoEffect DEF LocalsOK, TaskTypeOK, SemaphoreTake
    <2>2. CASE SemaphoreTakeTimesOut(th)
      BY <2>2, GotoEffect DEF LocalsOK, SemaphoreTakeTimesOut, AfterTakeTimeout
    <2>3. CASE ReserveAndPush(th)
      <3>1. task[th] \in Tasks /\ msg_queue' = Append(msg_queue, task[th])
        BY <2>3 DEF LocalsOK, ReserveAndPush
      <3>2. msg_queue # << >> => msg_queue' # << >> /\ Head(msg_queue') = Head(msg_queue)
        BY <3>1, QueueAppend DEF TaskTypeOK
      <3> QED
        BY <2>3, <3>2, GotoEffect DEF LocalsOK, ReserveAndPush
    <2>4. CASE ReserveFails(th)
      BY <2>4, GotoEffect DEF LocalsOK, ReserveFails
    <2>5. CASE EventSet(th)
      BY <2>5, GotoEffect DEF LocalsOK, EventSet, AfterEventWait
    <2>6. CASE EventSetReturns(th)
      BY <2>6, GotoEffect DEF LocalsOK, EventSetReturns
    <2>7. CASE SemaphoreGive(th)
      <3>1. count' = InitialCount
        BY <2>7 DEF SemaphoreBalanced, HoldsSemaphore, SemaphoreGive, TaskTypeOK, LocalsOK
      <3> QED
        BY <2>7, <3>1, GotoEffect DEF LocalsOK, SemaphoreGive
    <2> QED
      BY <1>3, <2>1, <2>2, <2>3, <2>4, <2>5, <2>6, <2>7 DEF Continue
  <1>4. CASE WorkerNext
    <2>1. CASE ExecuteTask
      BY <2>1 DEF LocalsOK, ExecuteTask, AfterEventWait, enqueuing
    <2>2. CASE EventWaitTimesOut
      BY <2>2 DEF LocalsOK, EventWaitTimesOut, AfterEventWait, enqueuing
    <2>3. CASE WorkerTakes
      BY <2>3 DEF LocalsOK, TaskTypeOK, WorkerTakes, enqueuing
    <2>4. CASE WorkerTakeTimesOut
      BY <2>4 DEF LocalsOK, WorkerTakeTimesOut, enqueuing
    <2>5. CASE GetFront
      <3>1. msg_queue # << >> => Head(msg_queue) # NoTask
        BY QueueTail, TaskAssumption DEF TaskTypeOK
      <3> QED
        BY <2>5, <3>1 DEF LocalsOK, GetFront, AfterEmptyQueue, enqueuing
    <2>6. CASE TaskReturns
      BY <2>6 DEF LocalsOK, TaskReturns, enqueuing
    <2>7. CASE WorkerGives
      <3>1. count' = InitialCount
        BY <2>7 DEF SemaphoreBalanced, WorkerHolds, WorkerGives, TaskTypeOK, LocalsOK
      <3> QED
        BY <2>7, <3>1 DEF LocalsOK, WorkerGives, enqueuing
    <2> QED
      BY <1>4, <2>1, <2>2, <2>3, <2>4, <2>5, <2>6, <2>7 DEF WorkerNext
  <1> QED
    BY <1>1, <1>2, <1>3, <1>4 DEF TaskNext

-----------------------------------------------------------------------------
(* The inductive invariant holds in every reachable state of TaskWorker.   *)
THEOREM Invariance == TaskSpec => []IInv
  <1>1. IInv /\ [TaskNext]_taskVars => IInv'
    BY TypeStep, BalanceStep, LocalsStep DEF IInv
  <1> QED
    BY InitIInv, <1>1, PTL DEF TaskSpec

(* EnqueueTask and ExecuteTask keep every variable in its type and the     *)
(* queue within its capacity.                                              *)
THEOREM TypeCorrect == TaskSpec => []TaskTypeOK
  BY Invariance, PTL DEF IInv

(* Every path through EnqueueTask and ExecuteTask gives the semaphore back *)
(* exactly if it took it, and one thread at a time is between the two.     *)
THEOREM SemaphoreAlwaysBalanced == TaskSpec => []SemaphoreBalanced
  BY Invariance, PTL DEF IInv

(* The worker implements the abstract work queue: tasks run in the order   *)
(* of EnqueueTask, one at a time, and none is enqueued while one runs.     *)
THEOREM WorkQueueRefinement == TaskSpec => ImplementsWorkQueue
  <1>1. TaskInit => WorkQueue!Init
    BY DEF TaskInit, WorkQueue!Init
  <1>2. ASSUME IInv, [TaskNext]_taskVars PROVE [WorkQueue!Next]_<<msg_queue, common>>
    <2> USE DEF WorkQueue!Next
    <2>1. CASE UNCHANGED taskVars
      BY <2>1 DEF taskVars
    <2>2. ASSUME NEW th \in Threads, NEW t \in Tasks, EnqueueTask(th, t)
          PROVE UNCHANGED <<msg_queue, common>>
      BY <2>2 DEF EnqueueTask
    <2>3. ASSUME NEW th \in Threads, ReserveAndPush(th)
          PROVE WorkQueue!Enqueue(task[th]) /\ task[th] \in Tasks
      <3>1. common = NoTask
        BY <1>2, <2>3 DEF IInv, LocalsOK, SemaphoreBalanced, HoldsSemaphore, WorkerHolds, ReserveAndPush
      <3> QED
        BY <1>2, <2>3, <3>1 DEF IInv, LocalsOK, ReserveAndPush, WorkQueue!Enqueue
    <2>4. ASSUME NEW th \in Threads, Continue(th), ~ ReserveAndPush(th)
          PROVE UNCHANGED <<msg_queue, common>>
      BY <2>4 DEF Continue, SemaphoreTake, SemaphoreTakeTimesOut, ReserveFails,
                  EventSet, EventSetReturns, SemaphoreGive
    <2>5. ASSUME GetFront, msg_queue # << >> PROVE WorkQueue!Start
      BY <1>2, <2>5 DEF IInv, LocalsOK, GetFront, WorkQueue!Start
    <2>6. ASSUME TaskReturns PROVE WorkQueue!Finish
      BY <1>2, <2>6 DEF IInv, LocalsOK, TaskReturns, FrontGone, WorkQueue!Finish
    <2>7. ASSUME WorkerNext, ~ TaskReturns, ~ (GetFront /\ msg_queue # << >>)
          PROVE UNCHANGED <<msg_queue, common>>
      BY <2>7 DEF WorkerNext, ExecuteTask, EventWaitTimesOut, WorkerTakes,
                  WorkerTakeTimesOut, GetFront, WorkerGives
    <2> QED
      BY <1>2, <2>1, <2>2, <2>3, <2>4, <2>5, <2>6, <2>7 DEF TaskNext
  <1> QED
    BY Invariance, <1>1, <1>2, PTL DEF TaskSpec, ImplementsWorkQueue, WorkQueue!Spec
=============================================================================
