-------------------------------- MODULE Osal --------------------------------
(***************************************************************************)
(* middlewares/osal: the calls ez_osal.c passes on to the port that         *)
(* ezOsal_SetInterface has chosen, and the two ports, FreeRTOS and ThreadX. *)
(* A call maps the state of the kernel's objects, a record, to the state    *)
(* after it, with the status it returns in the field ret.                   *)
(*                                                                         *)
(* The objects are those of one application: some tasks, one semaphore, one *)
(* timer and one group of event flags.  The kernels are external: what they *)
(* do to an object is read off the port's call of them.  FreeRTOS trusts    *)
(* the handle it is given, so a call on an object that has been deleted is  *)
(* undefined there; ThreadX checks it and reports an error.                *)
(***************************************************************************)
EXTENDS Integers, FiniteSets

CONSTANTS
  OsalTasks,      \* the task handles
  OsalFlags,      \* the flags of the event group
  MaxCount,       \* max_count of the semaphore
  PoolStacks      \* stacks that fit the byte pool of the ThreadX port

ASSUME OsalAssumption == MaxCount \in Nat /\ PoolStacks \in Nat

\* Before any call.  waiting: a task is blocked on the flags; got: what the
\* kernel has handed to it.
NoObjects ==
  [interface |-> "NULL", running |-> FALSE, pool |-> 0,
   task |-> [t \in OsalTasks |-> "none"], semaphore |-> -1, timer |-> "none",
   event |-> "none", flags |-> {}, waiting |-> FALSE, got |-> {},
   ret |-> "ezSUCCESS", undefined |-> FALSE]

Returns(o, status) == [o EXCEPT !.ret = status]
Success(o) == Returns(o, "ezSUCCESS")
Undefined(o) == [o EXCEPT !.undefined = TRUE]

\* A ThreadX call on an object in the right state, or an error code.
IfLegal(legal, after, o) == IF legal THEN Success(after) ELSE Returns(o, "ezFAIL")
\* A FreeRTOS call on an object that exists, or undefined behaviour.
IfExists(exists, after, o) == IF exists THEN after ELSE Undefined(o)

Exists(state) == state \notin {"none", "deleted"}

-----------------------------------------------------------------------------
(* FreeRTOS, ez_osal_freertos.c.  Creating an object also fails when the   *)
(* kernel has no memory for it, and starting or stopping a timer when its  *)
(* queue of commands is full: neither happens with the few objects and     *)
(* commands of the demo, and these two returns of ezFAIL are left out.     *)

ezOsal_FreeRTOSTaskCreate(o, t) == Success([o EXCEPT !.task[t] = "ready"])
ezOsal_FreeRTOSTaskDelete(o, t) ==
  IfExists(Exists(o.task[t]), Success([o EXCEPT !.task[t] = "deleted"]), o)
ezOsal_FreeRTOSTaskSuspend(o, t) ==
  IfExists(Exists(o.task[t]), Success([o EXCEPT !.task[t] = "suspended"]), o)
ezOsal_FreeRTOSTaskResume(o, t) ==
  IfExists(Exists(o.task[t]), Success([o EXCEPT !.task[t] = "ready"]), o)
ezOsal_FreeRTOSTaskDelay(o) == Success(o)
ezOsal_FreeRTOSTaskStartScheduler(o) == [o EXCEPT !.running = TRUE]

\* The semaphore starts empty; a give beyond the maximum is ignored.
ezOsal_FreeRTOSSemaphoreCreate(o) == Success([o EXCEPT !.semaphore = 0])
ezOsal_SemaphoreFreeRTOSDelete(o) ==
  IfExists(o.semaphore >= 0, Success([o EXCEPT !.semaphore = -1]), o)
ezOsal_SemaphoreFreeRTOSTake(o) ==
  IfExists(o.semaphore >= 0,
           IF o.semaphore > 0 THEN Success([o EXCEPT !.semaphore = @ - 1])
           ELSE Returns(o, "ezSTATUS_TIMEOUT"), o)
ezOsal_SemaphoreFreeRTOSGive(o) ==
  IfExists(o.semaphore >= 0,
           Success([o EXCEPT !.semaphore = IF @ < MaxCount THEN @ + 1 ELSE @]), o)

ezOsal_FreeRTOSTimerCreate(o) == Success([o EXCEPT !.timer = "dormant"])
ezOsal_FreeRTOSTimerDelete(o) ==
  IfExists(Exists(o.timer), Success([o EXCEPT !.timer = "deleted"]), o)
ezOsal_FreeRTOSTimerStart(o) ==
  IfExists(Exists(o.timer), Success([o EXCEPT !.timer = "active"]), o)
ezOsal_FreeRTOSTimerStop(o) ==
  IfExists(Exists(o.timer), Success([o EXCEPT !.timer = "dormant"]), o)

ezOsal_FreeRTOSEventCreate(o) == Success([o EXCEPT !.event = "created"])
ezOsal_FreeRTOSEventDelete(o) ==
  IfExists(Exists(o.event),
           Success([o EXCEPT !.event = "deleted", !.waiting = FALSE, !.got = {}]), o)

\* Any flag of the mask ends the wait, which then clears the whole mask.
ezOsal_FreeRTOSEventWait(o, mask) ==
  IfExists(Exists(o.event),
           IF o.flags \cap mask # {}
           THEN [o EXCEPT !.got = o.flags, !.flags = @ \ mask]
           ELSE [o EXCEPT !.waiting = TRUE], o)

\* The bits are compared as they are after a waiting task has cleared them: the
\* set that wakes a task reports failure.
ezOsal_FreeRTOSEventSet(o, mask) ==
  LET all == o.flags \cup mask IN
  IfExists(Exists(o.event),
           IF o.waiting
           THEN Returns([o EXCEPT !.flags = {}, !.waiting = FALSE, !.got = all], "ezFAIL")
           ELSE Success([o EXCEPT !.flags = all]), o)
ezOsal_FreeRTOSEventClear(o, mask) ==
  IfExists(Exists(o.event), Success([o EXCEPT !.flags = @ \ mask]), o)

-----------------------------------------------------------------------------
(* ThreadX, ez_osal_threadx.c.                                             *)

\* Faulty variant: the mask itself is given to TX_AND, not its complement.
ClearAllBut(o, mask) == IfLegal(Exists(o.event), [o EXCEPT !.flags = @ \cap mask], o)

ezOsal_ThreadXInit(o) == Success([o EXCEPT !.pool = PoolStacks])
ezOsal_ThreadXTaskCreate(o, t) ==
  IfLegal(o.pool > 0, [o EXCEPT !.pool = @ - 1, !.task[t] = "ready"], o)

\* A task that deletes itself is terminated and gets no further: the second call
\* of the port is never made.
ezOsal_ThreadXTaskDelete(o, t) ==
  IfLegal(Exists(o.task[t]), [o EXCEPT !.task[t] = "deleted"], o)
ezOsal_ThreadXTaskSuspend(o, t) ==
  IfLegal(Exists(o.task[t]), [o EXCEPT !.task[t] = "suspended"], o)
ezOsal_ThreadXTaskResume(o, t) ==
  IfLegal(o.task[t] = "suspended", [o EXCEPT !.task[t] = "ready"], o)
ezOsal_ThreadXTaskDelay(o) == Success(o)
ezOsal_ThreadXTaskStartScheduler(o) == [o EXCEPT !.running = TRUE]

\* The semaphore starts full, and nothing bounds what is given to it.
ezOsal_ThreadXSemaphoreCreate(o) == Success([o EXCEPT !.semaphore = MaxCount])
ezOsal_SemaphoreThreadXDelete(o) ==
  IfLegal(o.semaphore >= 0, [o EXCEPT !.semaphore = -1], o)
ezOsal_SemaphoreThreadXTake(o) ==
  IF o.semaphore > 0 THEN Success([o EXCEPT !.semaphore = @ - 1])
  ELSE Returns(o, "ezSTATUS_TIMEOUT")
ezOsal_SemaphoreThreadXGive(o) ==
  IfLegal(o.semaphore >= 0, [o EXCEPT !.semaphore = @ + 1], o)

ezOsal_ThreadXTimerCreate(o) == Success([o EXCEPT !.timer = "dormant"])
ezOsal_ThreadXTimerDelete(o) ==
  IfLegal(Exists(o.timer), [o EXCEPT !.timer = "deleted"], o)
ezOsal_ThreadXTimerStart(o) ==
  IfLegal(o.timer = "dormant", [o EXCEPT !.timer = "active"], o)
ezOsal_ThreadXTimerStop(o) ==
  IfLegal(Exists(o.timer), [o EXCEPT !.timer = "dormant"], o)

ezOsal_ThreadXEventCreate(o) == Success([o EXCEPT !.event = "created"])
ezOsal_ThreadXEventDelete(o) ==
  IfLegal(Exists(o.event), [o EXCEPT !.event = "deleted", !.waiting = FALSE, !.got = {}], o)

\* TX_OR: the flags stay set until somebody clears them.
ezOsal_ThreadXOSEventWait(o, mask) ==
  IF ~Exists(o.event) THEN [o EXCEPT !.got = {}]
  ELSE IF o.flags \cap mask # {} THEN [o EXCEPT !.got = o.flags]
  ELSE [o EXCEPT !.waiting = TRUE]
ezOsal_ThreadXEventSet(o, mask) ==
  LET all == o.flags \cup mask IN
  IfLegal(Exists(o.event),
          [o EXCEPT !.flags = all, !.waiting = FALSE, !.got = IF o.waiting THEN all ELSE @], o)
ezOsal_ThreadXEventClear(o, mask) ==
  IfLegal(Exists(o.event), [o EXCEPT !.flags = @ \ mask], o)

-----------------------------------------------------------------------------
(* ez_osal.c: each call reaches the port, or fails when there is none.      *)

Implemented(o, freertos, threadx) ==
  IF o.interface = "freertos" THEN freertos
  ELSE IF o.interface = "threadx" THEN threadx
  ELSE Returns(o, "ezFAIL")

ezOsal_SetInterface(o, port) == Success([o EXCEPT !.interface = port])
\* The FreeRTOS port has no Init.
ezOsal_Init(o) == Implemented(o, Returns(o, "ezFAIL"), ezOsal_ThreadXInit(o))

ezOsal_TaskCreate(o, t) ==
  Implemented(o, ezOsal_FreeRTOSTaskCreate(o, t), ezOsal_ThreadXTaskCreate(o, t))
ezOsal_TaskDelete(o, t) ==
  Implemented(o, ezOsal_FreeRTOSTaskDelete(o, t), ezOsal_ThreadXTaskDelete(o, t))
ezOsal_TaskSuspend(o, t) ==
  Implemented(o, ezOsal_FreeRTOSTaskSuspend(o, t), ezOsal_ThreadXTaskSuspend(o, t))
ezOsal_TaskResume(o, t) ==
  Implemented(o, ezOsal_FreeRTOSTaskResume(o, t), ezOsal_ThreadXTaskResume(o, t))
ezOsal_TaskDelay(o) == Implemented(o, ezOsal_FreeRTOSTaskDelay(o), ezOsal_ThreadXTaskDelay(o))
ezOsal_TaskStartScheduler(o) ==
  Implemented(o, ezOsal_FreeRTOSTaskStartScheduler(o), ezOsal_ThreadXTaskStartScheduler(o))

ezOsal_SemaphoreCreate(o) ==
  Implemented(o, ezOsal_FreeRTOSSemaphoreCreate(o), ezOsal_ThreadXSemaphoreCreate(o))
ezOsal_SemaphoreDelete(o) ==
  Implemented(o, ezOsal_SemaphoreFreeRTOSDelete(o), ezOsal_SemaphoreThreadXDelete(o))
ezOsal_SemaphoreTake(o) ==
  Implemented(o, ezOsal_SemaphoreFreeRTOSTake(o), ezOsal_SemaphoreThreadXTake(o))
ezOsal_SemaphoreGive(o) ==
  Implemented(o, ezOsal_SemaphoreFreeRTOSGive(o), ezOsal_SemaphoreThreadXGive(o))

ezOsal_TimerCreate(o) == Implemented(o, ezOsal_FreeRTOSTimerCreate(o), ezOsal_ThreadXTimerCreate(o))
ezOsal_TimerDelete(o) == Implemented(o, ezOsal_FreeRTOSTimerDelete(o), ezOsal_ThreadXTimerDelete(o))
ezOsal_TimerStart(o) == Implemented(o, ezOsal_FreeRTOSTimerStart(o), ezOsal_ThreadXTimerStart(o))
ezOsal_TimerStop(o) == Implemented(o, ezOsal_FreeRTOSTimerStop(o), ezOsal_ThreadXTimerStop(o))

ezOsal_EventCreate(o) == Implemented(o, ezOsal_FreeRTOSEventCreate(o), ezOsal_ThreadXEventCreate(o))
ezOsal_EventDelete(o) == Implemented(o, ezOsal_FreeRTOSEventDelete(o), ezOsal_ThreadXEventDelete(o))
ezOsal_EventWait(o, mask) ==
  Implemented(o, ezOsal_FreeRTOSEventWait(o, mask), ezOsal_ThreadXOSEventWait(o, mask))
ezOsal_EventSet(o, mask) ==
  Implemented(o, ezOsal_FreeRTOSEventSet(o, mask), ezOsal_ThreadXEventSet(o, mask))
ezOsal_EventClear(o, mask) ==
  Implemented(o, ezOsal_FreeRTOSEventClear(o, mask), ezOsal_ThreadXEventClear(o, mask))
=============================================================================
