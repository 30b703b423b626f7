------------------------------ MODULE OsalApp ------------------------------
(***************************************************************************)
(* samples/app/app_osal on top of the OSAL: three tasks and a timer that    *)
(* start, stop and delete one another.  Delays and timeouts are not timed:  *)
(* a delay may take any time, whatever else does.                           *)
(***************************************************************************)
EXTENDS Osal

CONSTANTS
  CountRange,      \* the counts of tasks 1 and 2 are modulo this (uint8_t: 256)
  MaxElapsed,      \* bound: how often the timer elapses
  MaxStarts        \* bound: calls of ezApp_StartOsalApp

FLAG0 == "flag0"   FLAG1 == "flag1"   FLAG2 == "flag2"

ASSUME OsalAppAssumption ==
  /\ OsalTasks = {"task1", "task2", "task3"} /\ OsalFlags = {FLAG0, FLAG1, FLAG2}
  /\ CountRange \in Nat \ (0 .. 5) /\ MaxElapsed \in Nat \ (0 .. 4) /\ MaxStarts \in Nat

VARIABLES
  os,            \* the kernel's objects
  counts,        \* count of tasks 1 and 2
  elapsed,       \* count of TimerElapseCallback
  callback,      \* the timer's callback is "running" its second part
  task3,         \* where task 3 is, and its bit_mask
  starts

osalVars == <<os, counts, elapsed, callback, task3, starts>>

-----------------------------------------------------------------------------
ezApp_OsalInit(o) ==
  LET created == ezOsal_EventCreate(ezOsal_TaskCreate(ezOsal_TaskCreate(ezOsal_TaskCreate(
                   ezOsal_TimerCreate(ezOsal_SemaphoreCreate(o)), "task1"), "task2"), "task3"))
  IN ezOsal_TaskSuspend(ezOsal_TaskSuspend(ezOsal_TaskSuspend(created, "task1"), "task2"), "task3")

\* main of the two samples: on ThreadX the scheduler calls the initialisation.
Started(port) ==
  LET chosen == ezOsal_SetInterface(NoObjects, port) IN
  IF port = "threadx" THEN ezApp_OsalInit(ezOsal_Init(ezOsal_TaskStartScheduler(chosen)))
  ELSE ezOsal_TaskStartScheduler(ezApp_OsalInit(chosen))

OsalInit ==
  /\ \E port \in {"freertos", "threadx"} : os = Started(port)
  /\ counts = [t \in {"task1", "task2"} |-> 0] /\ elapsed = 0 /\ callback = "none"
  /\ task3 = [at |-> "wait", bit_mask |-> {}] /\ starts = 0

ezApp_StartOsalApp ==
  /\ starts < MaxStarts
  /\ starts' = starts + 1
  /\ os' = ezOsal_TaskResume(ezOsal_TaskResume(ezOsal_TimerStart(os), "task1"), "task3")
  /\ UNCHANGED <<counts, elapsed, callback, task3>>

\* A round of task 1 or 2, up to its delay: the fifth has its effect.
Round(t, fifth) ==
  /\ os.running /\ os.task[t] = "ready"
  /\ counts' = [counts EXCEPT ![t] = (@ + 1) % CountRange]
  /\ os' = ezOsal_TaskDelay(IF counts'[t] = 5 THEN fifth ELSE os)
  /\ UNCHANGED <<elapsed, callback, task3, starts>>

Task1Function == Round("task1", ezOsal_TaskResume(os, "task2"))
Task2Function == Round("task2", ezOsal_TaskDelete(os, "task1"))

\* The callback makes two calls; other tasks may run in between.
TimerElapses ==
  /\ os.running /\ os.timer = "active" /\ callback = "none" /\ elapsed < MaxElapsed
  /\ callback' = "running"
  /\ os' = IF elapsed = 2 THEN ezOsal_TaskDelete(os, "task2")
           ELSE IF elapsed = 4 THEN ezOsal_EventSet(os, {FLAG2})
           ELSE os
  /\ UNCHANGED <<counts, elapsed, task3, starts>>

TimerElapseCallback ==
  /\ callback = "running"
  /\ callback' = "none" /\ elapsed' = elapsed + 1
  /\ os' = ezOsal_EventSet(os, {IF elapsed % 2 = 0 THEN FLAG0 ELSE FLAG1})
  /\ UNCHANGED <<counts, task3, starts>>

GoesOn(at, bit_mask) == task3' = [at |-> at, bit_mask |-> bit_mask]

Waits ==
  LET o == ezOsal_EventWait(os, OsalFlags) IN
  /\ task3.at = "wait"
  /\ os' = o
  /\ IF o.waiting THEN GoesOn("waiting", {}) ELSE GoesOn("seen", o.got)

\* The kernel has handed the flags over, or the wait times out.
Wakes ==
  /\ task3.at = "waiting"
  /\ \/ ~os.waiting /\ GoesOn("seen", os.got) /\ UNCHANGED os
     \/ os.waiting /\ GoesOn("wait", {}) /\ os' = [os EXCEPT !.waiting = FALSE]

\* The flags seen are cleared one by one.
Clears ==
  LET seen == task3.bit_mask
      flag == IF FLAG0 \in seen THEN FLAG0 ELSE IF FLAG1 \in seen THEN FLAG1 ELSE FLAG2
  IN /\ task3.at = "seen"
     /\ \/ /\ seen = {}
           /\ GoesOn("wait", {}) /\ os' = ezOsal_TaskDelay(os)
        \/ /\ seen # {}
           /\ GoesOn(IF flag = FLAG2 THEN "stop timer" ELSE "seen", seen \ {flag})
           /\ os' = ezOsal_EventClear(os, {flag})

Stops ==
  \/ /\ task3.at = "stop timer"
     /\ GoesOn("stop itself", {}) /\ os' = ezOsal_TimerDelete(os)
  \/ /\ task3.at = "stop itself"
     /\ GoesOn("wait", {}) /\ os' = ezOsal_TaskDelete(os, "task3")

Task3Function ==
  /\ os.running /\ os.task["task3"] = "ready"
  /\ Waits \/ Wakes \/ Clears \/ Stops
  /\ UNCHANGED <<counts, elapsed, callback, starts>>

\* Calls the demo does not make, once it has stopped: its semaphore's, and
\* deleting what is left.  Bound: nothing is given beyond MaxCount + 1.
OtherCalls ==
  /\ os.task["task3"] = "deleted" /\ callback = "none"
  /\ \/ os' = ezOsal_SemaphoreTake(os)
     \/ os.semaphore <= MaxCount /\ os' = ezOsal_SemaphoreGive(os)
     \/ os' = ezOsal_TimerStop(os)
     \/ os' = ezOsal_SemaphoreDelete(os)
     \/ os' = ezOsal_EventDelete(os)
  /\ UNCHANGED <<counts, elapsed, callback, task3, starts>>

\* Nothing is said of what follows undefined behaviour.
OsalNext ==
  /\ ~os.undefined
  /\ \/ ezApp_StartOsalApp
     \/ Task1Function
     \/ Task2Function
     \/ TimerElapses
     \/ TimerElapseCallback
     \/ Task3Function
     \/ OtherCalls

\* A ready task runs, an active timer elapses, and its callback is finished.
OsalFairness ==
  /\ WF_osalVars(Task3Function /\ ~os.undefined)
  /\ WF_osalVars(TimerElapses /\ ~os.undefined)
  /\ WF_osalVars(TimerElapseCallback /\ ~os.undefined)

OsalSpec == OsalInit /\ [][OsalNext]_osalVars /\ OsalFairness

-----------------------------------------------------------------------------
(* Type invariant. *)
OsalTypeOK ==
  /\ os.interface \in {"freertos", "threadx"}
  /\ os.task \in [OsalTasks -> {"ready", "suspended", "deleted"}]
  /\ os.semaphore \in -1 .. MaxCount + 1
  /\ os.timer \in {"dormant", "active", "deleted"} /\ os.event \in {"created", "deleted"}
  /\ os.flags \subseteq OsalFlags /\ os.got \subseteq OsalFlags
  /\ os.waiting => os.event = "created" /\ task3.at = "waiting"
  /\ counts \in [{"task1", "task2"} -> 0 .. CountRange - 1]
  /\ elapsed \in 0 .. MaxElapsed /\ callback \in {"none", "running"}

\* Once started the demo comes to its end on both kernels: task 3 sees the flag
\* the timer sets only once, whether it is waiting for it, clearing others, or
\* delayed, and deletes the timer and itself; unless a deleted object is used
\* where nothing checks it.
OsalAppEnds ==
  starts > 0 ~> \/ os.timer = "deleted" /\ os.task["task3"] = "deleted"
                \/ os.undefined
=============================================================================
