CONSTANTS
  Callers = {c1, c2}
  Worker = w
  Tasks = {t1, t2}
  NoTask = no_task
  Capacity = 2
  Port = "FreeRTOS"
  GivenAtStart = 1
  WorkerTicks = "finite"
SPECIFICATION TaskSpec
INVARIANT ResultMatchesQueue
