---------------------------- MODULE UtilitiesMC ----------------------------
(***************************************************************************)
(* The parts that keep a state of their own and use no other part, model-  *)
(* checked in one run: the linked list, the ring buffer, the allocator and *)
(* the task worker.  A behaviour is one of a single part, chosen at the    *)
(* start; the others keep their initial state, of which each has one.      *)
(***************************************************************************)
EXTENDS LinkedList, RingBuffer, StaticAlloc, TaskWorker

VARIABLE part

utilitiesVars == <<part, listVars, ringVars, vars, taskVars>>

UtilitiesInit ==
  /\ part \in {"list", "ring", "heap", "worker"}
  /\ ListInit /\ RingInit /\ Init /\ TaskInit

ListAlone == part = "list" /\ UNCHANGED <<part, ringVars, vars, taskVars>>
RingAlone == part = "ring" /\ UNCHANGED <<part, listVars, vars, taskVars>>
HeapAlone == part = "heap" /\ UNCHANGED <<part, listVars, ringVars, taskVars>>
TaskAlone == part = "worker" /\ UNCHANGED <<part, listVars, ringVars, vars>>

UtilitiesNext ==
  \/ ListAlone /\ ListNext
  \/ RingAlone /\ RingNext
  \/ HeapAlone /\ Next
  \/ TaskAlone /\ TaskNext

\* TaskFairness, of the part that runs.
UtilitiesFairness ==
  /\ WF_utilitiesVars(TaskAlone /\ WorkerNext)
  /\ \A th \in Threads : WF_utilitiesVars(TaskAlone /\ Continue(th))

UtilitiesSpec == UtilitiesInit /\ [][UtilitiesNext]_utilitiesVars /\ UtilitiesFairness
=============================================================================
