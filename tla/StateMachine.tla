---------------------------- MODULE StateMachine ----------------------------
(***************************************************************************)
(* service/state_machine: a state machine with events in a ring buffer, and *)
(* a sub machine that runs inside some of its states.  ezSM_Run is one step *)
(* per callback: events may be set, by a callback or an interrupt, between  *)
(* any two of them.                                                        *)
(***************************************************************************)
EXTENDS Naturals, Sequences

CONSTANTS
  SmStates,        \* the states of "main" and those of "sub"
  SmTable,         \* which functions each state has
  SmEvents, SmCapacity,
  SmMaxEvents      \* bound: events accepted since the last ClearAllEvents

Machines == {"main", "sub"}
NoState == "NULL"

ASSUME SmAssumption ==
  /\ DOMAIN SmStates = Machines /\ SmStates["main"] \cap SmStates["sub"] = {}
  /\ \A m \in Machines : /\ NoState \notin SmStates[m] /\ SmStates[m] \subseteq DOMAIN SmTable
                         /\ \A s \in SmStates[m] : SmTable[s].sub_sm => m = "main"
  /\ SmCapacity \in Nat \ {0} /\ SmMaxEvents \in Nat

VARIABLES
  curr_state, next_state, sm_events,
  stage,       \* which machine's Run is where, or "idle"
  sent,        \* history: events accepted since the last ClearAllEvents
  handled,     \* history: those passed to handle_event
  inside,      \* history: states entered and left neither through their exit
               \* nor by SetState
  unentered    \* history: machines that Init put into a state it did not enter

smVars == <<curr_state, next_state, sm_events, stage, sent, handled, inside, unentered>>
smQueues == <<sm_events, sent, handled>>
smVisits == <<inside, unentered>>

At(m, s) == stage = [machine |-> m, at |-> s]
GoTo(m, s) == stage' = [machine |-> m, at |-> s]
smIdle == [machine |-> "main", at |-> "idle"]
Reported(m) == {NoState} \cup SmStates[m]

-----------------------------------------------------------------------------
(* Faulty variants of the definitions below, one plausible slip each.      *)

\* The state that the first entered one reports is entered, what it reports in
\* its turn is not looked at.
EnterOnce(m, r) ==
  IF r \in {NoState, curr_state[m]}
  THEN /\ inside' = [inside EXCEPT ![m] = @ \cup {curr_state[m]}]
       /\ stage' = smIdle /\ UNCHANGED curr_state
  ELSE /\ curr_state' = [curr_state EXCEPT ![m] = r]
       /\ stage' = smIdle /\ UNCHANGED inside

-----------------------------------------------------------------------------
\* The enter function of the initial state may report another state: that one
\* becomes the current state, and its own enter function is not called.
ezSM_Init ==
  /\ \E init_state, reported \in [Machines -> UNION {SmStates[m] : m \in Machines} \cup {NoState}] :
       /\ \A m \in Machines :
            /\ init_state[m] \in SmStates[m] /\ reported[m] \in Reported(m)
            /\ ~SmTable[init_state[m]].enter => reported[m] = NoState
       /\ LET stays(m) == reported[m] \in {NoState, init_state[m]} IN
          /\ curr_state = [m \in Machines |-> IF stays(m) THEN init_state[m] ELSE reported[m]]
          /\ inside = [m \in Machines |-> IF stays(m) THEN {init_state[m]} ELSE {}]
          /\ unentered = {m \in Machines : ~stays(m)}
  /\ next_state = [m \in Machines |-> NoState]
  /\ sm_events = [m \in Machines |-> << >>]
  /\ sent = [m \in Machines |-> << >>] /\ handled = [m \in Machines |-> << >>]
  /\ stage = smIdle

ezSM_Run ==
  /\ stage = smIdle
  /\ next_state' = [next_state EXCEPT !["main"] = NoState]
  /\ GoTo("main", "event")
  /\ UNCHANGED <<curr_state, smQueues, smVisits>>

\* Without a handle_event function events stay where they are.
SmHandlesEvent(m) == SmTable[curr_state[m]].handle_event /\ sm_events[m] # << >>

SmHandleEvent(m) ==
  /\ At(m, "event")
  /\ \/ /\ SmHandlesEvent(m)
        /\ sm_events' = [sm_events EXCEPT ![m] = Tail(@)]
        /\ handled' = [handled EXCEPT ![m] = Append(@, Head(sm_events[m]))]
        /\ \E s \in Reported(m) : next_state' = [next_state EXCEPT ![m] = s]
     \/ /\ ~SmHandlesEvent(m)
        /\ UNCHANGED <<next_state, sm_events, handled>>
  /\ GoTo(m, "act")
  /\ UNCHANGED <<curr_state, sent, smVisits>>

\* No state change: the sub machine runs, else the action.  The sub machine's
\* Run ends its parent's, which has then no state to change to.
SmAct(m) ==
  /\ At(m, "act")
  /\ LET has == SmTable[curr_state[m]] IN
     \/ /\ next_state[m] # NoState
        /\ GoTo(m, "exit") /\ UNCHANGED next_state
     \/ /\ next_state[m] = NoState /\ has.sub_sm
        /\ GoTo("sub", "event")
        /\ next_state' = [next_state EXCEPT !["sub"] = NoState]
     \/ /\ next_state[m] = NoState /\ ~has.sub_sm
        /\ \E s \in IF has.action THEN Reported(m) ELSE {NoState} :
             /\ next_state' = [next_state EXCEPT ![m] = s]
             /\ IF s = NoState THEN stage' = smIdle ELSE GoTo(m, "exit")
  /\ UNCHANGED <<curr_state, smQueues, smVisits>>

Entering(m, s, left) ==
  /\ unentered' = unentered \ {m}
  /\ IF SmTable[s].enter
     THEN GoTo(m, "enter") /\ inside' = [inside EXCEPT ![m] = left \ {s}]
     ELSE stage' = smIdle /\ inside' = [inside EXCEPT ![m] = left \cup {s}]

\* The exit function may report another state than the one the machine goes to.
SmExit(m) ==
  /\ At(m, "exit")
  /\ \E r \in IF SmTable[curr_state[m]].exit THEN Reported(m) ELSE {NoState} :
       LET s == IF r \in {NoState, next_state[m]} THEN next_state[m] ELSE r IN
       /\ curr_state' = [curr_state EXCEPT ![m] = s]
       /\ Entering(m, s, inside[m] \ {curr_state[m]})
  /\ UNCHANGED <<next_state, smQueues>>

\* A state whose enter function reports another one has not been entered.  That
\* one's enter function is called without asking whether it has one.
SmEnterReports(m, r) ==
  IF r \in {NoState, curr_state[m]}
  THEN /\ inside' = [inside EXCEPT ![m] = @ \cup {curr_state[m]}]
       /\ stage' = smIdle /\ UNCHANGED curr_state
  ELSE /\ curr_state' = [curr_state EXCEPT ![m] = r]
       /\ UNCHANGED <<stage, inside>>

SmEnter(m) ==
  /\ At(m, "enter")
  /\ \E r \in {s \in Reported(m) : s = NoState \/ SmTable[s].enter} : SmEnterReports(m, r)
  /\ UNCHANGED <<next_state, smQueues, unentered>>

ezSM_SetEvent(m, e) ==
  /\ Len(sent[m]) < SmMaxEvents
  /\ Len(sm_events[m]) < SmCapacity
  /\ sm_events' = [sm_events EXCEPT ![m] = Append(@, e)]
  /\ sent' = [sent EXCEPT ![m] = Append(@, e)]
  /\ UNCHANGED <<curr_state, next_state, stage, handled, smVisits>>

ezSM_ClearAllEvents(m) ==
  /\ sent[m] # << >>
  /\ sm_events' = [sm_events EXCEPT ![m] = << >>]
  /\ sent' = [sent EXCEPT ![m] = << >>] /\ handled' = [handled EXCEPT ![m] = << >>]
  /\ UNCHANGED <<curr_state, next_state, stage, smVisits>>

\* Between two calls of Run.  The state left is not exited, and what the new
\* one's enter function reports is not looked at.
ezSM_SetState(m, new_state) ==
  /\ stage = smIdle
  /\ curr_state' = [curr_state EXCEPT ![m] = new_state]
  /\ inside' = [inside EXCEPT ![m] = (@ \ {curr_state[m]}) \cup {new_state}]
  /\ unentered' = unentered \ {m}
  /\ UNCHANGED <<next_state, smQueues, stage>>

ezSM_GetCurrState(m) == curr_state[m]

SmNext ==
  \/ ezSM_Run
  \/ \E m \in Machines :
       \/ SmHandleEvent(m) \/ SmAct(m) \/ SmExit(m) \/ SmEnter(m)
       \/ \E e \in SmEvents : ezSM_SetEvent(m, e)
       \/ ezSM_ClearAllEvents(m)
       \/ \E s \in SmStates[m] : ezSM_SetState(m, s)

SmSpec == ezSM_Init /\ [][SmNext]_smVars

-----------------------------------------------------------------------------
(* Type invariant. *)
SmTypeOK ==
  /\ \A m \in Machines :
       /\ curr_state[m] \in SmStates[m] /\ next_state[m] \in Reported(m)
       /\ sm_events[m] \in Seq(SmEvents) /\ Len(sm_events[m]) <= SmCapacity
       /\ inside[m] \subseteq SmStates[m]
  /\ stage.machine \in Machines /\ stage.at \in {"idle", "event", "act", "exit", "enter"}

\* When Run has returned, the current state of each machine is the one state it
\* is inside of: entered last, however often exit and enter functions reported
\* other states, with every other state it entered left through its exit
\* function, or by SetState.  The exception is the state an initial state's
\* enter function reported to Init.  And no event is
\* lost, repeated or overtaken: those handled and those waiting are those sent,
\* whatever states without handle_event the machine went through meanwhile.
SmSettles ==
  \A m \in Machines :
    /\ stage = smIdle =>
         inside[m] = IF m \in unentered THEN {} ELSE {ezSM_GetCurrState(m)}
    /\ handled[m] \o sm_events[m] = sent[m]
=============================================================================
