------------------------------ MODULE EventBus ------------------------------
(***************************************************************************)
(* service/event_bus: a bus queues events, each as two elements (the code  *)
(* and the data), and ezEventBus_Run calls every listener on its linked    *)
(* list with the oldest one.  Callbacks run inside the loop over the list  *)
(* and may call the bus themselves.                                        *)
(***************************************************************************)
EXTENDS Naturals, Sequences, FiniteSets

CONSTANTS
  Bus,           \* the head of the list of listeners
  Listeners,     \* the nodes embedded in the listeners
  Events,        \* the events, a code and its data
  NoEvent,
  BusCapacity,   \* elements the bus has memory for
  MaxSends       \* bound: calls of ezEventBus_SendEvent

ASSUME BusAssumption ==
  /\ NoEvent \notin Events \cup Listeners
  /\ BusCapacity \in Nat /\ MaxSends \in Nat
ASSUME ListAssumption == {Bus} \cap Listeners = {} /\ IsFiniteSet({Bus} \cup Listeners)

VARIABLES
  bus_next, bus_prev,   \* the pointers of the head and of the listeners' nodes
  callbacks,            \* the listeners whose callback is set
  event_queue,          \* elements: <<"code", e>> or <<"data", e>>
  bus_pc,               \* "idle", in the "loop" of a Run, or in a "callback"
  it_node,              \* the loop's node
  event,                \* what Run has read: <<code, data>>
  sends,                \* calls of SendEvent so far
  bus_orderly           \* history: no caller has broken a rule of the bus

List == INSTANCE LinkedList WITH
          Heads <- {Bus}, Items <- Listeners, next <- bus_next, prev <- bus_prev

busVars == <<bus_next, bus_prev, callbacks, event_queue, bus_pc, it_node, event,
             sends, bus_orderly>>
busLinks == <<bus_next, bus_prev>>
busLoop == <<bus_pc, it_node, event>>

\* The bus is called between two calls of Run, or by a callback.  Bound: when
\* a rule has been broken events are still sent and run, nothing else is called.
Calling == bus_pc \in {"idle", "callback"}
BusRule(rule) == bus_orderly' = (bus_orderly /\ rule)

-----------------------------------------------------------------------------
(* Faulty variants of the definitions below, one plausible slip each.      *)

\* The predecessor keeps pointing to the node.
UnlinkForgetsNext(l) ==
  /\ bus_next' = [bus_next EXCEPT ![l] = l]
  /\ bus_prev' = [bus_prev EXCEPT ![bus_next[l]] = bus_prev[l], ![l] = l]

\* What was reserved is pushed even if the other element was refused.
PushWhatFits(e) ==
  event_queue' = IF Len(event_queue) + 2 <= BusCapacity
                 THEN event_queue \o <<<<"code", e>>, <<"data", e>>>>
                 ELSE IF Len(event_queue) < BusCapacity THEN Append(event_queue, <<"code", e>>)
                 ELSE event_queue

-----------------------------------------------------------------------------
BusInit ==
  /\ bus_next = [n \in {Bus} \cup Listeners |-> n]
  /\ bus_prev = [n \in {Bus} \cup Listeners |-> n]
  /\ callbacks = {}
  /\ event_queue = << >>
  /\ bus_pc = "idle" /\ it_node = Bus /\ event = <<NoEvent, NoEvent>>
  /\ sends = 0
  /\ bus_orderly = TRUE

ezEventBus_CreateListener(l) ==
  /\ bus_pc = "idle"
  /\ callbacks' = callbacks \cup {l}
  /\ UNCHANGED <<busLinks, event_queue, busLoop, sends, bus_orderly>>

IsListening(l) == List!IsNodeInList(Bus, l)
ezEventBus_GetNumOfListeners == List!GetListSize(Bus)

\* Whether the listener is already on the list is not looked at: linking a
\* node twice leaves a list that does not come back to its head.
ezEventBus_Listen(l) ==
  /\ Calling /\ bus_orderly
  /\ List!Link(l, bus_next[Bus])
  /\ BusRule(bus_pc = "idle" /\ l \in callbacks /\ ~IsListening(l))
  /\ UNCHANGED <<callbacks, event_queue, busLoop, sends>>

UnlinkNode(l) == List!Unlink(l)

ezEventBus_Unlisten(l) ==
  /\ Calling /\ bus_orderly
  /\ IsListening(l)
  /\ UnlinkNode(l)
  /\ BusRule(~(bus_pc = "callback" /\ it_node = l))
  /\ UNCHANGED <<callbacks, event_queue, busLoop, sends>>

\* Both elements are reserved before either is pushed; if one is refused the
\* other is released.
PushEvent(e) ==
  event_queue' = IF Len(event_queue) + 2 <= BusCapacity
                 THEN event_queue \o <<<<"code", e>>, <<"data", e>>>>
                 ELSE event_queue

ezEventBus_SendEvent(e) ==
  /\ Calling
  /\ sends < MaxSends
  /\ sends' = sends + 1
  /\ PushEvent(e)
  /\ UNCHANGED <<busLinks, callbacks, busLoop, bus_orderly>>

\* The listeners' nodes keep pointing into the list they were on.
ezEventBus_ResetBus ==
  /\ Calling /\ bus_orderly
  /\ bus_next' = [bus_next EXCEPT ![Bus] = Bus]
  /\ bus_prev' = [bus_prev EXCEPT ![Bus] = Bus]
  /\ event_queue' = << >>
  /\ BusRule(bus_pc = "idle")
  /\ UNCHANGED <<callbacks, busLoop, sends>>

-----------------------------------------------------------------------------
(* ezEventBus_Run. *)

\* Only the size tells a code from data, and data may be as large as a code.
BusBegin ==
  /\ bus_pc = "idle" /\ Len(event_queue) >= 2
  /\ event' = <<event_queue[1][2], event_queue[2][2]>>
  /\ event_queue' = Tail(event_queue)
  /\ it_node' = bus_next[Bus]
  /\ bus_pc' = "loop"
  /\ UNCHANGED <<busLinks, callbacks, sends, bus_orderly>>

BusBadCode ==
  /\ bus_pc = "idle" /\ Len(event_queue) >= 2
  /\ event_queue[1][1] = "data"
  /\ event_queue' = SubSeq(event_queue, 3, Len(event_queue))
  /\ UNCHANGED <<busLinks, callbacks, busLoop, sends, bus_orderly>>

BusNotify ==
  /\ bus_pc = "loop" /\ it_node # Bus
  /\ IF it_node \in callbacks
     THEN bus_pc' = "callback" /\ UNCHANGED it_node
     ELSE it_node' = bus_next[it_node] /\ UNCHANGED bus_pc
  /\ UNCHANGED <<busLinks, callbacks, event_queue, event, sends, bus_orderly>>

BusReturn ==
  /\ bus_pc = "callback"
  /\ bus_pc' = "loop"
  /\ it_node' = bus_next[it_node]
  /\ UNCHANGED <<busLinks, callbacks, event_queue, event, sends, bus_orderly>>

BusEnd ==
  /\ bus_pc = "loop" /\ it_node = Bus
  /\ bus_pc' = "idle"
  /\ event' = <<NoEvent, NoEvent>>
  /\ event_queue' = IF event_queue = << >> THEN << >> ELSE Tail(event_queue)
  /\ UNCHANGED <<busLinks, callbacks, it_node, sends, bus_orderly>>

ezEventBus_Run == BusBegin \/ BusBadCode \/ BusNotify \/ BusReturn \/ BusEnd

BusNext ==
  \/ ezEventBus_Run
  \/ ezEventBus_ResetBus
  \/ \E l \in Listeners :
       ezEventBus_CreateListener(l) \/ ezEventBus_Listen(l) \/ ezEventBus_Unlisten(l)
  \/ \E e \in Events : ezEventBus_SendEvent(e)

BusSpec == BusInit /\ [][BusNext]_busVars

\* The bus is run again and again, and its callbacks return.
BusFairness == WF_busVars(ezEventBus_Run)

-----------------------------------------------------------------------------
BusTypeOK ==
  /\ bus_next \in [{Bus} \cup Listeners -> {Bus} \cup Listeners]
  /\ bus_prev \in [{Bus} \cup Listeners -> {Bus} \cup Listeners]
  /\ callbacks \subseteq Listeners
  /\ event_queue \in Seq({"code", "data"} \X Events)
  /\ bus_pc \in {"idle", "loop", "callback"}
  /\ it_node \in {Bus} \cup Listeners
  /\ event \in (Events \cup {NoEvent}) \X (Events \cup {NoEvent})
  /\ sends \in 0 .. MaxSends /\ bus_orderly \in BOOLEAN

\* The listeners the loop has still to call: from its node on, without the one
\* it is calling.
StillDue ==
  LET l == List!ForEach(Bus)
      due(j) == \E i \in 1 .. j : /\ l[i] = it_node
                                  /\ bus_pc = "loop" \/ (bus_pc = "callback" /\ i < j)
  IN {l[j] : j \in {j \in 1 .. ezEventBus_GetNumOfListeners : due(j)}}

\* The events queued, each a code followed by its data; while an event is
\* announced its own data is in front.
Waiting ==
  LET code(i) == 2 * i - 1 + (Len(event_queue) % 2)
      sent(e, i) == event_queue[code(i)] = <<"code", e>> /\ event_queue[code(i) + 1] = <<"data", e>>
  IN [i \in 1 .. Len(event_queue) \div 2 |->
        IF \E e \in Events : sent(e, i) THEN event_queue[code(i)][2] ELSE NoEvent]

\* As long as its callers keep the rules (nobody listens twice, listens from a
\* callback or leaves in its own callback), the bus is the announcer: every
\* event is heard once by everyone who stays, whoever leaves meanwhile, with
\* the data it was sent with.
Announce == INSTANCE Announcer WITH
  People <- Listeners, Nothing <- NoEvent,
  misused <- ~bus_orderly,
  queue <- Waiting,
  listening <- {l \in Listeners : IsListening(l)},
  topic <- IF event[1] = event[2] THEN event[1] ELSE <<event>>,
  due <- IF bus_orderly THEN StillDue ELSE {},
  teller <- IF bus_pc = "callback" THEN it_node ELSE NoEvent

BusImplementsAnnouncer == Announce!Spec

\* A call of Run returns, whatever its callbacks do within the rules.
BusRunEnds == bus_pc # "idle" ~> (bus_pc = "idle" \/ ~bus_orderly)
=============================================================================
