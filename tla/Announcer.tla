----------------------------- MODULE Announcer -----------------------------
(***************************************************************************)
(* What service/event_bus promises: events are announced one at a time, in *)
(* the order they were sent, and everyone who is listening when an event   *)
(* is taken up and does not leave hears it exactly once.                   *)
(***************************************************************************)
EXTENDS Naturals, Sequences

CONSTANTS People, Events, Nothing

VARIABLES
  misused,    \* a caller has broken a rule of the bus: nothing is promised
  queue,      \* the events sent and not yet taken up
  listening,
  topic,      \* the event being announced
  due,        \* those who have still to hear it
  teller      \* whom the announcer is talking to

vars == <<misused, queue, listening, topic, due, teller>>

Init ==
  /\ misused = FALSE
  /\ queue = << >> /\ listening = {}
  /\ topic = Nothing /\ due = {} /\ teller = Nothing

Send(e) ==
  /\ queue' = Append(queue, e)
  /\ UNCHANGED <<misused, listening, topic, due, teller>>

Clear ==
  /\ topic = Nothing
  /\ queue' = << >> /\ listening' = {}
  /\ UNCHANGED <<misused, topic, due, teller>>

Join(p) ==
  /\ topic = Nothing
  /\ listening' = listening \cup {p}
  /\ UNCHANGED <<misused, queue, topic, due, teller>>

Leave(p) ==
  /\ p # teller
  /\ listening' = listening \ {p} /\ due' = due \ {p}
  /\ UNCHANGED <<misused, queue, topic, teller>>

TakeUp ==
  /\ topic = Nothing /\ queue # << >>
  /\ topic' = Head(queue) /\ queue' = Tail(queue) /\ due' = listening
  /\ UNCHANGED <<misused, listening, teller>>

Tell(p) ==
  /\ topic # Nothing /\ teller = Nothing /\ p \in due
  /\ teller' = p /\ due' = due \ {p}
  /\ UNCHANGED <<misused, queue, listening, topic>>

Told ==
  /\ teller' = Nothing
  /\ UNCHANGED <<misused, queue, listening, topic, due>>

Close ==
  /\ due = {} /\ teller = Nothing
  /\ topic' = Nothing
  /\ UNCHANGED <<misused, queue, listening, due, teller>>

Next ==
  \/ misused'
  \/ \E e \in Events : Send(e)
  \/ \E p \in People : Join(p) \/ Leave(p) \/ Tell(p)
  \/ Clear \/ TakeUp \/ Told \/ Close

Spec == Init /\ [][Next]_vars
=============================================================================
