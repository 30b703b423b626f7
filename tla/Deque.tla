------------------------------- MODULE Deque -------------------------------
(***************************************************************************)
(* What ezQueue promises its callers: payloads come out in the order they  *)
(* were pushed (or the reverse, from the back), unchanged; an element that *)
(* is only reserved is not in the queue.                                   *)
(***************************************************************************)
EXTENDS Naturals, Sequences, SequencesExt

CONSTANTS Queues, Payload

VARIABLES
  elements,   \* elements[q]: the payloads in q, front first
  pending     \* pending[q]: how many reserved elements callers of q hold

vars == <<elements, pending>>

Init ==
  /\ elements = [q \in Queues |-> << >>]
  /\ pending = [q \in Queues |-> 0]

Create(q) ==
  /\ elements' = [elements EXCEPT ![q] = << >>]
  /\ pending' = [pending EXCEPT ![q] = 0]

Reserve(q) ==
  /\ pending' = [pending EXCEPT ![q] = @ + 1]
  /\ UNCHANGED elements

GiveBack(q) ==
  /\ pending[q] > 0
  /\ pending' = [pending EXCEPT ![q] = @ - 1]
  /\ UNCHANGED elements

PushReserved(q, p) ==
  /\ pending[q] > 0
  /\ pending' = [pending EXCEPT ![q] = @ - 1]
  /\ elements' = [elements EXCEPT ![q] = Append(@, p)]

Push(q, p) ==
  /\ elements' = [elements EXCEPT ![q] = Append(@, p)]
  /\ UNCHANGED pending

PopFront(q) ==
  /\ elements[q] # << >>
  /\ elements' = [elements EXCEPT ![q] = Tail(@)]
  /\ UNCHANGED pending

PopBack(q) ==
  /\ elements[q] # << >>
  /\ elements' = [elements EXCEPT ![q] = Front(@)]
  /\ UNCHANGED pending

Next ==
  \E q \in Queues :
    \/ Create(q) \/ Reserve(q) \/ GiveBack(q) \/ PopFront(q) \/ PopBack(q)
    \/ \E p \in Payload : Push(q, p) \/ PushReserved(q, p)

Spec == Init /\ [][Next]_vars
=============================================================================
