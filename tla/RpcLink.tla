------------------------------ MODULE RpcLink ------------------------------
(***************************************************************************)
(* What service/rpc promises the applications on both ends: messages are   *)
(* handled in the order they were sent, each at most once, some never; a   *)
(* request stays open until a response with its uuid arrives.              *)
(***************************************************************************)
EXTENDS Naturals, Sequences, FiniteSets

CONSTANTS Nodes, REQ, RESP

VARIABLES
  crc,       \* whether payloads are protected
  damaged,   \* whether the line has lost or changed a byte
  confused,  \* confused[n]: n has met a command it does not know
  sent, handled,
  open,      \* open[n]: the requests of n that wait for a response
  pending    \* pending[n]: how many n says there are

vars == <<crc, damaged, confused, sent, handled, open, pending>>

Peer(n) == CHOOSE p \in Nodes : p # n

Init ==
  /\ crc \in BOOLEAN
  /\ damaged = FALSE
  /\ confused = [n \in Nodes |-> FALSE]
  /\ sent = [n \in Nodes |-> << >>]
  /\ handled = [n \in Nodes |-> << >>]
  /\ open = [n \in Nodes |-> {}]
  /\ pending = [n \in Nodes |-> 0]

Request(n, m) ==
  /\ m.header.type = REQ
  /\ \A i \in 1 .. Len(sent[n]) :
       sent[n][i].header.type = REQ => sent[n][i].header.uuid # m.header.uuid
  /\ sent' = [sent EXCEPT ![n] = Append(@, m)]
  /\ open' = [open EXCEPT ![n] = @ \cup {m.header.uuid}]
  /\ UNCHANGED <<crc, damaged, confused, handled>>

\* m is the i-th message sent to n, and none from there on has been handled.
NextFor(n, m) ==
  \E i \in 1 .. Len(sent[Peer(n)]) :
    /\ m = sent[Peer(n)][i]
    /\ \A j \in 1 .. Len(handled[n]), k \in i .. Len(sent[Peer(n)]) :
         handled[n][j] # sent[Peer(n)][k]

Authentic(n, m) ==
  \/ confused[n]
  \/ NextFor(n, m)
  \/ damaged /\ (crc => \E i \in 1 .. Len(sent[Peer(n)]) : m.payload = sent[Peer(n)][i].payload)

\* The message the step adds to sent[n], or to handled[n].
Sends(n) == Len(sent'[n]) > Len(sent[n])
LastSent(n) == sent'[n][Len(sent'[n])]
Handles(n) == Len(handled'[n]) > Len(handled[n])
LastHandled(n) == handled'[n][Len(handled'[n])]

\* A request may be answered as it is handled, with its own uuid.
Answer(n, m) ==
  /\ Sends(n)
  /\ m.header.type # RESP
  /\ LastSent(n).header.type = RESP /\ LastSent(n).header.uuid = m.header.uuid
  /\ sent' = [sent EXCEPT ![n] = Append(@, LastSent(n))]

Handle(n, m) ==
  /\ Authentic(n, m)
  /\ m.header.type = RESP => m.header.uuid \in open[n] \/ damaged \/ confused[n]
  /\ handled' = [handled EXCEPT ![n] = Append(@, m)]
  /\ open' = IF m.header.type = RESP THEN [open EXCEPT ![n] = @ \ {m.header.uuid}] ELSE open
  /\ UNCHANGED sent \/ Answer(n, m)
  /\ UNCHANGED <<crc, damaged, confused>>

\* A response with a header nobody wrote closes a request all the same.
MisreadResponse(n) ==
  /\ damaged \/ confused[n]
  /\ \E u \in open[n] : open' = [open EXCEPT ![n] = @ \ {u}]
  /\ confused' \in {confused, [confused EXCEPT ![n] = TRUE]}
  /\ UNCHANGED <<crc, damaged, sent, handled>>

MeetUnknown(n) ==
  /\ confused' = [confused EXCEPT ![n] = TRUE]
  /\ UNCHANGED <<crc, damaged, sent, handled, open>>

Damage == damaged' = TRUE /\ UNCHANGED <<crc, confused, sent, handled, open>>

Next ==
  /\ \/ Damage
     \/ \E n \in Nodes :
          \/ ~Handles(n) /\ Sends(n) /\ Request(n, LastSent(n))
          \/ Handles(n) /\ Handle(n, LastHandled(n))
          \/ MisreadResponse(n)
          \/ MeetUnknown(n)
  /\ pending' = [n \in Nodes |-> Cardinality(open'[n])]

Spec == Init /\ [][Next]_vars
=============================================================================
