-------------------------------- MODULE Rpc --------------------------------
(***************************************************************************)
(* service/rpc: two instances of ezRpc joined by a pair of byte streams.   *)
(* Each instance polls ezRPC_Run, which reads whatever bytes have arrived, *)
(* handles one received message and transmits one queued one; one action   *)
(* here is one byte read or one of those steps.  A frame has its real      *)
(* number of bytes, because the unmarshaler compares the synchronisation   *)
(* bytes in pairs; the CRC is the application's.  The memory of a queue is  *)
(* counted in elements.                                                    *)
(***************************************************************************)
EXTENDS Integers, Sequences, FiniteSets

CONSTANTS
  Nodes,        \* the instances
  Commands,     \* the ids in the command table, the same at every instance
  AskedIds,     \* the ids requests are made with
  Payloads,     \* the payloads requests carry: sequences of bytes
  Reply,        \* the payload of every response
  Crc(_),       \* what the CRC handler calculates
  Records,      \* CONFIG_NUM_OF_REQUEST
  TxCapacity,   \* elements a transmit queue has memory for
  RxCapacity,   \* elements a receive queue has memory for
  MaxBlock,     \* the largest payload a receive queue has memory for
  MaxRequests,  \* bound: MaxRequests[n] requests by n
  MaxFaults,    \* bound: bytes the line loses or damages
  Misread,      \* the headers a payload can be taken for
  Noise         \* what a damaged byte can become

REQ == 0    RESP == 1    EVENT == 2

SYNC_BYTES == 202 * 256 + 254
SYNC_SIZE == 2    UUID_SIZE == 2    CMD_ID_SIZE == 2    LEN_SIZE == 4
CRC_SIZE == 2
HEADER_BYTES == 20   \* sizeof(struct ezRpcMsgHeader)
MaxPayload == 65535 - 14   \* the size of a frame to transmit fits 16 bits

Byte == 0 .. 255
MaxLen == 65535
UInt16 == 0 .. MaxLen
UuidLimit == 65536

ASSUME NodesAssumption ==
  \A n \in Nodes : \E p \in Nodes : Nodes = {n, p} /\ p # n

ASSUME MessageAssumption ==
  /\ Commands \subseteq UInt16 /\ AskedIds \subseteq UInt16
  /\ Payloads \subseteq Seq(Byte) \ {<< >>}
  /\ Reply \in Seq(Byte) \ {<< >>}
  /\ Noise \subseteq Byte
  /\ \A p \in Payloads \cup {Reply} :
       Len(p) <= MaxPayload /\ Crc(p) \in Seq(Byte) /\ Len(Crc(p)) = CRC_SIZE

ASSUME SizeAssumption ==
  /\ Records \in Nat \ {0} /\ TxCapacity \in Nat /\ RxCapacity \in Nat
  /\ MaxBlock \in UInt16 /\ MaxFaults \in Nat
  /\ MaxRequests \in [Nodes -> UInt16]

\* The 32 bits of the payload's size are kept in two halves; the low one is
\* payload_size.
ezRpcMsgHeader ==
  [uuid : UInt16, type : {REQ, RESP, EVENT}, cmd_id : UInt16,
   payload_high : UInt16, payload_size : UInt16]

ASSUME MisreadAssumption == Misread \subseteq ezRpcMsgHeader

Header(u, t, c, size) ==
  [uuid |-> u, type |-> t, cmd_id |-> c, payload_high |-> 0, payload_size |-> size]

NoHeader == Header(0, REQ, 0, 0)

\* What a receive queue holds: a header, or the bytes of a payload.
HeaderElement(h) == [kind |-> "header", header |-> h, data |-> << >>]
PayloadElement(p) == [kind |-> "payload", header |-> NoHeader, data |-> p]
SizeOf(e) == IF e.kind = "header" THEN HEADER_BYTES ELSE Len(e.data)
Element == [kind : {"header", "payload"}, header : ezRpcMsgHeader, data : Seq(Byte)]

States == {"SYNC", "UUID", "MSG_TYPE", "ENCRYPT_FLAG", "CMD_ID", "PAYLOAD_SIZE",
           "PAYLOAD", "CRC"}

ezRpcUnmarshal ==
  [state : States, sync_bytes : UInt16, byte_count : Nat,
   curr_hdr : ezRpcMsgHeader, payload : Seq(Byte), crc_val : Seq(Byte)]

ezRpcRequestRecord == [uuid : UInt16, is_available : BOOLEAN]

VARIABLES
  crc,            \* whether both instances have a CRC handler
  records,        \* records[n]: the requests n keeps track of
  next_uuid,
  tx_msg_queue,   \* the frames n has still to transmit
  rx_msg_queue,   \* the elements n has received
  unmarshal,      \* the state of n's parser
  reserved,       \* the elements of rx_msg_queue[n] the parser holds reserved
  stage,          \* where n is in ezRPC_Run
  wire,           \* wire[n]: the bytes on their way to n
  sent,           \* history: the messages n marshaled, in order
  handled,        \* history: the messages a handler of n was called with
  faults,         \* bytes the line lost or damaged so far
  confused        \* history: n popped the header of an unknown command

vars == <<crc, records, next_uuid, tx_msg_queue, rx_msg_queue, unmarshal, reserved,
          stage, wire, sent, handled, faults, confused>>

Peer(n) == CHOOSE p \in Nodes : p # n

First(S) == CHOOSE i \in S : \A j \in S : i <= j

Hi(x) == x \div 256
Lo(x) == x % 256

-----------------------------------------------------------------------------
(* Sending. *)

ezRpc_MarshalHeader(h) ==
  <<Hi(SYNC_BYTES), Lo(SYNC_BYTES), Hi(h.uuid), Lo(h.uuid), h.type, 0,
    Hi(h.cmd_id), Lo(h.cmd_id), Hi(h.payload_high), Lo(h.payload_high),
    Hi(h.payload_size), Lo(h.payload_size)>>

Frame(h, payload) ==
  ezRpc_MarshalHeader(h) \o payload \o (IF crc THEN Crc(payload) ELSE << >>)

Message(h, payload) == [header |-> h, payload |-> payload]

CanTransmit(n) == Len(tx_msg_queue[n]) < TxCapacity

\* The part of ezRPC_MarshalMessage that both kinds of message go through.
Marshal(n, h, payload) ==
  /\ tx_msg_queue' = [tx_msg_queue EXCEPT ![n] = Append(@, Frame(h, payload))]
  /\ sent' = [sent EXCEPT ![n] = Append(@, Message(h, payload))]

-----------------------------------------------------------------------------
(* Faulty variants of the definitions below, one plausible slip each.      *)

\* The register of the last two bytes is kept in a wider integer.
ShiftWide(x, b) == x * 256 + b

\* An error path releases the element reserved last and forgets the others.
ReleaseOne(n, k) == reserved' = [reserved EXCEPT ![n] = @ - 1] /\ UNCHANGED rx_msg_queue

\* The payload stays in the queue.
PopOne(q, k) == SubSeq(q, 2, Len(q))

\* The first record is closed whatever its uuid.
CloseFirstRecord(n, h) ==
  records' = IF h.type = RESP THEN [records EXCEPT ![n][1].is_available = TRUE] ELSE records

\* The response carries a uuid of the responder.
RespondUnderOwnUuid(n, h) ==
  IF CanTransmit(n)
  THEN Marshal(n, Header(next_uuid[n], RESP, h.cmd_id, Len(Reply)), Reply)
  ELSE UNCHANGED <<tx_msg_queue, sent>>

-----------------------------------------------------------------------------
Shift(x, b) == (x * 256 + b) % 65536

AvailRecords(n) == {i \in 1 .. Records : records[n][i].is_available}

ezRPC_NumOfPendingRecords(n) == Cardinality((1 .. Records) \ AvailRecords(n))
ezRPC_NumOfTxPendingMsg(n) == Len(tx_msg_queue[n])

\* ezRpc_GetAvailRecord, and the uuid MarshalMessage then writes into it; when
\* the transmit queue has no memory the record is made available again.
TakeRecord(n, u, keep) ==
  records' = [records EXCEPT ![n][First(AvailRecords(n))] =
                [uuid |-> u, is_available |-> ~keep]]

ezRPC_CreateRpcRequest(n, c, payload) ==
  LET u == (next_uuid[n] + 1) % UuidLimit IN
  /\ stage[n] = "receive"
  /\ next_uuid[n] < MaxRequests[n]
  /\ next_uuid' = [next_uuid EXCEPT ![n] = u]
  /\ \/ /\ AvailRecords(n) = {}
        /\ UNCHANGED <<records, tx_msg_queue, sent>>
     \/ /\ AvailRecords(n) # {} /\ ~CanTransmit(n)
        /\ TakeRecord(n, u, FALSE)
        /\ UNCHANGED <<tx_msg_queue, sent>>
     \/ /\ AvailRecords(n) # {} /\ CanTransmit(n)
        /\ TakeRecord(n, u, TRUE)
        /\ Marshal(n, Header(u, REQ, c, Len(payload)), payload)
  /\ UNCHANGED <<crc, rx_msg_queue, unmarshal, reserved, stage, wire, handled,
                 faults, confused>>

\* A response has the command of its request and no record of its own; its
\* result is ignored.
ezRPC_CreateRpcResponse(n, h) ==
  IF CanTransmit(n)
  THEN Marshal(n, Header(h.uuid, RESP, h.cmd_id, Len(Reply)), Reply)
  ELSE UNCHANGED <<tx_msg_queue, sent>>

-----------------------------------------------------------------------------
(* ezRPC_Run reads the bytes that have arrived, handles one message and    *)
(* transmits one.  Its calls are made by one thread, and the reading loop  *)
(* touches nothing a request touches, so a request made before a call is   *)
(* as good as one made while the call reads.                               *)

RunVars == <<crc, records, next_uuid, tx_msg_queue, sent, handled, faults, confused>>

Transmit(n) ==
  /\ stage[n] = "transmit"
  /\ stage' = [stage EXCEPT ![n] = "receive"]
  /\ \/ /\ ezRPC_NumOfTxPendingMsg(n) > 0
        /\ wire' = [wire EXCEPT ![Peer(n)] = @ \o Head(tx_msg_queue[n])]
        /\ tx_msg_queue' = [tx_msg_queue EXCEPT ![n] = Tail(@)]
     \/ /\ ezRPC_NumOfTxPendingMsg(n) = 0
        /\ UNCHANGED <<wire, tx_msg_queue>>
  /\ UNCHANGED <<crc, records, next_uuid, rx_msg_queue, unmarshal, reserved, sent,
                 handled, faults, confused>>

-----------------------------------------------------------------------------
(* ezRpc_UnmarshalData: one action per state of the parser.  c counts the  *)
(* byte being read, b.                                                     *)

Reading(n, s) ==
  /\ stage[n] = "receive" /\ wire[n] # << >>
  /\ unmarshal[n].state = s
  /\ wire' = [wire EXCEPT ![n] = Tail(@)]
  /\ UNCHANGED <<RunVars, stage>>

Parsed(n, u) == unmarshal' = [unmarshal EXCEPT ![n] = u]

CanReserve(n, size) ==
  /\ size \in 1 .. MaxBlock
  /\ Len(rx_msg_queue[n]) + reserved[n] < RxCapacity

Reserve(n) == reserved' = [reserved EXCEPT ![n] = @ + 1] /\ UNCHANGED rx_msg_queue
Release(n, k) == reserved' = [reserved EXCEPT ![n] = @ - k] /\ UNCHANGED rx_msg_queue

\* The header and the payload are pushed, k reserved elements are used up.
PushMessage(n, payload, k) ==
  /\ rx_msg_queue' = [rx_msg_queue EXCEPT ![n] =
        @ \o <<HeaderElement(unmarshal[n].curr_hdr), PayloadElement(payload)>>]
  /\ reserved' = [reserved EXCEPT ![n] = @ - k]

SyncByte(n) ==
  /\ Reading(n, "SYNC")
  /\ LET u == [unmarshal[n] EXCEPT !.sync_bytes = Shift(@, Head(wire[n]))]
         c == u.byte_count + 1
     IN \/ /\ c < SYNC_SIZE
           /\ Parsed(n, [u EXCEPT !.byte_count = c])
           /\ UNCHANGED <<rx_msg_queue, reserved>>
        \/ /\ c >= SYNC_SIZE
           /\ u.sync_bytes # SYNC_BYTES \/ ~CanReserve(n, HEADER_BYTES)
           /\ Parsed(n, [u EXCEPT !.byte_count = 0])
           /\ UNCHANGED <<rx_msg_queue, reserved>>
        \/ /\ c >= SYNC_SIZE
           /\ u.sync_bytes = SYNC_BYTES /\ CanReserve(n, HEADER_BYTES)
           /\ Parsed(n, [u EXCEPT !.byte_count = 0, !.state = "UUID",
                                  !.curr_hdr.uuid = 0, !.curr_hdr.payload_high = 0,
                                  !.curr_hdr.payload_size = 0])
           /\ Reserve(n)

UuidByte(n) ==
  /\ Reading(n, "UUID")
  /\ LET u == [unmarshal[n] EXCEPT !.curr_hdr.uuid = Shift(@, Head(wire[n]))]
         c == u.byte_count + 1
     IN Parsed(n, IF c < UUID_SIZE THEN [u EXCEPT !.byte_count = c]
                  ELSE [u EXCEPT !.byte_count = 0, !.state = "MSG_TYPE"])
  /\ UNCHANGED <<rx_msg_queue, reserved>>

MsgTypeByte(n) ==
  /\ Reading(n, "MSG_TYPE")
  /\ LET b == Head(wire[n]) IN
     \/ /\ b \in {REQ, RESP, EVENT}
        /\ Parsed(n, [unmarshal[n] EXCEPT !.curr_hdr.type = b, !.state = "ENCRYPT_FLAG"])
        /\ UNCHANGED <<rx_msg_queue, reserved>>
     \/ /\ b \notin {REQ, RESP, EVENT}
        /\ Parsed(n, [unmarshal[n] EXCEPT !.state = "SYNC"])
        /\ Release(n, 1)

EncryptFlagByte(n) ==
  /\ Reading(n, "ENCRYPT_FLAG")
  /\ Parsed(n, [unmarshal[n] EXCEPT !.state = "CMD_ID"])
  /\ UNCHANGED <<rx_msg_queue, reserved>>

CmdIdByte(n) ==
  /\ Reading(n, "CMD_ID")
  /\ LET u == [unmarshal[n] EXCEPT !.curr_hdr.cmd_id = Shift(@, Head(wire[n]))]
         c == u.byte_count + 1
     IN Parsed(n, IF c < CMD_ID_SIZE THEN [u EXCEPT !.byte_count = c]
                  ELSE [u EXCEPT !.byte_count = 0, !.state = "PAYLOAD_SIZE"])
  /\ UNCHANGED <<rx_msg_queue, reserved>>

\* ezQueue_ReserveElement allocates the low half of the size.  A payload that
\* cannot be reserved leaves the count of the size's bytes behind.
PayloadSizeByte(n) ==
  /\ Reading(n, "PAYLOAD_SIZE")
  /\ LET low == unmarshal[n].curr_hdr.payload_size
         u == [unmarshal[n] EXCEPT !.curr_hdr.payload_high = Shift(@, Hi(low)),
                                   !.curr_hdr.payload_size = Shift(@, Head(wire[n])),
                                   !.byte_count = @ + 1]
         size == u.curr_hdr.payload_size
     IN \/ /\ u.byte_count < LEN_SIZE
           /\ Parsed(n, u)
           /\ UNCHANGED <<rx_msg_queue, reserved>>
        \/ /\ u.byte_count >= LEN_SIZE /\ CanReserve(n, size)
           /\ Parsed(n, [u EXCEPT !.byte_count = 0, !.payload = << >>, !.state = "PAYLOAD"])
           /\ Reserve(n)
        \/ /\ u.byte_count >= LEN_SIZE /\ ~CanReserve(n, size)
           /\ Parsed(n, [u EXCEPT !.state = "SYNC"])
           /\ Release(n, 1)

BlockIsFull(n) == unmarshal[n].byte_count >= unmarshal[n].curr_hdr.payload_size

PayloadByte(n) ==
  /\ Reading(n, "PAYLOAD") /\ ~BlockIsFull(n)
  /\ LET u == [unmarshal[n] EXCEPT !.payload = Append(@, Head(wire[n])), !.byte_count = @ + 1]
         whole == u.curr_hdr.payload_high = 0 /\ u.byte_count >= u.curr_hdr.payload_size
     IN \/ /\ ~whole
           /\ Parsed(n, u)
           /\ UNCHANGED <<rx_msg_queue, reserved>>
        \/ /\ whole /\ crc /\ CanReserve(n, CRC_SIZE)
           /\ Parsed(n, [u EXCEPT !.byte_count = 0, !.crc_val = << >>, !.state = "CRC"])
           /\ Reserve(n)
        \/ /\ whole /\ crc /\ ~CanReserve(n, CRC_SIZE)
           /\ Parsed(n, [u EXCEPT !.state = "SYNC"])
           /\ Release(n, 2)
        \/ /\ whole /\ ~crc
           /\ Parsed(n, [u EXCEPT !.state = "SYNC"])
           /\ PushMessage(n, u.payload, 2)

\* The size has more than 16 bits and the block only its low half: the byte is
\* written behind the block.  What n does from then on is not followed.
PayloadOverrun(n) ==
  /\ stage[n] = "receive" /\ wire[n] # << >>
  /\ unmarshal[n].state = "PAYLOAD" /\ BlockIsFull(n)
  /\ stage' = [stage EXCEPT ![n] = "overrun"]
  /\ UNCHANGED <<RunVars, rx_msg_queue, unmarshal, reserved, wire>>

CrcByte(n) ==
  /\ Reading(n, "CRC")
  /\ LET u == [unmarshal[n] EXCEPT !.crc_val = Append(@, Head(wire[n])), !.byte_count = @ + 1]
     IN \/ /\ u.byte_count < CRC_SIZE
           /\ Parsed(n, u)
           /\ UNCHANGED <<rx_msg_queue, reserved>>
        \/ /\ u.byte_count >= CRC_SIZE /\ u.crc_val = Crc(u.payload)
           /\ Parsed(n, [u EXCEPT !.state = "SYNC"])
           /\ PushMessage(n, u.payload, 3)
        \/ /\ u.byte_count >= CRC_SIZE /\ u.crc_val # Crc(u.payload)
           /\ Parsed(n, [u EXCEPT !.state = "SYNC"])
           /\ Release(n, 3)

ReceiveByte(n) ==
  \/ SyncByte(n) \/ UuidByte(n) \/ MsgTypeByte(n) \/ EncryptFlagByte(n)
  \/ CmdIdByte(n) \/ PayloadSizeByte(n) \/ PayloadByte(n) \/ PayloadOverrun(n)
  \/ CrcByte(n)

-----------------------------------------------------------------------------
(* ezRpc_HandleReceivedMsg. *)

\* What the front element says when it is taken for a header.  A payload left
\* in front by an unknown command is read past its end.
FrontHeader(n) ==
  IF Head(rx_msg_queue[n]).kind = "header" THEN {Head(rx_msg_queue[n]).header} ELSE Misread

Pop(q, k) == SubSeq(q, k + 1, Len(q))

RecordsOf(n, u) == {i \in 1 .. Records : records[n][i].uuid = u}

\* The availability of the record found is not looked at.
CloseRecord(n, h) ==
  records' = IF h.type = RESP
             THEN [records EXCEPT ![n][First(RecordsOf(n, h.uuid))].is_available = TRUE]
             ELSE records

\* receive() has returned nothing, which says nothing of what is on its way.
Handling(n) ==
  /\ stage[n] = "receive"
  /\ stage' = [stage EXCEPT ![n] = "transmit"]
  /\ UNCHANGED <<crc, next_uuid, unmarshal, reserved, wire, faults>>

NothingReceived(n) ==
  /\ Handling(n)
  /\ rx_msg_queue[n] = << >>
  /\ UNCHANGED <<records, rx_msg_queue, tx_msg_queue, sent, handled, confused>>

DiscardResponse(n) ==
  /\ Handling(n)
  /\ rx_msg_queue[n] # << >>
  /\ \E h \in FrontHeader(n) : h.type = RESP /\ RecordsOf(n, h.uuid) = {}
  /\ rx_msg_queue' = [rx_msg_queue EXCEPT ![n] = Pop(@, 2)]
  /\ UNCHANGED <<records, tx_msg_queue, sent, handled, confused>>

PayloadFits(n, h) ==
  /\ Len(rx_msg_queue[n]) > 1
  /\ h.payload_high = 0 /\ SizeOf(rx_msg_queue[n][2]) = h.payload_size

\* The handler of a request answers it.  It is called only if the element
\* behind the header has the size the header says; both are popped anyway.
HandleCommand(n) ==
  /\ Handling(n)
  /\ rx_msg_queue[n] # << >>
  /\ \E h \in FrontHeader(n) :
       /\ h.cmd_id \in Commands
       /\ h.type = RESP => RecordsOf(n, h.uuid) # {}
       /\ CloseRecord(n, h)
       /\ \/ /\ PayloadFits(n, h)
             /\ handled' = [handled EXCEPT ![n] = Append(@, Message(h, rx_msg_queue[n][2].data))]
             /\ IF h.type = RESP THEN UNCHANGED <<tx_msg_queue, sent>>
                ELSE ezRPC_CreateRpcResponse(n, h)
          \/ /\ ~PayloadFits(n, h)
             /\ UNCHANGED <<tx_msg_queue, sent, handled>>
  /\ rx_msg_queue' = [rx_msg_queue EXCEPT ![n] = Pop(@, 2)]
  /\ UNCHANGED confused

\* Nothing but the header is popped.
UnknownCommand(n) ==
  /\ Handling(n)
  /\ rx_msg_queue[n] # << >>
  /\ \E h \in FrontHeader(n) :
       /\ h.cmd_id \notin Commands
       /\ h.type = RESP => RecordsOf(n, h.uuid) # {}
       /\ CloseRecord(n, h)
  /\ rx_msg_queue' = [rx_msg_queue EXCEPT ![n] = Pop(@, 1)]
  /\ confused' = [confused EXCEPT ![n] = TRUE]
  /\ UNCHANGED <<tx_msg_queue, sent, handled>>

ezRpc_HandleReceivedMsg(n) ==
  NothingReceived(n) \/ DiscardResponse(n) \/ HandleCommand(n) \/ UnknownCommand(n)

-----------------------------------------------------------------------------
(* The line may lose a byte or damage one. *)

Fault(n) ==
  /\ faults < MaxFaults /\ wire[n] # << >>
  /\ faults' = faults + 1
  /\ \/ wire' = [wire EXCEPT ![n] = Tail(@)]
     \/ \E b \in Noise : wire' = [wire EXCEPT ![n] = <<b>> \o Tail(@)]
  /\ UNCHANGED <<crc, records, next_uuid, tx_msg_queue, rx_msg_queue, unmarshal,
                 reserved, stage, sent, handled, confused>>

-----------------------------------------------------------------------------
\* ezRpc_Initialization of both instances; ezRpc_SetCrcHandler follows on both
\* or on neither.
Init ==
  /\ crc \in BOOLEAN
  /\ records = [n \in Nodes |-> [i \in 1 .. Records |-> [uuid |-> 0, is_available |-> TRUE]]]
  /\ next_uuid = [n \in Nodes |-> 0]
  /\ tx_msg_queue = [n \in Nodes |-> << >>]
  /\ rx_msg_queue = [n \in Nodes |-> << >>]
  /\ unmarshal = [n \in Nodes |->
       [state |-> "SYNC", sync_bytes |-> 0, byte_count |-> 0, curr_hdr |-> NoHeader,
        payload |-> << >>, crc_val |-> << >>]]
  /\ reserved = [n \in Nodes |-> 0]
  /\ stage = [n \in Nodes |-> "receive"]
  /\ wire = [n \in Nodes |-> << >>]
  /\ sent = [n \in Nodes |-> << >>]
  /\ handled = [n \in Nodes |-> << >>]
  /\ faults = 0
  /\ confused = [n \in Nodes |-> FALSE]

ezRPC_Run(n) ==
  ReceiveByte(n) \/ ezRpc_HandleReceivedMsg(n) \/ Transmit(n)

Next ==
  \E n \in Nodes :
    \/ \E c \in AskedIds, p \in Payloads : ezRPC_CreateRpcRequest(n, c, p)
    \/ ezRPC_Run(n)
    \/ Fault(n)

Spec == Init /\ [][Next]_vars

\* Both applications keep polling, and a byte on the line arrives in the end.
FairSpec ==
  /\ Spec
  /\ \A n \in Nodes : WF_vars(ezRPC_Run(n)) /\ SF_vars(ReceiveByte(n))

-----------------------------------------------------------------------------
(* Properties. *)

\* In every state the parser's count is below the size of the field it reads; a
\* refused payload and a damaged or whole frame leave theirs behind.
CountOK(u) ==
  \/ u.state = "SYNC" /\ u.byte_count \in UInt16
  \/ u.state = "UUID" /\ u.byte_count < UUID_SIZE
  \/ u.state \in {"MSG_TYPE", "ENCRYPT_FLAG"} /\ u.byte_count = 0
  \/ u.state = "CMD_ID" /\ u.byte_count < CMD_ID_SIZE
  \/ u.state = "PAYLOAD_SIZE" /\ u.byte_count < LEN_SIZE
  \/ /\ u.state = "PAYLOAD" /\ u.curr_hdr.payload_size \in 1 .. MaxBlock
     /\ u.byte_count = Len(u.payload) /\ u.byte_count <= u.curr_hdr.payload_size
  \/ u.state = "CRC" /\ u.byte_count = Len(u.crc_val) /\ u.byte_count < CRC_SIZE

\* Every variable has its type, and the parser never counts past the field it
\* is reading.
TypeOK ==
  /\ crc \in BOOLEAN
  /\ records \in [Nodes -> [1 .. Records -> ezRpcRequestRecord]]
  /\ next_uuid \in [Nodes -> UInt16]
  /\ tx_msg_queue \in [Nodes -> Seq(Seq(Byte))]
  /\ rx_msg_queue \in [Nodes -> Seq(Element)]
  /\ unmarshal \in [Nodes -> ezRpcUnmarshal]
  /\ \A n \in Nodes : CountOK(unmarshal[n])
  /\ reserved \in [Nodes -> Nat]
  /\ stage \in [Nodes -> {"receive", "transmit", "overrun"}]
  /\ wire \in [Nodes -> Seq(Byte)]
  /\ faults \in 0 .. MaxFaults
  /\ confused \in [Nodes -> BOOLEAN]

\* Whatever arrives and whichever reservation fails, the parser holds exactly
\* the elements its state says: none is lost and none is pushed twice, until it
\* writes behind a block.
HeldIn(state) ==
  IF state = "SYNC" THEN 0
  ELSE IF state = "PAYLOAD" THEN 2
  ELSE IF state = "CRC" THEN 3
  ELSE 1

ReservedAsParsed ==
  \A n \in Nodes : stage[n] # "overrun" => reserved[n] = HeldIn(unmarshal[n].state)

\* Until an unknown command has been received or a byte written behind a block,
\* the receive queue is a sequence of messages: each header is followed by the
\* payload it announces, which is what lets ezRpc_HandleReceivedMsg take the
\* element behind a header for its payload.
IsMessage(h, p) ==
  /\ h.kind = "header" /\ p.kind = "payload"
  /\ h.header.payload_high = 0 /\ Len(p.data) = h.header.payload_size

QueueHoldsMessages ==
  \A n \in Nodes : ~confused[n] /\ stage[n] # "overrun" =>
    /\ Len(rx_msg_queue[n]) % 2 = 0
    /\ \A i \in 1 .. Len(rx_msg_queue[n]) \div 2 :
         IsMessage(rx_msg_queue[n][2 * i - 1], rx_msg_queue[n][2 * i])

\* The documentation of the receive queue: valid messages received from the link
\* wait in it until they are handled.  On a perfect line nothing else becomes of a
\* frame that has been read.
EveryFrameReceived ==
  \A n \in Nodes : faults = 0 /\ wire[n] = << >> /\ ~confused[n] =>
    Len(handled[n]) + Len(rx_msg_queue[n]) \div 2
      = Len(sent[Peer(n)]) - Len(tx_msg_queue[Peer(n)])

\* The documentation of ezQueue_ReserveElement: the memory handed out is that of
\* the element, of the size asked for, so no byte of a payload falls outside it.
PayloadInBlock == \A n \in Nodes : stage[n] # "overrun"

\* The frames a message can be marshaled in, and no frame holds the two bytes a
\* frame starts with anywhere else: what the theorems about a perfect line ask of
\* the commands, the payloads and the CRC.
FrameWith(b, m) ==
  ezRpc_MarshalHeader(m.header) \o m.payload \o (IF b THEN Crc(m.payload) ELSE << >>)

Sendable ==
  {Message(Header(u, t, c, Len(p)), p) :
     u \in UNION {1 .. MaxRequests[n] : n \in Nodes}, t \in {REQ, RESP}, c \in AskedIds,
     p \in Payloads \cup {Reply}}

IsMark(f, k) == f[k] = Hi(SYNC_BYTES) /\ f[k + 1] = Lo(SYNC_BYTES)

MarksOnlyAtStarts ==
  \A m \in Sendable, b \in BOOLEAN :
    \A k \in 2 .. Len(FrameWith(b, m)) - 1 : ~IsMark(FrameWith(b, m), k)

\* The abstract link of RpcLink: a message is handled at most once and in the
\* order of sending, a response only closes the request it answers, and a CRC
\* lets no damaged payload through.
open == [n \in Nodes |-> {records[n][i].uuid : i \in (1 .. Records) \ AvailRecords(n)}]
pending == [n \in Nodes |-> ezRPC_NumOfPendingRecords(n)]
Link == INSTANCE RpcLink WITH damaged <- faults > 0
ImplementsLink == Link!Spec

\* On a perfect line the first request is answered, if its command is known and
\* the peer has no requests of its own in its transmit queue.
FirstRequestAnswered ==
  \A n \in Nodes :
    (next_uuid[Peer(n)] = 0 /\ sent[n] # << >> /\ sent[n][1].header.cmd_id \in Commands)
      ~> (faults > 0 \/ next_uuid[Peer(n)] > 0 \/ \E i \in 1 .. Len(handled[n]) :
            handled[n][i].header.type = RESP
              /\ handled[n][i].header.uuid = sent[n][1].header.uuid)
=============================================================================
