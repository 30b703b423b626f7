------------------------------ MODULE RpcProofs ------------------------------
(***************************************************************************)
(* Proofs about Rpc, for any commands, payloads and CRC, any numbers of    *)
(* records and queue elements, and any number of faults on the lines.  The *)
(* parser and its reservations come first, then what a perfect line does:  *)
(* Line says where the frames, the parser and the two queues are, and      *)
(* CleanInv that both lines are so.  The link of RpcLink comes last.       *)
(***************************************************************************)
EXTENDS Rpc, SequenceTheorems, FiniteSetTheorems, WellFoundedInduction, NaturalsInduction,
        TLAPS

(* While the parser copies a payload whose size fits 16 bits it lacks some  *)
(* bytes; while it reads the CRC it has them all.                          *)
WellParsed(u) ==
  /\ CountOK(u)
  /\ u.state = "PAYLOAD" /\ u.curr_hdr.payload_high = 0 =>
       u.byte_count < u.curr_hdr.payload_size
  /\ u.state = "CRC" =>
       u.curr_hdr.payload_high = 0 /\ Len(u.payload) = u.curr_hdr.payload_size

PayloadsWhole == \A n \in Nodes : WellParsed(unmarshal[n])

(* ReservedAsParsed and QueueHoldsMessages without the escape for a byte    *)
(* written behind a block: the model stops the instance there.             *)
HeldAsParsed == \A n \in Nodes : reserved[n] = HeldIn(unmarshal[n].state)

HoldsMessages(q) ==
  /\ Len(q) % 2 = 0
  /\ \A i \in 1 .. Len(q) \div 2 : IsMessage(q[2 * i - 1], q[2 * i])

QueuesHoldMessages == \A n \in Nodes : ~confused[n] => HoldsMessages(rx_msg_queue[n])

IInv == TypeOK /\ HeldAsParsed /\ PayloadsWhole /\ QueuesHoldMessages

-----------------------------------------------------------------------------
(* Numbers and bytes. *)

LEMMA MaxLenIsInt == MaxLen \in Int /\ MaxLen >= 0
  BY DEF MaxLen

LEMMA MaxLenValue == MaxLen \in Int /\ MaxLen = 65535
  BY DEF MaxLen

LEMMA IsWord == \A x : x \in UInt16 <=> x \in Int /\ 0 <= x /\ x <= MaxLen
  BY MaxLenIsInt DEF UInt16

LEMMA WordIsInt == \A x \in UInt16 : x \in Int /\ 0 <= x /\ x <= 65535
  BY IsWord, MaxLenValue

LEMMA ByteIsInt == \A b \in Byte : b \in Int /\ 0 <= b /\ b <= 255
  BY DEF Byte

LEMMA SmallNumber ==
  ASSUME NEW l \in Int, 0 <= l, l < MaxLen
  PROVE  l \in UInt16
  BY MaxLenIsInt DEF UInt16

(* What is left of a number in 16 bits.                                    *)
LEMMA Remainder16 ==
  ASSUME NEW y \in Int
  PROVE  y % 65536 \in UInt16
  <1> DEFINE r == y % 65536
  <1>1. r \in Int /\ 0 <= r /\ r <= 65535
    OBVIOUS
  <1> HIDE DEF r
  <1>2. r \in UInt16
    BY <1>1, IsWord, MaxLenValue
  <1> QED
    BY <1>2 DEF r

LEMMA ShiftOfNumbers ==
  ASSUME NEW x \in Int, NEW b \in Int
  PROVE  Shift(x, b) \in UInt16
  <1> DEFINE y == x * 256 + b
  <1>1. y \in Int
    OBVIOUS
  <1>2. Shift(x, b) = y % 65536
    BY DEF Shift
  <1> HIDE DEF y
  <1> QED
    BY <1>1, <1>2, Remainder16

LEMMA ShiftType ==
  ASSUME NEW x \in UInt16, NEW b \in Byte
  PROVE  Shift(x, b) \in UInt16
  <1>1. x \in Int /\ b \in Int
    BY WordIsInt, ByteIsInt
  <1> QED
    BY <1>1, ShiftOfNumbers

LEMMA HalvesType ==
  ASSUME NEW x \in UInt16
  PROVE  Hi(x) \in Byte /\ Lo(x) \in Byte
  <1>1. x \in Int /\ x >= 0 /\ x <= 65535
    BY WordIsInt
  <1>2. Hi(x) \in Int
    BY <1>1 DEF Hi
  <1>3. /\ x = 256 * Hi(x) + Lo(x)
        /\ Lo(x) \in Byte /\ Lo(x) \in Int /\ Lo(x) >= 0 /\ Lo(x) <= 255
    BY <1>1 DEF Hi, Lo, Byte
  <1>4. Hi(x) >= 0 /\ Hi(x) <= 255
    BY <1>1, <1>2, <1>3
  <1> QED
    BY <1>2, <1>3, <1>4 DEF Byte

LEMMA EvenIsTwice ==
  ASSUME NEW l \in Nat
  PROVE  l % 2 = 0 <=> \E k \in Nat : l = 2 * k
  <1>1. ASSUME l % 2 = 0 PROVE l = 2 * (l \div 2) /\ l \div 2 \in Nat
    BY <1>1
  <1>2. ASSUME NEW k \in Nat, l = 2 * k PROVE l % 2 = 0
    BY <1>2
  <1> QED
    BY <1>1, <1>2

LEMMA HalfOfTwice ==
  ASSUME NEW k \in Nat
  PROVE  (2 * k) \div 2 = k
  OBVIOUS

LEMMA PeerIsOther ==
  ASSUME NEW n \in Nodes
  PROVE  Peer(n) \in Nodes /\ Peer(n) # n
  BY NodesAssumption DEF Peer

LEMMA HeldValues ==
  /\ HeldIn("SYNC") = 0 /\ HeldIn("UUID") = 1 /\ HeldIn("MSG_TYPE") = 1
  /\ HeldIn("ENCRYPT_FLAG") = 1 /\ HeldIn("CMD_ID") = 1 /\ HeldIn("PAYLOAD_SIZE") = 1
  /\ HeldIn("PAYLOAD") = 2 /\ HeldIn("CRC") = 3
  BY DEF HeldIn

LEMMA MarshalHeaderType ==
  ASSUME NEW h \in ezRpcMsgHeader
  PROVE  ezRpc_MarshalHeader(h) \in Seq(Byte)
  <1>1. /\ h.uuid \in UInt16 /\ h.cmd_id \in UInt16
        /\ h.payload_high \in UInt16 /\ h.payload_size \in UInt16
    BY DEF ezRpcMsgHeader
  <1>2. SYNC_BYTES \in UInt16
    BY DEF SYNC_BYTES, UInt16, MaxLen
  <1>3. h.type \in Byte /\ 0 \in Byte
    BY DEF ezRpcMsgHeader, Byte, REQ, RESP, EVENT
  <1>4. /\ Hi(h.uuid) \in Byte /\ Lo(h.uuid) \in Byte
        /\ Hi(h.cmd_id) \in Byte /\ Lo(h.cmd_id) \in Byte
        /\ Hi(h.payload_high) \in Byte /\ Lo(h.payload_high) \in Byte
        /\ Hi(h.payload_size) \in Byte /\ Lo(h.payload_size) \in Byte
        /\ Hi(SYNC_BYTES) \in Byte /\ Lo(SYNC_BYTES) \in Byte
    BY <1>1, <1>2, HalvesType
  <1> QED
    BY <1>3, <1>4 DEF ezRpc_MarshalHeader

LEMMA FrameType ==
  ASSUME NEW h \in ezRpcMsgHeader, NEW p \in Payloads \cup {Reply}
  PROVE  Frame(h, p) \in Seq(Byte)
  <1> DEFINE m == ezRpc_MarshalHeader(h)
             c == IF crc THEN Crc(p) ELSE << >>
  <1>1. m \in Seq(Byte)
    BY MarshalHeaderType
  <1>2. p \in Seq(Byte) /\ c \in Seq(Byte)
    BY MessageAssumption, EmptySeq
  <1>3. Frame(h, p) = m \o p \o c
    BY DEF Frame
  <1> HIDE DEF m, c
  <1> QED
    BY <1>1, <1>2, <1>3, ConcatProperties

LEMMA PayloadLength ==
  ASSUME NEW p \in Payloads \cup {Reply}
  PROVE  Len(p) \in UInt16
  <1>1. Len(p) \in Int /\ 0 <= Len(p) /\ Len(p) < MaxLen
    BY MessageAssumption, LenProperties, MaxLenValue DEF MaxPayload
  <1> QED
    BY <1>1, SmallNumber

LEMMA ZeroIsWord == 0 \in UInt16
  BY MaxLenIsInt DEF UInt16

LEMMA HeaderType ==
  ASSUME NEW u \in UInt16, NEW t \in {REQ, RESP, EVENT}, NEW c \in UInt16, NEW size \in UInt16
  PROVE  Header(u, t, c, size) \in ezRpcMsgHeader
  BY ZeroIsWord DEF Header, ezRpcMsgHeader

LEMMA NoHeaderType == NoHeader \in ezRpcMsgHeader
  BY ZeroIsWord, HeaderType DEF NoHeader

-----------------------------------------------------------------------------
(* Queues of messages. *)

LEMMA MessagePairs ==
  ASSUME NEW q \in Seq(Element)
  PROVE  HoldsMessages(q) <=>
           \E k \in Nat : /\ Len(q) = 2 * k
                          /\ \A i \in 1 .. k : IsMessage(q[2 * i - 1], q[2 * i])
  <1>1. Len(q) \in Nat
    BY LenProperties
  <1>2. ASSUME NEW k \in Nat, Len(q) = 2 * k
        PROVE  Len(q) % 2 = 0 /\ Len(q) \div 2 = k
    BY <1>1, <1>2, EvenIsTwice, HalfOfTwice
  <1>3. Len(q) % 2 = 0 <=> \E k \in Nat : Len(q) = 2 * k
    BY <1>1, EvenIsTwice
  <1> QED
    BY <1>2, <1>3 DEF HoldsMessages

LEMMA PushedMessage ==
  ASSUME NEW q \in Seq(Element), NEW h \in ezRpcMsgHeader, NEW p \in Seq(Byte)
  PROVE  LET r == q \o <<HeaderElement(h), PayloadElement(p)>> IN
         /\ r \in Seq(Element)
         /\ HoldsMessages(q) /\ h.payload_high = 0 /\ Len(p) = h.payload_size =>
              HoldsMessages(r)
  <1> DEFINE two == <<HeaderElement(h), PayloadElement(p)>>
             r == q \o two
  <1>1. HeaderElement(h) \in Element /\ PayloadElement(p) \in Element
    <2> QED
      BY NoHeaderType, EmptySeq DEF HeaderElement, PayloadElement, Element
  <1>2. /\ two \in Seq(Element) /\ Len(two) = 2
        /\ two[1] = HeaderElement(h) /\ two[2] = PayloadElement(p)
    BY <1>1
  <1> HIDE DEF two
  <1>3. Len(q) \in Nat
    BY LenProperties
  <1>4. /\ r \in Seq(Element) /\ Len(r) = Len(q) + 2
        /\ \A i \in 1 .. Len(q) + 2 : r[i] = IF i <= Len(q) THEN q[i] ELSE two[i - Len(q)]
    <2>1. /\ r \in Seq(Element) /\ Len(r) = Len(q) + Len(two)
          /\ \A i \in 1 .. Len(q) + Len(two) :
               r[i] = IF i <= Len(q) THEN q[i] ELSE two[i - Len(q)]
      BY <1>2, ConcatProperties, Zenon
    <2> QED
      BY <1>2, <2>1
  <1> HIDE DEF r
  <1>5. ASSUME HoldsMessages(q), h.payload_high = 0, Len(p) = h.payload_size
        PROVE  HoldsMessages(r)
    <2>1. PICK k \in Nat : /\ Len(q) = 2 * k
                           /\ \A i \in 1 .. k : IsMessage(q[2 * i - 1], q[2 * i])
      BY <1>5, MessagePairs
    <2>2. Len(r) = 2 * (k + 1) /\ k + 1 \in Nat
      BY <1>4, <2>1
    <2>3. ASSUME NEW i \in 1 .. k + 1
          PROVE  IsMessage(r[2 * i - 1], r[2 * i])
      <3>1. CASE i \in 1 .. k
        <4>1. 2 * i - 1 \in 1 .. Len(q) /\ 2 * i \in 1 .. Len(q)
          BY <2>1, <3>1
        <4>2. r[2 * i - 1] = q[2 * i - 1] /\ r[2 * i] = q[2 * i]
          BY <1>3, <1>4, <4>1
        <4> QED
          BY <2>1, <3>1, <4>2
      <3>2. CASE i = k + 1
        <4>1. 2 * i - 1 = Len(q) + 1 /\ 2 * i = Len(q) + 2
          BY <2>1, <3>2
        <4>2. r[Len(q) + 1] = two[1] /\ r[Len(q) + 2] = two[2]
          BY <1>3, <1>4
        <4>3. IsMessage(HeaderElement(h), PayloadElement(p))
          BY <1>5 DEF IsMessage, HeaderElement, PayloadElement
        <4> QED
          BY <1>2, <4>1, <4>2, <4>3
      <3> QED
        BY <3>1, <3>2
    <2> QED
      BY <1>4, <2>2, <2>3, MessagePairs
  <1> QED
    BY <1>4, <1>5 DEF r, two

LEMMA PoppedElements ==
  ASSUME NEW q \in Seq(Element), NEW k \in Nat
  PROVE  Pop(q, k) \in Seq(Element)
  <1>1. Len(q) \in Nat /\ k + 1 \in Int
    BY LenProperties
  <1>2. \A i \in k + 1 .. Len(q) : q[i] \in Element
    BY <1>1, ElementOfSeq
  <1> QED
    BY <1>1, <1>2, SubSeqProperties DEF Pop

LEMMA PoppedMessage ==
  ASSUME NEW q \in Seq(Element), q # << >>, HoldsMessages(q)
  PROVE  HoldsMessages(Pop(q, 2))
  <1> DEFINE r == Pop(q, 2)
  <1>1. PICK k \in Nat : /\ Len(q) = 2 * k
                         /\ \A i \in 1 .. k : IsMessage(q[2 * i - 1], q[2 * i])
    BY MessagePairs
  <1>2. k >= 1 /\ k - 1 \in Nat
    BY <1>1, EmptySeq
  <1>3. r \in Seq(Element)
    BY PoppedElements
  <1>4. Len(r) = 2 * (k - 1) /\ \A j \in 1 .. 2 * (k - 1) : r[j] = q[j + 2]
    <2>1. \A j \in 3 .. Len(q) : q[j] \in Element
      BY <1>1, ElementOfSeq
    <2>2. /\ Len(SubSeq(q, 3, Len(q))) = IF 3 <= Len(q) THEN Len(q) - 3 + 1 ELSE 0
          /\ \A j \in 1 .. Len(q) - 3 + 1 : SubSeq(q, 3, Len(q))[j] = q[3 + j - 1]
      BY <1>1, <2>1, SubSeqProperties
    <2>3. r = SubSeq(q, 3, Len(q))
      BY DEF Pop
    <2> HIDE DEF r
    <2> QED
      BY <1>1, <1>2, <2>2, <2>3
  <1> HIDE DEF r
  <1>5. ASSUME NEW i \in 1 .. k - 1
        PROVE  IsMessage(r[2 * i - 1], r[2 * i])
    <2>1. i + 1 \in 1 .. k /\ 2 * i - 1 \in 1 .. 2 * (k - 1) /\ 2 * i \in 1 .. 2 * (k - 1)
      BY <1>2
    <2>2. r[2 * i - 1] = q[2 * (i + 1) - 1] /\ r[2 * i] = q[2 * (i + 1)]
      BY <1>4, <2>1
    <2> QED
      BY <1>1, <2>1, <2>2
  <1>6. HoldsMessages(r)
    BY <1>2, <1>3, <1>4, <1>5, MessagePairs
  <1> QED
    BY <1>6 DEF r

-----------------------------------------------------------------------------
LEMMA InitIInv == Init => IInv
  <1> SUFFICES ASSUME Init PROVE IInv
    OBVIOUS
  <1>1. 0 \in UInt16
    BY MaxLenIsInt DEF UInt16
  <1>2. [uuid |-> 0, is_available |-> TRUE] \in ezRpcRequestRecord
    BY <1>1 DEF ezRpcRequestRecord
  <1> DEFINE u == [state |-> "SYNC", sync_bytes |-> 0, byte_count |-> 0, curr_hdr |-> NoHeader,
                   payload |-> << >>, crc_val |-> << >>]
  <1>3. u \in ezRpcUnmarshal
    <2> QED
      BY <1>1, NoHeaderType, EmptySeq DEF ezRpcUnmarshal, States
  <1>4. u.state = "SYNC" /\ u.byte_count = 0 /\ \A n \in Nodes : unmarshal[n] = u
    BY DEF Init
  <1> HIDE DEF u
  <1>9. WellParsed(u)
    BY <1>1, <1>4 DEF WellParsed, CountOK
  <1>5. TypeOK
    <2>1. unmarshal \in [Nodes -> ezRpcUnmarshal]
      BY <1>3 DEF Init, u
    <2>2. records \in [Nodes -> [1 .. Records -> ezRpcRequestRecord]]
      BY <1>2 DEF Init
    <2>3. 0 \in 0 .. MaxFaults
      BY SizeAssumption
    <2>4. \A n \in Nodes : CountOK(unmarshal[n])
      BY <1>4, <1>9 DEF WellParsed
    <2> QED
      BY <1>1, <2>1, <2>2, <2>3, <2>4, EmptySeq DEF Init, TypeOK
  <1>6. HeldAsParsed
    BY <1>4, HeldValues DEF Init, HeldAsParsed
  <1>7. PayloadsWhole
    BY <1>4, <1>9 DEF PayloadsWhole
  <1>8. QueuesHoldMessages
    <2>1. HoldsMessages(<< >>)
      BY EmptySeq DEF HoldsMessages
    <2> QED
      BY <2>1 DEF Init, QueuesHoldMessages
  <1> QED
    BY <1>5, <1>6, <1>7, <1>8 DEF IInv

(* What a step leaves alone it does not disturb.                           *)
LEMMA ParserUntouched ==
  ASSUME HeldAsParsed, PayloadsWhole, UNCHANGED <<unmarshal, reserved>>
  PROVE  HeldAsParsed' /\ PayloadsWhole'
  BY DEF HeldAsParsed, PayloadsWhole

LEMMA QueuesUntouched ==
  ASSUME QueuesHoldMessages, UNCHANGED <<rx_msg_queue, confused>>
  PROVE  QueuesHoldMessages'
  BY DEF QueuesHoldMessages

-----------------------------------------------------------------------------
(* Sending, and the line. *)

LEMMA MarshalType ==
  ASSUME TypeOK, NEW n \in Nodes, NEW h \in ezRpcMsgHeader, NEW p \in Payloads \cup {Reply},
         Marshal(n, h, p)
  PROVE  tx_msg_queue' \in [Nodes -> Seq(Seq(Byte))]
  <1> DEFINE f == Frame(h, p)
             q == Append(tx_msg_queue[n], f)
  <1>1. f \in Seq(Byte)
    BY FrameType
  <1>2. tx_msg_queue[n] \in Seq(Seq(Byte))
    BY DEF TypeOK
  <1>3. q \in Seq(Seq(Byte))
    BY <1>1, <1>2, AppendProperties
  <1>4. tx_msg_queue' = [tx_msg_queue EXCEPT ![n] = q]
    BY DEF Marshal
  <1> HIDE DEF q
  <1> QED
    BY <1>3, <1>4 DEF TypeOK

LEMMA NextUuidType ==
  ASSUME NEW x \in Int
  PROVE  (x + 1) % UuidLimit \in UInt16
  <1>1. x + 1 \in Int
    OBVIOUS
  <1> QED
    BY <1>1, Remainder16 DEF UuidLimit

LEMMA RequestStep ==
  ASSUME IInv, NEW n \in Nodes, NEW c \in AskedIds, NEW p \in Payloads,
         ezRPC_CreateRpcRequest(n, c, p)
  PROVE  IInv'
  <1> USE DEF IInv
  <1> DEFINE u == (next_uuid[n] + 1) % UuidLimit
  <1>1. u \in UInt16
    <2>1. next_uuid[n] \in Int
      BY WordIsInt DEF TypeOK
    <2> QED
      BY <2>1, NextUuidType
  <1>2. next_uuid' = [next_uuid EXCEPT ![n] = u]
    BY DEF ezRPC_CreateRpcRequest
  <1>3. /\ UNCHANGED <<crc, rx_msg_queue, unmarshal, reserved, stage, wire, faults, confused>>
        /\ \/ UNCHANGED <<records, tx_msg_queue>>
           \/ TakeRecord(n, u, FALSE) /\ UNCHANGED tx_msg_queue
           \/ TakeRecord(n, u, TRUE) /\ Marshal(n, Header(u, REQ, c, Len(p)), p)
    BY DEF ezRPC_CreateRpcRequest
  <1> HIDE DEF u
  <1>4. records' \in [Nodes -> [1 .. Records -> ezRpcRequestRecord]]
    <2>1. \A b \in BOOLEAN : [uuid |-> u, is_available |-> b] \in ezRpcRequestRecord
      BY <1>1 DEF ezRpcRequestRecord
    <2>2. ASSUME NEW b \in BOOLEAN, TakeRecord(n, u, b)
          PROVE  records' \in [Nodes -> [1 .. Records -> ezRpcRequestRecord]]
      <3> DEFINE r == [uuid |-> u, is_available |-> ~b]
                 i == First(AvailRecords(n))
      <3>1. r \in ezRpcRequestRecord
        BY <2>1
      <3>2. records' = [records EXCEPT ![n] = [records[n] EXCEPT ![i] = r]]
        BY <2>2 DEF TakeRecord
      <3> HIDE DEF r, i
      <3>3. [records[n] EXCEPT ![i] = r] \in [1 .. Records -> ezRpcRequestRecord]
        BY <3>1 DEF TypeOK
      <3> QED
        BY <3>2, <3>3 DEF TypeOK
    <2> QED
      BY <1>3, <2>2 DEF TypeOK
  <1>5. tx_msg_queue' \in [Nodes -> Seq(Seq(Byte))]
    <2>1. Header(u, REQ, c, Len(p)) \in ezRpcMsgHeader
      BY <1>1, MessageAssumption, PayloadLength, HeaderType
    <2> QED
      BY <1>3, <2>1, MarshalType DEF TypeOK
  <1>6. TypeOK'
    BY <1>1, <1>2, <1>3, <1>4, <1>5 DEF TypeOK
  <1> QED
    BY <1>3, <1>6, ParserUntouched, QueuesUntouched

LEMMA TransmitStep ==
  ASSUME IInv, NEW n \in Nodes, Transmit(n)
  PROVE  IInv'
  <1> USE DEF IInv
  <1>1. /\ UNCHANGED <<crc, records, next_uuid, rx_msg_queue, unmarshal, reserved, faults,
                       confused>>
        /\ stage' = [stage EXCEPT ![n] = "receive"]
    BY DEF Transmit
  <1>2. wire' \in [Nodes -> Seq(Byte)] /\ tx_msg_queue' \in [Nodes -> Seq(Seq(Byte))]
    <2>1. CASE ezRPC_NumOfTxPendingMsg(n) > 0
      <3> DEFINE q == tx_msg_queue[n]   w == wire[Peer(n)] \o Head(q)   t == Tail(q)
      <3>1. q \in Seq(Seq(Byte)) /\ q # << >>
        BY <2>1, EmptySeq DEF ezRPC_NumOfTxPendingMsg, TypeOK
      <3>2. Head(q) \in Seq(Byte) /\ t \in Seq(Seq(Byte))
        BY <3>1, HeadTailProperties
      <3>3. w \in Seq(Byte)
        BY <3>2, PeerIsOther, ConcatProperties DEF TypeOK
      <3>4. ezRPC_NumOfTxPendingMsg(n) # 0
        BY <2>1
      <3>5. /\ wire' = [wire EXCEPT ![Peer(n)] = w]
            /\ tx_msg_queue' = [tx_msg_queue EXCEPT ![n] = t]
        BY <3>4, Zenon DEF Transmit
      <3> HIDE DEF w, t
      <3> QED
        BY <3>2, <3>3, <3>5 DEF TypeOK
    <2>2. CASE UNCHANGED <<wire, tx_msg_queue>>
      BY <2>2 DEF TypeOK
    <2> QED
      BY <2>1, <2>2 DEF Transmit
  <1>3. TypeOK'
    BY <1>1, <1>2 DEF TypeOK
  <1> QED
    BY <1>1, <1>3, ParserUntouched, QueuesUntouched

LEMMA FaultStep ==
  ASSUME IInv, NEW n \in Nodes, Fault(n)
  PROVE  IInv'
  <1> USE DEF IInv
  <1>1. UNCHANGED <<crc, records, next_uuid, tx_msg_queue, rx_msg_queue, unmarshal, reserved,
                    stage, confused>>
    BY DEF Fault
  <1>2. faults' \in 0 .. MaxFaults
    BY SizeAssumption DEF Fault, TypeOK
  <1>3. wire' \in [Nodes -> Seq(Byte)]
    <2> DEFINE t == Tail(wire[n])
    <2>1. t \in Seq(Byte)
      BY HeadTailProperties DEF Fault, TypeOK
    <2>2. PICK w : /\ w = t \/ \E b \in Noise : w = <<b>> \o t
                   /\ wire' = [wire EXCEPT ![n] = w]
      BY DEF Fault
    <2> HIDE DEF t
    <2>3. \A b \in Noise : <<b>> \in Seq(Byte)
      BY MessageAssumption
    <2>4. w \in Seq(Byte)
      BY <2>1, <2>2, <2>3, ConcatProperties
    <2> QED
      BY <2>2, <2>4 DEF TypeOK
  <1>4. TypeOK'
    BY <1>1, <1>2, <1>3 DEF TypeOK
  <1> QED
    BY <1>1, <1>4, ParserUntouched, QueuesUntouched

-----------------------------------------------------------------------------
(* The parser.  An action reads one byte, changes the parser's state to u, *)
(* holds what u says, and pushes a whole message or nothing.               *)

Pushes(n) ==
  \E h \in ezRpcMsgHeader, p \in Seq(Byte) :
    /\ h.payload_high = 0 /\ Len(p) = h.payload_size
    /\ rx_msg_queue' = [rx_msg_queue EXCEPT ![n] = @ \o <<HeaderElement(h), PayloadElement(p)>>]

Moves(n, u) ==
  /\ u \in ezRpcUnmarshal /\ WellParsed(u)
  /\ Parsed(n, u)
  /\ reserved' = [reserved EXCEPT ![n] = HeldIn(u.state)]
  /\ rx_msg_queue' = rx_msg_queue \/ Pushes(n)

LEMMA ParserMoves ==
  ASSUME IInv, NEW n \in Nodes, NEW s, Reading(n, s), NEW u, Moves(n, u)
  PROVE  IInv'
  <1> USE DEF IInv
  <1>1. /\ UNCHANGED <<crc, records, next_uuid, tx_msg_queue, sent, handled, faults, confused,
                       stage>>
        /\ wire[n] # << >> /\ wire' = [wire EXCEPT ![n] = Tail(@)]
    BY DEF Reading, RunVars
  <1>2. /\ u \in ezRpcUnmarshal /\ WellParsed(u)
        /\ unmarshal' = [unmarshal EXCEPT ![n] = u]
        /\ reserved' = [reserved EXCEPT ![n] = HeldIn(u.state)]
    BY DEF Moves, Parsed
  <1>3. HeldIn(u.state) \in Nat
    BY DEF HeldIn
  <1>4. wire' \in [Nodes -> Seq(Byte)]
    <2> DEFINE t == Tail(wire[n])
    <2>1. t \in Seq(Byte)
      BY <1>1, HeadTailProperties DEF TypeOK
    <2>2. wire' = [wire EXCEPT ![n] = t]
      BY <1>1
    <2> HIDE DEF t
    <2> QED
      BY <2>1, <2>2 DEF TypeOK
  <1>5. /\ rx_msg_queue' \in [Nodes -> Seq(Element)]
        /\ \A k \in Nodes : HoldsMessages(rx_msg_queue[k]) => HoldsMessages(rx_msg_queue'[k])
    <2>1. CASE rx_msg_queue' = rx_msg_queue
      BY <2>1 DEF TypeOK
    <2>2. CASE Pushes(n)
      <3>1. PICK h \in ezRpcMsgHeader, p \in Seq(Byte) :
              /\ h.payload_high = 0 /\ Len(p) = h.payload_size
              /\ rx_msg_queue' = [rx_msg_queue EXCEPT ![n] =
                                    @ \o <<HeaderElement(h), PayloadElement(p)>>]
        BY <2>2 DEF Pushes
      <3> DEFINE r == rx_msg_queue[n] \o <<HeaderElement(h), PayloadElement(p)>>
      <3>2. r \in Seq(Element) /\ (HoldsMessages(rx_msg_queue[n]) => HoldsMessages(r))
        BY <3>1, PushedMessage DEF TypeOK
      <3>3. rx_msg_queue' = [rx_msg_queue EXCEPT ![n] = r]
        BY <3>1
      <3> HIDE DEF r
      <3> QED
        BY <3>2, <3>3 DEF TypeOK
    <2> QED
      BY <2>1, <2>2 DEF Moves
  <1>8. PayloadsWhole'
    BY <1>2 DEF PayloadsWhole, TypeOK
  <1>6. TypeOK'
    <2>1. \A k \in Nodes : CountOK(unmarshal'[k])
      BY <1>8 DEF PayloadsWhole, WellParsed
    <2> QED
      BY <1>1, <1>2, <1>3, <1>4, <1>5, <2>1 DEF TypeOK
  <1>7. HeldAsParsed'
    BY <1>2 DEF HeldAsParsed, TypeOK
  <1>9. QueuesHoldMessages'
    <2>1. \A k \in Nodes : ~confused[k] => HoldsMessages(rx_msg_queue[k])
      BY DEF QueuesHoldMessages
    <2>2. \A k \in Nodes : ~confused'[k] => HoldsMessages(rx_msg_queue'[k])
      BY <1>1, <1>5, <2>1
    <2> QED
      BY <2>2 DEF QueuesHoldMessages
  <1> QED
    BY <1>6, <1>7, <1>8, <1>9

(* What a reading parser starts from.                                      *)
LEMMA ReadingFacts ==
  ASSUME IInv, NEW n \in Nodes, NEW s, Reading(n, s)
  PROVE  /\ Head(wire[n]) \in Byte
         /\ unmarshal[n] \in ezRpcUnmarshal /\ unmarshal[n].state = s
         /\ WellParsed(unmarshal[n])
         /\ reserved[n] = HeldIn(s) /\ reserved \in [Nodes -> Nat]
  <1>1. wire[n] \in Seq(Byte) /\ wire[n] # << >>
    BY DEF IInv, TypeOK, Reading
  <1> QED
    BY <1>1, HeadTailProperties
    DEF IInv, TypeOK, Reading, PayloadsWhole, HeldAsParsed

(* Only the last two states of the parser say something of its payload.    *)
LEMMA EarlyStates ==
  ASSUME NEW u, u.state \notin {"PAYLOAD", "CRC"}, CountOK(u)
  PROVE  WellParsed(u)
  BY DEF WellParsed

LEMMA FreshCount ==
  ASSUME NEW u, u.byte_count = 0,
         u.state \in {"SYNC", "UUID", "MSG_TYPE", "ENCRYPT_FLAG", "CMD_ID", "PAYLOAD_SIZE"}
  PROVE  WellParsed(u)
  <1>1. CountOK(u)
    BY ZeroIsWord DEF CountOK, UUID_SIZE, CMD_ID_SIZE, LEN_SIZE
  <1> QED
    BY <1>1, EarlyStates

LEMMA LeftCount ==
  ASSUME NEW u, u.state = "SYNC", u.byte_count \in UInt16
  PROVE  WellParsed(u)
  BY EarlyStates DEF CountOK

LEMMA FewBytes ==
  ASSUME NEW k \in Nat, k <= 4
  PROVE  k \in UInt16
  <1>1. k \in Int /\ 0 <= k /\ k < MaxLen
    BY MaxLenValue
  <1> QED
    BY <1>1, SmallNumber

(* The three things the parser does with what it holds.                    *)
LEMMA KeepsHeld ==
  ASSUME IInv, NEW n \in Nodes, NEW s, Reading(n, s), NEW u \in ezRpcUnmarshal, WellParsed(u),
         Parsed(n, u), UNCHANGED <<rx_msg_queue, reserved>>, HeldIn(u.state) = HeldIn(s)
  PROVE  IInv'
  <1>1. reserved' = [reserved EXCEPT ![n] = HeldIn(u.state)]
    BY ReadingFacts
  <1> QED
    BY <1>1, ParserMoves DEF Moves

LEMMA ReservesOne ==
  ASSUME IInv, NEW n \in Nodes, NEW s, Reading(n, s), NEW u \in ezRpcUnmarshal, WellParsed(u),
         Parsed(n, u), Reserve(n), HeldIn(u.state) = HeldIn(s) + 1
  PROVE  IInv'
  <1>1. reserved' = [reserved EXCEPT ![n] = HeldIn(u.state)]
    BY ReadingFacts DEF Reserve
  <1> QED
    BY <1>1, ParserMoves DEF Moves, Reserve

LEMMA ReleasesAll ==
  ASSUME IInv, NEW n \in Nodes, NEW s, Reading(n, s), NEW u \in ezRpcUnmarshal, Parsed(n, u),
         u.state = "SYNC", u.byte_count \in UInt16, NEW k, k = HeldIn(s), Release(n, k)
  PROVE  IInv'
  <1>1. HeldIn(s) \in Nat
    BY DEF HeldIn
  <1>2. reserved' = [reserved EXCEPT ![n] = HeldIn(u.state)]
    <2>1. reserved[n] = k /\ k \in Nat /\ HeldIn(u.state) = 0
      BY <1>1, ReadingFacts, HeldValues
    <2>2. reserved' = [reserved EXCEPT ![n] = reserved[n] - k]
      BY DEF Release
    <2>3. reserved[n] - k = HeldIn(u.state)
      BY <2>1
    <2> QED
      BY <2>2, <2>3
  <1> QED
    BY <1>2, ParserMoves, LeftCount DEF Moves, Release

LEMMA PushesAll ==
  ASSUME IInv, NEW n \in Nodes, NEW s, Reading(n, s), NEW u \in ezRpcUnmarshal, Parsed(n, u),
         u.state = "SYNC", u.byte_count \in UInt16, NEW k, k = HeldIn(s),
         NEW p \in Seq(Byte), PushMessage(n, p, k), unmarshal[n].curr_hdr.payload_high = 0,
         Len(p) = unmarshal[n].curr_hdr.payload_size
  PROVE  IInv'
  <1>1. HeldIn(s) \in Nat
    BY DEF HeldIn
  <1>2. reserved' = [reserved EXCEPT ![n] = HeldIn(u.state)]
    <2>1. reserved[n] = k /\ k \in Nat /\ HeldIn(u.state) = 0
      BY <1>1, ReadingFacts, HeldValues
    <2>2. reserved' = [reserved EXCEPT ![n] = reserved[n] - k]
      BY DEF PushMessage
    <2>3. reserved[n] - k = HeldIn(u.state)
      BY <2>1
    <2> QED
      BY <2>2, <2>3
  <1>3. unmarshal[n].curr_hdr \in ezRpcMsgHeader
    BY ReadingFacts DEF ezRpcUnmarshal
  <1>4. Pushes(n)
    BY <1>3 DEF Pushes, PushMessage
  <1> QED
    BY <1>2, <1>4, ParserMoves, LeftCount DEF Moves

-----------------------------------------------------------------------------
(* One lemma per state of the parser. *)

LEMMA CountSet ==
  ASSUME NEW u \in ezRpcUnmarshal, NEW k \in Nat
  PROVE  LET v == [u EXCEPT !.byte_count = k] IN
         v \in ezRpcUnmarshal /\ v.state = u.state /\ v.byte_count = k
  BY DEF ezRpcUnmarshal

LEMMA StateEntered ==
  ASSUME NEW u \in ezRpcUnmarshal, NEW s \in States
  PROVE  LET v == [u EXCEPT !.byte_count = 0, !.state = s] IN
         v \in ezRpcUnmarshal /\ v.state = s /\ v.byte_count = 0
  BY DEF ezRpcUnmarshal

LEMMA NextCount ==
  ASSUME NEW u \in ezRpcUnmarshal
  PROVE  u.byte_count + 1 \in Nat
  <1>1. u.byte_count \in Nat
    BY DEF ezRpcUnmarshal
  <1> QED
    BY <1>1

LEMMA SyncStep ==
  ASSUME IInv, NEW n \in Nodes, SyncByte(n)
  PROVE  IInv'
  <1> DEFINE m == unmarshal[n]
             x == Shift(m.sync_bytes, Head(wire[n]))
             u == [m EXCEPT !.sync_bytes = x]
             waits == [u EXCEPT !.byte_count = m.byte_count + 1]
             again == [u EXCEPT !.byte_count = 0]
             begins == [u EXCEPT !.byte_count = 0, !.state = "UUID",
                                 !.curr_hdr.uuid = 0, !.curr_hdr.payload_high = 0,
                                 !.curr_hdr.payload_size = 0]
  <1>1. Reading(n, "SYNC")
    BY DEF SyncByte
  <1>2. /\ Head(wire[n]) \in Byte /\ m \in ezRpcUnmarshal /\ m.state = "SYNC"
    BY <1>1, ReadingFacts
  <1>3. x \in UInt16
    BY <1>2, ShiftType DEF ezRpcUnmarshal
  <1>4. \/ /\ m.byte_count + 1 < SYNC_SIZE
           /\ Parsed(n, waits) /\ UNCHANGED <<rx_msg_queue, reserved>>
        \/ Parsed(n, again) /\ UNCHANGED <<rx_msg_queue, reserved>>
        \/ Parsed(n, begins) /\ Reserve(n)
    BY DEF SyncByte
  <1> HIDE DEF x, m
  <1>5. /\ u \in ezRpcUnmarshal /\ u.state = "SYNC" /\ u.byte_count = m.byte_count
        /\ u.curr_hdr = m.curr_hdr
    BY <1>2, <1>3 DEF ezRpcUnmarshal
  <1> HIDE DEF u
  <1>6. /\ waits \in ezRpcUnmarshal /\ waits.state = "SYNC"
        /\ waits.byte_count = m.byte_count + 1
        /\ again \in ezRpcUnmarshal /\ again.state = "SYNC" /\ again.byte_count = 0
    BY <1>2, <1>5, NextCount, CountSet
  <1>7. begins \in ezRpcUnmarshal /\ begins.state = "UUID" /\ begins.byte_count = 0
    <2>1. 0 \in UInt16
      BY MaxLenIsInt DEF UInt16
    <2>2. [u.curr_hdr EXCEPT !.uuid = 0, !.payload_high = 0, !.payload_size = 0]
            \in ezRpcMsgHeader
      BY <1>5, <2>1 DEF ezRpcUnmarshal, ezRpcMsgHeader
    <2> QED
      BY <1>5, <2>2 DEF ezRpcUnmarshal, States
  <1> HIDE DEF waits, again, begins
  <1>8. WellParsed(again) /\ WellParsed(begins)
    BY <1>6, <1>7, FreshCount
  <1>9. m.byte_count + 1 < SYNC_SIZE => WellParsed(waits)
    <2>1. m.byte_count + 1 \in Nat
      BY <1>2, NextCount
    <2> QED
      BY <1>6, <2>1, FewBytes, LeftCount DEF SYNC_SIZE
  <1> QED
    BY <1>1, <1>4, <1>6, <1>7, <1>8, <1>9, HeldValues, KeepsHeld, ReservesOne

LEMMA UuidStep ==
  ASSUME IInv, NEW n \in Nodes, UuidByte(n)
  PROVE  IInv'
  <1> DEFINE m == unmarshal[n]
             x == Shift(m.curr_hdr.uuid, Head(wire[n]))
             u == [m EXCEPT !.curr_hdr.uuid = x]
             waits == [u EXCEPT !.byte_count = m.byte_count + 1]
             ends == [u EXCEPT !.byte_count = 0, !.state = "MSG_TYPE"]
  <1>1. Reading(n, "UUID")
    BY DEF UuidByte
  <1>2. Head(wire[n]) \in Byte /\ m \in ezRpcUnmarshal /\ m.state = "UUID"
    BY <1>1, ReadingFacts
  <1>3. x \in UInt16
    BY <1>2, ShiftType DEF ezRpcUnmarshal, ezRpcMsgHeader
  <1>4. \/ /\ m.byte_count + 1 < UUID_SIZE
           /\ Parsed(n, waits) /\ UNCHANGED <<rx_msg_queue, reserved>>
        \/ Parsed(n, ends) /\ UNCHANGED <<rx_msg_queue, reserved>>
    BY DEF UuidByte
  <1> HIDE DEF x, m
  <1>5. u \in ezRpcUnmarshal /\ u.state = "UUID" /\ u.byte_count = m.byte_count
    BY <1>2, <1>3 DEF ezRpcUnmarshal, ezRpcMsgHeader
  <1> HIDE DEF u
  <1>6. /\ waits \in ezRpcUnmarshal /\ waits.state = "UUID"
        /\ waits.byte_count = m.byte_count + 1
        /\ ends \in ezRpcUnmarshal /\ ends.state = "MSG_TYPE" /\ ends.byte_count = 0
    <2>1. "MSG_TYPE" \in States
      BY DEF States
    <2>2. m.byte_count + 1 \in Nat
      BY <1>2, NextCount
    <2>3. /\ waits \in ezRpcUnmarshal /\ waits.state = u.state
          /\ waits.byte_count = m.byte_count + 1
      BY <1>5, <2>2, CountSet
    <2>4. ends \in ezRpcUnmarshal /\ ends.state = "MSG_TYPE" /\ ends.byte_count = 0
      BY <1>5, <2>1, StateEntered
    <2> QED
      BY <1>5, <2>3, <2>4
  <1> HIDE DEF waits, ends
  <1>7. WellParsed(ends)
    BY <1>6, FreshCount
  <1>8. m.byte_count + 1 < UUID_SIZE => WellParsed(waits)
    BY <1>6, EarlyStates DEF CountOK
  <1> QED
    BY <1>1, <1>4, <1>6, <1>7, <1>8, HeldValues, KeepsHeld

LEMMA MsgTypeStep ==
  ASSUME IInv, NEW n \in Nodes, MsgTypeByte(n)
  PROVE  IInv'
  <1> DEFINE m == unmarshal[n]
             b == Head(wire[n])
             goes == [m EXCEPT !.curr_hdr.type = b, !.state = "ENCRYPT_FLAG"]
             gives == [m EXCEPT !.state = "SYNC"]
  <1>1. Reading(n, "MSG_TYPE")
    BY DEF MsgTypeByte
  <1>2. m \in ezRpcUnmarshal /\ m.state = "MSG_TYPE" /\ m.byte_count = 0
    BY <1>1, ReadingFacts DEF WellParsed, CountOK
  <1>3. \/ b \in {REQ, RESP, EVENT} /\ Parsed(n, goes) /\ UNCHANGED <<rx_msg_queue, reserved>>
        \/ Parsed(n, gives) /\ Release(n, 1)
    BY DEF MsgTypeByte
  <1> HIDE DEF b, m
  <1>4. CASE Parsed(n, gives) /\ Release(n, 1)
    <2>1. gives \in ezRpcUnmarshal /\ gives.state = "SYNC" /\ gives.byte_count = 0
      BY <1>2 DEF ezRpcUnmarshal, States
    <2> HIDE DEF gives
    <2> QED
      BY <1>1, <1>4, <2>1, ZeroIsWord, HeldValues, ReleasesAll
  <1>5. CASE b \in {REQ, RESP, EVENT} /\ Parsed(n, goes) /\ UNCHANGED <<rx_msg_queue, reserved>>
    <2>1. goes \in ezRpcUnmarshal /\ goes.state = "ENCRYPT_FLAG" /\ goes.byte_count = 0
      BY <1>2, <1>5 DEF ezRpcUnmarshal, ezRpcMsgHeader, States
    <2> HIDE DEF goes
    <2> QED
      BY <1>1, <1>5, <2>1, FreshCount, HeldValues, KeepsHeld
  <1> QED
    BY <1>3, <1>4, <1>5

LEMMA EncryptFlagStep ==
  ASSUME IInv, NEW n \in Nodes, EncryptFlagByte(n)
  PROVE  IInv'
  <1> DEFINE u == [unmarshal[n] EXCEPT !.state = "CMD_ID"]
  <1>1. Reading(n, "ENCRYPT_FLAG") /\ Parsed(n, u) /\ UNCHANGED <<rx_msg_queue, reserved>>
    BY DEF EncryptFlagByte
  <1>2. unmarshal[n] \in ezRpcUnmarshal /\ unmarshal[n].byte_count = 0
    BY <1>1, ReadingFacts DEF WellParsed, CountOK
  <1>3. u \in ezRpcUnmarshal /\ u.state = "CMD_ID" /\ u.byte_count = 0
    BY <1>2 DEF ezRpcUnmarshal, States
  <1> HIDE DEF u
  <1> QED
    BY <1>1, <1>3, FreshCount, HeldValues, KeepsHeld

LEMMA CmdIdStep ==
  ASSUME IInv, NEW n \in Nodes, CmdIdByte(n)
  PROVE  IInv'
  <1> DEFINE m == unmarshal[n]
             x == Shift(m.curr_hdr.cmd_id, Head(wire[n]))
             u == [m EXCEPT !.curr_hdr.cmd_id = x]
             waits == [u EXCEPT !.byte_count = m.byte_count + 1]
             ends == [u EXCEPT !.byte_count = 0, !.state = "PAYLOAD_SIZE"]
  <1>1. Reading(n, "CMD_ID")
    BY DEF CmdIdByte
  <1>2. Head(wire[n]) \in Byte /\ m \in ezRpcUnmarshal /\ m.state = "CMD_ID"
    BY <1>1, ReadingFacts
  <1>3. x \in UInt16
    BY <1>2, ShiftType DEF ezRpcUnmarshal, ezRpcMsgHeader
  <1>4. \/ /\ m.byte_count + 1 < CMD_ID_SIZE
           /\ Parsed(n, waits) /\ UNCHANGED <<rx_msg_queue, reserved>>
        \/ Parsed(n, ends) /\ UNCHANGED <<rx_msg_queue, reserved>>
    BY DEF CmdIdByte
  <1> HIDE DEF x, m
  <1>5. u \in ezRpcUnmarshal /\ u.state = "CMD_ID" /\ u.byte_count = m.byte_count
    BY <1>2, <1>3 DEF ezRpcUnmarshal, ezRpcMsgHeader
  <1> HIDE DEF u
  <1>6. /\ waits \in ezRpcUnmarshal /\ waits.state = "CMD_ID"
        /\ waits.byte_count = m.byte_count + 1
        /\ ends \in ezRpcUnmarshal /\ ends.state = "PAYLOAD_SIZE" /\ ends.byte_count = 0
    <2>1. "PAYLOAD_SIZE" \in States
      BY DEF States
    <2>2. m.byte_count + 1 \in Nat
      BY <1>2, NextCount
    <2>3. /\ waits \in ezRpcUnmarshal /\ waits.state = u.state
          /\ waits.byte_count = m.byte_count + 1
      BY <1>5, <2>2, CountSet
    <2>4. ends \in ezRpcUnmarshal /\ ends.state = "PAYLOAD_SIZE" /\ ends.byte_count = 0
      BY <1>5, <2>1, StateEntered
    <2> QED
      BY <1>5, <2>3, <2>4
  <1> HIDE DEF waits, ends
  <1>7. WellParsed(ends)
    BY <1>6, FreshCount
  <1>8. m.byte_count + 1 < CMD_ID_SIZE => WellParsed(waits)
    BY <1>6, EarlyStates DEF CountOK
  <1> QED
    BY <1>1, <1>4, <1>6, <1>7, <1>8, HeldValues, KeepsHeld

LEMMA PayloadSizeStep ==
  ASSUME IInv, NEW n \in Nodes, PayloadSizeByte(n)
  PROVE  IInv'
  <1> DEFINE m == unmarshal[n]
             y == Shift(m.curr_hdr.payload_high, Hi(m.curr_hdr.payload_size))
             x == Shift(m.curr_hdr.payload_size, Head(wire[n]))
             u == [m EXCEPT !.curr_hdr.payload_high = y, !.curr_hdr.payload_size = x,
                            !.byte_count = m.byte_count + 1]
             begins == [u EXCEPT !.byte_count = 0, !.payload = << >>, !.state = "PAYLOAD"]
             gives == [u EXCEPT !.state = "SYNC"]
  <1>1. Reading(n, "PAYLOAD_SIZE")
    BY DEF PayloadSizeByte
  <1>2. /\ Head(wire[n]) \in Byte /\ m \in ezRpcUnmarshal /\ m.state = "PAYLOAD_SIZE"
        /\ m.byte_count < LEN_SIZE
    BY <1>1, ReadingFacts DEF WellParsed, CountOK
  <1>3. x \in UInt16 /\ y \in UInt16
    BY <1>2, ShiftType, HalvesType DEF ezRpcUnmarshal, ezRpcMsgHeader
  <1>4. /\ u \in ezRpcUnmarshal /\ u.state = "PAYLOAD_SIZE" /\ u.curr_hdr.payload_size = x
        /\ u.byte_count = m.byte_count + 1
    <2> HIDE DEF x, y, m
    <2> DEFINE k == m.byte_count + 1
               h == [m.curr_hdr EXCEPT !.payload_high = y, !.payload_size = x]
    <2>1. k \in Nat
      BY <1>2, NextCount
    <2>2. h \in ezRpcMsgHeader /\ h.payload_size = x
      BY <1>2, <1>3 DEF ezRpcUnmarshal, ezRpcMsgHeader
    <2>3. u = [m EXCEPT !.curr_hdr = h, !.byte_count = k]
      OBVIOUS
    <2> HIDE DEF h, k, u
    <2>4. /\ u \in ezRpcUnmarshal /\ u.state = "PAYLOAD_SIZE" /\ u.curr_hdr.payload_size = x
          /\ u.byte_count = k
      BY <1>2, <2>1, <2>2, <2>3 DEF ezRpcUnmarshal
    <2> QED
      BY <2>4 DEF k
  <1>5. \/ u.byte_count < LEN_SIZE /\ Parsed(n, u) /\ UNCHANGED <<rx_msg_queue, reserved>>
        \/ CanReserve(n, u.curr_hdr.payload_size) /\ Parsed(n, begins) /\ Reserve(n)
        \/ Parsed(n, gives) /\ Release(n, 1)
    BY DEF PayloadSizeByte
  <1>9. m.byte_count + 1 \in Nat /\ m.byte_count + 1 <= 4 /\ m.byte_count + 1 \in UInt16
    BY <1>2, NextCount, FewBytes DEF LEN_SIZE, ezRpcUnmarshal
  <1> HIDE DEF x, y, m, u
  <1>6. CASE u.byte_count < LEN_SIZE /\ Parsed(n, u) /\ UNCHANGED <<rx_msg_queue, reserved>>
    <2>1. WellParsed(u)
      BY <1>4, <1>6, EarlyStates DEF CountOK
    <2> QED
      BY <1>1, <1>4, <1>6, <2>1, HeldValues, KeepsHeld
  <1>7. CASE CanReserve(n, u.curr_hdr.payload_size) /\ Parsed(n, begins) /\ Reserve(n)
    <2>1. x > 0 /\ x \in 1 .. MaxBlock
      BY <1>3, <1>4, <1>7, WordIsInt DEF CanReserve
    <2>2. /\ begins \in ezRpcUnmarshal /\ begins.state = "PAYLOAD" /\ begins.byte_count = 0
          /\ begins.payload = << >> /\ begins.curr_hdr.payload_size = x
      BY <1>4, EmptySeq DEF ezRpcUnmarshal, States
    <2> HIDE DEF begins
    <2>3. WellParsed(begins)
      BY <2>1, <2>2, EmptySeq DEF WellParsed, CountOK
    <2> QED
      BY <1>1, <1>7, <2>2, <2>3, HeldValues, ReservesOne
  <1>8. CASE Parsed(n, gives) /\ Release(n, 1)
    <2>1. /\ gives \in ezRpcUnmarshal /\ gives.state = "SYNC"
          /\ gives.byte_count = m.byte_count + 1
      BY <1>4 DEF ezRpcUnmarshal, States
    <2> HIDE DEF gives
    <2> QED
      BY <1>1, <1>8, <1>9, <2>1, HeldValues, ReleasesAll
  <1> QED
    BY <1>5, <1>6, <1>7, <1>8

LEMMA PayloadStep ==
  ASSUME IInv, NEW n \in Nodes, PayloadByte(n)
  PROVE  IInv'
  <1> DEFINE m == unmarshal[n]
             p == Append(m.payload, Head(wire[n]))
             u == [m EXCEPT !.payload = p, !.byte_count = m.byte_count + 1]
             ends == [u EXCEPT !.byte_count = 0, !.crc_val = << >>, !.state = "CRC"]
             leaves == [u EXCEPT !.state = "SYNC"]
             whole == /\ u.curr_hdr.payload_high = 0
                      /\ u.byte_count >= u.curr_hdr.payload_size
  <1>1. Reading(n, "PAYLOAD") /\ ~BlockIsFull(n)
    BY DEF PayloadByte
  <1>2. /\ Head(wire[n]) \in Byte /\ m \in ezRpcUnmarshal /\ m.state = "PAYLOAD"
        /\ Len(m.payload) = m.byte_count /\ m.curr_hdr.payload_size \in 1 .. MaxBlock
        /\ ~(m.byte_count >= m.curr_hdr.payload_size)
    BY <1>1, ReadingFacts DEF WellParsed, CountOK, BlockIsFull
  <1>3. /\ m.payload \in Seq(Byte) /\ m.byte_count \in Nat
        /\ m.curr_hdr.payload_size \in UInt16 /\ m.curr_hdr.payload_size \in Int
    BY <1>2, WordIsInt DEF ezRpcUnmarshal, ezRpcMsgHeader
  <1>4. p \in Seq(Byte) /\ Len(p) = m.byte_count + 1
    BY <1>2, <1>3, AppendProperties
  <1>5. \/ ~whole /\ Parsed(n, u) /\ UNCHANGED <<rx_msg_queue, reserved>>
        \/ whole /\ Parsed(n, ends) /\ Reserve(n)
        \/ Parsed(n, leaves) /\ Release(n, 2)
        \/ whole /\ Parsed(n, leaves) /\ PushMessage(n, u.payload, 2)
    BY DEF PayloadByte
  <1> HIDE DEF p
  <1>6. /\ u \in ezRpcUnmarshal /\ u.state = "PAYLOAD" /\ u.payload = p
        /\ u.byte_count = m.byte_count + 1 /\ u.curr_hdr = m.curr_hdr
    <2> DEFINE k == m.byte_count + 1
    <2>1. k \in Nat
      BY <1>2, NextCount
    <2> HIDE DEF m, k
    <2>2. u = [m EXCEPT !.payload = p, !.byte_count = k]
      BY DEF k
    <2> HIDE DEF u
    <2>3. /\ u \in ezRpcUnmarshal /\ u.state = "PAYLOAD" /\ u.payload = p
          /\ u.byte_count = k /\ u.curr_hdr = m.curr_hdr
      BY <1>2, <1>4, <2>1, <2>2 DEF ezRpcUnmarshal
    <2> QED
      BY <2>3 DEF k
  <1>13. m.byte_count + 1 <= m.curr_hdr.payload_size
    BY <1>2, <1>3
  <1>7. whole => Len(p) = m.curr_hdr.payload_size /\ m.curr_hdr.payload_high = 0
    BY <1>2, <1>3, <1>4, <1>6
  <1>14. m.byte_count + 1 \in UInt16
    <2> DEFINE k == m.byte_count + 1   w == m.curr_hdr.payload_size
    <2>1. k \in Int /\ 0 <= k /\ k <= w /\ w \in UInt16
      BY <1>3, <1>13
    <2> HIDE DEF k, w
    <2>2. k <= MaxLen
      BY <2>1, WordIsInt, MaxLenValue
    <2>3. k \in UInt16
      BY <2>1, <2>2, IsWord
    <2> QED
      BY <2>3 DEF k
  <1>8. /\ leaves \in ezRpcUnmarshal /\ leaves.state = "SYNC"
        /\ leaves.byte_count = m.byte_count + 1
    <2> HIDE DEF u
    <2> QED
      BY <1>6 DEF ezRpcUnmarshal, States
  <1>9. CASE ~whole /\ Parsed(n, u) /\ UNCHANGED <<rx_msg_queue, reserved>>
    <2>1. WellParsed(u)
      <3>1. u.curr_hdr.payload_high = 0 => u.byte_count < u.curr_hdr.payload_size
        BY <1>3, <1>6, <1>9
      <3> HIDE DEF u
      <3> QED
        BY <1>2, <1>4, <1>6, <1>13, <3>1 DEF WellParsed, CountOK
    <2> HIDE DEF u
    <2> QED
      BY <1>1, <1>6, <1>9, <2>1, KeepsHeld
  <1>10. CASE whole /\ Parsed(n, ends) /\ Reserve(n)
    <2>1. /\ ends \in ezRpcUnmarshal /\ ends.state = "CRC" /\ ends.payload = p
          /\ ends.curr_hdr = m.curr_hdr /\ ends.byte_count = 0 /\ ends.crc_val = << >>
      <3> HIDE DEF u
      <3> QED
        BY <1>6, EmptySeq DEF ezRpcUnmarshal, States
    <2> HIDE DEF ends
    <2>2. WellParsed(ends)
      BY <1>7, <1>10, <2>1, EmptySeq DEF WellParsed, CountOK, CRC_SIZE
    <2> QED
      BY <1>1, <1>10, <2>1, <2>2, HeldValues, ReservesOne
  <1>11. CASE Parsed(n, leaves) /\ Release(n, 2)
    <2> HIDE DEF leaves
    <2> QED
      BY <1>1, <1>8, <1>11, <1>14, HeldValues, ReleasesAll
  <1>12. CASE whole /\ Parsed(n, leaves) /\ PushMessage(n, u.payload, 2)
    <2> HIDE DEF leaves
    <2>1. PushMessage(n, p, 2)
      BY <1>6, <1>12
    <2> QED
      BY <1>1, <1>4, <1>7, <1>8, <1>12, <1>14, <2>1, HeldValues, PushesAll
  <1> QED
    BY <1>5, <1>9, <1>10, <1>11, <1>12

LEMMA CrcStep ==
  ASSUME IInv, NEW n \in Nodes, CrcByte(n)
  PROVE  IInv'
  <1> DEFINE m == unmarshal[n]
             c == Append(m.crc_val, Head(wire[n]))
             u == [m EXCEPT !.crc_val = c, !.byte_count = m.byte_count + 1]
             leaves == [u EXCEPT !.state = "SYNC"]
  <1>1. Reading(n, "CRC")
    BY DEF CrcByte
  <1>2. /\ Head(wire[n]) \in Byte /\ m \in ezRpcUnmarshal /\ m.state = "CRC"
        /\ m.curr_hdr.payload_high = 0 /\ Len(m.payload) = m.curr_hdr.payload_size
        /\ m.byte_count = Len(m.crc_val) /\ m.byte_count < CRC_SIZE
    BY <1>1, ReadingFacts DEF WellParsed, CountOK
  <1>3. c \in Seq(Byte) /\ m.payload \in Seq(Byte) /\ Len(c) = m.byte_count + 1
    BY <1>2, AppendProperties DEF ezRpcUnmarshal
  <1>10. m.byte_count + 1 \in UInt16
    BY <1>2, NextCount, FewBytes DEF CRC_SIZE, ezRpcUnmarshal
  <1>4. \/ u.byte_count < CRC_SIZE /\ Parsed(n, u) /\ UNCHANGED <<rx_msg_queue, reserved>>
        \/ Parsed(n, leaves) /\ PushMessage(n, u.payload, 3)
        \/ Parsed(n, leaves) /\ Release(n, 3)
    BY DEF CrcByte
  <1> HIDE DEF c
  <1>5. /\ u \in ezRpcUnmarshal /\ u.state = "CRC" /\ u.payload = m.payload
        /\ u.curr_hdr = m.curr_hdr /\ u.byte_count = m.byte_count + 1 /\ u.crc_val = c
    <2> DEFINE k == m.byte_count + 1
    <2>1. k \in Nat
      BY <1>2, NextCount
    <2> HIDE DEF m, k
    <2>2. u = [m EXCEPT !.crc_val = c, !.byte_count = k]
      BY DEF k
    <2> HIDE DEF u
    <2>3. /\ u \in ezRpcUnmarshal /\ u.state = "CRC" /\ u.payload = m.payload
          /\ u.curr_hdr = m.curr_hdr /\ u.byte_count = k /\ u.crc_val = c
      BY <1>2, <1>3, <2>1, <2>2 DEF ezRpcUnmarshal
    <2> QED
      BY <2>3 DEF k
  <1> HIDE DEF u
  <1>6. /\ leaves \in ezRpcUnmarshal /\ leaves.state = "SYNC"
        /\ leaves.byte_count = m.byte_count + 1
    BY <1>5 DEF ezRpcUnmarshal, States
  <1> HIDE DEF leaves
  <1>7. CASE u.byte_count < CRC_SIZE /\ Parsed(n, u) /\ UNCHANGED <<rx_msg_queue, reserved>>
    <2>1. WellParsed(u)
      BY <1>2, <1>3, <1>5, <1>7 DEF WellParsed, CountOK
    <2> QED
      BY <1>1, <1>5, <1>7, <2>1, KeepsHeld
  <1>8. CASE Parsed(n, leaves) /\ PushMessage(n, u.payload, 3)
    <2>1. PushMessage(n, m.payload, 3)
      BY <1>5, <1>8
    <2> QED
      BY <1>1, <1>2, <1>3, <1>6, <1>8, <1>10, <2>1, HeldValues, PushesAll
  <1>9. CASE Parsed(n, leaves) /\ Release(n, 3)
    BY <1>1, <1>6, <1>9, <1>10, HeldValues, ReleasesAll
  <1> QED
    BY <1>4, <1>7, <1>8, <1>9

(* A byte written behind a block stops the instance in the model.          *)
LEMMA OverrunStep ==
  ASSUME IInv, NEW n \in Nodes, PayloadOverrun(n)
  PROVE  IInv'
  <1>1. /\ stage' = [stage EXCEPT ![n] = "overrun"]
        /\ UNCHANGED <<crc, records, next_uuid, tx_msg_queue, faults, confused, rx_msg_queue,
                       unmarshal, reserved, wire>>
    BY DEF PayloadOverrun, RunVars
  <1>2. TypeOK'
    BY <1>1 DEF IInv, TypeOK
  <1> QED
    BY <1>1, <1>2, ParserUntouched, QueuesUntouched DEF IInv

LEMMA ReceiveStep ==
  ASSUME IInv, NEW n \in Nodes, ReceiveByte(n)
  PROVE  IInv'
  BY SyncStep, UuidStep, MsgTypeStep, EncryptFlagStep, CmdIdStep, PayloadSizeStep, PayloadStep,
     OverrunStep, CrcStep DEF ReceiveByte

-----------------------------------------------------------------------------
(* Handling a message. *)

LEMMA FrontHeaderType ==
  ASSUME IInv, NEW n \in Nodes, rx_msg_queue[n] # << >>, NEW h \in FrontHeader(n)
  PROVE  /\ h \in ezRpcMsgHeader /\ h.uuid \in UInt16 /\ h.cmd_id \in UInt16
         /\ Header(h.uuid, RESP, h.cmd_id, Len(Reply)) \in ezRpcMsgHeader
  <1>1. h \in ezRpcMsgHeader
    <2>1. Head(rx_msg_queue[n]) \in Element
      BY HeadTailProperties DEF IInv, TypeOK
    <2> QED
      BY <2>1, MisreadAssumption DEF FrontHeader, Element
  <1>2. h.uuid \in UInt16 /\ h.cmd_id \in UInt16
    BY <1>1 DEF ezRpcMsgHeader
  <1>3. Len(Reply) \in UInt16
    BY PayloadLength
  <1> QED
    BY <1>1, <1>2, <1>3, HeaderType

LEMMA CloseRecordType ==
  ASSUME IInv, NEW n \in Nodes, NEW h, CloseRecord(n, h)
  PROVE  records' \in [Nodes -> [1 .. Records -> ezRpcRequestRecord]]
  <1>1. records \in [Nodes -> [1 .. Records -> ezRpcRequestRecord]]
    BY DEF IInv, TypeOK
  <1>2. CASE h.type = RESP
    <2> DEFINE i == First(RecordsOf(n, h.uuid))
               r == [records[n] EXCEPT ![i].is_available = TRUE]
    <2>1. records' = [records EXCEPT ![n] = r]
      BY <1>2 DEF CloseRecord
    <2> HIDE DEF i
    <2>2. r \in [1 .. Records -> ezRpcRequestRecord]
      <3> DEFINE f == records[n]
                 e == [f[i] EXCEPT !.is_available = TRUE]
      <3>1. f \in [1 .. Records -> ezRpcRequestRecord]
        BY <1>1
      <3>2. i \in 1 .. Records => e \in ezRpcRequestRecord
        BY <3>1 DEF ezRpcRequestRecord
      <3>3. r = [f EXCEPT ![i] = e]
        OBVIOUS
      <3> HIDE DEF f, e, r
      <3> QED
        BY <3>1, <3>2, <3>3
    <2> HIDE DEF r
    <2> QED
      BY <1>1, <2>1, <2>2
  <1>3. CASE h.type # RESP
    BY <1>1, <1>3 DEF CloseRecord
  <1> QED
    BY <1>2, <1>3

(* A handling step pops something and leaves the parser alone.             *)
LEMMA HandlingStep ==
  ASSUME IInv, NEW n \in Nodes, Handling(n), rx_msg_queue[n] # << >>,
         records' \in [Nodes -> [1 .. Records -> ezRpcRequestRecord]],
         tx_msg_queue' \in [Nodes -> Seq(Seq(Byte))],
         \/ rx_msg_queue' = [rx_msg_queue EXCEPT ![n] = Pop(@, 2)] /\ UNCHANGED confused
         \/ /\ rx_msg_queue' = [rx_msg_queue EXCEPT ![n] = Pop(@, 1)]
            /\ confused' = [confused EXCEPT ![n] = TRUE]
  PROVE  IInv'
  <1> USE DEF IInv
  <1> DEFINE q == rx_msg_queue[n]
  <1>1. /\ UNCHANGED <<crc, next_uuid, unmarshal, reserved, wire, faults>>
        /\ stage' = [stage EXCEPT ![n] = "transmit"]
    BY DEF Handling
  <1>2. q \in Seq(Element)
    BY DEF TypeOK
  <1>3. Pop(q, 1) \in Seq(Element) /\ Pop(q, 2) \in Seq(Element)
    BY <1>2, PoppedElements
  <1>4. TypeOK'
    <2>1. rx_msg_queue' \in [Nodes -> Seq(Element)] /\ confused' \in [Nodes -> BOOLEAN]
      BY <1>3 DEF TypeOK
    <2> QED
      BY <1>1, <2>1 DEF TypeOK
  <1>5. QueuesHoldMessages'
    <2>1. \A k \in Nodes : ~confused[k] => HoldsMessages(rx_msg_queue[k])
      BY DEF QueuesHoldMessages
    <2>2. ASSUME NEW k \in Nodes, ~confused'[k]
          PROVE  HoldsMessages(rx_msg_queue'[k])
      <3>1. CASE k = n
        <4>1. rx_msg_queue'[n] = Pop(q, 2) /\ ~confused[n]
          BY <2>2, <3>1 DEF TypeOK
        <4> QED
          BY <1>2, <2>1, <3>1, <4>1, PoppedMessage
      <3>2. CASE k # n
        <4>1. rx_msg_queue'[k] = rx_msg_queue[k] /\ confused'[k] = confused[k]
          BY <3>2 DEF TypeOK
        <4> QED
          BY <2>1, <2>2, <4>1
      <3> QED
        BY <3>1, <3>2
    <2> QED
      BY <2>2 DEF QueuesHoldMessages
  <1> QED
    BY <1>1, <1>4, <1>5, ParserUntouched

LEMMA ResponseType ==
  ASSUME IInv, NEW n \in Nodes, NEW h, h.uuid \in UInt16, h.cmd_id \in UInt16,
         ezRPC_CreateRpcResponse(n, h)
  PROVE  tx_msg_queue' \in [Nodes -> Seq(Seq(Byte))]
  <1>1. Header(h.uuid, RESP, h.cmd_id, Len(Reply)) \in ezRpcMsgHeader
    BY PayloadLength, HeaderType
  <1>2. CASE CanTransmit(n)
    BY <1>1, <1>2, MarshalType DEF ezRPC_CreateRpcResponse, IInv
  <1>3. CASE ~CanTransmit(n)
    BY <1>3 DEF ezRPC_CreateRpcResponse, IInv, TypeOK
  <1> QED
    BY <1>2, <1>3

LEMMA HandleStep ==
  ASSUME IInv, NEW n \in Nodes, ezRpc_HandleReceivedMsg(n)
  PROVE  IInv'
  <1>1. CASE NothingReceived(n)
    <2>1. /\ UNCHANGED <<crc, records, next_uuid, tx_msg_queue, rx_msg_queue, unmarshal, reserved,
                         wire, faults, confused>>
          /\ stage' = [stage EXCEPT ![n] = "transmit"]
      BY <1>1 DEF NothingReceived, Handling
    <2>2. TypeOK'
      BY <2>1 DEF IInv, TypeOK
    <2> QED
      BY <2>1, <2>2, ParserUntouched, QueuesUntouched DEF IInv
  <1>2. CASE DiscardResponse(n)
    BY <1>2, HandlingStep DEF DiscardResponse, IInv, TypeOK
  <1>3. CASE HandleCommand(n)
    <2>1. PICK h \in FrontHeader(n) :
            /\ CloseRecord(n, h)
            /\ ezRPC_CreateRpcResponse(n, h) \/ UNCHANGED tx_msg_queue
      BY <1>3 DEF HandleCommand
    <2>2. Handling(n) /\ rx_msg_queue[n] # << >>
      BY <1>3 DEF HandleCommand
    <2>3. /\ rx_msg_queue' = [rx_msg_queue EXCEPT ![n] = Pop(@, 2)]
          /\ UNCHANGED confused
      BY <1>3 DEF HandleCommand
    <2>4. tx_msg_queue' \in [Nodes -> Seq(Seq(Byte))]
      BY <2>1, <2>2, FrontHeaderType, ResponseType DEF IInv, TypeOK
    <2> QED
      BY <2>1, <2>2, <2>3, <2>4, CloseRecordType, HandlingStep
  <1>4. CASE UnknownCommand(n)
    <2>1. PICK h \in FrontHeader(n) : CloseRecord(n, h)
      BY <1>4 DEF UnknownCommand
    <2>2. /\ Handling(n) /\ rx_msg_queue[n] # << >>
          /\ rx_msg_queue' = [rx_msg_queue EXCEPT ![n] = Pop(@, 1)]
          /\ confused' = [confused EXCEPT ![n] = TRUE]
          /\ tx_msg_queue' = tx_msg_queue
      BY <1>4 DEF UnknownCommand
    <2>3. tx_msg_queue' \in [Nodes -> Seq(Seq(Byte))]
      BY <2>2 DEF IInv, TypeOK
    <2> QED
      BY <2>1, <2>2, <2>3, CloseRecordType, HandlingStep
  <1> QED
    BY <1>1, <1>2, <1>3, <1>4 DEF ezRpc_HandleReceivedMsg

-----------------------------------------------------------------------------
LEMMA NextIInv == IInv /\ [Next]_vars => IInv'
  <1> SUFFICES ASSUME IInv, [Next]_vars PROVE IInv'
    OBVIOUS
  <1>1. CASE UNCHANGED vars
    <2>1. TypeOK'
      BY <1>1 DEF vars, IInv, TypeOK
    <2> QED
      BY <1>1, <2>1, ParserUntouched, QueuesUntouched DEF vars, IInv
  <1>2. ASSUME NEW n \in Nodes, ezRPC_Run(n)
        PROVE  IInv'
    BY <1>2, ReceiveStep, HandleStep, TransmitStep DEF ezRPC_Run
  <1> QED
    BY <1>1, <1>2, RequestStep, FaultStep DEF Next

(* The inductive invariant: the types, what the parser holds, and the whole *)
(* payloads behind the headers it pushes.                                   *)
THEOREM Invariance == Spec => []IInv
  <1> QED
    BY InitIInv, NextIInv, PTL DEF Spec

(* Every variable keeps its type, whatever bytes arrive.                   *)
THEOREM TypeCorrect == Spec => []TypeOK
  <1>1. IInv => TypeOK
    BY DEF IInv
  <1> QED
    BY <1>1, Invariance, PTL

(* Whatever arrives and whichever reservation is refused, the parser holds *)
(* the queue elements its state says: no path of ezRpc_UnmarshalData loses *)
(* one or pushes one twice.                                                *)
THEOREM AlwaysReservedAsParsed == Spec => []ReservedAsParsed
  <1>1. IInv => ReservedAsParsed
    BY DEF IInv, HeldAsParsed, ReservedAsParsed
  <1> QED
    BY <1>1, Invariance, PTL

(* Until it has met an unknown command or written behind a block, an       *)
(* instance finds behind every header in its queue the payload that header *)
(* announces.                                                              *)
THEOREM QueueAlwaysHoldsMessages == Spec => []QueueHoldsMessages
  <1>1. IInv => QueueHoldsMessages
    BY DEF IInv, QueuesHoldMessages, HoldsMessages, QueueHoldsMessages
  <1> QED
    BY <1>1, Invariance, PTL

-----------------------------------------------------------------------------
(* Frames, on a line that loses and damages nothing.                       *)

HeaderSize == 12   \* bytes of a marshaled header

(* The bytes of a frame by their places.                                   *)
IsFrame(f, b, m) ==
  /\ f \in Seq(Byte)
  /\ Len(f) = HeaderSize + Len(m.payload) + (IF b THEN CRC_SIZE ELSE 0)
  /\ f[1] = Hi(SYNC_BYTES) /\ f[2] = Lo(SYNC_BYTES)
  /\ f[3] = Hi(m.header.uuid) /\ f[4] = Lo(m.header.uuid)
  /\ f[5] = m.header.type
  /\ f[7] = Hi(m.header.cmd_id) /\ f[8] = Lo(m.header.cmd_id)
  /\ f[9] = 0 /\ f[10] = 0
  /\ f[11] = Hi(m.header.payload_size) /\ f[12] = Lo(m.header.payload_size)
  /\ \A k \in 1 .. Len(m.payload) : f[HeaderSize + k] = m.payload[k]
  /\ b => \A k \in 1 .. CRC_SIZE : f[HeaderSize + Len(m.payload) + k] = Crc(m.payload)[k]

IsMessageSent(m) ==
  /\ m.header \in ezRpcMsgHeader /\ m.header.type \in {REQ, RESP}
  /\ m.header.uuid >= 1 /\ m.header.cmd_id \in AskedIds
  /\ m.payload \in Payloads \cup {Reply} /\ m.payload \in Seq(Byte)
  /\ Len(m.payload) \in Nat /\ 1 <= Len(m.payload) /\ Len(m.payload) < MaxLen
  /\ m.header.payload_high = 0 /\ m.header.payload_size = Len(m.payload)
  /\ m = Message(m.header, m.payload)

LEMMA UuidBound ==
  ASSUME NEW u \in UNION {1 .. MaxRequests[n] : n \in Nodes}
  PROVE  u \in UInt16 /\ u \in Int /\ u >= 1
  <1>1. PICK n \in Nodes : u \in 1 .. MaxRequests[n]
    OBVIOUS
  <1>2. MaxRequests[n] \in UInt16
    BY SizeAssumption
  <1>3. MaxRequests[n] \in Int /\ MaxRequests[n] <= MaxLen
    BY <1>2, IsWord
  <1>4. u \in Int /\ u >= 1 /\ u <= MaxLen
    BY <1>1, <1>3, MaxLenIsInt
  <1> QED
    BY <1>4, IsWord

LEMMA SendableFacts ==
  ASSUME NEW m \in Sendable
  PROVE  IsMessageSent(m)
  <1>1. PICK u \in UNION {1 .. MaxRequests[n] : n \in Nodes}, t \in {REQ, RESP}, c \in AskedIds,
             p \in Payloads \cup {Reply} : m = Message(Header(u, t, c, Len(p)), p)
    BY DEF Sendable
  <1> DEFINE h == Header(u, t, c, Len(p))
  <1>2. h \in ezRpcMsgHeader
    <2>1. u \in UInt16 /\ c \in UInt16 /\ Len(p) \in UInt16
      BY UuidBound, MessageAssumption, PayloadLength
    <2> QED
      BY <2>1, HeaderType
  <1>3. /\ h.uuid = u /\ h.type = t /\ h.cmd_id = c
        /\ h.payload_high = 0 /\ h.payload_size = Len(p)
    BY DEF Header
  <1> HIDE DEF h
  <1>4. m.header = h /\ m.payload = p /\ m = Message(h, p)
    BY <1>1 DEF Message, h
  <1>5. p \in Seq(Byte) /\ p # << >> /\ Len(p) < MaxLen
    BY MessageAssumption, LenProperties, MaxLenValue DEF MaxPayload
  <1>6. Len(p) \in Nat /\ Len(p) >= 1
    BY <1>5, EmptySeq, LenProperties
  <1>7. u >= 1
    BY UuidBound
  <1> QED
    BY <1>2, <1>3, <1>4, <1>5, <1>6, <1>7 DEF IsMessageSent

LEMMA MarshaledHeader ==
  ASSUME NEW h \in ezRpcMsgHeader, h.payload_high = 0
  PROVE  LET f == ezRpc_MarshalHeader(h) IN
         /\ f \in Seq(Byte) /\ Len(f) = HeaderSize
         /\ f[1] = Hi(SYNC_BYTES) /\ f[2] = Lo(SYNC_BYTES)
         /\ f[3] = Hi(h.uuid) /\ f[4] = Lo(h.uuid) /\ f[5] = h.type
         /\ f[7] = Hi(h.cmd_id) /\ f[8] = Lo(h.cmd_id) /\ f[9] = 0 /\ f[10] = 0
         /\ f[11] = Hi(h.payload_size) /\ f[12] = Lo(h.payload_size)
  <1>1. Hi(0) = 0 /\ Lo(0) = 0
    BY DEF Hi, Lo
  <1> QED
    BY <1>1, MarshalHeaderType DEF ezRpc_MarshalHeader, HeaderSize

LEMMA FrameBytes ==
  ASSUME NEW b \in BOOLEAN, NEW m \in Sendable
  PROVE  IsFrame(FrameWith(b, m), b, m)
  <1> DEFINE h == ezRpc_MarshalHeader(m.header)
             p == m.payload
             c == IF b THEN Crc(p) ELSE << >>
             hp == h \o p
             f == hp \o c
  <1>1. IsMessageSent(m)
    BY SendableFacts
  <1>2. /\ h \in Seq(Byte) /\ Len(h) = HeaderSize
        /\ h[1] = Hi(SYNC_BYTES) /\ h[2] = Lo(SYNC_BYTES)
        /\ h[3] = Hi(m.header.uuid) /\ h[4] = Lo(m.header.uuid) /\ h[5] = m.header.type
        /\ h[7] = Hi(m.header.cmd_id) /\ h[8] = Lo(m.header.cmd_id) /\ h[9] = 0 /\ h[10] = 0
        /\ h[11] = Hi(m.header.payload_size) /\ h[12] = Lo(m.header.payload_size)
    BY <1>1, MarshaledHeader DEF IsMessageSent
  <1>3. p \in Seq(Byte) /\ Len(p) \in Nat
    BY <1>1 DEF IsMessageSent
  <1>4. c \in Seq(Byte) /\ Len(c) = IF b THEN CRC_SIZE ELSE 0
    BY <1>1, MessageAssumption, EmptySeq DEF IsMessageSent
  <1>5. FrameWith(b, m) = f
    BY DEF FrameWith
  <1>c. b => c = Crc(p)
    OBVIOUS
  <1> HIDE DEF h, p, c
  <1>6. /\ hp \in Seq(Byte) /\ Len(hp) = HeaderSize + Len(p)
        /\ \A i \in 1 .. HeaderSize + Len(p) :
             hp[i] = IF i <= HeaderSize THEN h[i] ELSE p[i - HeaderSize]
    BY <1>2, <1>3, ConcatProperties
  <1> HIDE DEF hp
  <1>7. HeaderSize + Len(p) \in Nat /\ HeaderSize = 12
    BY <1>3 DEF HeaderSize
  <1>8. /\ f \in Seq(Byte) /\ Len(f) = HeaderSize + Len(p) + Len(c)
        /\ \A i \in 1 .. HeaderSize + Len(p) + Len(c) :
             f[i] = IF i <= HeaderSize + Len(p) THEN hp[i] ELSE c[i - (HeaderSize + Len(p))]
    <2>1. /\ f \in Seq(Byte) /\ Len(f) = Len(hp) + Len(c)
          /\ \A i \in 1 .. Len(hp) + Len(c) :
               f[i] = IF i <= Len(hp) THEN hp[i] ELSE c[i - Len(hp)]
      BY <1>4, <1>6, ConcatProperties, Zenon
    <2> HIDE DEF f
    <2> QED
      BY <1>6, <2>1
  <1> HIDE DEF f
  <1>9. Len(c) \in Nat /\ (b => Len(c) = CRC_SIZE) /\ CRC_SIZE = 2
    BY <1>4 DEF CRC_SIZE
  <1>10. \A i \in 1 .. 12 : f[i] = h[i]
    BY <1>3, <1>6, <1>7, <1>8, <1>9
  <1>11. \A k \in 1 .. Len(p) : f[HeaderSize + k] = p[k]
    <2> TAKE k \in 1 .. Len(p)
    <2>1. HeaderSize + k \in 1 .. HeaderSize + Len(p) /\ HeaderSize + k > HeaderSize
          /\ HeaderSize + k - HeaderSize = k
          /\ HeaderSize + k \in 1 .. HeaderSize + Len(p) + Len(c)
      BY <1>3, <1>7, <1>9
    <2>2. f[HeaderSize + k] = hp[HeaderSize + k]
      BY <1>3, <1>7, <1>8, <2>1
    <2> QED
      BY <1>3, <1>6, <1>7, <2>1, <2>2
  <1>12. b => \A k \in 1 .. CRC_SIZE : f[HeaderSize + Len(p) + k] = c[k]
    <2> SUFFICES ASSUME b, NEW k \in 1 .. CRC_SIZE
                 PROVE  f[HeaderSize + Len(p) + k] = c[k]
      OBVIOUS
    <2> DEFINE l == HeaderSize + Len(p)
    <2>1. l \in Nat
      BY <1>7
    <2> HIDE DEF l
    <2>2. l + k \in 1 .. l + Len(c) /\ ~(l + k <= l) /\ l + k - l = k
      BY <1>9, <2>1
    <2>3. f[l + k] = c[k]
      BY <1>8, <2>1, <2>2 DEF l
    <2> QED
      BY <2>3 DEF l
  <1>13. IsFrame(f, b, m)
    <2>1. /\ f[1] = h[1] /\ f[2] = h[2] /\ f[3] = h[3] /\ f[4] = h[4] /\ f[5] = h[5]
          /\ f[7] = h[7] /\ f[8] = h[8] /\ f[9] = h[9] /\ f[10] = h[10] /\ f[11] = h[11]
          /\ f[12] = h[12]
      BY <1>10
    <2>2. Len(f) = HeaderSize + Len(p) + (IF b THEN CRC_SIZE ELSE 0)
      BY <1>4, <1>8
    <2>3. b => \A k \in 1 .. CRC_SIZE : f[HeaderSize + Len(p) + k] = Crc(p)[k]
      BY <1>c, <1>12
    <2> QED
      BY <1>2, <1>8, <1>11, <2>1, <2>2, <2>3 DEF IsFrame, p
  <1> QED
    BY <1>5, <1>13

LEMMA NoOtherMark ==
  ASSUME MarksOnlyAtStarts, NEW b \in BOOLEAN, NEW m \in Sendable
  PROVE  \A k \in 2 .. Len(FrameWith(b, m)) - 1 : ~IsMark(FrameWith(b, m), k)
  BY DEF MarksOnlyAtStarts

LEMMA MarkBytes == Hi(SYNC_BYTES) = 202 /\ Lo(SYNC_BYTES) = 254
  BY DEF SYNC_BYTES, Hi, Lo

(* The register of the last two bytes.                                     *)
LEMMA ShiftedIn ==
  ASSUME NEW x \in UInt16, NEW b \in Byte
  PROVE  /\ Shift(x, b) % 256 = b
         /\ Shift(x, b) = (x % 256) * 256 + b
  <1>1. x \in Int /\ x >= 0 /\ x <= 65535 /\ b \in Int /\ b >= 0 /\ b <= 255
    BY WordIsInt, ByteIsInt
  <1> DEFINE r == x % 256   q == x \div 256
  <1>2. x = 256 * q + r /\ r \in Int /\ r >= 0 /\ r <= 255 /\ q \in Int /\ q >= 0 /\ q <= 255
    BY <1>1
  <1> DEFINE y == x * 256 + b   z == r * 256 + b
  <1>3. y = 65536 * q + z /\ z \in Int /\ z >= 0 /\ z <= 65535
    BY <1>1, <1>2
  <1>4. Shift(x, b) = y % 65536
    BY DEF Shift
  <1> HIDE DEF r, q, y
  <1>5. y % 65536 = z
    <2> HIDE DEF z
    <2> QED
      BY <1>2, <1>3
  <1>6. z % 256 = b
    BY <1>1, <1>2
  <1> QED
    BY <1>4, <1>5, <1>6 DEF r

LEMMA SecondByte ==
  ASSUME NEW x \in UInt16, NEW y \in UInt16, x % 256 = Hi(y)
  PROVE  Shift(x, Lo(y)) = y
  <1>1. Lo(y) \in Byte /\ Hi(y) \in Byte
    BY HalvesType
  <1>2. Shift(x, Lo(y)) = Hi(y) * 256 + Lo(y)
    BY <1>1, ShiftedIn
  <1>3. y \in Int /\ y >= 0
    BY WordIsInt
  <1>4. y = 256 * Hi(y) + Lo(y)
    BY <1>3 DEF Hi, Lo
  <1>5. Hi(y) \in Int
    BY <1>1, ByteIsInt
  <1> QED
    BY <1>2, <1>4, <1>5

(* The register holds the mark when the last two bytes are the mark's.     *)
LEMMA MarkSeen ==
  ASSUME NEW x \in UInt16, NEW a \in Byte, NEW b \in Byte, x % 256 = a
  PROVE  Shift(x, b) = SYNC_BYTES <=> a = Hi(SYNC_BYTES) /\ b = Lo(SYNC_BYTES)
  <1>1. Shift(x, b) = a * 256 + b
    BY ShiftedIn
  <1>2. a \in Int /\ a >= 0 /\ a <= 255 /\ b \in Int /\ b >= 0 /\ b <= 255
    BY ByteIsInt
  <1>3. SYNC_BYTES = 202 * 256 + 254
    BY DEF SYNC_BYTES
  <1> QED
    BY <1>1, <1>2, <1>3, MarkBytes

LEMMA NoMarkAtOne ==
  ASSUME NEW x \in UInt16, NEW b \in Byte, b # Lo(SYNC_BYTES)
  PROVE  Shift(x, b) # SYNC_BYTES
  <1>1. Shift(x, b) % 256 = b
    BY ShiftedIn
  <1>2. SYNC_BYTES % 256 = Lo(SYNC_BYTES)
    BY DEF Lo
  <1> QED
    BY <1>1, <1>2

-----------------------------------------------------------------------------
(* What is on its way to a node: F are the frames transmitted so far, c is *)
(* the one the next byte belongs to, and at[i] is the place of frame i in  *)
(* front of its first byte, counted from the first byte still on the line. *)
Streams(F, w, c, at) ==
  /\ c \in 1 .. Len(F) + 1 /\ at \in [Nat -> Int]
  /\ at[Len(F) + 1] = Len(w)
  /\ c <= Len(F) => at[c] <= 0 /\ at[c + 1] > 0
  /\ c > Len(F) => at[c] = 0
  /\ \A i \in c .. Len(F) :
       /\ at[i + 1] = at[i] + Len(F[i])
       /\ at[i + 1] <= Len(w)
       /\ \A k \in 1 .. Len(F[i]) : at[i] + k >= 1 => w[at[i] + k] = F[i][k]

FramesSent(F) == F \in Seq(Seq(Byte)) /\ \A i \in 1 .. Len(F) : Len(F[i]) >= 1

LEMMA FrameLength ==
  ASSUME NEW F, FramesSent(F), NEW i \in 1 .. Len(F)
  PROVE  F[i] \in Seq(Byte) /\ Len(F[i]) \in Nat /\ Len(F[i]) >= 1
  <1>1. F[i] \in Seq(Byte)
    BY ElementOfSeq DEF FramesSent
  <1> QED
    BY <1>1, LenProperties DEF FramesSent

LEMMA TailBytes ==
  ASSUME NEW w \in Seq(Byte), w # << >>
  PROVE  /\ Tail(w) \in Seq(Byte) /\ Len(Tail(w)) = Len(w) - 1 /\ Head(w) = w[1]
         /\ Len(w) \in Nat /\ Len(w) >= 1
         /\ \A k \in Int : 1 <= k /\ k <= Len(w) - 1 => Tail(w)[k] = w[k + 1]
  <1>1. Tail(w) \in Seq(Byte) /\ Len(Tail(w)) = Len(w) - 1 /\ Head(w) = w[1]
    BY HeadTailProperties
  <1>2. Len(w) \in Nat /\ Len(w) >= 1
    BY EmptySeq, LenProperties
  <1>3. \A k \in 1 .. Len(Tail(w)) : Tail(w)[k] = w[k + 1]
    BY HeadTailProperties
  <1> QED
    BY <1>1, <1>2, <1>3

(* The next byte is one of frame c, and taking it stays in the frame or     *)
(* leaves it.                                                              *)
Reads(F, w, c, at) ==
  /\ c \in 1 .. Len(F) /\ at[c] \in Int /\ at[c] <= 0 /\ 1 - at[c] <= Len(F[c])
  /\ Head(w) = F[c][1 - at[c]]
  /\ \E a : \/ 1 - at[c] < Len(F[c]) /\ Streams(F, Tail(w), c, a) /\ a[c] = at[c] - 1
            \/ 1 - at[c] = Len(F[c]) /\ Streams(F, Tail(w), c + 1, a) /\ a[c + 1] = 0

LEMMA StreamRead ==
  ASSUME NEW F, FramesSent(F), NEW w \in Seq(Byte), w # << >>, NEW c, NEW at,
         Streams(F, w, c, at)
  PROVE  Reads(F, w, c, at)
  <1> DEFINE T == Len(F)   t == Tail(w)
             a == [i \in Nat |-> at[i] - 1]
  <1>1. T \in Nat
    BY LenProperties DEF FramesSent
  <1>2. /\ t \in Seq(Byte) /\ Len(t) = Len(w) - 1 /\ Head(w) = w[1]
        /\ Len(w) \in Nat /\ Len(w) >= 1
        /\ \A k \in Int : 1 <= k /\ k <= Len(w) - 1 => t[k] = w[k + 1]
    BY TailBytes
  <1>3. /\ c \in 1 .. T + 1 /\ at \in [Nat -> Int] /\ at[T + 1] = Len(w)
        /\ c <= T => at[c] <= 0 /\ at[c + 1] > 0
        /\ c > T => at[c] = 0
        /\ \A i \in c .. T : /\ at[i + 1] = at[i] + Len(F[i])
                             /\ at[i + 1] <= Len(w)
                             /\ \A k \in 1 .. Len(F[i]) :
                                  at[i] + k >= 1 => w[at[i] + k] = F[i][k]
    BY DEF Streams
  <1>4. \A i \in 1 .. T : Len(F[i]) \in Nat /\ Len(F[i]) >= 1
    BY FrameLength
  <1>5. \A i \in Nat : a[i] = at[i] - 1 /\ at[i] \in Int
    BY <1>3
  <1>6. a \in [Nat -> Int]
    BY <1>3
  <1> HIDE DEF T, t, a
  <1>7. c \in Int /\ c >= 1 /\ c <= T
    BY <1>1, <1>2, <1>3
  <1>8. /\ at[c] \in Int /\ at[c + 1] \in Int /\ at[c] <= 0 /\ at[c + 1] >= 1
        /\ at[c + 1] = at[c] + Len(F[c]) /\ Len(F[c]) \in Nat
    <2>1. c \in c .. T /\ c \in Nat /\ c + 1 \in Nat /\ c \in 1 .. T
      BY <1>1, <1>7
    <2>2. at[c] \in Int /\ at[c + 1] \in Int /\ Len(F[c]) \in Nat
      BY <1>3, <1>4, <2>1
    <2>3. at[c] <= 0 /\ at[c + 1] > 0 /\ at[c + 1] = at[c] + Len(F[c])
      BY <1>3, <1>7, <2>1
    <2> QED
      BY <2>2, <2>3
  <1>9. Head(w) = F[c][1 - at[c]] /\ 1 - at[c] <= Len(F[c])
    <2>1. 1 - at[c] \in 1 .. Len(F[c]) /\ at[c] + (1 - at[c]) = 1
      BY <1>8
    <2>2. c \in c .. T
      BY <1>1, <1>7
    <2>3. \A k \in 1 .. Len(F[c]) : at[c] + k >= 1 => w[at[c] + k] = F[c][k]
      BY <1>3, <2>2
    <2>4. at[c] + (1 - at[c]) >= 1
      BY <2>1
    <2>5. w[1] = F[c][1 - at[c]]
      BY <2>1, <2>3, <2>4
    <2>6. 1 - at[c] <= Len(F[c])
      BY <1>8
    <2> QED
      BY <1>2, <2>5, <2>6
  <1>10. ASSUME NEW i \in Int, c <= i, i <= T
         PROVE  /\ a[i + 1] = a[i] + Len(F[i])
                /\ a[i + 1] <= Len(t)
                /\ \A k \in 1 .. Len(F[i]) : a[i] + k >= 1 => t[a[i] + k] = F[i][k]
    <2>1. i \in c .. T /\ i \in Nat /\ i + 1 \in Nat /\ i \in 1 .. T
      BY <1>1, <1>7, <1>10
    <2>2. /\ a[i] = at[i] - 1 /\ a[i + 1] = at[i + 1] - 1 /\ at[i] \in Int /\ at[i + 1] \in Int
          /\ Len(F[i]) \in Nat
      BY <1>4, <1>5, <2>1
    <2>3. at[i + 1] = at[i] + Len(F[i]) /\ at[i + 1] <= Len(w)
      BY <1>3, <2>1
    <2>4. ASSUME NEW k \in 1 .. Len(F[i]), a[i] + k >= 1
          PROVE  t[a[i] + k] = F[i][k]
      <3>1. /\ at[i] + k >= 1 /\ a[i] + k \in Int /\ a[i] + k <= Len(w) - 1
            /\ a[i] + k + 1 = at[i] + k
        <4> DEFINE x == at[i]   y == at[i + 1]   z == a[i]   l == Len(F[i])   L == Len(w)
        <4>1. /\ x \in Int /\ y \in Int /\ z = x - 1 /\ l \in Nat /\ L \in Nat
              /\ y = x + l /\ y <= L /\ k \in 1 .. l /\ z + k >= 1
          BY <1>2, <2>2, <2>3, <2>4
        <4> HIDE DEF x, y, z, l, L
        <4>2. x + k >= 1 /\ z + k \in Int /\ z + k <= L - 1 /\ z + k + 1 = x + k
          BY <4>1
        <4> QED
          BY <4>2 DEF x, z, L
      <3>2. t[a[i] + k] = w[a[i] + k + 1]
        BY <1>2, <2>4, <3>1
      <3>3. w[at[i] + k] = F[i][k]
        BY <1>3, <2>1, <2>4, <3>1
      <3> QED
        BY <3>1, <3>2, <3>3
    <2> QED
      <3> DEFINE x == at[i]   y == at[i + 1]   l == Len(F[i])   L == Len(w)
      <3>1. /\ x \in Int /\ y \in Int /\ l \in Nat /\ L \in Nat
            /\ y = x + l /\ y <= L /\ a[i] = x - 1 /\ a[i + 1] = y - 1 /\ Len(t) = L - 1
        BY <1>2, <2>2, <2>3
      <3> HIDE DEF x, y, l, L
      <3>2. y - 1 = x - 1 + l /\ y - 1 <= L - 1
        BY <3>1
      <3>3. a[i + 1] = a[i] + l /\ a[i + 1] <= Len(t)
        BY <3>1, <3>2
      <3> QED
        BY <2>4, <3>3 DEF l
  <1>11. a[T + 1] = Len(t)
    <2>1. T + 1 \in Nat
      BY <1>1
    <2> QED
      BY <1>2, <1>3, <1>5, <2>1
  <1>12. ASSUME 1 - at[c] < Len(F[c])
         PROVE  Streams(F, t, c, a) /\ a[c] = at[c] - 1
    <2>1. a[c] = at[c] - 1 /\ a[c] <= 0 /\ a[c + 1] > 0
      <3>1. c \in Nat /\ c + 1 \in Nat
        BY <1>7
      <3>2. a[c] = at[c] - 1 /\ a[c + 1] = at[c + 1] - 1
        BY <1>5, <3>1
      <3> QED
        BY <1>8, <1>12, <3>2
    <2>2. Streams(F, t, c, a)
      <3>1. c \in 1 .. T + 1 /\ ~(c > T)
        BY <1>1, <1>7
      <3>2. \A i \in c .. T : i \in Int /\ c <= i /\ i <= T
        BY <1>1, <1>7
      <3> QED
        BY <1>6, <1>10, <1>11, <2>1, <3>1, <3>2 DEF Streams, T
    <2> HIDE DEF a
    <2> QED
      BY <1>12, <2>1, <2>2 DEF t
  <1>13. ASSUME 1 - at[c] = Len(F[c])
         PROVE  Streams(F, t, c + 1, a) /\ a[c + 1] = 0
    <2>1. a[c + 1] = 0
      <3>1. c + 1 \in Nat
        BY <1>7
      <3>2. a[c + 1] = at[c + 1] - 1
        BY <1>5, <3>1
      <3> QED
        BY <1>8, <1>13, <3>2
    <2>2. c + 1 <= T => a[c + 2] > 0
      <3> SUFFICES ASSUME c + 1 <= T PROVE a[c + 2] > 0
        OBVIOUS
      <3>1. c + 1 \in Int /\ c <= c + 1 /\ c + 1 + 1 = c + 2 /\ c + 1 \in 1 .. T
        BY <1>1, <1>7
      <3>2. a[c + 2] = a[c + 1] + Len(F[c + 1])
        BY <1>10, <3>1
      <3>3. Len(F[c + 1]) \in Nat /\ Len(F[c + 1]) >= 1
        BY <1>4, <3>1
      <3> QED
        BY <2>1, <3>2, <3>3
    <2>3. Streams(F, t, c + 1, a)
      <3>1. c + 1 \in 1 .. T + 1 /\ c + 1 + 1 = c + 2
        BY <1>1, <1>7
      <3>2. \A i \in c + 1 .. T : i \in Int /\ c <= i /\ i <= T
        BY <1>1, <1>7
      <3>3. \A i \in c + 1 .. T :
              /\ a[i + 1] = a[i] + Len(F[i])
              /\ a[i + 1] <= Len(t)
              /\ \A k \in 1 .. Len(F[i]) : a[i] + k >= 1 => t[a[i] + k] = F[i][k]
        BY <1>10, <3>2
      <3>4. c + 1 <= T => a[c + 1] <= 0 /\ a[c + 1 + 1] > 0
        BY <2>1, <2>2, <3>1
      <3> QED
        BY <1>6, <1>11, <2>1, <3>1, <3>3, <3>4 DEF Streams, T
    <2> HIDE DEF a
    <2> QED
      BY <1>13, <2>1, <2>3 DEF t
  <1>14. 1 - at[c] < Len(F[c]) \/ 1 - at[c] = Len(F[c])
    <2>1. c \in 1 .. T
      BY <1>1, <1>7
    <2>2. Len(F[c]) \in Nat
      BY <1>4, <2>1
    <2> QED
      BY <1>8, <1>9, <2>2
  <1>15. c \in 1 .. Len(F) /\ at[c] \in Int /\ at[c] <= 0
    BY <1>1, <1>7, <1>8 DEF T
  <1> HIDE DEF a
  <1> QED
    BY <1>9, <1>12, <1>13, <1>14, <1>15 DEF Reads, t

LEMMA StreamTransmit ==
  ASSUME NEW F, FramesSent(F), NEW w \in Seq(Byte), NEW c, NEW at, Streams(F, w, c, at),
         NEW f \in Seq(Byte), Len(f) >= 1
  PROVE  /\ FramesSent(Append(F, f)) /\ Len(Append(F, f)) = Len(F) + 1
         /\ \E a : Streams(Append(F, f), w \o f, c, a) /\ a[c] = at[c]
  <1> DEFINE T == Len(F)   l == Len(f)   L == Len(w)   G == Append(F, f)   v == w \o f
             a == [at EXCEPT ![T + 2] = L + l]
  <1>1. T \in Nat /\ l \in Nat /\ l >= 1 /\ L \in Nat
    BY LenProperties DEF FramesSent
  <1>2. /\ G \in Seq(Seq(Byte)) /\ Len(G) = T + 1
        /\ \A i \in 1 .. T : G[i] = F[i]
        /\ G[T + 1] = f
    BY AppendProperties DEF FramesSent
  <1>3. /\ v \in Seq(Byte) /\ Len(v) = L + l
        /\ \A i \in 1 .. L + l : v[i] = IF i <= L THEN w[i] ELSE f[i - L]
    BY ConcatProperties
  <1>4. /\ c \in 1 .. T + 1 /\ at \in [Nat -> Int] /\ at[T + 1] = L
        /\ c <= T => at[c] <= 0 /\ at[c + 1] > 0
        /\ c > T => at[c] = 0
        /\ \A i \in c .. T : /\ at[i + 1] = at[i] + Len(F[i])
                             /\ at[i + 1] <= L
                             /\ \A k \in 1 .. Len(F[i]) :
                                  at[i] + k >= 1 => w[at[i] + k] = F[i][k]
    BY DEF Streams
  <1>5. \A i \in 1 .. T : Len(F[i]) \in Nat /\ Len(F[i]) >= 1
    BY FrameLength
  <1>6. /\ a \in [Nat -> Int] /\ a[T + 2] = L + l
        /\ \A i \in Nat : i # T + 2 => a[i] = at[i]
    <2>1. T + 2 \in Nat /\ L + l \in Int
      BY <1>1
    <2> QED
      BY <1>4, <2>1
  <1>7. FramesSent(G)
    <2>1. Len(G[T + 1]) >= 1
      BY <1>1, <1>2
    <2> HIDE DEF G, T
    <2>2. ASSUME NEW i \in 1 .. Len(G) PROVE Len(G[i]) >= 1
      <3>1. i \in 1 .. T \/ i = T + 1
        BY <1>1, <1>2
      <3> QED
        BY <1>2, <1>5, <2>1, <3>1
    <2> QED
      BY <1>2, <2>2 DEF FramesSent
  <1> HIDE DEF T, l, L, G, v, a
  <1>8. c \in Int /\ c >= 1 /\ c <= T + 1 /\ a[c] = at[c] /\ at[c] \in Int
    <2>1. c \in Nat /\ c # T + 2 /\ c \in Int /\ c >= 1 /\ c <= T + 1
      BY <1>1, <1>4
    <2> QED
      BY <1>4, <1>6, <2>1
  <1>9. ASSUME NEW i \in Int, c <= i, i <= T
        PROVE  /\ a[i + 1] = a[i] + Len(G[i])
               /\ a[i + 1] <= Len(v)
               /\ \A k \in 1 .. Len(G[i]) : a[i] + k >= 1 => v[a[i] + k] = G[i][k]
    <2>1. /\ i \in c .. T /\ i \in Nat /\ i + 1 \in Nat /\ i \in 1 .. T
          /\ i # T + 2 /\ i + 1 # T + 2
      BY <1>1, <1>8, <1>9
    <2>2. /\ a[i] = at[i] /\ a[i + 1] = at[i + 1] /\ at[i] \in Int /\ at[i + 1] \in Int
          /\ G[i] = F[i] /\ Len(F[i]) \in Nat
      BY <1>2, <1>4, <1>5, <1>6, <2>1
    <2>3. at[i + 1] = at[i] + Len(F[i]) /\ at[i + 1] <= L
      BY <1>4, <2>1
    <2>4. ASSUME NEW k \in 1 .. Len(F[i]), at[i] + k >= 1
          PROVE  v[at[i] + k] = F[i][k]
      <3>1. at[i] + k \in 1 .. L + l /\ at[i] + k <= L
        <4> DEFINE x == at[i]   y == at[i + 1]   m == Len(F[i])
        <4>1. /\ x \in Int /\ y \in Int /\ m \in Nat /\ y = x + m /\ y <= L /\ k \in 1 .. m
              /\ x + k >= 1
          BY <2>2, <2>3, <2>4
        <4> HIDE DEF x, y, m
        <4>2. x + k \in 1 .. L + l /\ x + k <= L
          BY <1>1, <4>1
        <4> QED
          BY <4>2 DEF x
      <3>2. v[at[i] + k] = w[at[i] + k]
        BY <1>3, <3>1
      <3> QED
        BY <1>4, <2>1, <2>4, <3>2
    <2> QED
      BY <1>1, <1>3, <2>2, <2>3, <2>4
  <1>10. /\ a[T + 2] = a[T + 1] + Len(G[T + 1])
         /\ a[T + 2] <= Len(v)
         /\ \A k \in 1 .. Len(G[T + 1]) : a[T + 1] + k >= 1 => v[a[T + 1] + k] = G[T + 1][k]
    <2>1. T + 1 \in Nat /\ T + 1 # T + 2
      BY <1>1
    <2>2. a[T + 1] = L /\ a[T + 2] = L + l /\ Len(v) = L + l
      BY <1>3, <1>4, <1>6, <2>1
    <2>3. G[T + 1] = f /\ Len(f) = l
      BY <1>2 DEF l
    <2>4. ASSUME NEW k \in 1 .. l PROVE v[L + k] = f[k]
      <3>1. L + k \in 1 .. L + l /\ ~(L + k <= L) /\ (L + k) - L = k
        BY <1>1
      <3> QED
        <4>1. v[L + k] = IF L + k <= L THEN w[L + k] ELSE f[(L + k) - L]
          BY <1>3, <3>1
        <4>2. v[L + k] = f[(L + k) - L]
          BY <3>1, <4>1, Zenon
        <4> QED
          BY <3>1, <4>2
    <2>5. L + l <= L + l
      BY <1>1
    <2> QED
      BY <2>2, <2>3, <2>4, <2>5
  <1>11. Streams(G, v, c, a)
    <2>1. c \in 1 .. (T + 1) + 1 /\ ~(c > T + 1) /\ T + 2 = (T + 1) + 1
      BY <1>1, <1>8
    <2>2. ASSUME NEW i \in c .. T + 1
          PROVE  /\ a[i + 1] = a[i] + Len(G[i])
                 /\ a[i + 1] <= Len(v)
                 /\ \A k \in 1 .. Len(G[i]) : a[i] + k >= 1 => v[a[i] + k] = G[i][k]
      <3>1. (i \in Int /\ c <= i /\ i <= T) \/ i = T + 1
        BY <1>1, <1>8
      <3>2. CASE i = T + 1
        BY <1>10, <2>1, <3>2
      <3> QED
        BY <1>9, <3>1, <3>2
    <2>3. a[(T + 1) + 1] = Len(v)
      BY <1>3, <1>6, <2>1
    <2>4. a[c] <= 0 /\ a[c + 1] > 0
      <3>1. CASE c <= T
        <4>1. c + 1 \in Nat /\ c + 1 # T + 2
          BY <1>1, <1>8, <3>1
        <4> QED
          BY <1>4, <1>6, <1>8, <3>1, <4>1
      <3>2. CASE c = T + 1
        <4>1. c > T /\ c + 1 = T + 2
          BY <1>1, <3>2
        <4>2. at[c] = 0
          BY <1>4, <4>1
        <4> QED
          BY <1>1, <1>6, <1>8, <4>1, <4>2
      <3> QED
        BY <1>1, <1>8, <3>1, <3>2
    <2> QED
      BY <1>2, <1>6, <2>1, <2>2, <2>3, <2>4 DEF Streams
  <1> QED
    BY <1>2, <1>7, <1>8, <1>11 DEF G, v, T

-----------------------------------------------------------------------------
(* The parser inside a whole frame f of message m, of which it has read o   *)
(* bytes.  While it looks for a start it remembers the byte before, or the  *)
(* start it came from; in any other state it has read what the frame says. *)
Follows(b, m, f, o, u) ==
  LET h == m.header   g == u.curr_hdr   k == u.byte_count IN
  /\ u.state = "SYNC" => (o > 0 => u.sync_bytes % 256 \in {f[o], Lo(SYNC_BYTES)})
  /\ u.state # "SYNC" => u.sync_bytes % 256 = Lo(SYNC_BYTES) /\ g.payload_high = 0
  /\ u.state = "UUID" =>
       /\ k \in 0 .. 1 /\ o = 2 + k
       /\ g.payload_size = 0 /\ (k = 1 => g.uuid % 256 = f[3])
  /\ u.state = "MSG_TYPE" =>
       k = 0 /\ o = 4 /\ g.payload_size = 0 /\ g.uuid = h.uuid
  /\ u.state = "ENCRYPT_FLAG" =>
       k = 0 /\ o = 5 /\ g.payload_size = 0 /\ g.uuid = h.uuid /\ g.type = h.type
  /\ u.state = "CMD_ID" =>
       /\ k \in 0 .. 1 /\ o = 6 + k
       /\ g.payload_size = 0 /\ g.uuid = h.uuid /\ g.type = h.type
       /\ (k = 1 => g.cmd_id % 256 = f[7])
  /\ u.state = "PAYLOAD_SIZE" =>
       /\ k \in 0 .. 3 /\ o = 8 + k
       /\ g.uuid = h.uuid /\ g.type = h.type /\ g.cmd_id = h.cmd_id
       /\ g.payload_size = IF k = 3 THEN f[11] ELSE 0
  /\ u.state = "PAYLOAD" =>
       /\ k < Len(m.payload) /\ o = HeaderSize + k /\ g = h
       /\ Len(u.payload) = k /\ \A j \in 1 .. k : u.payload[j] = m.payload[j]
  /\ u.state = "CRC" =>
       /\ b /\ k \in 0 .. 1 /\ o = HeaderSize + Len(m.payload) + k /\ g = h
       /\ u.payload = m.payload
       /\ Len(u.crc_val) = k /\ \A j \in 1 .. k : u.crc_val[j] = Crc(m.payload)[j]

(* The frame behind a whole one is passed over: its first byte is compared *)
(* alone, and the second is not compared with it.                          *)
SkipsTo(o, u) ==
  /\ u.state = "SYNC"
  /\ o = 0 => u.byte_count >= 1
  /\ o = 1 => u.byte_count = 0

(* A byte takes the parser from u to v and the queue from q to r: either   *)
(* nothing is pushed, or it is the last byte and its message is.           *)
Lands(b, m, f, o, u, v, q, r) ==
  \/ /\ r = q /\ Follows(b, m, f, o + 1, v)
     /\ SkipsTo(o, u) => SkipsTo(o + 1, v)
  \/ /\ r = q \o <<HeaderElement(m.header), PayloadElement(m.payload)>>
     /\ u.state # "SYNC" /\ o + 1 = Len(f) /\ v.state = "SYNC" /\ v.byte_count >= 1

(* What each step of the parser is given.                                  *)
OnFrame(n, b, m, f, o) ==
  /\ b = crc /\ m \in Sendable /\ f = FrameWith(b, m) /\ IsFrame(f, b, m) /\ IsMessageSent(m)
  /\ \A k \in 2 .. Len(f) - 1 : ~IsMark(f, k)
  /\ o \in Nat /\ o + 1 <= Len(f) /\ Len(f) \in Nat
  /\ Head(wire[n]) = f[o + 1]
  /\ Follows(b, m, f, o, unmarshal[n])

LandsOn(n, b, m, f, o) ==
  Lands(b, m, f, o, unmarshal[n], unmarshal'[n], rx_msg_queue[n], rx_msg_queue'[n])

LEMMA FollowedParser ==
  ASSUME IInv, NEW n \in Nodes, NEW s, Reading(n, s), NEW v, Parsed(n, v)
  PROVE  unmarshal'[n] = v
  BY DEF IInv, TypeOK, Parsed

LEMMA LandsInState ==
  ASSUME NEW b, NEW m, NEW f, NEW o, NEW u, NEW v, NEW q, Follows(b, m, f, o + 1, v),
         u.state # "SYNC"
  PROVE  Lands(b, m, f, o, u, v, q, q)
  BY DEF Lands, SkipsTo

LEMMA FollowsLost ==
  ASSUME NEW b, NEW m, NEW f, NEW o, NEW v, v.state = "SYNC",
         o > 0 => v.sync_bytes % 256 \in {f[o], Lo(SYNC_BYTES)}
  PROVE  Follows(b, m, f, o, v)
  BY DEF Follows

LEMMA SyncLands ==
  ASSUME IInv, NEW n \in Nodes, SyncByte(n), NEW b, NEW m, NEW f, NEW o, OnFrame(n, b, m, f, o)
  PROVE  LandsOn(n, b, m, f, o)
  <1> DEFINE u == unmarshal[n]
             y == Head(wire[n])
             x == Shift(u.sync_bytes, y)
             w == [u EXCEPT !.sync_bytes = x]
             k == u.byte_count + 1
             waits == [w EXCEPT !.byte_count = k]
             again == [w EXCEPT !.byte_count = 0]
             begins == [w EXCEPT !.byte_count = 0, !.state = "UUID",
                                 !.curr_hdr.uuid = 0, !.curr_hdr.payload_high = 0,
                                 !.curr_hdr.payload_size = 0]
  <1>1. Reading(n, "SYNC")
    BY DEF SyncByte
  <1>2. u \in ezRpcUnmarshal /\ u.state = "SYNC" /\ y \in Byte
    BY <1>1, ReadingFacts
  <1>3. \/ Parsed(n, waits) /\ k < SYNC_SIZE /\ rx_msg_queue' = rx_msg_queue
        \/ Parsed(n, again) /\ rx_msg_queue' = rx_msg_queue
        \/ Parsed(n, begins) /\ k >= SYNC_SIZE /\ x = SYNC_BYTES /\ rx_msg_queue' = rx_msg_queue
    BY DEF SyncByte, Reserve
  <1>4. /\ f \in Seq(Byte) /\ f[1] = Hi(SYNC_BYTES) /\ f[2] = Lo(SYNC_BYTES)
        /\ o \in Nat /\ o + 1 <= Len(f) /\ Len(f) \in Nat /\ y = f[o + 1]
        /\ o > 0 => u.sync_bytes % 256 \in {f[o], Lo(SYNC_BYTES)}
        /\ \A i \in 2 .. Len(f) - 1 : ~IsMark(f, i)
    BY <1>2 DEF OnFrame, IsFrame, Follows
  <1>5. x % 256 = f[o + 1]
    BY <1>2, <1>4, ShiftedIn DEF ezRpcUnmarshal
  <1>6. u.byte_count \in Nat /\ u.sync_bytes \in UInt16
    BY <1>2 DEF ezRpcUnmarshal
  <1>7. SYNC_SIZE = 2 /\ o + 1 > 0 /\ o + 1 # 0 /\ (o + 1 = 1 => o = 0)
    BY <1>4 DEF SYNC_SIZE
  <1> HIDE DEF u, x, y
  <1>8. /\ waits.state = "SYNC" /\ waits.sync_bytes = x /\ waits.byte_count = k
        /\ again.state = "SYNC" /\ again.sync_bytes = x /\ again.byte_count = 0
        /\ begins.sync_bytes = x /\ begins.state = "UUID" /\ begins.byte_count = 0
        /\ begins.curr_hdr.payload_high = 0 /\ begins.curr_hdr.payload_size = 0
    BY <1>2 DEF ezRpcUnmarshal, ezRpcMsgHeader
  <1> HIDE DEF waits, again, begins
  <1>9. CASE Parsed(n, waits) /\ k < SYNC_SIZE /\ rx_msg_queue' = rx_msg_queue
    <2>1. Follows(b, m, f, o + 1, waits)
      BY <1>5, <1>8, FollowsLost
    <2>2. u.byte_count = 0
      BY <1>6, <1>7, <1>9
    <2>3. SkipsTo(o, u) => SkipsTo(o + 1, waits)
      BY <1>7, <1>8, <2>2 DEF SkipsTo
    <2>4. unmarshal'[n] = waits
      BY <1>1, <1>9, FollowedParser
    <2> QED
      BY <1>9, <2>1, <2>3, <2>4 DEF LandsOn, Lands, u
  <1>10. CASE Parsed(n, again) /\ rx_msg_queue' = rx_msg_queue
    <2>1. Follows(b, m, f, o + 1, again)
      BY <1>5, <1>8, FollowsLost
    <2>2. SkipsTo(o, u) => SkipsTo(o + 1, again)
      BY <1>7, <1>8 DEF SkipsTo
    <2>3. unmarshal'[n] = again
      BY <1>1, <1>10, FollowedParser
    <2> QED
      BY <1>10, <2>1, <2>2, <2>3 DEF LandsOn, Lands, u
  <1>11. CASE /\ Parsed(n, begins) /\ k >= SYNC_SIZE /\ x = SYNC_BYTES
              /\ rx_msg_queue' = rx_msg_queue
    <2>1. o = 1
      <3>1. CASE o = 0
        <4>1. y # Lo(SYNC_BYTES)
          BY <1>4, <3>1, MarkBytes
        <4> QED
          BY <1>2, <1>6, <1>11, <4>1, NoMarkAtOne DEF x
      <3>2. CASE o > 1
        <4>1. o \in 1 .. Len(f) /\ o \in 2 .. Len(f) - 1
          BY <1>4, <3>2
        <4>2. f[o] \in Byte /\ u.sync_bytes % 256 \in {f[o], Lo(SYNC_BYTES)}
          BY <1>4, <3>2, <4>1, ElementOfSeq
        <4>3. f[o] = Hi(SYNC_BYTES) /\ y = Lo(SYNC_BYTES)
          <5>1. Lo(SYNC_BYTES) \in Byte /\ Lo(SYNC_BYTES) # Hi(SYNC_BYTES)
            BY MarkBytes DEF Byte
          <5>2. u.sync_bytes % 256 = Hi(SYNC_BYTES) /\ y = Lo(SYNC_BYTES)
            BY <1>2, <1>6, <1>11, <4>2, <5>1, MarkSeen DEF x
          <5> QED
            BY <4>2, <5>1, <5>2
        <4> QED
          BY <1>4, <4>1, <4>3 DEF IsMark
      <3> QED
        BY <1>4, <3>1, <3>2
    <2>2. Follows(b, m, f, o + 1, begins)
      <3>1. o + 1 = 2 + 0 /\ 0 \in 0 .. 1 /\ 0 # 1
        BY <2>1
      <3>2. x % 256 = Lo(SYNC_BYTES)
        BY <1>11 DEF Lo
      <3> QED
        BY <1>8, <3>1, <3>2 DEF Follows
    <2>3. ~SkipsTo(o, u)
      BY <1>6, <1>7, <1>11, <2>1 DEF SkipsTo
    <2>4. unmarshal'[n] = begins
      BY <1>1, <1>11, FollowedParser
    <2> QED
      BY <1>11, <2>2, <2>3, <2>4 DEF LandsOn, Lands, u
  <1> QED
    BY <1>3, <1>9, <1>10, <1>11

LEMMA UuidLands ==
  ASSUME IInv, NEW n \in Nodes, UuidByte(n), NEW b, NEW m, NEW f, NEW o, OnFrame(n, b, m, f, o)
  PROVE  LandsOn(n, b, m, f, o)
  <1> DEFINE u == unmarshal[n]
             y == Head(wire[n])
             x == Shift(u.curr_hdr.uuid, y)
             w == [u EXCEPT !.curr_hdr.uuid = x]
             k == u.byte_count + 1
             waits == [w EXCEPT !.byte_count = k]
             ends == [w EXCEPT !.byte_count = 0, !.state = "MSG_TYPE"]
  <1>1. Reading(n, "UUID")
    BY DEF UuidByte
  <1>2. u \in ezRpcUnmarshal /\ u.state = "UUID" /\ y \in Byte
    BY <1>1, ReadingFacts
  <1>3. /\ rx_msg_queue' = rx_msg_queue
        /\ \/ Parsed(n, waits) /\ k < UUID_SIZE
           \/ Parsed(n, ends) /\ k >= UUID_SIZE
    <2>1. u.byte_count \in Nat /\ UUID_SIZE = 2
      BY <1>2 DEF ezRpcUnmarshal, UUID_SIZE
    <2>2. k < UUID_SIZE \/ k >= UUID_SIZE
      BY <2>1
    <2>3. Parsed(n, IF k < UUID_SIZE THEN waits ELSE ends) /\ rx_msg_queue' = rx_msg_queue
      BY DEF UuidByte
    <2> HIDE DEF waits, ends, k
    <2> QED
      BY <2>1, <2>2, <2>3
  <1>4. /\ f[3] = Hi(m.header.uuid) /\ f[4] = Lo(m.header.uuid) /\ m.header.uuid \in UInt16
        /\ y = f[o + 1]
    BY DEF OnFrame, IsFrame, IsMessageSent, ezRpcMsgHeader
  <1>5. /\ u.sync_bytes % 256 = Lo(SYNC_BYTES) /\ u.curr_hdr.payload_high = 0
        /\ u.byte_count \in 0 .. 1 /\ o = 2 + u.byte_count
        /\ u.curr_hdr.payload_size = 0 /\ (u.byte_count = 1 => u.curr_hdr.uuid % 256 = f[3])
    BY <1>2 DEF OnFrame, Follows
  <1>6. u.curr_hdr \in ezRpcMsgHeader /\ u.curr_hdr.uuid \in UInt16 /\ UUID_SIZE = 2
    BY <1>2 DEF ezRpcUnmarshal, ezRpcMsgHeader, UUID_SIZE
  <1> HIDE DEF u, x, y
  <1>7. /\ waits.sync_bytes = u.sync_bytes /\ ends.sync_bytes = u.sync_bytes
        /\ waits.state = "UUID" /\ waits.byte_count = k /\ waits.curr_hdr.uuid = x
        /\ waits.curr_hdr.payload_high = u.curr_hdr.payload_high
        /\ ends.curr_hdr.payload_high = u.curr_hdr.payload_high
        /\ waits.curr_hdr.payload_size = u.curr_hdr.payload_size
        /\ ends.state = "MSG_TYPE" /\ ends.byte_count = 0 /\ ends.curr_hdr.uuid = x
        /\ ends.curr_hdr.payload_size = u.curr_hdr.payload_size
    BY <1>2 DEF ezRpcUnmarshal, ezRpcMsgHeader
  <1> HIDE DEF waits, ends
  <1>8. CASE Parsed(n, waits) /\ k < UUID_SIZE
    <2>1. u.byte_count = 0 /\ k = 1 /\ o = 2 /\ o + 1 = 2 + k /\ k \in 0 .. 1 /\ o + 1 = 3
      BY <1>5, <1>6, <1>8
    <2>2. x % 256 = f[3]
      BY <1>2, <1>4, <1>6, <2>1, ShiftedIn DEF x
    <2> HIDE DEF k
    <2>3. Follows(b, m, f, o + 1, waits)
      BY <1>5, <1>7, <2>1, <2>2 DEF Follows
    <2>4. unmarshal'[n] = waits
      BY <1>1, <1>8, FollowedParser
    <2> QED
      BY <1>2, <1>3, <2>3, <2>4, LandsInState DEF LandsOn, u
  <1>9. CASE Parsed(n, ends) /\ k >= UUID_SIZE
    <2>1. u.byte_count = 1 /\ o + 1 = 4
      BY <1>5, <1>6, <1>9
    <2>2. x = m.header.uuid
      BY <1>4, <1>5, <1>6, <2>1, SecondByte DEF x
    <2>3. Follows(b, m, f, o + 1, ends)
      BY <1>5, <1>7, <2>1, <2>2 DEF Follows
    <2>4. unmarshal'[n] = ends
      BY <1>1, <1>9, FollowedParser
    <2> QED
      BY <1>2, <1>3, <2>3, <2>4, LandsInState DEF LandsOn, u
  <1> QED
    BY <1>3, <1>8, <1>9

LEMMA MsgTypeLands ==
  ASSUME IInv, NEW n \in Nodes, MsgTypeByte(n), NEW b, NEW m, NEW f, NEW o,
         OnFrame(n, b, m, f, o)
  PROVE  LandsOn(n, b, m, f, o)
  <1> DEFINE u == unmarshal[n]
             y == Head(wire[n])
             goes == [u EXCEPT !.curr_hdr.type = y, !.state = "ENCRYPT_FLAG"]
  <1>1. Reading(n, "MSG_TYPE")
    BY DEF MsgTypeByte
  <1>2. u \in ezRpcUnmarshal /\ u.state = "MSG_TYPE"
    BY <1>1, ReadingFacts
  <1>3. /\ u.sync_bytes % 256 = Lo(SYNC_BYTES) /\ u.byte_count = 0 /\ o = 4
        /\ u.curr_hdr.payload_high = 0 /\ u.curr_hdr.payload_size = 0
        /\ u.curr_hdr.uuid = m.header.uuid
    BY <1>2 DEF OnFrame, Follows
  <1>4. y = m.header.type /\ m.header.type \in {REQ, RESP}
    <2>1. o + 1 = 5
      BY <1>3
    <2> QED
      BY <2>1 DEF OnFrame, IsFrame, IsMessageSent
  <1>5. Parsed(n, goes) /\ rx_msg_queue' = rx_msg_queue
    BY <1>4 DEF MsgTypeByte
  <1> HIDE DEF u, y
  <1>6. /\ goes.sync_bytes = u.sync_bytes /\ goes.state = "ENCRYPT_FLAG" /\ goes.byte_count = u.byte_count
        /\ goes.curr_hdr.type = y /\ goes.curr_hdr.uuid = u.curr_hdr.uuid
        /\ goes.curr_hdr.payload_high = u.curr_hdr.payload_high
        /\ goes.curr_hdr.payload_size = u.curr_hdr.payload_size
    BY <1>2 DEF ezRpcUnmarshal, ezRpcMsgHeader
  <1> HIDE DEF goes
  <1>7. Follows(b, m, f, o + 1, goes)
    <2>1. o + 1 = 5
      BY <1>3
    <2> QED
      BY <1>3, <1>4, <1>6, <2>1 DEF Follows
  <1>8. unmarshal'[n] = goes
    BY <1>1, <1>5, FollowedParser
  <1> QED
    BY <1>2, <1>5, <1>7, <1>8, LandsInState DEF LandsOn, u

LEMMA EncryptFlagLands ==
  ASSUME IInv, NEW n \in Nodes, EncryptFlagByte(n), NEW b, NEW m, NEW f, NEW o,
         OnFrame(n, b, m, f, o)
  PROVE  LandsOn(n, b, m, f, o)
  <1> DEFINE u == unmarshal[n]
             goes == [u EXCEPT !.state = "CMD_ID"]
  <1>1. Reading(n, "ENCRYPT_FLAG")
    BY DEF EncryptFlagByte
  <1>2. u \in ezRpcUnmarshal /\ u.state = "ENCRYPT_FLAG"
    BY <1>1, ReadingFacts
  <1>3. /\ u.sync_bytes % 256 = Lo(SYNC_BYTES) /\ u.byte_count = 0 /\ o = 5
        /\ u.curr_hdr.payload_high = 0 /\ u.curr_hdr.payload_size = 0
        /\ u.curr_hdr.uuid = m.header.uuid /\ u.curr_hdr.type = m.header.type
    BY <1>2 DEF OnFrame, Follows
  <1>4. Parsed(n, goes) /\ rx_msg_queue' = rx_msg_queue
    BY DEF EncryptFlagByte
  <1> HIDE DEF u
  <1>5. /\ goes.sync_bytes = u.sync_bytes /\ goes.state = "CMD_ID"
        /\ goes.byte_count = u.byte_count /\ goes.curr_hdr = u.curr_hdr
    BY <1>2 DEF ezRpcUnmarshal
  <1> HIDE DEF goes
  <1>6. Follows(b, m, f, o + 1, goes)
    <2>1. o + 1 = 6 + 0 /\ 0 \in 0 .. 1 /\ 0 # 1
      BY <1>3
    <2> QED
      BY <1>3, <1>5, <2>1 DEF Follows
  <1>7. unmarshal'[n] = goes
    BY <1>1, <1>4, FollowedParser
  <1> QED
    BY <1>2, <1>4, <1>6, <1>7, LandsInState DEF LandsOn, u

LEMMA CmdIdLands ==
  ASSUME IInv, NEW n \in Nodes, CmdIdByte(n), NEW b, NEW m, NEW f, NEW o, OnFrame(n, b, m, f, o)
  PROVE  LandsOn(n, b, m, f, o)
  <1> DEFINE u == unmarshal[n]
             y == Head(wire[n])
             x == Shift(u.curr_hdr.cmd_id, y)
             w == [u EXCEPT !.curr_hdr.cmd_id = x]
             k == u.byte_count + 1
             waits == [w EXCEPT !.byte_count = k]
             ends == [w EXCEPT !.byte_count = 0, !.state = "PAYLOAD_SIZE"]
  <1>1. Reading(n, "CMD_ID")
    BY DEF CmdIdByte
  <1>2. u \in ezRpcUnmarshal /\ u.state = "CMD_ID" /\ y \in Byte
    BY <1>1, ReadingFacts
  <1>3. /\ rx_msg_queue' = rx_msg_queue
        /\ \/ Parsed(n, waits) /\ k < CMD_ID_SIZE
           \/ Parsed(n, ends) /\ k >= CMD_ID_SIZE
    <2>1. u.byte_count \in Nat /\ CMD_ID_SIZE = 2
      BY <1>2 DEF ezRpcUnmarshal, CMD_ID_SIZE
    <2>2. k < CMD_ID_SIZE \/ k >= CMD_ID_SIZE
      BY <2>1
    <2>3. Parsed(n, IF k < CMD_ID_SIZE THEN waits ELSE ends) /\ rx_msg_queue' = rx_msg_queue
      BY DEF CmdIdByte
    <2> HIDE DEF waits, ends, k
    <2> QED
      BY <2>1, <2>2, <2>3
  <1>4. /\ f[7] = Hi(m.header.cmd_id) /\ f[8] = Lo(m.header.cmd_id) /\ m.header.cmd_id \in UInt16
        /\ y = f[o + 1]
    BY DEF OnFrame, IsFrame, IsMessageSent, ezRpcMsgHeader
  <1>5. /\ u.sync_bytes % 256 = Lo(SYNC_BYTES) /\ u.curr_hdr.payload_high = 0
        /\ u.byte_count \in 0 .. 1 /\ o = 6 + u.byte_count
        /\ u.curr_hdr.payload_size = 0 /\ u.curr_hdr.uuid = m.header.uuid
        /\ u.curr_hdr.type = m.header.type
        /\ (u.byte_count = 1 => u.curr_hdr.cmd_id % 256 = f[7])
    BY <1>2 DEF OnFrame, Follows
  <1>6. u.curr_hdr \in ezRpcMsgHeader /\ u.curr_hdr.cmd_id \in UInt16 /\ CMD_ID_SIZE = 2
    BY <1>2 DEF ezRpcUnmarshal, ezRpcMsgHeader, CMD_ID_SIZE
  <1> HIDE DEF u, x, y
  <1>7. /\ waits.sync_bytes = u.sync_bytes /\ ends.sync_bytes = u.sync_bytes
        /\ waits.state = "CMD_ID" /\ waits.byte_count = k /\ waits.curr_hdr.cmd_id = x
        /\ waits.curr_hdr.payload_high = u.curr_hdr.payload_high
        /\ ends.curr_hdr.payload_high = u.curr_hdr.payload_high
        /\ waits.curr_hdr.payload_size = u.curr_hdr.payload_size
        /\ waits.curr_hdr.uuid = u.curr_hdr.uuid /\ waits.curr_hdr.type = u.curr_hdr.type
        /\ ends.state = "PAYLOAD_SIZE" /\ ends.byte_count = 0 /\ ends.curr_hdr.cmd_id = x
        /\ ends.curr_hdr.payload_size = u.curr_hdr.payload_size
        /\ ends.curr_hdr.uuid = u.curr_hdr.uuid /\ ends.curr_hdr.type = u.curr_hdr.type
    BY <1>2 DEF ezRpcUnmarshal, ezRpcMsgHeader
  <1> HIDE DEF waits, ends
  <1>8. CASE Parsed(n, waits) /\ k < CMD_ID_SIZE
    <2>1. u.byte_count = 0 /\ k = 1 /\ o + 1 = 6 + k /\ k \in 0 .. 1 /\ o + 1 = 7
      BY <1>5, <1>6, <1>8
    <2>2. x % 256 = f[7]
      BY <1>2, <1>4, <1>6, <2>1, ShiftedIn DEF x
    <2> HIDE DEF k
    <2>3. Follows(b, m, f, o + 1, waits)
      BY <1>5, <1>7, <2>1, <2>2 DEF Follows
    <2>4. unmarshal'[n] = waits
      BY <1>1, <1>8, FollowedParser
    <2> QED
      BY <1>2, <1>3, <2>3, <2>4, LandsInState DEF LandsOn, u
  <1>9. CASE Parsed(n, ends) /\ k >= CMD_ID_SIZE
    <2>1. u.byte_count = 1 /\ o + 1 = 8 /\ o + 1 = 8 + 0 /\ 0 \in 0 .. 3 /\ 0 # 3
      BY <1>5, <1>6, <1>9
    <2>2. x = m.header.cmd_id
      BY <1>4, <1>5, <1>6, <2>1, SecondByte DEF x
    <2>3. Follows(b, m, f, o + 1, ends)
      BY <1>5, <1>7, <2>1, <2>2 DEF Follows
    <2>4. unmarshal'[n] = ends
      BY <1>1, <1>9, FollowedParser
    <2> QED
      BY <1>2, <1>3, <2>3, <2>4, LandsInState DEF LandsOn, u
  <1> QED
    BY <1>3, <1>8, <1>9

(* The halves of a size that fits 16 bits.                                 *)
LEMMA ShiftOfBytes ==
  ASSUME NEW y \in Byte
  PROVE  /\ Shift(0, y) = y
         /\ \A x \in UInt16 : y = Lo(x) => Shift(Hi(x), y) = x
         /\ Shift(0, Hi(y)) = 0
  <1>1. y \in Int /\ y >= 0 /\ y <= 255
    BY ByteIsInt
  <1>2. Shift(0, y) = y
    BY <1>1 DEF Shift
  <1>3. ASSUME NEW x \in UInt16, y = Lo(x) PROVE Shift(Hi(x), y) = x
    <2>1. Hi(x) \in UInt16 /\ Hi(x) % 256 = Hi(x)
      <3>1. Hi(x) \in Int /\ 0 <= Hi(x) /\ Hi(x) <= 255
        BY HalvesType, ByteIsInt
      <3> HIDE DEF Hi
      <3> QED
        BY <3>1, SmallNumber, MaxLenValue
    <2> QED
      BY <1>3, <2>1, SecondByte
  <1>4. Shift(0, Hi(y)) = 0
    <2>1. Hi(y) = 0
      BY <1>1 DEF Hi
    <2> QED
      BY <2>1 DEF Shift
  <1> QED
    BY <1>2, <1>3, <1>4

LEMMA WholeHeader ==
  ASSUME NEW h \in ezRpcMsgHeader, NEW g \in ezRpcMsgHeader,
         h.uuid = g.uuid, h.type = g.type, h.cmd_id = g.cmd_id,
         h.payload_high = g.payload_high, h.payload_size = g.payload_size
  PROVE  h = g
  BY DEF ezRpcMsgHeader

(* Where the parser gives a frame up in the middle.                        *)
LEMMA GivesUp ==
  ASSUME NEW b, NEW m, NEW f, NEW o, NEW u, NEW v, NEW q,
         u.state # "SYNC", Follows(b, m, f, o, u), v.state = "SYNC", v.sync_bytes = u.sync_bytes
  PROVE  Lands(b, m, f, o, u, v, q, q)
  <1>1. v.sync_bytes % 256 = Lo(SYNC_BYTES)
    BY DEF Follows
  <1>2. Follows(b, m, f, o + 1, v)
    BY <1>1 DEF Follows
  <1> QED
    BY <1>2, LandsInState

LEMMA PayloadSizeLands ==
  ASSUME IInv, NEW n \in Nodes, PayloadSizeByte(n), NEW b, NEW m, NEW f, NEW o,
         OnFrame(n, b, m, f, o)
  PROVE  LandsOn(n, b, m, f, o)
  <1> DEFINE u == unmarshal[n]
             y == Head(wire[n])
             z == Shift(u.curr_hdr.payload_high, Hi(u.curr_hdr.payload_size))
             x == Shift(u.curr_hdr.payload_size, y)
             k == u.byte_count + 1
             w == [u EXCEPT !.curr_hdr.payload_high = z, !.curr_hdr.payload_size = x,
                            !.byte_count = k]
             ends == [w EXCEPT !.byte_count = 0, !.payload = << >>, !.state = "PAYLOAD"]
             gives == [w EXCEPT !.state = "SYNC"]
  <1>1. Reading(n, "PAYLOAD_SIZE")
    BY DEF PayloadSizeByte
  <1>2. u \in ezRpcUnmarshal /\ u.state = "PAYLOAD_SIZE" /\ y \in Byte
    BY <1>1, ReadingFacts
  <1>3. /\ rx_msg_queue' = rx_msg_queue
        /\ \/ Parsed(n, w) /\ w.byte_count < LEN_SIZE
           \/ Parsed(n, ends) /\ w.byte_count >= LEN_SIZE
           \/ Parsed(n, gives) /\ w.byte_count >= LEN_SIZE
    BY DEF PayloadSizeByte, Reserve, Release
  <1>4. /\ f[9] = 0 /\ f[10] = 0
        /\ f[11] = Hi(m.header.payload_size) /\ f[12] = Lo(m.header.payload_size)
        /\ m.header \in ezRpcMsgHeader /\ m.header.payload_size \in UInt16
        /\ m.header.payload_high = 0
        /\ m.header.payload_size = Len(m.payload) /\ Len(m.payload) \in Nat
        /\ Len(m.payload) >= 1
        /\ y = f[o + 1] /\ Follows(b, m, f, o, u)
    BY DEF OnFrame, IsFrame, IsMessageSent, ezRpcMsgHeader
  <1>5. /\ u.sync_bytes % 256 = Lo(SYNC_BYTES)
        /\ u.byte_count \in 0 .. 3 /\ o = 8 + u.byte_count
        /\ u.curr_hdr.uuid = m.header.uuid
        /\ u.curr_hdr.type = m.header.type /\ u.curr_hdr.cmd_id = m.header.cmd_id
        /\ u.curr_hdr.payload_high = 0
        /\ u.curr_hdr.payload_size = IF u.byte_count = 3 THEN f[11] ELSE 0
    BY <1>2 DEF OnFrame, Follows
  <1>6. u.curr_hdr \in ezRpcMsgHeader /\ u.curr_hdr.payload_size \in UInt16 /\ LEN_SIZE = 4
    BY <1>2 DEF ezRpcUnmarshal, ezRpcMsgHeader, LEN_SIZE
  <1>7. x \in UInt16 /\ z = 0
    <2>1. f[11] \in Byte
      BY <1>4, HalvesType
    <2>2. 0 \in Byte
      BY DEF Byte
    <2>3. u.curr_hdr.payload_size \in Byte
      BY <1>5, <2>1, <2>2
    <2> QED
      BY <1>2, <1>5, <1>6, <2>3, ShiftType, ShiftOfBytes
  <1> HIDE DEF u, x, y, z
  <1>8. /\ w.state = "PAYLOAD_SIZE" /\ w.byte_count = k /\ w.sync_bytes = u.sync_bytes
        /\ w.curr_hdr = [u.curr_hdr EXCEPT !.payload_high = z, !.payload_size = x]
        /\ w \in ezRpcUnmarshal \/ k \notin Nat
    BY <1>2, <1>6, <1>7, ZeroIsWord DEF ezRpcUnmarshal, ezRpcMsgHeader
  <1>9. k \in Nat /\ k \in 1 .. 4
    BY <1>5
  <1> HIDE DEF w, k
  <1>10. /\ w.curr_hdr \in ezRpcMsgHeader /\ w.curr_hdr.payload_size = x
         /\ w.curr_hdr.payload_high = 0 /\ w.curr_hdr.uuid = m.header.uuid
         /\ w.curr_hdr.type = m.header.type /\ w.curr_hdr.cmd_id = m.header.cmd_id
    BY <1>5, <1>6, <1>7, <1>8, ZeroIsWord DEF ezRpcMsgHeader
  <1>11. /\ ends.state = "PAYLOAD" /\ ends.byte_count = 0 /\ ends.payload = << >>
         /\ ends.curr_hdr = w.curr_hdr /\ ends.sync_bytes = w.sync_bytes
         /\ gives.state = "SYNC" /\ gives.sync_bytes = w.sync_bytes
    BY <1>8, <1>9 DEF ezRpcUnmarshal
  <1> HIDE DEF ends, gives
  <1>12. CASE Parsed(n, w) /\ w.byte_count < LEN_SIZE
    <2>1. k \in 1 .. 3 /\ u.byte_count = k - 1 /\ o + 1 = 8 + k
      BY <1>5, <1>6, <1>8, <1>9, <1>12 DEF k
    <2>2. x = IF k = 3 THEN f[11] ELSE 0
      <3>1. u.curr_hdr.payload_size = 0
        BY <1>5, <2>1
      <3>2. x = y
        BY <1>2, <3>1, ShiftOfBytes DEF x
      <3>3. (k = 3 => o + 1 = 11) /\ (k = 2 => o + 1 = 10) /\ (k = 1 => o + 1 = 9)
        BY <2>1
      <3> QED
        BY <1>4, <2>1, <3>2, <3>3
    <2>3. k \in 0 .. 3
      BY <2>1
    <2>4. Follows(b, m, f, o + 1, w)
      BY <1>5, <1>8, <1>10, <2>1, <2>2, <2>3 DEF Follows
    <2>5. unmarshal'[n] = w
      BY <1>1, <1>12, FollowedParser
    <2> QED
      BY <1>2, <1>3, <2>4, <2>5, LandsInState DEF LandsOn, u
  <1>13. CASE Parsed(n, ends) /\ w.byte_count >= LEN_SIZE
    <2>1. u.byte_count = 3 /\ o + 1 = 12
      BY <1>5, <1>6, <1>8, <1>9, <1>13 DEF k
    <2>2. x = m.header.payload_size
      <3>1. u.curr_hdr.payload_size = Hi(m.header.payload_size) /\ y = Lo(m.header.payload_size)
        BY <1>4, <1>5, <2>1
      <3> QED
        BY <1>2, <1>4, <3>1, ShiftOfBytes DEF x
    <2>3. w.curr_hdr = m.header
      BY <1>4, <1>10, <2>2, WholeHeader
    <2>4. Follows(b, m, f, o + 1, ends)
      <3>1. /\ 0 < Len(m.payload) /\ o + 1 = HeaderSize + 0 /\ Len(<< >>) = 0
            /\ \A j \in 1 .. 0 : FALSE
        BY <1>4, <2>1 DEF HeaderSize
      <3> QED
        BY <1>4, <1>5, <1>8, <1>11, <2>3, <3>1 DEF Follows
    <2>5. unmarshal'[n] = ends
      BY <1>1, <1>13, FollowedParser
    <2> QED
      BY <1>2, <1>3, <2>4, <2>5, LandsInState DEF LandsOn, u
  <1>14. CASE Parsed(n, gives)
    <2>1. unmarshal'[n] = gives
      BY <1>1, <1>14, FollowedParser
    <2>2. u.state # "SYNC" /\ gives.sync_bytes = u.sync_bytes
      BY <1>2, <1>8, <1>11
    <2> QED
      BY <1>3, <1>4, <1>11, <2>1, <2>2, GivesUp DEF LandsOn, u
  <1> QED
    BY <1>3, <1>12, <1>13, <1>14

(* A byte more of a copy.                                                  *)
LEMMA CopiedByte ==
  ASSUME NEW s \in Seq(Byte), NEW p \in Seq(Byte), NEW k \in Nat, Len(s) = k,
         k < Len(p), \A j \in 1 .. k : s[j] = p[j], NEW y \in Byte, y = p[k + 1]
  PROVE  /\ Append(s, y) \in Seq(Byte) /\ Len(Append(s, y)) = k + 1
         /\ \A j \in 1 .. k + 1 : Append(s, y)[j] = p[j]
         /\ k + 1 = Len(p) => Append(s, y) = p
  <1> DEFINE r == Append(s, y)
  <1>1. /\ r \in Seq(Byte) /\ Len(r) = k + 1
        /\ \A j \in 1 .. k : r[j] = s[j]
        /\ r[k + 1] = y
    BY AppendProperties
  <1> HIDE DEF r
  <1>2. \A j \in 1 .. k + 1 : j \in 1 .. k \/ j = k + 1
    OBVIOUS
  <1>3. \A j \in 1 .. k + 1 : r[j] = p[j]
    BY <1>1, <1>2
  <1>4. k + 1 = Len(p) => r = p
    BY <1>1, <1>3, SeqEqual
  <1> QED
    BY <1>1, <1>3, <1>4 DEF r

LEMMA PayloadLands ==
  ASSUME IInv, NEW n \in Nodes, PayloadByte(n), NEW b, NEW m, NEW f, NEW o,
         OnFrame(n, b, m, f, o)
  PROVE  LandsOn(n, b, m, f, o)
  <1> DEFINE u == unmarshal[n]
             y == Head(wire[n])
             p == Append(u.payload, y)
             k == u.byte_count + 1
             w == [u EXCEPT !.payload = p, !.byte_count = k]
             checks == [w EXCEPT !.byte_count = 0, !.crc_val = << >>, !.state = "CRC"]
             leaves == [w EXCEPT !.state = "SYNC"]
             whole == u.curr_hdr.payload_high = 0 /\ k >= u.curr_hdr.payload_size
  <1>1. Reading(n, "PAYLOAD")
    BY DEF PayloadByte
  <1>2. u \in ezRpcUnmarshal /\ u.state = "PAYLOAD" /\ y \in Byte
    BY <1>1, ReadingFacts
  <1>3. /\ m.header.payload_size = Len(m.payload) /\ Len(m.payload) \in Nat
        /\ m.payload \in Seq(Byte) /\ m.header.payload_high = 0
        /\ Len(f) = HeaderSize + Len(m.payload) + (IF b THEN CRC_SIZE ELSE 0)
        /\ \A i \in 1 .. Len(m.payload) : f[HeaderSize + i] = m.payload[i]
        /\ y = f[o + 1] /\ Follows(b, m, f, o, u) /\ b = crc
    BY DEF OnFrame, IsFrame, IsMessageSent
  <1>4. /\ u.sync_bytes % 256 = Lo(SYNC_BYTES)
        /\ u.byte_count < Len(m.payload) /\ o = HeaderSize + u.byte_count
        /\ u.curr_hdr = m.header
        /\ Len(u.payload) = u.byte_count
        /\ \A j \in 1 .. u.byte_count : u.payload[j] = m.payload[j]
    BY <1>2, <1>3 DEF Follows
  <1>5. u.byte_count \in Nat /\ u.payload \in Seq(Byte)
    BY <1>2 DEF ezRpcUnmarshal
  <1>6. w.payload = p /\ w.byte_count = k /\ w.state = "PAYLOAD"
        /\ w.curr_hdr = u.curr_hdr /\ w.sync_bytes = u.sync_bytes
    BY <1>2 DEF ezRpcUnmarshal
  <1>7. \/ Parsed(n, w) /\ ~whole /\ rx_msg_queue' = rx_msg_queue
        \/ Parsed(n, checks) /\ whole /\ crc /\ rx_msg_queue' = rx_msg_queue
        \/ Parsed(n, leaves) /\ rx_msg_queue' = rx_msg_queue
        \/ Parsed(n, leaves) /\ whole /\ ~crc /\ PushMessage(n, p, 2)
    BY <1>6 DEF PayloadByte, Reserve, Release
  <1>8. k \in Nat /\ k >= 1 /\ k <= Len(m.payload) /\ o + 1 = HeaderSize + k /\ HeaderSize = 12
    <2> DEFINE z == u.byte_count   l == Len(m.payload)
    <2>1. z \in Nat /\ l \in Nat /\ z < l /\ o = 12 + z /\ HeaderSize = 12
      BY <1>3, <1>4, <1>5 DEF HeaderSize
    <2> HIDE DEF z, l
    <2>2. z + 1 \in Nat /\ z + 1 >= 1 /\ z + 1 <= l /\ o + 1 = 12 + (z + 1)
      BY <2>1
    <2> QED
      BY <2>1, <2>2 DEF z, l
  <1>9. y = m.payload[u.byte_count + 1]
    <2>1. k \in 1 .. Len(m.payload)
      BY <1>3, <1>8
    <2> QED
      BY <1>3, <1>8, <2>1
  <1>10. /\ p \in Seq(Byte) /\ Len(p) = k
         /\ \A j \in 1 .. k : p[j] = m.payload[j]
         /\ k = Len(m.payload) => p = m.payload
    <2> HIDE DEF u, y
    <2> QED
      BY <1>2, <1>3, <1>4, <1>5, <1>9, CopiedByte
  <1>11. /\ checks.state = "CRC" /\ checks.byte_count = 0 /\ checks.crc_val = << >>
         /\ checks.curr_hdr = u.curr_hdr /\ checks.payload = p
         /\ checks.sync_bytes = u.sync_bytes
         /\ leaves.state = "SYNC" /\ leaves.sync_bytes = u.sync_bytes /\ leaves.byte_count = k
    BY <1>2 DEF ezRpcUnmarshal
  <1>12. whole => k = Len(m.payload) /\ p = m.payload
    <2>1. u.curr_hdr.payload_size = Len(m.payload)
      BY <1>3, <1>4
    <2>2. whole => k = Len(m.payload)
      BY <1>3, <1>8, <2>1
    <2> QED
      BY <1>10, <2>2
  <1>13. ~whole => k < Len(m.payload)
    BY <1>3, <1>4, <1>8
  <1> HIDE DEF u, y, p, k, w, checks, leaves, whole
  <1>14. CASE Parsed(n, w) /\ ~whole /\ rx_msg_queue' = rx_msg_queue
    <2>1. Follows(b, m, f, o + 1, w)
      BY <1>3, <1>4, <1>6, <1>8, <1>10, <1>13, <1>14 DEF Follows
    <2>2. unmarshal'[n] = w
      BY <1>1, <1>14, FollowedParser
    <2> QED
      BY <1>2, <1>14, <2>1, <2>2, LandsInState DEF LandsOn, u
  <1>15. CASE Parsed(n, checks) /\ whole /\ crc /\ rx_msg_queue' = rx_msg_queue
    <2>1. Follows(b, m, f, o + 1, checks)
      <3>1. o + 1 = HeaderSize + Len(m.payload) + 0 /\ 0 \in 0 .. 1 /\ Len(<< >>) = 0
            /\ \A j \in 1 .. 0 : FALSE
        BY <1>3, <1>8, <1>12, <1>15
      <3> QED
        BY <1>3, <1>4, <1>11, <1>12, <1>15, <3>1 DEF Follows
    <2>2. unmarshal'[n] = checks
      BY <1>1, <1>15, FollowedParser
    <2> QED
      BY <1>2, <1>15, <2>1, <2>2, LandsInState DEF LandsOn, u
  <1>16. CASE Parsed(n, leaves) /\ rx_msg_queue' = rx_msg_queue
    <2>1. unmarshal'[n] = leaves /\ u.state # "SYNC"
      BY <1>1, <1>2, <1>16, FollowedParser
    <2> QED
      BY <1>3, <1>11, <1>16, <2>1, GivesUp DEF LandsOn, u
  <1>17. CASE Parsed(n, leaves) /\ whole /\ ~crc /\ PushMessage(n, p, 2)
    <2>1. unmarshal'[n] = leaves /\ u.state # "SYNC"
      BY <1>1, <1>2, <1>17, FollowedParser
    <2>2. rx_msg_queue'[n] =
            rx_msg_queue[n] \o <<HeaderElement(m.header), PayloadElement(m.payload)>>
      BY <1>4, <1>12, <1>17 DEF PushMessage, IInv, TypeOK, u
    <2>3. o + 1 = Len(f)
      BY <1>3, <1>8, <1>12, <1>17
    <2> QED
      BY <1>8, <1>11, <2>1, <2>2, <2>3 DEF LandsOn, Lands, u
  <1> QED
    BY <1>7, <1>14, <1>15, <1>16, <1>17

LEMMA CrcLands ==
  ASSUME IInv, NEW n \in Nodes, CrcByte(n), NEW b, NEW m, NEW f, NEW o, OnFrame(n, b, m, f, o)
  PROVE  LandsOn(n, b, m, f, o)
  <1> DEFINE u == unmarshal[n]
             y == Head(wire[n])
             x == Append(u.crc_val, y)
             k == u.byte_count + 1
             w == [u EXCEPT !.crc_val = x, !.byte_count = k]
             leaves == [w EXCEPT !.state = "SYNC"]
  <1>1. Reading(n, "CRC")
    BY DEF CrcByte
  <1>2. u \in ezRpcUnmarshal /\ u.state = "CRC" /\ y \in Byte
    BY <1>1, ReadingFacts
  <1>3. w.crc_val = x /\ w.byte_count = k /\ w.state = "CRC" /\ w.payload = u.payload
        /\ w.curr_hdr = u.curr_hdr /\ w.sync_bytes = u.sync_bytes
        /\ leaves.state = "SYNC" /\ leaves.sync_bytes = u.sync_bytes /\ leaves.byte_count = k
    BY <1>2 DEF ezRpcUnmarshal
  <1>4. \/ Parsed(n, w) /\ k < CRC_SIZE /\ rx_msg_queue' = rx_msg_queue
        \/ Parsed(n, leaves) /\ k >= CRC_SIZE /\ PushMessage(n, u.payload, 3)
        \/ Parsed(n, leaves) /\ rx_msg_queue' = rx_msg_queue
    BY <1>3 DEF CrcByte, Release
  <1>5. /\ Len(m.payload) \in Nat /\ Crc(m.payload) \in Seq(Byte)
        /\ m.header.payload_high = 0
        /\ Len(Crc(m.payload)) = CRC_SIZE /\ CRC_SIZE = 2 /\ HeaderSize = 12
        /\ Len(f) = HeaderSize + Len(m.payload) + (IF b THEN CRC_SIZE ELSE 0)
        /\ b => \A i \in 1 .. CRC_SIZE : f[HeaderSize + Len(m.payload) + i] = Crc(m.payload)[i]
        /\ y = f[o + 1] /\ Follows(b, m, f, o, u)
    BY MessageAssumption DEF OnFrame, IsFrame, IsMessageSent, CRC_SIZE, HeaderSize
  <1>6. /\ u.sync_bytes % 256 = Lo(SYNC_BYTES) /\ b /\ u.byte_count \in 0 .. 1
        /\ o = HeaderSize + Len(m.payload) + u.byte_count /\ u.curr_hdr = m.header
        /\ u.payload = m.payload /\ Len(u.crc_val) = u.byte_count
        /\ \A j \in 1 .. u.byte_count : u.crc_val[j] = Crc(m.payload)[j]
    BY <1>2, <1>5 DEF Follows
  <1>7. u.crc_val \in Seq(Byte) /\ u.byte_count \in Nat
    BY <1>2 DEF ezRpcUnmarshal
  <1>8. /\ o + 1 = HeaderSize + Len(m.payload) + k /\ k \in 1 .. 2 /\ k \in Nat
    <2> DEFINE z == u.byte_count   l == Len(m.payload)
    <2>1. o = HeaderSize + l + z /\ z \in 0 .. 1 /\ HeaderSize = 12 /\ l \in Nat
      BY <1>5, <1>6
    <2> HIDE DEF z, l
    <2>2. o + 1 = HeaderSize + l + (z + 1) /\ z + 1 \in 1 .. 2 /\ z + 1 \in Nat
      BY <2>1
    <2> QED
      BY <2>2 DEF z, l
  <1>9. y = Crc(m.payload)[u.byte_count + 1]
    BY <1>5, <1>6, <1>8
  <1>10. /\ x \in Seq(Byte) /\ Len(x) = k
         /\ \A j \in 1 .. k : x[j] = Crc(m.payload)[j]
    <2>1. u.byte_count < Len(Crc(m.payload))
      <3>1. u.byte_count < 2
        BY <1>6
      <3>2. Len(Crc(m.payload)) = 2
        BY <1>5
      <3> QED
        BY <3>1, <3>2
    <2> HIDE DEF u, y
    <2> QED
      BY <1>2, <1>5, <1>6, <1>7, <1>9, <2>1, CopiedByte
  <1> HIDE DEF u, y, x, k, w, leaves
  <1>11. CASE Parsed(n, w) /\ k < CRC_SIZE /\ rx_msg_queue' = rx_msg_queue
    <2>1. k \in 0 .. 1
      BY <1>5, <1>8, <1>11
    <2>2. Follows(b, m, f, o + 1, w)
      BY <1>3, <1>5, <1>6, <1>8, <1>10, <2>1 DEF Follows
    <2>3. unmarshal'[n] = w
      BY <1>1, <1>11, FollowedParser
    <2> QED
      BY <1>2, <1>11, <2>2, <2>3, LandsInState DEF LandsOn, u
  <1>12. CASE Parsed(n, leaves) /\ k >= CRC_SIZE /\ PushMessage(n, u.payload, 3)
    <2>1. unmarshal'[n] = leaves /\ u.state # "SYNC"
      BY <1>1, <1>2, <1>12, FollowedParser
    <2>2. rx_msg_queue'[n] =
            rx_msg_queue[n] \o <<HeaderElement(m.header), PayloadElement(m.payload)>>
      BY <1>6, <1>12 DEF PushMessage, IInv, TypeOK, u
    <2>3. o + 1 = Len(f) /\ k >= 1
      BY <1>5, <1>6, <1>8, <1>12
    <2> QED
      BY <1>3, <2>1, <2>2, <2>3 DEF LandsOn, Lands, u
  <1>13. CASE Parsed(n, leaves) /\ rx_msg_queue' = rx_msg_queue
    <2>1. unmarshal'[n] = leaves /\ u.state # "SYNC"
      BY <1>1, <1>2, <1>13, FollowedParser
    <2> QED
      BY <1>3, <1>5, <1>13, <2>1, GivesUp DEF LandsOn, u
  <1> QED
    BY <1>4, <1>11, <1>12, <1>13

(* The parser takes a byte, and does not write it behind a block.          *)
ReadsByte(n) ==
  \/ SyncByte(n) \/ UuidByte(n) \/ MsgTypeByte(n) \/ EncryptFlagByte(n)
  \/ CmdIdByte(n) \/ PayloadSizeByte(n) \/ PayloadByte(n) \/ CrcByte(n)

LEMMA ReadsOrOverruns ==
  ASSUME NEW n
  PROVE  ReceiveByte(n) <=> ReadsByte(n) \/ PayloadOverrun(n)
  BY DEF ReceiveByte, ReadsByte

(* Whatever the parser does with a byte of a whole frame.                  *)
LEMMA ByteLands ==
  ASSUME IInv, NEW n \in Nodes, ReadsByte(n), NEW b, NEW m, NEW f, NEW o,
         OnFrame(n, b, m, f, o)
  PROVE  LandsOn(n, b, m, f, o)
  BY SyncLands, UuidLands, MsgTypeLands, EncryptFlagLands, CmdIdLands, PayloadSizeLands,
     PayloadLands, CrcLands DEF ReadsByte

LEMMA BytesRead ==
  ASSUME IInv, NEW n \in Nodes, ReadsByte(n)
  PROVE  /\ UNCHANGED <<RunVars, stage>>
         /\ wire[n] # << >> /\ wire' = [wire EXCEPT ![n] = Tail(@)]
         /\ \A k \in Nodes : k # n =>
              unmarshal'[k] = unmarshal[k] /\ rx_msg_queue'[k] = rx_msg_queue[k]
  <1>1. PICK s : Reading(n, s)
    BY DEF ReadsByte, SyncByte, UuidByte, MsgTypeByte, EncryptFlagByte, CmdIdByte,
           PayloadSizeByte, PayloadByte, CrcByte
  <1>2. \E v : Parsed(n, v)
    BY DEF ReadsByte, SyncByte, UuidByte, MsgTypeByte, EncryptFlagByte, CmdIdByte,
           PayloadSizeByte, PayloadByte, CrcByte
  <1>3. \/ rx_msg_queue' = rx_msg_queue
        \/ \E p, k : PushMessage(n, p, k)
    BY DEF ReadsByte, SyncByte, UuidByte, MsgTypeByte, EncryptFlagByte, CmdIdByte,
           PayloadSizeByte, PayloadByte, CrcByte, Reserve, Release
  <1>4. \A k \in Nodes : k # n =>
          unmarshal'[k] = unmarshal[k] /\ rx_msg_queue'[k] = rx_msg_queue[k]
    BY <1>2, <1>3 DEF IInv, TypeOK, Parsed, PushMessage
  <1> QED
    BY <1>1, <1>4 DEF Reading

(* What reading leaves alone, behind a block too.                          *)
LEMMA ReceiveKeeps ==
  ASSUME IInv, NEW n \in Nodes, ReceiveByte(n)
  PROVE  UNCHANGED <<crc, records, next_uuid, tx_msg_queue, sent, handled, faults, confused>>
  <1>1. CASE ReadsByte(n)
    BY <1>1, BytesRead DEF RunVars
  <1>2. CASE PayloadOverrun(n)
    BY <1>2 DEF PayloadOverrun, RunVars
  <1> QED
    BY <1>1, <1>2, ReadsOrOverruns

-----------------------------------------------------------------------------
(* The histories and the records, whatever the lines do.                   *)

Messages == [header : ezRpcMsgHeader, payload : Seq(Byte)]

(* The records r of a node whose last uuid is top: only records that were  *)
(* used are unavailable, and no two of those that were share a uuid.       *)
RecordsKept(r, top) ==
  /\ \A i \in 1 .. Records :
       r[i].uuid <= top /\ (~r[i].is_available => r[i].uuid # 0)
  /\ \A i, j \in 1 .. Records : r[i].uuid = r[j].uuid /\ r[i].uuid # 0 => i = j

(* Requests are numbered as they are made.                                 *)
Numbered(s, top) ==
  \A i \in 1 .. Len(s) :
    s[i].header.type = REQ => 1 <= s[i].header.uuid /\ s[i].header.uuid <= top

HistoryOK ==
  /\ sent \in [Nodes -> Seq(Messages)] /\ handled \in [Nodes -> Seq(Messages)]
  /\ \A n \in Nodes : /\ next_uuid[n] <= MaxRequests[n]
                      /\ RecordsKept(records[n], next_uuid[n])
                      /\ Numbered(sent[n], next_uuid[n])

HInv == IInv /\ HistoryOK

LEMMA Smallest ==
  ASSUME NEW T \in SUBSET Nat, T # {}
  PROVE  \E x \in T : \A y \in T : x <= y
  <1>1. PICK x \in T : \A y \in T : ~ (<<y, x>> \in OpToRel(<, Nat))
    BY NatLessThanWellFounded, WFMin
  <1>2. \A y \in T : ~ (y < x)
    BY <1>1 DEF OpToRel
  <1> QED
    BY <1>2

LEMMA FirstIsOne ==
  ASSUME NEW S, S \in SUBSET (1 .. Records), S # {}
  PROVE  First(S) \in S /\ First(S) \in 1 .. Records
  <1>1. S \in SUBSET Nat
    BY SizeAssumption
  <1>2. \E x \in S : \A y \in S : x <= y
    BY <1>1, Smallest
  <1>3. First(S) \in S
    BY <1>2 DEF First
  <1> QED
    BY <1>3

LEMMA RecordsTaken ==
  ASSUME NEW r \in [1 .. Records -> ezRpcRequestRecord], NEW top \in Int, top >= 0,
         RecordsKept(r, top), NEW i \in 1 .. Records, NEW b \in BOOLEAN
  PROVE  RecordsKept([r EXCEPT ![i] = [uuid |-> top + 1, is_available |-> b]], top + 1)
  <1> DEFINE x == [uuid |-> top + 1, is_available |-> b]
             q == [r EXCEPT ![i] = x]
  <1>1. x.uuid = top + 1 /\ top + 1 # 0 /\ top + 1 \in Int
    OBVIOUS
  <1>2. \A k \in 1 .. Records : q[k] = IF k = i THEN x ELSE r[k]
    OBVIOUS
  <1>3. \A k \in 1 .. Records : r[k].uuid \in Int /\ r[k].uuid <= top /\ r[k].uuid # top + 1
                                /\ r[k].uuid <= top + 1
    <2> TAKE k \in 1 .. Records
    <2>1. r[k].uuid \in UInt16
      BY DEF ezRpcRequestRecord
    <2>2. r[k].uuid \in Int /\ r[k].uuid <= top
      BY <2>1, WordIsInt DEF RecordsKept
    <2> QED
      BY <2>2
  <1> HIDE DEF x, q
  <1>4. ASSUME NEW k \in 1 .. Records
        PROVE  q[k].uuid <= top + 1 /\ (~q[k].is_available => q[k].uuid # 0)
    <2>1. CASE k = i
      BY <1>1, <1>2, <2>1
    <2>2. CASE k # i
      BY <1>2, <1>3, <2>2 DEF RecordsKept
    <2> QED
      BY <2>1, <2>2
  <1>5. ASSUME NEW k \in 1 .. Records, NEW l \in 1 .. Records,
               q[k].uuid = q[l].uuid, q[k].uuid # 0
        PROVE  k = l
    <2>1. CASE k = i /\ l # i
      BY <1>1, <1>2, <1>3, <1>5, <2>1
    <2>2. CASE k # i /\ l = i
      BY <1>1, <1>2, <1>3, <1>5, <2>2
    <2>3. CASE k # i /\ l # i
      BY <1>2, <1>5, <2>3 DEF RecordsKept
    <2> QED
      BY <2>1, <2>2, <2>3
  <1>6. RecordsKept(q, top + 1)
    BY <1>4, <1>5 DEF RecordsKept
  <1> QED
    BY <1>6 DEF q, x

LEMMA RecordsClosed ==
  ASSUME NEW r \in [1 .. Records -> ezRpcRequestRecord], NEW top, RecordsKept(r, top), NEW i
  PROVE  RecordsKept([r EXCEPT ![i].is_available = TRUE], top)
  <1> DEFINE q == [r EXCEPT ![i].is_available = TRUE]
  <1>1. ASSUME NEW k \in 1 .. Records
        PROVE  q[k].uuid = r[k].uuid /\ (~q[k].is_available => ~r[k].is_available)
    <2>1. r[k] \in ezRpcRequestRecord
      OBVIOUS
    <2>2. CASE k = i
      <3>1. q[k] = [r[k] EXCEPT !.is_available = TRUE]
        BY <2>2
      <3> HIDE DEF q
      <3> QED
        BY <2>1, <3>1 DEF ezRpcRequestRecord
    <2>3. CASE k # i
      <3>1. q[k] = r[k]
        BY <2>3
      <3> QED
        BY <3>1
    <2> QED
      BY <2>2, <2>3
  <1> HIDE DEF q
  <1>2. RecordsKept(q, top)
    BY <1>1 DEF RecordsKept
  <1> QED
    BY <1>2 DEF q

LEMMA NumberedOn ==
  ASSUME NEW s \in Seq(Messages), NEW top \in Int, Numbered(s, top), NEW m \in Messages,
         NEW up \in Int, top <= up,
         m.header.type = REQ => 1 <= m.header.uuid /\ m.header.uuid <= up
  PROVE  Numbered(s, up) /\ Numbered(Append(s, m), up)
  <1>1. \A i \in 1 .. Len(s) : s[i].header.uuid \in Int
    <2> TAKE i \in 1 .. Len(s)
    <2>1. s[i] \in Messages
      BY ElementOfSeq
    <2>2. s[i].header.uuid \in UInt16
      BY <2>1 DEF Messages, ezRpcMsgHeader
    <2> QED
      BY <2>2, WordIsInt
  <1>2. Numbered(s, up)
    BY <1>1 DEF Numbered
  <1> DEFINE t == Append(s, m)
  <1>3. /\ Len(t) = Len(s) + 1 /\ Len(s) \in Nat
        /\ \A i \in 1 .. Len(s) : t[i] = s[i]
        /\ t[Len(s) + 1] = m
    BY AppendProperties, LenProperties
  <1> HIDE DEF t
  <1>4. \A i \in 1 .. Len(t) : i \in 1 .. Len(s) \/ i = Len(s) + 1
    BY <1>3
  <1>5. Numbered(t, up)
    BY <1>2, <1>3, <1>4 DEF Numbered
  <1> QED
    BY <1>2, <1>5 DEF t

(* Everything a request does.                                              *)
TakesRecord(n, u, b) ==
  \E i \in 1 .. Records :
    /\ records[n][i].is_available
    /\ records' = [records EXCEPT ![n] = [records[n] EXCEPT ![i] = [uuid |-> u, is_available |-> b]]]

MarshalsMessage(n, m) ==
  /\ m \in Sendable
  /\ tx_msg_queue' = [tx_msg_queue EXCEPT ![n] = Append(tx_msg_queue[n], FrameWith(crc, m))]
  /\ sent' = [sent EXCEPT ![n] = Append(sent[n], m)]

Requests(n, u, m) ==
  /\ u = next_uuid[n] + 1 /\ u \in UInt16 /\ u <= MaxRequests[n]
  /\ next_uuid[n] \in Int /\ next_uuid[n] >= 0
  /\ next_uuid' = [next_uuid EXCEPT ![n] = u]
  /\ m.header.type = REQ /\ m.header.uuid = u /\ m.header.cmd_id \in AskedIds
  /\ UNCHANGED <<crc, rx_msg_queue, unmarshal, reserved, stage, wire, handled, faults, confused>>
  /\ \/ UNCHANGED <<records, tx_msg_queue, sent>>
     \/ TakesRecord(n, u, TRUE) /\ UNCHANGED <<tx_msg_queue, sent>>
     \/ TakesRecord(n, u, FALSE) /\ MarshalsMessage(n, m)

LEMMA MarshalSends ==
  ASSUME NEW n, NEW h, NEW p, Marshal(n, h, p), Message(h, p) \in Sendable
  PROVE  MarshalsMessage(n, Message(h, p))
  BY DEF Marshal, MarshalsMessage, Frame, FrameWith, Message

LEMMA UuidCounts ==
  ASSUME NEW x \in UInt16, NEW top \in UInt16, x < top
  PROVE  /\ (x + 1) % UuidLimit = x + 1 /\ x + 1 \in UInt16 /\ x + 1 <= top /\ x + 1 \in 1 .. top
  <1>1. x \in Int /\ x >= 0 /\ top \in Int /\ top <= 65535 /\ MaxLen = 65535
    BY WordIsInt, MaxLenValue
  <1>2. x + 1 \in Int /\ x + 1 >= 0 /\ x + 1 <= 65535 /\ x + 1 <= top
    BY <1>1
  <1>3. (x + 1) % UuidLimit = x + 1
    <2> DEFINE y == x + 1
    <2>1. y \in Int /\ y >= 0 /\ y <= 65535
      BY <1>2
    <2> HIDE DEF y
    <2>2. y % 65536 = y
      BY <2>1
    <2> QED
      BY <2>2 DEF y, UuidLimit
  <1>4. x + 1 \in UInt16
    BY <1>1, <1>2, IsWord
  <1> QED
    BY <1>1, <1>2, <1>3, <1>4

LEMMA RequestEffect ==
  ASSUME HInv, NEW n \in Nodes, NEW c \in AskedIds, NEW p \in Payloads,
         ezRPC_CreateRpcRequest(n, c, p)
  PROVE  \E u, m : Requests(n, u, m)
  <1> DEFINE v == (next_uuid[n] + 1) % UuidLimit
             u == next_uuid[n] + 1
             h == Header(u, REQ, c, Len(p))
             m == Message(h, p)
  <1>1. next_uuid[n] \in UInt16 /\ MaxRequests[n] \in UInt16 /\ next_uuid[n] < MaxRequests[n]
    BY SizeAssumption DEF HInv, IInv, TypeOK, ezRPC_CreateRpcRequest
  <1>2. v = u /\ u \in UInt16 /\ u <= MaxRequests[n] /\ u \in 1 .. MaxRequests[n]
    BY <1>1, UuidCounts
  <1>3. next_uuid[n] \in Int /\ next_uuid[n] >= 0
    BY <1>1, WordIsInt
  <1>4. /\ next_uuid' = [next_uuid EXCEPT ![n] = v]
        /\ UNCHANGED <<crc, rx_msg_queue, unmarshal, reserved, stage, wire, handled, faults,
                       confused>>
        /\ \/ UNCHANGED <<records, tx_msg_queue, sent>>
           \/ AvailRecords(n) # {} /\ TakeRecord(n, v, FALSE) /\ UNCHANGED <<tx_msg_queue, sent>>
           \/ AvailRecords(n) # {} /\ TakeRecord(n, v, TRUE)
                /\ Marshal(n, Header(v, REQ, c, Len(p)), p)
    BY DEF ezRPC_CreateRpcRequest
  <1>5. m \in Sendable
    <2>1. u \in UNION {1 .. MaxRequests[k] : k \in Nodes}
      BY <1>2
    <2> HIDE DEF u
    <2> QED
      BY <2>1 DEF Sendable
  <1>6. m.header.type = REQ /\ m.header.uuid = u /\ m.header.cmd_id \in AskedIds
    BY DEF Message, Header
  <1> HIDE DEF v, u
  <1>7. ASSUME NEW b \in BOOLEAN, AvailRecords(n) # {}, TakeRecord(n, u, b)
        PROVE  TakesRecord(n, u, ~b)
    <2> DEFINE i == First(AvailRecords(n))
    <2>1. i \in AvailRecords(n) /\ i \in 1 .. Records
      <3>1. AvailRecords(n) \in SUBSET (1 .. Records)
        BY DEF AvailRecords
      <3> QED
        BY <1>7, <3>1, FirstIsOne
    <2>2. records' = [records EXCEPT ![n] =
                        [records[n] EXCEPT ![i] = [uuid |-> u, is_available |-> ~b]]]
      BY <1>7 DEF TakeRecord
    <2> HIDE DEF i
    <2>3. records[n][i].is_available
      BY <2>1 DEF AvailRecords
    <2> QED
      BY <2>1, <2>2, <2>3 DEF TakesRecord
  <1>8. \/ UNCHANGED <<records, tx_msg_queue, sent>>
        \/ TakesRecord(n, u, TRUE) /\ UNCHANGED <<tx_msg_queue, sent>>
        \/ TakesRecord(n, u, FALSE) /\ MarshalsMessage(n, m)
    <2>1. CASE AvailRecords(n) # {} /\ TakeRecord(n, v, FALSE) /\ UNCHANGED <<tx_msg_queue, sent>>
      BY <1>2, <1>7, <2>1
    <2>2. CASE /\ AvailRecords(n) # {} /\ TakeRecord(n, v, TRUE)
               /\ Marshal(n, Header(v, REQ, c, Len(p)), p)
      <3>1. TakesRecord(n, u, FALSE)
        BY <1>2, <1>7, <2>2
      <3>2. Marshal(n, h, p)
        BY <1>2, <2>2
      <3> HIDE DEF h
      <3>3. MarshalsMessage(n, m)
        BY <1>5, <3>2, MarshalSends
      <3> QED
        BY <3>1, <3>3
    <2> QED
      BY <1>4, <2>1, <2>2
  <1> HIDE DEF m
  <1>9. Requests(n, u, m)
    BY <1>2, <1>3, <1>4, <1>6, <1>8 DEF Requests, u
  <1> QED
    BY <1>9

LEMMA ElementFacts ==
  ASSUME NEW e \in Element
  PROVE  SizeOf(e) \in Nat /\ e.data \in Seq(Byte) /\ e.header \in ezRpcMsgHeader
  <1>1. e.data \in Seq(Byte) /\ e.header \in ezRpcMsgHeader
    BY DEF Element
  <1>2. Len(e.data) \in Nat
    BY <1>1, LenProperties
  <1> QED
    BY <1>1, <1>2 DEF SizeOf, HEADER_BYTES

LEMMA HeaderIsMessages ==
  ASSUME NEW h \in ezRpcMsgHeader, NEW p \in Seq(Byte)
  PROVE  Message(h, p) \in Messages /\ Message(h, p).header = h
  BY DEF Message, Messages

LEMMA SendableType ==
  ASSUME NEW m \in Sendable
  PROVE  m \in Messages
  <1>1. m = Message(m.header, m.payload) /\ m.header \in ezRpcMsgHeader /\ m.payload \in Seq(Byte)
    BY SendableFacts DEF IsMessageSent
  <1> QED
    BY <1>1, HeaderIsMessages

(* What handling does to the histories and the records.                    *)
Recorded(n) ==
  /\ \/ records' = records
     \/ \E i : records' = [records EXCEPT ![n] = [records[n] EXCEPT ![i].is_available = TRUE]]
  /\ \/ handled' = handled
     \/ \E m \in Messages : handled' = [handled EXCEPT ![n] = Append(handled[n], m)]
  /\ \/ sent' = sent
     \/ \E m \in Messages : m.header.type = RESP
                            /\ sent' = [sent EXCEPT ![n] = Append(sent[n], m)]

LEMMA HandleRecorded ==
  ASSUME HInv, NEW n \in Nodes, ezRpc_HandleReceivedMsg(n)
  PROVE  Recorded(n)
  <1>1. ASSUME NEW h, CloseRecord(n, h)
        PROVE  \/ records' = records
               \/ \E i : records' = [records EXCEPT ![n] =
                                       [records[n] EXCEPT ![i].is_available = TRUE]]
    BY <1>1 DEF CloseRecord
  <1>2. CASE NothingReceived(n)
    BY <1>2 DEF NothingReceived, Recorded
  <1>3. CASE DiscardResponse(n)
    BY <1>3 DEF DiscardResponse, Recorded
  <1>4. CASE UnknownCommand(n)
    BY <1>1, <1>4 DEF UnknownCommand, Recorded
  <1>5. CASE HandleCommand(n)
    <2> DEFINE q == rx_msg_queue[n]
    <2>1. PICK h \in FrontHeader(n) :
            /\ CloseRecord(n, h)
            /\ \/ /\ PayloadFits(n, h)
                  /\ handled' = [handled EXCEPT ![n] = Append(handled[n], Message(h, q[2].data))]
                  /\ ezRPC_CreateRpcResponse(n, h) \/ UNCHANGED <<tx_msg_queue, sent>>
               \/ UNCHANGED <<tx_msg_queue, sent, handled>>
      BY <1>5 DEF HandleCommand
    <2>2. q # << >>
      BY <1>5 DEF HandleCommand
    <2>3. h \in ezRpcMsgHeader /\ Header(h.uuid, RESP, h.cmd_id, Len(Reply)) \in ezRpcMsgHeader
      BY <2>2, FrontHeaderType DEF HInv
    <2>4. CASE UNCHANGED <<sent, handled>>
      BY <1>1, <2>1, <2>4 DEF Recorded
    <2>5. CASE /\ PayloadFits(n, h)
               /\ handled' = [handled EXCEPT ![n] = Append(handled[n], Message(h, q[2].data))]
               /\ ezRPC_CreateRpcResponse(n, h) \/ UNCHANGED <<tx_msg_queue, sent>>
      <3>1. q[2].data \in Seq(Byte)
        <4>1. q \in Seq(Element) /\ Len(q) > 1
          BY <2>5 DEF HInv, IInv, TypeOK, PayloadFits
        <4>2. Len(q) \in Nat
          BY <4>1, LenProperties
        <4>3. 2 \in 1 .. Len(q)
          BY <4>1, <4>2
        <4> QED
          BY <4>1, <4>3, ElementOfSeq, ElementFacts
      <3>2. Message(h, q[2].data) \in Messages
        BY <2>3, <3>1, HeaderIsMessages
      <3>3. \/ sent' = sent
            \/ \E m \in Messages : m.header.type = RESP
                                   /\ sent' = [sent EXCEPT ![n] = Append(sent[n], m)]
        <4> DEFINE g == Header(h.uuid, RESP, h.cmd_id, Len(Reply))
        <4>1. CASE UNCHANGED <<tx_msg_queue, sent>>
          BY <4>1
        <4>2. CASE Marshal(n, g, Reply)
          <5>1. g.type = RESP
            BY DEF Header
          <5> HIDE DEF g
          <5>2. Message(g, Reply) \in Messages /\ Message(g, Reply).header = g
            BY <2>3, HeaderIsMessages, MessageAssumption DEF g
          <5>3. sent' = [sent EXCEPT ![n] = Append(sent[n], Message(g, Reply))]
            BY <4>2 DEF Marshal
          <5> QED
            BY <5>1, <5>2, <5>3
        <4> QED
          BY <2>5, <4>1, <4>2 DEF ezRPC_CreateRpcResponse
      <3> HIDE DEF q
      <3> QED
        BY <1>1, <2>1, <2>5, <3>2, <3>3 DEF Recorded
    <2> QED
      BY <2>1, <2>4, <2>5
  <1> QED
    BY <1>2, <1>3, <1>4, <1>5 DEF ezRpc_HandleReceivedMsg

LEMMA NextUuidIsInt ==
  ASSUME HInv, NEW n \in Nodes
  PROVE  /\ next_uuid[n] \in UInt16 /\ next_uuid[n] \in Int /\ next_uuid[n] >= 0
         /\ MaxRequests[n] \in Int
  <1>1. next_uuid[n] \in UInt16 /\ MaxRequests[n] \in UInt16
    BY SizeAssumption DEF HInv, IInv, TypeOK
  <1> QED
    BY <1>1, WordIsInt

LEMMA RecordedStep ==
  ASSUME HInv, NEW n \in Nodes, Recorded(n), UNCHANGED next_uuid
  PROVE  HistoryOK'
  <1>1. /\ sent \in [Nodes -> Seq(Messages)] /\ handled \in [Nodes -> Seq(Messages)]
        /\ records \in [Nodes -> [1 .. Records -> ezRpcRequestRecord]]
    BY DEF HInv, HistoryOK, IInv, TypeOK
  <1>2. ASSUME NEW k \in Nodes
        PROVE  /\ next_uuid'[k] <= MaxRequests[k]
               /\ RecordsKept(records'[k], next_uuid'[k])
    <2>1. next_uuid[k] <= MaxRequests[k] /\ RecordsKept(records[k], next_uuid[k])
      BY DEF HInv, HistoryOK
    <2>2. next_uuid'[k] = next_uuid[k]
      OBVIOUS
    <2>3. records[k] \in [1 .. Records -> ezRpcRequestRecord]
      BY <1>1
    <2>4. CASE records'[k] = records[k]
      BY <2>1, <2>2, <2>4
    <2>5. CASE records'[k] # records[k]
      <3>1. PICK i : records' = [records EXCEPT ![n] = [records[n] EXCEPT ![i].is_available = TRUE]]
        BY <2>5 DEF Recorded
      <3> DEFINE r == [records[n] EXCEPT ![i].is_available = TRUE]
      <3>2. records' = [records EXCEPT ![n] = r]
        BY <3>1
      <3> HIDE DEF r
      <3>3. k = n /\ records'[k] = r
        BY <1>1, <2>5, <3>2
      <3>4. records'[k] = [records[k] EXCEPT ![i].is_available = TRUE]
        BY <3>3 DEF r
      <3>5. RecordsKept([records[k] EXCEPT ![i].is_available = TRUE], next_uuid[k])
        BY <2>1, <2>3, RecordsClosed
      <3> QED
        BY <2>1, <2>2, <3>4, <3>5
    <2> QED
      BY <2>4, <2>5
  <1>3. handled' \in [Nodes -> Seq(Messages)]
    <2>1. CASE handled' = handled
      BY <1>1, <2>1
    <2>2. ASSUME NEW m \in Messages, handled' = [handled EXCEPT ![n] = Append(handled[n], m)]
          PROVE  handled' \in [Nodes -> Seq(Messages)]
      <3> DEFINE s == Append(handled[n], m)
      <3>1. s \in Seq(Messages)
        BY <1>1, AppendProperties
      <3> HIDE DEF s
      <3> QED
        BY <1>1, <2>2, <3>1 DEF s
    <2> QED
      BY <2>1, <2>2 DEF Recorded
  <1>4. /\ sent' \in [Nodes -> Seq(Messages)]
        /\ \A k \in Nodes : Numbered(sent'[k], next_uuid'[k])
    <2>1. CASE sent' = sent
      BY <1>1, <2>1 DEF HInv, HistoryOK
    <2>2. ASSUME NEW m \in Messages, m.header.type = RESP,
                 sent' = [sent EXCEPT ![n] = Append(sent[n], m)]
          PROVE  /\ sent' \in [Nodes -> Seq(Messages)]
                 /\ \A k \in Nodes : Numbered(sent'[k], next_uuid'[k])
      <3> DEFINE s == Append(sent[n], m)
      <3>1. s \in Seq(Messages)
        BY <1>1, AppendProperties
      <3>2. Numbered(s, next_uuid[n])
        <4>1. sent[n] \in Seq(Messages) /\ Numbered(sent[n], next_uuid[n])
          BY <1>1 DEF HInv, HistoryOK
        <4>2. m.header.type # REQ /\ next_uuid[n] \in Int /\ next_uuid[n] <= next_uuid[n]
          BY <2>2, NextUuidIsInt DEF REQ, RESP
        <4> QED
          BY <4>1, <4>2, NumberedOn
      <3> HIDE DEF s
      <3>3. sent' = [sent EXCEPT ![n] = s]
        BY <2>2 DEF s
      <3> QED
        BY <1>1, <3>1, <3>2, <3>3 DEF HInv, HistoryOK
    <2> QED
      BY <2>1, <2>2 DEF Recorded
  <1> QED
    BY <1>2, <1>3, <1>4 DEF HistoryOK

LEMMA RequestRecorded ==
  ASSUME HInv, NEW n \in Nodes, NEW u, NEW m, Requests(n, u, m)
  PROVE  HistoryOK'
  <1>1. /\ sent \in [Nodes -> Seq(Messages)] /\ handled' = handled
        /\ records \in [Nodes -> [1 .. Records -> ezRpcRequestRecord]]
        /\ next_uuid \in [Nodes -> UInt16]
        /\ u = next_uuid[n] + 1 /\ u \in UInt16 /\ u <= MaxRequests[n]
        /\ next_uuid[n] \in Int /\ next_uuid[n] >= 0
        /\ next_uuid' = [next_uuid EXCEPT ![n] = u]
        /\ m.header.type = REQ /\ m.header.uuid = u
    BY DEF HInv, HistoryOK, IInv, TypeOK, Requests
  <1>2. RecordsKept(records[n], next_uuid[n]) /\ Numbered(sent[n], next_uuid[n])
        /\ records[n] \in [1 .. Records -> ezRpcRequestRecord] /\ sent[n] \in Seq(Messages)
    BY <1>1 DEF HInv, HistoryOK
  <1>3. u \in Int /\ next_uuid[n] <= u /\ 1 <= u /\ u <= u
    BY <1>1
  <1>4. ASSUME NEW k \in Nodes, k # n
        PROVE  /\ records'[k] = records[k] /\ sent'[k] = sent[k] /\ next_uuid'[k] = next_uuid[k]
    BY <1>1, <1>4 DEF Requests, TakesRecord, MarshalsMessage
  <1>5. RecordsKept(records'[n], u)
    <2>1. CASE records' = records
      <3>1. \A i \in 1 .. Records : records[n][i].uuid <= u
        <4> TAKE i \in 1 .. Records
        <4>1. records[n][i].uuid \in UInt16
          BY <1>2 DEF ezRpcRequestRecord
        <4>2. records[n][i].uuid \in Int /\ records[n][i].uuid <= next_uuid[n]
          BY <1>2, <4>1, WordIsInt DEF RecordsKept
        <4> QED
          BY <1>1, <1>3, <4>2
      <3> QED
        BY <1>2, <2>1, <3>1 DEF RecordsKept
    <2>2. ASSUME NEW b \in BOOLEAN, TakesRecord(n, u, b)
          PROVE  RecordsKept(records'[n], u)
      <3>1. PICK i \in 1 .. Records :
              records' = [records EXCEPT ![n] =
                            [records[n] EXCEPT ![i] = [uuid |-> u, is_available |-> b]]]
        BY <2>2 DEF TakesRecord
      <3>2. RecordsKept([records[n] EXCEPT ![i] = [uuid |-> next_uuid[n] + 1, is_available |-> b]],
                        next_uuid[n] + 1)
        BY <1>1, <1>2, RecordsTaken
      <3>3. records'[n] = [records[n] EXCEPT ![i] = [uuid |-> u, is_available |-> b]]
        BY <1>1, <3>1
      <3> QED
        BY <1>1, <3>2, <3>3
    <2> QED
      BY <2>1, <2>2 DEF Requests
  <1>6. sent'[n] \in Seq(Messages) /\ Numbered(sent'[n], u) /\ sent' = [sent EXCEPT ![n] = sent'[n]]
    <2>1. CASE sent' = sent
      <3>1. u >= 1 => \A i \in 1 .. Len(sent[n]) : sent[n][i].header.uuid \in UInt16
        <4>1. \A i \in 1 .. Len(sent[n]) : sent[n][i] \in Messages
          BY <1>2, ElementOfSeq
        <4> QED
          BY <4>1 DEF Messages, ezRpcMsgHeader
      <3>2. \A i \in 1 .. Len(sent[n]) : sent[n][i].header.uuid \in Int
        BY <1>3, <3>1, WordIsInt
      <3>3. Numbered(sent[n], u)
        BY <1>1, <1>2, <1>3, <3>2 DEF Numbered
      <3> QED
        BY <1>1, <1>2, <2>1, <3>3
    <2>2. CASE MarshalsMessage(n, m)
      <3>1. m \in Messages
        BY <2>2, SendableType DEF MarshalsMessage
      <3> DEFINE s == Append(sent[n], m)
      <3>2. s \in Seq(Messages)
        BY <1>2, <3>1, AppendProperties
      <3>3. Numbered(s, u)
        BY <1>1, <1>2, <1>3, <3>1, NumberedOn
      <3>4. sent' = [sent EXCEPT ![n] = s]
        BY <2>2 DEF MarshalsMessage
      <3> HIDE DEF s
      <3>5. sent'[n] = s
        BY <1>1, <3>4
      <3> QED
        BY <3>2, <3>3, <3>4, <3>5
    <2> QED
      BY <2>1, <2>2 DEF Requests
  <1>7. sent' \in [Nodes -> Seq(Messages)]
    BY <1>1, <1>6
  <1>8. ASSUME NEW k \in Nodes
        PROVE  /\ next_uuid'[k] <= MaxRequests[k]
               /\ RecordsKept(records'[k], next_uuid'[k])
               /\ Numbered(sent'[k], next_uuid'[k])
    <2>1. CASE k = n
      <3>1. next_uuid'[k] = u
        BY <1>1, <2>1
      <3> QED
        BY <1>1, <1>5, <1>6, <2>1, <3>1
    <2>2. CASE k # n
      BY <1>4, <2>2 DEF HInv, HistoryOK
    <2> QED
      BY <2>1, <2>2
  <1> QED
    BY <1>1, <1>7, <1>8 DEF HInv, HistoryOK

LEMMA NextHInv == HInv /\ [Next]_vars => HInv'
  <1> SUFFICES ASSUME HInv, [Next]_vars PROVE HInv'
    OBVIOUS
  <1>1. IInv'
    BY NextIInv DEF HInv
  <1>2. ASSUME UNCHANGED <<records, next_uuid, sent, handled>>
        PROVE  HistoryOK'
    BY <1>2 DEF HInv, HistoryOK
  <1>3. ASSUME UNCHANGED vars PROVE HistoryOK'
    <2>1. UNCHANGED <<records, next_uuid, sent, handled>>
      BY <1>3 DEF vars
    <2> QED
      BY <1>2, <2>1
  <1>4. ASSUME NEW n \in Nodes, NEW c \in AskedIds, NEW p \in Payloads,
               ezRPC_CreateRpcRequest(n, c, p)
        PROVE  HistoryOK'
    BY <1>4, RequestEffect, RequestRecorded
  <1>5. ASSUME NEW n \in Nodes, ReceiveByte(n)
        PROVE  HistoryOK'
    BY <1>2, <1>5, ReceiveKeeps DEF HInv
  <1>6. ASSUME NEW n \in Nodes, ezRpc_HandleReceivedMsg(n)
        PROVE  HistoryOK'
    <2>1. UNCHANGED next_uuid
      BY <1>6 DEF ezRpc_HandleReceivedMsg, NothingReceived, DiscardResponse, HandleCommand,
                  UnknownCommand, Handling
    <2> QED
      BY <1>6, <2>1, HandleRecorded, RecordedStep
  <1>7. ASSUME NEW n \in Nodes, Transmit(n)
        PROVE  HistoryOK'
    BY <1>2, <1>7 DEF Transmit
  <1>8. ASSUME NEW n \in Nodes, Fault(n)
        PROVE  HistoryOK'
    BY <1>2, <1>8 DEF Fault
  <1>9. ASSUME Next PROVE HistoryOK'
    <2>1. PICK n \in Nodes : \/ \E c \in AskedIds, p \in Payloads : ezRPC_CreateRpcRequest(n, c, p)
                             \/ ezRPC_Run(n)
                             \/ Fault(n)
      BY <1>9 DEF Next
    <2>2. CASE \E c \in AskedIds, p \in Payloads : ezRPC_CreateRpcRequest(n, c, p)
      BY <1>4, <2>2
    <2>3. CASE ezRPC_Run(n)
      BY <1>5, <1>6, <1>7, <2>3 DEF ezRPC_Run
    <2> QED
      BY <1>8, <2>1, <2>2, <2>3
  <1> QED
    BY <1>1, <1>3, <1>9 DEF HInv

LEMMA InitHInv == Init => HInv
  <1> SUFFICES ASSUME Init PROVE HInv
    OBVIOUS
  <1>1. \A n \in Nodes : MaxRequests[n] \in Int /\ 0 <= MaxRequests[n]
    BY SizeAssumption, WordIsInt
  <1>2. \A n \in Nodes : next_uuid[n] = 0 /\ sent[n] = << >> /\ handled[n] = << >>
    BY DEF Init
  <1>3. \A n \in Nodes, i \in 1 .. Records :
          records[n][i].uuid = 0 /\ records[n][i].is_available
    BY DEF Init
  <1>4. << >> \in Seq(Messages) /\ Len(<< >>) = 0
    BY EmptySeq
  <1>5. sent \in [Nodes -> Seq(Messages)] /\ handled \in [Nodes -> Seq(Messages)]
    BY <1>4 DEF Init
  <1>6. \A n \in Nodes : Numbered(sent[n], next_uuid[n])
    BY <1>2, <1>4 DEF Numbered
  <1>7. \A n \in Nodes : RecordsKept(records[n], next_uuid[n])
    BY <1>2, <1>3 DEF RecordsKept
  <1> QED
    BY <1>1, <1>2, <1>5, <1>6, <1>7, InitIInv DEF HInv, HistoryOK

-----------------------------------------------------------------------------
(* The receive queue q of a node holds the messages s[g[1]], .., s[g[M]],   *)
(* which are among the chosen ones Q and come after the d-th.              *)
Queued(q, s, Q, d, M, g) ==
  /\ M \in Nat /\ g \in [Nat -> Nat] /\ Len(q) = 2 * M
  /\ \A i \in 1 .. M : g[i] \in Q /\ g[i] > d
  /\ \A i, j \in 1 .. M : i < j => g[i] < g[j]
  /\ \A i \in 1 .. M : /\ q[2 * i - 1] = HeaderElement(s[g[i]].header)
                       /\ q[2 * i] = PayloadElement(s[g[i]].payload)

LEMMA QueuePushed ==
  ASSUME NEW q \in Seq(Element), NEW s, NEW Q \in SUBSET Nat, NEW d \in Nat, NEW M, NEW g,
         Queued(q, s, Q, d, M, g), NEW c \in Nat, \A i \in Q : i < c, d < c,
         NEW h, NEW p, h = HeaderElement(s[c].header), p = PayloadElement(s[c].payload),
         h \in Element, p \in Element
  PROVE  \E f : Queued(q \o <<h, p>>, s, Q \cup {c}, d, M + 1, f)
  <1> DEFINE r == q \o <<h, p>>
             f == [g EXCEPT ![M + 1] = c]
             two == <<h, p>>
  <1>1. M \in Nat /\ Len(q) = 2 * M /\ Len(q) \in Nat
    BY LenProperties DEF Queued
  <1>2. two \in Seq(Element) /\ Len(two) = 2 /\ two[1] = h /\ two[2] = p
    OBVIOUS
  <1>3. /\ Len(r) = 2 * M + 2
        /\ \A i \in Int : 1 <= i /\ i <= 2 * M => r[i] = q[i]
        /\ r[2 * M + 1] = h /\ r[2 * M + 2] = p
    <2>1. /\ Len(r) = Len(q) + Len(two)
          /\ \A i \in 1 .. Len(q) + Len(two) : r[i] = IF i <= Len(q) THEN q[i] ELSE two[i - Len(q)]
      BY <1>2, ConcatProperties
    <2> HIDE DEF r, two
    <2>2. /\ Len(r) = 2 * M + 2
          /\ \A i \in Int : 1 <= i /\ i <= 2 * M + 2 =>
               r[i] = IF i <= 2 * M THEN q[i] ELSE two[i - 2 * M]
      BY <1>1, <1>2, <2>1
    <2>3. (2 * M + 1) - 2 * M = 1 /\ (2 * M + 2) - 2 * M = 2 /\ ~(2 * M + 1 <= 2 * M)
          /\ ~(2 * M + 2 <= 2 * M) /\ 2 * M + 1 \in Int /\ 2 * M + 2 \in Int
          /\ 1 <= 2 * M + 1 /\ 1 <= 2 * M + 2 /\ 2 * M + 1 <= 2 * M + 2
      BY <1>1
    <2>4. \A i \in Int : 1 <= i /\ i <= 2 * M => r[i] = q[i]
      BY <1>1, <2>2
    <2>5. r[2 * M + 1] = two[1]
      BY <2>2, <2>3
    <2>6. r[2 * M + 2] = two[2]
      BY <2>2, <2>3
    <2> QED
      BY <1>2, <2>2, <2>4, <2>5, <2>6
  <1>4. /\ f \in [Nat -> Nat] /\ f[M + 1] = c
        /\ \A i \in 1 .. M : f[i] = g[i]
    <2>1. M + 1 \in Nat /\ \A i \in 1 .. M : i \in Nat /\ i # M + 1
      BY <1>1
    <2>2. g \in [Nat -> Nat]
      BY DEF Queued
    <2> QED
      BY <2>1, <2>2
  <1> HIDE DEF r, f, two
  <1>5. ASSUME NEW i \in 1 .. M + 1
        PROVE  i \in 1 .. M \/ i = M + 1
    BY <1>1, <1>5
  <1>6. ASSUME NEW i \in 1 .. M + 1
        PROVE  f[i] \in Q \cup {c} /\ f[i] > d
    BY <1>4, <1>5 DEF Queued
  <1>7. ASSUME NEW i \in 1 .. M + 1, NEW j \in 1 .. M + 1, i < j
        PROVE  f[i] < f[j]
    <2>1. i \in 1 .. M
      BY <1>1, <1>7
    <2>2. CASE j \in 1 .. M
      BY <1>4, <1>7, <2>1, <2>2 DEF Queued
    <2>3. CASE j = M + 1
      BY <1>4, <2>1, <2>3 DEF Queued
    <2> QED
      BY <1>5, <2>2, <2>3
  <1>8. ASSUME NEW i \in 1 .. M + 1
        PROVE  /\ r[2 * i - 1] = HeaderElement(s[f[i]].header)
               /\ r[2 * i] = PayloadElement(s[f[i]].payload)
    <2>1. CASE i \in 1 .. M
      <3>1. 1 <= 2 * i - 1 /\ 2 * i - 1 <= 2 * M /\ 1 <= 2 * i /\ 2 * i <= 2 * M
            /\ 2 * i \in Int /\ 2 * i - 1 \in Int
        BY <1>1, <2>1
      <3>2. r[2 * i - 1] = q[2 * i - 1] /\ r[2 * i] = q[2 * i]
        BY <1>3, <3>1
      <3> QED
        BY <1>4, <2>1, <3>2 DEF Queued
    <2>2. CASE i = M + 1
      <3>1. 2 * i - 1 = 2 * M + 1 /\ 2 * i = 2 * M + 2
        BY <1>1, <2>2
      <3> QED
        BY <1>3, <1>4, <2>2, <3>1
    <2> QED
      BY <1>5, <2>1, <2>2
  <1>9. Queued(r, s, Q \cup {c}, d, M + 1, f)
    <2>1. M + 1 \in Nat /\ Len(r) = 2 * (M + 1)
      BY <1>1, <1>3
    <2> QED
      BY <1>4, <1>6, <1>7, <1>8, <2>1 DEF Queued
  <1> QED
    BY <1>9 DEF r

LEMMA QueueFront ==
  ASSUME NEW q \in Seq(Element), q # << >>, NEW s, NEW Q \in SUBSET Nat, NEW d \in Nat, NEW M, NEW g,
         Queued(q, s, Q, d, M, g)
  PROVE  /\ g[1] \in Q /\ g[1] > d /\ g[1] \in Nat
         /\ Len(q) > 1 /\ Head(q) = HeaderElement(s[g[1]].header)
         /\ q[2] = PayloadElement(s[g[1]].payload)
  <1>1. M \in Nat /\ Len(q) = 2 * M /\ Len(q) > 0
    BY EmptySeq, LenProperties DEF Queued
  <1>2. M >= 1 /\ 1 \in 1 .. M /\ 2 * 1 - 1 = 1 /\ 2 * 1 = 2 /\ Len(q) > 1
    BY <1>1
  <1>3. Head(q) = q[1]
    BY HeadTailProperties
  <1> QED
    BY <1>2, <1>3 DEF Queued

LEMMA QueuePopped ==
  ASSUME NEW q \in Seq(Element), q # << >>, NEW s, NEW Q \in SUBSET Nat, NEW d \in Nat, NEW M, NEW g,
         Queued(q, s, Q, d, M, g)
  PROVE  Queued(Pop(q, 2), s, Q, g[1], M - 1, [i \in Nat |-> g[i + 1]])
  <1> DEFINE r == Pop(q, 2)
             f == [i \in Nat |-> g[i + 1]]
  <1>1. M \in Nat /\ Len(q) = 2 * M /\ Len(q) > 0
    BY EmptySeq, LenProperties DEF Queued
  <1>2. M >= 1 /\ M - 1 \in Nat /\ 1 \in 1 .. M /\ Len(q) \in Int
    BY <1>1
  <1>3. /\ Len(r) = 2 * (M - 1)
        /\ \A i \in Int : 1 <= i /\ i <= 2 * (M - 1) => r[i] = q[i + 2]
    <2>1. \A i \in 3 .. Len(q) : q[i] \in Element
      BY <1>2, ElementOfSeq
    <2>2. r = SubSeq(q, 3, Len(q))
      BY DEF Pop
    <2>3. Len(q) >= 2 /\ 3 <= Len(q) + 1
      BY <1>1, <1>2
    <2>4. /\ Len(r) = IF 3 <= Len(q) THEN (Len(q) - 3) + 1 ELSE 0
          /\ \A i \in 1 .. (Len(q) - 3) + 1 : r[i] = q[(3 + i) - 1]
      BY <1>2, <2>1, <2>2, SubSeqProperties
    <2> HIDE DEF r
    <2>5. Len(r) = 2 * (M - 1)
      BY <1>1, <1>2, <2>4
    <2>6. ASSUME NEW i \in Int, 1 <= i, i <= 2 * (M - 1)
          PROVE  r[i] = q[i + 2]
      <3>1. i \in 1 .. (Len(q) - 3) + 1 /\ (3 + i) - 1 = i + 2
        BY <1>1, <1>2, <2>6
      <3> QED
        BY <2>4, <3>1
    <2> QED
      BY <2>5, <2>6
  <1>4. f \in [Nat -> Nat] /\ \A i \in 1 .. M - 1 : f[i] = g[i + 1] /\ i + 1 \in 1 .. M
    <2>1. g \in [Nat -> Nat]
      BY DEF Queued
    <2>2. \A i \in Nat : i + 1 \in Nat
      OBVIOUS
    <2>3. ASSUME NEW i \in 1 .. M - 1
          PROVE  i \in Nat /\ i + 1 \in 1 .. M
      BY <1>1, <1>2
    <2> QED
      BY <2>1, <2>2, <2>3
  <1> HIDE DEF r, f
  <1>5. ASSUME NEW i \in 1 .. M - 1
        PROVE  f[i] \in Q /\ f[i] > g[1]
    <2>1. 1 < i + 1
      OBVIOUS
    <2> QED
      BY <1>2, <1>4, <2>1 DEF Queued
  <1>6. ASSUME NEW i \in 1 .. M - 1, NEW j \in 1 .. M - 1, i < j
        PROVE  f[i] < f[j]
    <2>1. i + 1 < j + 1
      BY <1>6
    <2> QED
      BY <1>4, <2>1 DEF Queued
  <1>7. ASSUME NEW i \in 1 .. M - 1
        PROVE  /\ r[2 * i - 1] = HeaderElement(s[f[i]].header)
               /\ r[2 * i] = PayloadElement(s[f[i]].payload)
    <2>1. 1 <= 2 * i - 1 /\ 2 * i - 1 <= 2 * (M - 1) /\ 1 <= 2 * i /\ 2 * i <= 2 * (M - 1)
          /\ 2 * i \in Int /\ 2 * i - 1 \in Int
          /\ 2 * i + 2 = 2 * (i + 1) /\ (2 * i - 1) + 2 = 2 * (i + 1) - 1
      BY <1>2
    <2>2. r[2 * i - 1] = q[2 * (i + 1) - 1] /\ r[2 * i] = q[2 * (i + 1)]
      BY <1>3, <2>1
    <2> QED
      BY <1>4, <2>2 DEF Queued
  <1>8. Queued(r, s, Q, g[1], M - 1, f)
    BY <1>2, <1>3, <1>4, <1>5, <1>6, <1>7 DEF Queued
  <1> QED
    BY <1>8 DEF r, f

LEMMA QueueStays ==
  ASSUME NEW q, NEW s, NEW Q, NEW d, NEW M, NEW g, Queued(q, s, Q, d, M, g),
         NEW t, \A i \in Q : t[i] = s[i]
  PROVE  Queued(q, t, Q, d, M, g)
  BY DEF Queued

(* What n's transmit queue t and the frames F it has transmitted hold.      *)
Framed(b, F, t, s) ==
  /\ FramesSent(F)
  /\ Len(s) = Len(F) + Len(t)
  /\ \A i \in 1 .. Len(F) : F[i] = FrameWith(b, s[i])
  /\ \A i \in 1 .. Len(t) : t[i] = FrameWith(b, s[Len(F) + i])

LEMMA FramedOn ==
  ASSUME NEW b, NEW F, NEW t \in Seq(Seq(Byte)), NEW s \in Seq(Sendable), Framed(b, F, t, s),
         NEW m \in Sendable, FrameWith(b, m) \in Seq(Byte)
  PROVE  Framed(b, F, Append(t, FrameWith(b, m)), Append(s, m))
  <1> DEFINE x == FrameWith(b, m)
             t2 == Append(t, x)
             s2 == Append(s, m)
  <1>1. /\ Len(t2) = Len(t) + 1 /\ Len(t) \in Nat
        /\ \A i \in 1 .. Len(t) : t2[i] = t[i]
        /\ t2[Len(t) + 1] = x
    BY AppendProperties, LenProperties
  <1>2. /\ Len(s2) = Len(s) + 1 /\ Len(s) \in Nat
        /\ \A i \in 1 .. Len(s) : s2[i] = s[i]
        /\ s2[Len(s) + 1] = m
    BY AppendProperties, LenProperties
  <1>3. Len(F) \in Nat /\ Len(s) = Len(F) + Len(t)
    BY LenProperties DEF Framed, FramesSent
  <1> HIDE DEF x, t2, s2
  <1>4. Len(s2) = Len(F) + Len(t2)
    BY <1>1, <1>2, <1>3
  <1>5. ASSUME NEW i \in 1 .. Len(F)
        PROVE  F[i] = FrameWith(b, s2[i])
    <2>1. i \in 1 .. Len(s)
      BY <1>1, <1>3
    <2> QED
      BY <1>2, <2>1 DEF Framed
  <1>6. ASSUME NEW i \in 1 .. Len(t2)
        PROVE  t2[i] = FrameWith(b, s2[Len(F) + i])
    <2>1. CASE i \in 1 .. Len(t)
      <3>1. Len(F) + i \in 1 .. Len(s)
        BY <1>1, <1>3, <2>1
      <3> QED
        BY <1>1, <1>2, <2>1, <3>1 DEF Framed
    <2>2. CASE i = Len(t) + 1
      <3>1. Len(F) + i = Len(s) + 1
        BY <1>1, <1>3, <2>2
      <3> QED
        BY <1>1, <1>2, <2>2, <3>1 DEF x
    <2> QED
      BY <1>1, <2>1, <2>2
  <1>7. Framed(b, F, t2, s2)
    BY <1>4, <1>5, <1>6 DEF Framed
  <1> QED
    BY <1>7 DEF t2, s2, x

LEMMA FramedOut ==
  ASSUME NEW b, NEW F, NEW t \in Seq(Seq(Byte)), t # << >>, NEW s \in Seq(Sendable),
         Framed(b, F, t, s), FramesSent(Append(F, Head(t)))
  PROVE  Framed(b, Append(F, Head(t)), Tail(t), s)
  <1> DEFINE r == Tail(t)   G == Append(F, Head(t))
  <1>1. /\ Head(t) = t[1] /\ Head(t) \in Seq(Byte) /\ Len(t) \in Nat /\ Len(t) >= 1
        /\ Len(r) = Len(t) - 1 /\ \A i \in 1 .. Len(r) : r[i] = t[i + 1]
    BY HeadTailProperties, EmptySeq, LenProperties
  <1>2. /\ F \in Seq(Seq(Byte)) /\ Len(F) \in Nat /\ Len(s) = Len(F) + Len(t)
    BY LenProperties DEF Framed, FramesSent
  <1>3. /\ Len(G) = Len(F) + 1 /\ \A i \in 1 .. Len(F) : G[i] = F[i]
        /\ G[Len(F) + 1] = t[1]
    BY <1>1, <1>2, AppendProperties
  <1> HIDE DEF r, G
  <1>4. Len(s) = Len(G) + Len(r)
    BY <1>1, <1>2, <1>3
  <1>5. ASSUME NEW i \in 1 .. Len(G)
        PROVE  G[i] = FrameWith(b, s[i])
    <2>1. CASE i \in 1 .. Len(F)
      BY <1>3, <2>1 DEF Framed
    <2>2. CASE i = Len(F) + 1
      <3>1. 1 \in 1 .. Len(t)
        BY <1>1
      <3> QED
        BY <1>3, <2>2, <3>1 DEF Framed
    <2> QED
      BY <1>2, <1>3, <2>1, <2>2
  <1>6. ASSUME NEW i \in 1 .. Len(r)
        PROVE  r[i] = FrameWith(b, s[Len(G) + i])
    <2>1. i + 1 \in 1 .. Len(t) /\ Len(F) + (i + 1) = Len(G) + i
      BY <1>1, <1>2, <1>3
    <2> QED
      BY <1>1, <2>1 DEF Framed
  <1>7. FramesSent(G)
    BY DEF G
  <1>8. Framed(b, G, r, s)
    BY <1>4, <1>5, <1>6, <1>7 DEF Framed
  <1> QED
    BY <1>8 DEF G, r

-----------------------------------------------------------------------------
(* The parser u of a node is in frame c, or at rest behind the last one.    *)
Positioned(b, s, F, c, at, u) ==
  /\ c <= Len(F) => Follows(b, s[c], F[c], 0 - at[c], u)
  /\ c > Len(F) => u.state = "SYNC"

(* Of two messages one behind the other at most one is in Q, and behind one *)
(* in Q the parser skips the next.                                         *)
Chosen(c, at, Q, u) ==
  /\ Q \in SUBSET Nat
  /\ \A i \in Q : 1 <= i /\ i < c /\ i + 1 \notin Q
  /\ c - 1 \in Q => SkipsTo(0 - at[c], u)

LEMMA FrameOfMessage ==
  ASSUME MarksOnlyAtStarts, NEW m \in Sendable, NEW b \in BOOLEAN
  PROVE  LET f == FrameWith(b, m) IN
         /\ IsFrame(f, b, m) /\ IsMessageSent(m)
         /\ f \in Seq(Byte) /\ Len(f) \in Nat /\ Len(f) >= 1
         /\ \A k \in 2 .. Len(f) - 1 : ~IsMark(f, k)
  <1> DEFINE f == FrameWith(b, m)
  <1>1. IsFrame(f, b, m)
    BY FrameBytes
  <1>2. IsMessageSent(m)
    BY SendableFacts
  <1>3. \A k \in 2 .. Len(f) - 1 : ~IsMark(f, k)
    BY DEF MarksOnlyAtStarts
  <1>4. f \in Seq(Byte)
    BY <1>1 DEF IsFrame
  <1>5. Len(f) \in Nat /\ Len(f) >= 1
    <2>1. Len(f) = HeaderSize + Len(m.payload) + (IF b THEN CRC_SIZE ELSE 0)
      BY <1>1 DEF IsFrame
    <2> HIDE DEF f
    <2>2. Len(f) \in Nat /\ Len(m.payload) \in Nat
      BY <1>2, <1>4, LenProperties DEF IsMessageSent
    <2> DEFINE x == IF b THEN CRC_SIZE ELSE 0
    <2>3. x \in Nat /\ HeaderSize = 12
      BY DEF HeaderSize, CRC_SIZE
    <2>4. Len(f) = HeaderSize + Len(m.payload) + x
      BY <2>1
    <2> HIDE DEF x
    <2> QED
      BY <2>2, <2>3, <2>4
  <1> HIDE DEF f
  <1>6. IsFrame(f, b, m) /\ IsMessageSent(m)
        /\ f \in Seq(Byte) /\ Len(f) \in Nat /\ Len(f) >= 1
        /\ \A k \in 2 .. Len(f) - 1 : ~IsMark(f, k)
    BY <1>1, <1>2, <1>3, <1>4, <1>5
  <1> QED
    BY <1>6 DEF f

(* Behind its last byte a frame leaves the parser looking for a start.      *)
LEMMA FollowedOut ==
  ASSUME NEW b, NEW m, NEW f, IsFrame(f, b, m), IsMessageSent(m), NEW u, u.state \in States,
         NEW o \in Nat, o = Len(f), Follows(b, m, f, o, u)
  PROVE  u.state = "SYNC"
  <1>1. Len(m.payload) \in Nat /\ Len(m.payload) >= 1
    BY DEF IsMessageSent
  <1>2. o = 12 + Len(m.payload) + (IF b THEN CRC_SIZE ELSE 0)
    BY DEF IsFrame, HeaderSize
  <1>3. o >= 13 /\ o >= 12 + Len(m.payload) /\ (b => o >= 12 + Len(m.payload) + 2)
    <2> DEFINE x == IF b THEN CRC_SIZE ELSE 0
    <2>1. x \in Nat /\ (b => x = 2) /\ o = 12 + Len(m.payload) + x
      BY <1>2 DEF CRC_SIZE
    <2> HIDE DEF x
    <2>2. o >= 13 /\ o >= 12 + Len(m.payload)
      BY <1>1, <2>1
    <2>3. b => o = 12 + Len(m.payload) + 2
      BY <2>1
    <2> QED
      BY <1>1, <2>2, <2>3
  <1>4. u.state \notin {"UUID", "MSG_TYPE", "ENCRYPT_FLAG", "CMD_ID", "PAYLOAD_SIZE"}
    BY <1>3 DEF Follows
  <1>5. u.state # "PAYLOAD"
    <2>1. SUFFICES ASSUME u.state = "PAYLOAD" PROVE FALSE
      OBVIOUS
    <2>2. u.byte_count < Len(m.payload) /\ o = 12 + u.byte_count
      BY <2>1 DEF Follows, HeaderSize
    <2>3. Len(u.payload) = u.byte_count /\ u.byte_count \in Int
      BY <2>1 DEF Follows
    <2> QED
      BY <1>1, <1>3, <2>2, <2>3
  <1>6. u.state # "CRC"
    <2>1. SUFFICES ASSUME u.state = "CRC" PROVE FALSE
      OBVIOUS
    <2>2. b /\ u.byte_count \in 0 .. 1 /\ o = 12 + Len(m.payload) + u.byte_count
      BY <2>1 DEF Follows, HeaderSize
    <2> QED
      BY <1>1, <1>3, <2>2
  <1> QED
    BY <1>4, <1>5, <1>6 DEF States

-----------------------------------------------------------------------------
(* Everything on its way to a node whose line holds the bytes w, whose      *)
(* parser is u and whose receive queue is q: its peer has sent s.           *)
Arrives(b, s, F, w, u, q, c, at, Q, d, M, g) ==
  /\ Streams(F, w, c, at)
  /\ Positioned(b, s, F, c, at, u)
  /\ Chosen(c, at, Q, u)
  /\ Queued(q, s, Q, d, M, g)
  /\ d \in Nat /\ d < c

LEMMA InsideFrame ==
  ASSUME NEW b, NEW s, NEW F, Len(F) \in Nat, NEW c \in 1 .. Len(F), NEW at, at[c] \in Int,
         NEW Q, NEW u, NEW v, NEW a, a[c] = at[c] - 1,
         Chosen(c, at, Q, u), Follows(b, s[c], F[c], (0 - at[c]) + 1, v),
         SkipsTo(0 - at[c], u) => SkipsTo((0 - at[c]) + 1, v)
  PROVE  Positioned(b, s, F, c, a, v) /\ Chosen(c, a, Q, v)
  <1>1. 0 - a[c] = (0 - at[c]) + 1 /\ c <= Len(F) /\ ~(c > Len(F))
    OBVIOUS
  <1> QED
    BY <1>1 DEF Positioned, Chosen

LEMMA EnterFrame ==
  ASSUME NEW b, NEW s, NEW F, Len(F) \in Nat, NEW c \in Nat, c >= 1, NEW Q \in SUBSET Nat,
         NEW v, v.state = "SYNC", NEW a, a[c + 1] = 0,
         \A i \in Q : 1 <= i /\ i < c + 1 /\ i + 1 \notin Q,
         c \in Q => v.byte_count >= 1
  PROVE  Positioned(b, s, F, c + 1, a, v) /\ Chosen(c + 1, a, Q, v)
  <1>1. 0 - a[c + 1] = 0 /\ (c + 1) - 1 = c
    OBVIOUS
  <1>2. c \in Q => SkipsTo(0, v)
    BY DEF SkipsTo
  <1>3. Follows(b, s[c + 1], F[c + 1], 0, v)
    BY FollowsLost
  <1>4. Positioned(b, s, F, c + 1, a, v)
    BY <1>1, <1>3 DEF Positioned
  <1> QED
    BY <1>1, <1>2, <1>4 DEF Chosen

LEMMA ByteArrives ==
  ASSUME HInv, HInv', MarksOnlyAtStarts, NEW n \in Nodes, ReadsByte(n),
         NEW s \in Seq(Sendable), NEW F, NEW t \in Seq(Seq(Byte)), Framed(crc, F, t, s),
         NEW c, NEW at, NEW Q, NEW d, NEW M, NEW g,
         Arrives(crc, s, F, wire[n], unmarshal[n], rx_msg_queue[n], c, at, Q, d, M, g)
  PROVE  \E c2, at2, Q2, M2, g2 :
            /\ Q \subseteq Q2
            /\ Arrives(crc, s, F, wire'[n], unmarshal'[n], rx_msg_queue'[n], c2, at2, Q2, d, M2, g2)
  <1> DEFINE w == wire[n]   u == unmarshal[n]   v == unmarshal'[n]   m == s[c]
             f == F[c]      o == 0 - at[c]      q == rx_msg_queue[n]  r == rx_msg_queue'[n]
  <1>1. /\ wire \in [Nodes -> Seq(Byte)] /\ w \in Seq(Byte) /\ u.state \in States
        /\ v.state \in States /\ q \in Seq(Element) /\ crc \in BOOLEAN
    BY DEF HInv, IInv, TypeOK, ezRpcUnmarshal
  <1>2. w # << >> /\ wire'[n] = Tail(w)
    BY <1>1, BytesRead DEF HInv
  <1>3. /\ FramesSent(F) /\ Len(F) \in Nat /\ Len(s) = Len(F) + Len(t)
        /\ Len(t) \in Nat /\ \A i \in 1 .. Len(F) : F[i] = FrameWith(crc, s[i])
    BY LenProperties DEF Framed, FramesSent
  <1>4. /\ c \in 1 .. Len(F) /\ at[c] \in Int /\ at[c] <= 0 /\ 1 - at[c] <= Len(f)
        /\ Head(w) = f[1 - at[c]]
        /\ \E a : \/ 1 - at[c] < Len(f) /\ Streams(F, Tail(w), c, a) /\ a[c] = at[c] - 1
                  \/ 1 - at[c] = Len(f) /\ Streams(F, Tail(w), c + 1, a) /\ a[c + 1] = 0
    <2>1. Streams(F, w, c, at) /\ w \in Seq(Byte) /\ w # << >> /\ FramesSent(F)
      BY <1>1, <1>2, <1>3 DEF Arrives
    <2> HIDE DEF w
    <2>2. Reads(F, w, c, at)
      BY <2>1, StreamRead
    <2> QED
      BY <2>2 DEF Reads
  <1>5. m \in Sendable /\ f = FrameWith(crc, m)
    <2>1. c \in 1 .. Len(s)
      BY <1>3, <1>4
    <2> QED
      BY <1>3, <1>4, <2>1, ElementOfSeq
  <1>6. o \in Nat /\ o + 1 = 1 - at[c] /\ c \in Nat /\ c >= 1 /\ c <= Len(F)
    BY <1>3, <1>4
  <1>7. /\ IsFrame(f, crc, m) /\ IsMessageSent(m) /\ Len(f) \in Nat
        /\ \A k \in 2 .. Len(f) - 1 : ~IsMark(f, k)
    BY <1>1, <1>5, FrameOfMessage
  <1>8. Follows(crc, m, f, o, u)
    BY <1>6 DEF Arrives, Positioned
  <1>9. OnFrame(n, crc, m, f, o)
    BY <1>4, <1>5, <1>6, <1>7, <1>8 DEF OnFrame
  <1>10. Lands(crc, m, f, o, u, v, q, r)
    BY <1>9, ByteLands DEF LandsOn, HInv
  <1>11. /\ Chosen(c, at, Q, u) /\ Q \in SUBSET Nat /\ Queued(q, s, Q, d, M, g)
         /\ d \in Nat /\ d < c /\ \A i \in Q : 1 <= i /\ i < c /\ i + 1 \notin Q
    BY DEF Arrives, Chosen
  <1> HIDE DEF w, u, v, m, f, o, q, r
  <1>12. CASE r = q /\ o + 1 < Len(f) /\ Follows(crc, m, f, o + 1, v)
              /\ (SkipsTo(o, u) => SkipsTo(o + 1, v))
    <2>1. PICK a : Streams(F, Tail(w), c, a) /\ a[c] = at[c] - 1
      BY <1>4, <1>6, <1>7, <1>12
    <2>2. Positioned(crc, s, F, c, a, v) /\ Chosen(c, a, Q, v)
      BY <1>3, <1>4, <1>11, <1>12, <2>1, InsideFrame DEF m, f, o
    <2>3. Arrives(crc, s, F, Tail(w), v, r, c, a, Q, d, M, g)
      BY <1>11, <1>12, <2>1, <2>2 DEF Arrives
    <2> QED
      BY <1>2, <2>3 DEF w, v, r
  <1>13. CASE r = q /\ o + 1 = Len(f) /\ Follows(crc, m, f, o + 1, v)
              /\ (SkipsTo(o, u) => SkipsTo(o + 1, v))
    <2>1. PICK a : Streams(F, Tail(w), c + 1, a) /\ a[c + 1] = 0
      BY <1>4, <1>6, <1>7, <1>13
    <2>2. v.state = "SYNC"
      <3> DEFINE e == o + 1
      <3>1. v.state \in States
        BY <1>1 DEF v, ezRpcUnmarshal
      <3>2. e \in Nat /\ e = Len(f) /\ Follows(crc, m, f, e, v)
        BY <1>6, <1>13
      <3>3. IsFrame(f, crc, m) /\ IsMessageSent(m)
        BY <1>7
      <3> HIDE DEF e
      <3> QED
        BY <3>1, <3>2, <3>3, FollowedOut
    <2>3. c \notin Q /\ \A i \in Q : 1 <= i /\ i < c + 1 /\ i + 1 \notin Q
      BY <1>6, <1>11
    <2>4. Positioned(crc, s, F, c + 1, a, v) /\ Chosen(c + 1, a, Q, v)
      BY <1>3, <1>6, <1>11, <2>1, <2>2, <2>3, EnterFrame
    <2>5. d < c + 1
      BY <1>6, <1>11
    <2>6. Arrives(crc, s, F, Tail(w), v, r, c + 1, a, Q, d, M, g)
      BY <1>11, <1>13, <2>1, <2>4, <2>5 DEF Arrives
    <2> QED
      BY <1>2, <2>6 DEF w, v, r
  <1>14. CASE /\ r = q \o <<HeaderElement(m.header), PayloadElement(m.payload)>>
              /\ u.state # "SYNC" /\ o + 1 = Len(f) /\ v.state = "SYNC" /\ v.byte_count >= 1
    <2> DEFINE P == Q \cup {c}
    <2>1. PICK a : Streams(F, Tail(w), c + 1, a) /\ a[c + 1] = 0
      BY <1>4, <1>6, <1>7, <1>14
    <2>2. c - 1 \notin Q
      BY <1>11, <1>14 DEF Chosen, SkipsTo
    <2>3. P \in SUBSET Nat /\ \A i \in P : 1 <= i /\ i < c + 1 /\ i + 1 \notin P
      <3>1. \A i \in Q : i \in Nat /\ i # c - 1 /\ i + 1 # c /\ i < c + 1 /\ i # c + 1
        BY <1>6, <1>11, <2>2
      <3>2. c + 1 # c /\ c + 1 \notin Q /\ c < c + 1
        BY <1>6, <3>1
      <3> QED
        BY <1>6, <1>11, <3>1, <3>2
    <2>4. Positioned(crc, s, F, c + 1, a, v) /\ Chosen(c + 1, a, P, v)
      BY <1>3, <1>6, <1>14, <2>1, <2>3, EnterFrame
    <2>5. PICK g2 : Queued(r, s, P, d, M + 1, g2)
      <3> DEFINE h == HeaderElement(m.header)   p == PayloadElement(m.payload)
      <3>1. h \in Element /\ p \in Element
        <4>1. << >> \in Seq(Byte)
          BY EmptySeq
        <4> QED
          BY <1>7, <4>1, NoHeaderType DEF IsMessageSent, Element, HeaderElement, PayloadElement
      <3>2. h = HeaderElement(s[c].header) /\ p = PayloadElement(s[c].payload)
        BY DEF m
      <3> HIDE DEF h, p
      <3>3. q \in Seq(Element)
        BY <1>1 DEF q
      <3>4. \E g2 : Queued(q \o <<h, p>>, s, Q \cup {c}, d, M + 1, g2)
        BY <1>6, <1>11, <3>1, <3>2, <3>3, QueuePushed
      <3> QED
        BY <1>14, <3>4 DEF h, p
    <2>6. d < c + 1 /\ Q \subseteq P
      BY <1>6, <1>11
    <2> HIDE DEF P
    <2>7. Arrives(crc, s, F, Tail(w), v, r, c + 1, a, P, d, M + 1, g2)
      BY <1>11, <2>1, <2>4, <2>5, <2>6 DEF Arrives
    <2> QED
      BY <1>2, <2>6, <2>7 DEF w, v, r
  <1>15. o + 1 < Len(f) \/ o + 1 = Len(f)
    BY <1>4, <1>6, <1>7 DEF f
  <1> QED
    BY <1>10, <1>12, <1>13, <1>14, <1>15 DEF Lands

-----------------------------------------------------------------------------
(* A line on which nothing was lost or damaged, between a node that has     *)
(* sent s, of which t is still in its transmit queue, and one that has the  *)
(* bytes w on its line, the parser u and the receive queue q, has handled   *)
(* hd and has sent as.                                                     *)
SameMessage(x, y) == x.header.type = y.header.type /\ x.header.uuid = y.header.uuid

Distinct(s) == \A i, j \in 1 .. Len(s) : SameMessage(s[i], s[j]) => i = j

AnswerTo(r, x) ==
  r.header.type = RESP /\ x.header.type = REQ /\ r.header.uuid = x.header.uuid

Reached(hd, s, Q, d) ==
  \A j \in 1 .. Len(hd) : \E i \in Q : i <= d /\ hd[j] = s[i]

Answered(as, s, d) ==
  \A j \in 1 .. Len(as) : as[j].header.type = RESP => \E i \in 1 .. d : AnswerTo(as[j], s[i])

Joins(b, s, t, w, u, q, hd, as, F, c, at, Q, d, M, g) ==
  /\ Framed(b, F, t, s)
  /\ Arrives(b, s, F, w, u, q, c, at, Q, d, M, g)
  /\ Reached(hd, s, Q, d) /\ Answered(as, s, d)

Line(b, s, t, w, u, q, hd, as) ==
  \E F, c, at, Q, d, M, g : Joins(b, s, t, w, u, q, hd, as, F, c, at, Q, d, M, g)

(* Where all of it is.                                                     *)
Places(s, t, F, c, Q, d) ==
  /\ FramesSent(F) /\ Len(F) \in Nat /\ Len(s) \in Nat /\ Len(t) \in Nat
  /\ Len(s) = Len(F) + Len(t)
  /\ c \in 1 .. Len(F) + 1 /\ c \in Nat /\ d \in Nat /\ d < c /\ d <= Len(s)
  /\ Q \in SUBSET Nat /\ \A i \in Q : 1 <= i /\ i < c /\ i + 1 \notin Q /\ i \in 1 .. Len(s)

LEMMA JoinPlaces ==
  ASSUME NEW b, NEW s \in Seq(Sendable), NEW t \in Seq(Seq(Byte)), NEW w, NEW u, NEW q, NEW hd, NEW as,
         NEW F, NEW c, NEW at, NEW Q, NEW d, NEW M, NEW g,
         Joins(b, s, t, w, u, q, hd, as, F, c, at, Q, d, M, g)
  PROVE  Places(s, t, F, c, Q, d)
  <1>1. FramesSent(F) /\ Len(F) \in Nat /\ Len(s) \in Nat /\ Len(t) \in Nat
        /\ Len(s) = Len(F) + Len(t)
    BY LenProperties DEF Joins, Framed, FramesSent
  <1>2. c \in 1 .. Len(F) + 1 /\ d \in Nat /\ d < c
    BY DEF Joins, Arrives, Streams
  <1>3. Q \in SUBSET Nat /\ \A i \in Q : 1 <= i /\ i < c /\ i + 1 \notin Q
    BY DEF Joins, Arrives, Chosen
  <1>4. c \in Nat /\ c <= Len(F) + 1 /\ d <= Len(s)
    BY <1>1, <1>2
  <1>5. \A i \in Q : i \in 1 .. Len(s)
    BY <1>1, <1>3, <1>4
  <1> QED
    BY <1>1, <1>2, <1>3, <1>4, <1>5 DEF Places

LEMMA Appended ==
  ASSUME NEW S, NEW s \in Seq(S), NEW m \in S
  PROVE  /\ Append(s, m) \in Seq(S) /\ Len(Append(s, m)) = Len(s) + 1 /\ Len(s) \in Nat
         /\ \A i \in 1 .. Len(s) : Append(s, m)[i] = s[i]
         /\ Append(s, m)[Len(s) + 1] = m
         /\ \A i \in 1 .. Len(s) + 1 : i \in 1 .. Len(s) \/ i = Len(s) + 1
  <1>1. Len(s) \in Nat
    BY LenProperties
  <1>2. \A i \in 1 .. Len(s) + 1 : i \in 1 .. Len(s) \/ i = Len(s) + 1
    BY <1>1
  <1> QED
    BY <1>1, <1>2, AppendProperties

LEMMA LineSends ==
  ASSUME NEW b, NEW s \in Seq(Sendable), NEW t \in Seq(Seq(Byte)), NEW w, NEW u, NEW q, NEW hd, NEW as,
         Line(b, s, t, w, u, q, hd, as), NEW m \in Sendable, FrameWith(b, m) \in Seq(Byte)
  PROVE  Line(b, Append(s, m), Append(t, FrameWith(b, m)), w, u, q, hd, as)
  <1> DEFINE s2 == Append(s, m)   t2 == Append(t, FrameWith(b, m))
  <1>1. PICK F, c, at, Q, d, M, g : Joins(b, s, t, w, u, q, hd, as, F, c, at, Q, d, M, g)
    BY DEF Line
  <1>2. /\ Len(F) \in Nat /\ Len(s) \in Nat /\ Len(t) \in Nat /\ Len(s) = Len(F) + Len(t)
        /\ c \in 1 .. Len(F) + 1 /\ c \in Nat /\ d \in Nat /\ d < c /\ d <= Len(s)
        /\ \A i \in Q : i \in 1 .. Len(s)
    <2>1. Places(s, t, F, c, Q, d)
      BY <1>1, JoinPlaces
    <2> QED
      BY <2>1 DEF Places
  <1>3. \A i \in 1 .. Len(s) : s2[i] = s[i]
    BY Appended
  <1>4. Framed(b, F, t2, s2)
    BY <1>1, FramedOn DEF Joins
  <1> HIDE DEF s2, t2
  <1>5. /\ Streams(F, w, c, at) /\ Positioned(b, s, F, c, at, u) /\ Chosen(c, at, Q, u)
        /\ Queued(q, s, Q, d, M, g) /\ Reached(hd, s, Q, d) /\ Answered(as, s, d)
    BY <1>1 DEF Joins, Arrives
  <1>6. Positioned(b, s2, F, c, at, u)
    <2>1. c <= Len(F) => s2[c] = s[c]
      <3>1. c <= Len(F) => c \in 1 .. Len(s)
        BY <1>2
      <3> QED
        BY <1>3, <3>1
    <2> QED
      BY <1>5, <2>1 DEF Positioned
  <1>7. Queued(q, s2, Q, d, M, g)
    BY <1>2, <1>3, <1>5, QueueStays
  <1>8. Reached(hd, s2, Q, d)
    BY <1>2, <1>3, <1>5 DEF Reached
  <1>9. Answered(as, s2, d)
    <2>1. \A i \in 1 .. d : s2[i] = s[i]
      <3>1. \A i \in 1 .. d : i \in 1 .. Len(s)
        BY <1>2
      <3> QED
        BY <1>3, <3>1
    <2> QED
      BY <1>5, <2>1 DEF Answered
  <1>10. Joins(b, s2, t2, w, u, q, hd, as, F, c, at, Q, d, M, g)
    BY <1>2, <1>4, <1>5, <1>6, <1>7, <1>8, <1>9 DEF Joins, Arrives
  <1>11. Line(b, s2, t2, w, u, q, hd, as)
    BY <1>10 DEF Line
  <1> QED
    BY <1>11 DEF s2, t2

LEMMA LineTransmits ==
  ASSUME NEW b, NEW s \in Seq(Sendable), NEW t \in Seq(Seq(Byte)), t # << >>, NEW w \in Seq(Byte),
         NEW u, NEW q, NEW hd, NEW as, Line(b, s, t, w, u, q, hd, as),
         \A m \in Sendable : Len(FrameWith(b, m)) >= 1
  PROVE  Line(b, s, Tail(t), w \o Head(t), u, q, hd, as)
  <1> DEFINE f == Head(t)   t2 == Tail(t)   v == w \o f
  <1>1. PICK F, c, at, Q, d, M, g : Joins(b, s, t, w, u, q, hd, as, F, c, at, Q, d, M, g)
    BY DEF Line
  <1>2. /\ FramesSent(F) /\ Len(F) \in Nat /\ Len(s) \in Nat /\ Len(t) \in Nat
        /\ Len(s) = Len(F) + Len(t)
        /\ c \in 1 .. Len(F) + 1 /\ c \in Nat /\ d \in Nat /\ d < c
    <2>1. Places(s, t, F, c, Q, d)
      BY <1>1, JoinPlaces
    <2> QED
      BY <2>1 DEF Places
  <1>3. f = t[1] /\ f \in Seq(Byte) /\ Len(t) >= 1
    BY HeadTailProperties, EmptySeq, LenProperties
  <1>4. f = FrameWith(b, s[Len(F) + 1]) /\ s[Len(F) + 1] \in Sendable
    <2>1. 1 \in 1 .. Len(t) /\ Len(F) + 1 \in 1 .. Len(s)
      BY <1>2, <1>3
    <2>2. s[Len(F) + 1] \in Sendable
      BY <2>1, ElementOfSeq
    <2> QED
      BY <1>1, <1>3, <2>1, <2>2 DEF Joins, Framed
  <1>5. Len(f) >= 1
    BY <1>4
  <1> DEFINE G == Append(F, f)
  <1>6. /\ Streams(F, w, c, at) /\ Positioned(b, s, F, c, at, u) /\ Chosen(c, at, Q, u)
        /\ Queued(q, s, Q, d, M, g) /\ Reached(hd, s, Q, d) /\ Answered(as, s, d)
        /\ Framed(b, F, t, s)
    BY <1>1 DEF Joins, Arrives
  <1>7. /\ FramesSent(G) /\ Len(G) = Len(F) + 1
        /\ \E a : Streams(G, v, c, a) /\ a[c] = at[c]
    <2> HIDE DEF f
    <2> QED
      BY <1>2, <1>3, <1>5, <1>6, StreamTransmit
  <1>8. PICK a : Streams(G, v, c, a) /\ a[c] = at[c]
    BY <1>7
  <1>9. Framed(b, G, t2, s)
    BY <1>6, <1>7, FramedOut
  <1>10. at[c] = 0 \/ c <= Len(F)
    BY <1>2, <1>6 DEF Streams
  <1>11. \A i \in 1 .. Len(F) : G[i] = F[i]
    BY <1>2, <1>3, AppendProperties DEF FramesSent
  <1> HIDE DEF f, t2, v, G
  <1>12. Positioned(b, s, G, c, a, u)
    <2>1. c <= Len(G) /\ ~(c > Len(G))
      BY <1>2, <1>7
    <2>2. CASE c <= Len(F)
      <3>1. G[c] = F[c]
        BY <1>2, <1>11, <2>2
      <3> QED
        BY <1>6, <1>8, <2>1, <2>2, <3>1 DEF Positioned
    <2>3. CASE c > Len(F)
      <3>1. u.state = "SYNC" /\ 0 - a[c] = 0
        BY <1>2, <1>6, <1>8, <1>10, <2>3 DEF Positioned
      <3>2. Follows(b, s[c], G[c], 0, u)
        BY <3>1, FollowsLost
      <3> QED
        BY <2>1, <3>1, <3>2 DEF Positioned
    <2> QED
      BY <1>2, <2>2, <2>3
  <1>13. Chosen(c, a, Q, u)
    BY <1>6, <1>8 DEF Chosen
  <1>14. Joins(b, s, t2, v, u, q, hd, as, G, c, a, Q, d, M, g)
    BY <1>2, <1>6, <1>8, <1>9, <1>12, <1>13 DEF Joins, Arrives
  <1>15. Line(b, s, t2, v, u, q, hd, as)
    BY <1>14 DEF Line
  <1> QED
    BY <1>15 DEF t2, v, f

LEMMA LineReads ==
  ASSUME HInv, HInv', MarksOnlyAtStarts, NEW n \in Nodes, ReadsByte(n),
         NEW s \in Seq(Sendable), NEW t \in Seq(Seq(Byte)), NEW hd, NEW as,
         Line(crc, s, t, wire[n], unmarshal[n], rx_msg_queue[n], hd, as)
  PROVE  Line(crc, s, t, wire'[n], unmarshal'[n], rx_msg_queue'[n], hd, as)
  <1> DEFINE w == wire[n]   u == unmarshal[n]   q == rx_msg_queue[n]
             v == wire'[n]  y == unmarshal'[n]  r == rx_msg_queue'[n]
  <1>1. PICK F, c, at, Q, d, M, g : Joins(crc, s, t, w, u, q, hd, as, F, c, at, Q, d, M, g)
    BY DEF Line
  <1>2. Framed(crc, F, t, s) /\ Arrives(crc, s, F, w, u, q, c, at, Q, d, M, g)
        /\ Reached(hd, s, Q, d) /\ Answered(as, s, d)
    BY <1>1 DEF Joins
  <1>3. PICK c2, at2, Q2, M2, g2 :
          Q \subseteq Q2 /\ Arrives(crc, s, F, v, y, r, c2, at2, Q2, d, M2, g2)
    BY <1>2, ByteArrives
  <1> HIDE DEF w, u, q, v, y, r
  <1>4. Reached(hd, s, Q2, d)
    BY <1>2, <1>3 DEF Reached
  <1>5. Joins(crc, s, t, v, y, r, hd, as, F, c2, at2, Q2, d, M2, g2)
    BY <1>2, <1>3, <1>4 DEF Joins
  <1>6. Line(crc, s, t, v, y, r, hd, as)
    BY <1>5 DEF Line
  <1> QED
    BY <1>6 DEF v, y, r

-----------------------------------------------------------------------------
(* x is the next message to be handled, the i-th of s, and nothing from     *)
(* there on was.                                                           *)
NextOf(x, s, hd) ==
  \E i \in 1 .. Len(s) :
    /\ x = s[i]
    /\ \A j \in 1 .. Len(hd), k \in i .. Len(s) : hd[j] # s[k]

(* The messages in front of the queue, and what may be done with them.      *)
Front(x, b, s, t, w, u, q, hd, as) ==
  /\ x \in Sendable /\ NextOf(x, s, hd)
  /\ Len(q) > 1 /\ Head(q) = HeaderElement(x.header) /\ q[2] = PayloadElement(x.payload)
  /\ \A j \in 1 .. Len(as) : ~AnswerTo(as[j], x)
  /\ \A h2 \in {hd, Append(hd, x)} : \A a2 :
       /\ Len(a2) \in Nat
       /\ \A j \in 1 .. Len(a2) : (j \in 1 .. Len(as) /\ a2[j] = as[j]) \/ AnswerTo(a2[j], x)
       => Line(b, s, t, w, u, Pop(q, 2), h2, a2)

LEMMA QueueInFront ==
  ASSUME NEW b, NEW s \in Seq(Sendable), Distinct(s), NEW t \in Seq(Seq(Byte)), NEW w, NEW u,
         NEW q \in Seq(Element), q # << >>, NEW hd \in Seq(Messages), NEW as,
         Line(b, s, t, w, u, q, hd, as)
  PROVE  \E x : Front(x, b, s, t, w, u, q, hd, as)
  <1>1. PICK F, c, at, Q, d, M, g : Joins(b, s, t, w, u, q, hd, as, F, c, at, Q, d, M, g)
    BY DEF Line
  <1>2. Places(s, t, F, c, Q, d)
    BY <1>1, JoinPlaces
  <1>3. /\ Len(s) \in Nat /\ d \in Nat /\ d <= Len(s) /\ c \in Nat
        /\ Q \in SUBSET Nat /\ \A i \in Q : 1 <= i /\ i < c /\ i \in 1 .. Len(s)
    BY <1>2 DEF Places
  <1>4. /\ Streams(F, w, c, at) /\ Positioned(b, s, F, c, at, u) /\ Chosen(c, at, Q, u)
        /\ Queued(q, s, Q, d, M, g) /\ Reached(hd, s, Q, d) /\ Answered(as, s, d)
        /\ Framed(b, F, t, s)
    BY <1>1 DEF Joins, Arrives
  <1> DEFINE e == g[1]   x == s[e]
  <1>5. /\ e \in Q /\ e > d /\ e \in Nat
        /\ Len(q) > 1 /\ Head(q) = HeaderElement(x.header) /\ q[2] = PayloadElement(x.payload)
    BY <1>3, <1>4, QueueFront
  <1>6. Queued(Pop(q, 2), s, Q, e, M - 1, [i \in Nat |-> g[i + 1]])
    BY <1>3, <1>4, QueuePopped
  <1> HIDE DEF e
  <1>7. x \in Sendable /\ e \in 1 .. Len(s) /\ e < c
    BY <1>3, <1>5, ElementOfSeq
  <1>8. NextOf(x, s, hd)
    <2>1. ASSUME NEW j \in 1 .. Len(hd), NEW k \in e .. Len(s), hd[j] = s[k]
          PROVE  FALSE
      <3>1. PICK i \in Q : i <= d /\ s[i] = s[k]
        BY <1>4, <2>1 DEF Reached
      <3>2. i \in 1 .. Len(s) /\ k \in 1 .. Len(s) /\ i # k
        BY <1>3, <1>5, <1>7, <3>1
      <3> QED
        BY <3>1, <3>2 DEF Distinct, SameMessage
    <2> QED
      BY <1>7, <2>1 DEF NextOf
  <1>9. ASSUME NEW j \in 1 .. Len(as), AnswerTo(as[j], x)
        PROVE  FALSE
    <2>1. PICK i \in 1 .. d : AnswerTo(as[j], s[i])
      BY <1>4, <1>9 DEF Answered, AnswerTo
    <2>2. i \in 1 .. Len(s) /\ i # e
      BY <1>3, <1>5, <2>1
    <2> QED
      BY <1>7, <1>9, <2>1, <2>2 DEF Distinct, SameMessage, AnswerTo
  <1>10. ASSUME NEW h2 \in {hd, Append(hd, x)}, NEW a2, Len(a2) \in Nat,
                \A j \in 1 .. Len(a2) : (j \in 1 .. Len(as) /\ a2[j] = as[j]) \/ AnswerTo(a2[j], x)
         PROVE  Line(b, s, t, w, u, Pop(q, 2), h2, a2)
    <2>1. Reached(hd, s, Q, e)
      <3>1. \A i \in Q : i <= d => i <= e
        BY <1>3, <1>5
      <3> QED
        BY <1>4, <3>1 DEF Reached
    <2>2. Reached(Append(hd, x), s, Q, e)
      <3> DEFINE h == Append(hd, x)
      <3>1. x \in Messages
        BY <1>7, SendableType
      <3>2. /\ Len(h) = Len(hd) + 1
            /\ \A j \in 1 .. Len(hd) : h[j] = hd[j]
            /\ h[Len(hd) + 1] = x
            /\ \A j \in 1 .. Len(hd) + 1 : j \in 1 .. Len(hd) \/ j = Len(hd) + 1
        BY <3>1, Appended
      <3> HIDE DEF h
      <3>3. e <= e
        BY <1>5
      <3>4. ASSUME NEW j \in 1 .. Len(h)
            PROVE  \E i \in Q : i <= e /\ h[j] = s[i]
        <4>1. CASE j \in 1 .. Len(hd)
          BY <2>1, <3>2, <4>1 DEF Reached
        <4>2. CASE j = Len(hd) + 1
          BY <1>5, <3>2, <3>3, <4>2
        <4> QED
          BY <3>2, <4>1, <4>2
      <3>5. Reached(h, s, Q, e)
        BY <3>4 DEF Reached
      <3> QED
        BY <3>5 DEF h
    <2>3. Answered(a2, s, e)
      <3>1. \A i \in 1 .. d : i \in 1 .. e
        BY <1>3, <1>5
      <3>2. e \in 1 .. e
        BY <1>7, <1>5
      <3> SUFFICES ASSUME NEW j \in 1 .. Len(a2), a2[j].header.type = RESP
                   PROVE  \E i \in 1 .. e : AnswerTo(a2[j], s[i])
        BY DEF Answered
      <3>3. CASE j \in 1 .. Len(as) /\ a2[j] = as[j]
        BY <1>4, <3>1, <3>3 DEF Answered
      <3>4. CASE AnswerTo(a2[j], x)
        BY <3>2, <3>4
      <3> QED
        BY <1>10, <3>3, <3>4
    <2> DEFINE f == [i \in Nat |-> g[i + 1]]   r == Pop(q, 2)
    <2>4. Queued(r, s, Q, e, M - 1, f)
      BY <1>6
    <2> HIDE DEF f, r, x
    <2>5. Arrives(b, s, F, w, u, r, c, at, Q, e, M - 1, f)
      BY <1>4, <1>5, <1>7, <2>4 DEF Arrives
    <2>6. Reached(h2, s, Q, e)
      BY <1>10, <2>1, <2>2
    <2>7. Joins(b, s, t, w, u, r, h2, a2, F, c, at, Q, e, M - 1, f)
      BY <1>4, <2>3, <2>5, <2>6 DEF Joins
    <2>8. Line(b, s, t, w, u, r, h2, a2)
      BY <2>7 DEF Line
    <2> QED
      BY <2>8 DEF r
  <1> HIDE DEF x
  <1>11. \A j \in 1 .. Len(as) : ~AnswerTo(as[j], x)
    BY <1>9
  <1>12. \A h2 \in {hd, Append(hd, x)} : \A a2 :
            /\ Len(a2) \in Nat
            /\ \A j \in 1 .. Len(a2) : (j \in 1 .. Len(as) /\ a2[j] = as[j]) \/ AnswerTo(a2[j], x)
            => Line(b, s, t, w, u, Pop(q, 2), h2, a2)
    BY <1>10
  <1>13. Front(x, b, s, t, w, u, q, hd, as)
    BY <1>5, <1>7, <1>8, <1>11, <1>12 DEF Front
  <1> QED
    BY <1>13

LEMMA LineSkips ==
  ASSUME NEW b, NEW s \in Seq(Sendable), Distinct(s), NEW t \in Seq(Seq(Byte)), NEW w, NEW u,
         NEW q, NEW hd, NEW as, Line(b, s, t, w, u, q, hd, as),
         NEW i \in 1 .. Len(s) - 1, NEW j \in 1 .. Len(hd), NEW k \in 1 .. Len(hd),
         hd[j] = s[i], hd[k] = s[i + 1]
  PROVE  FALSE
  <1>1. PICK F, c, at, Q, d, M, g : Joins(b, s, t, w, u, q, hd, as, F, c, at, Q, d, M, g)
    BY DEF Line
  <1>2. Places(s, t, F, c, Q, d)
    BY <1>1, JoinPlaces
  <1>3. /\ Len(s) \in Nat /\ \A y \in Q : y + 1 \notin Q /\ y \in 1 .. Len(s)
    BY <1>2 DEF Places
  <1>4. PICK y \in Q : hd[j] = s[y]
    BY <1>1 DEF Joins, Reached
  <1>5. PICK z \in Q : hd[k] = s[z]
    BY <1>1 DEF Joins, Reached
  <1>6. i \in 1 .. Len(s) /\ i + 1 \in 1 .. Len(s)
    BY <1>3
  <1>7. y = i /\ z = i + 1
    BY <1>3, <1>4, <1>5, <1>6 DEF Distinct, SameMessage
  <1> QED
    BY <1>3, <1>4, <1>5, <1>7

-----------------------------------------------------------------------------
(* Nothing was lost or damaged, and no unknown command was received.        *)
Clean == faults = 0 /\ \A n \in Nodes : ~confused[n]

LineTo(n) ==
  Line(crc, sent[Peer(n)], tx_msg_queue[Peer(n)], wire[n], unmarshal[n], rx_msg_queue[n],
       handled[n], sent[n])

SentOK(n) == sent[n] \in Seq(Sendable) /\ Distinct(sent[n])

LinesOK == \A n \in Nodes : SentOK(n) /\ LineTo(n)

LEMMA TwoNodes ==
  ASSUME NEW n \in Nodes
  PROVE  /\ Peer(n) \in Nodes /\ Peer(n) # n /\ Peer(Peer(n)) = n
         /\ \A k \in Nodes : k = n \/ k = Peer(n)
  <1>1. PICK p \in Nodes : Nodes = {n, p} /\ p # n
    BY NodesAssumption
  <1>2. \A k \in Nodes : k = n \/ k = p
    BY <1>1
  <1>3. Peer(n) = p
    BY <1>2, PeerIsOther
  <1>4. Peer(p) = n
    BY <1>2, PeerIsOther
  <1> QED
    BY <1>1, <1>2, <1>3, <1>4

LEMMA BothLines ==
  ASSUME NEW n \in Nodes, (SentOK(n) /\ LineTo(n))', (SentOK(Peer(n)) /\ LineTo(Peer(n)))'
  PROVE  LinesOK'
  BY TwoNodes DEF LinesOK

LEMMA FrameIsBytes ==
  ASSUME MarksOnlyAtStarts, NEW b \in BOOLEAN, NEW m \in Sendable
  PROVE  FrameWith(b, m) \in Seq(Byte) /\ Len(FrameWith(b, m)) >= 1
  BY FrameOfMessage

LEMMA LineTypes ==
  ASSUME HInv, LinesOK, NEW n \in Nodes
  PROVE  /\ SentOK(n) /\ sent[n] \in Seq(Sendable) /\ Distinct(sent[n]) /\ LineTo(n)
         /\ tx_msg_queue[n] \in Seq(Seq(Byte)) /\ wire[n] \in Seq(Byte)
         /\ rx_msg_queue[n] \in Seq(Element) /\ handled[n] \in Seq(Messages) /\ crc \in BOOLEAN
         /\ Len(sent[n]) \in Nat
  <1>1. SentOK(n) /\ sent[n] \in Seq(Sendable) /\ Distinct(sent[n]) /\ LineTo(n)
    BY DEF LinesOK, SentOK
  <1>2. /\ tx_msg_queue[n] \in Seq(Seq(Byte)) /\ wire[n] \in Seq(Byte)
        /\ rx_msg_queue[n] \in Seq(Element) /\ handled[n] \in Seq(Messages) /\ crc \in BOOLEAN
    BY DEF HInv, HistoryOK, IInv, TypeOK
  <1> QED
    BY <1>1, <1>2, LenProperties

LEMMA InitLines == Init => LinesOK
  <1> SUFFICES ASSUME Init, NEW n \in Nodes PROVE SentOK(n) /\ LineTo(n)
    BY DEF LinesOK
  <1> DEFINE p == Peer(n)   e == << >>   at == [i \in Nat |-> 0]   g == [i \in Nat |-> 0]
             u == unmarshal[n]
  <1>1. p \in Nodes
    BY TwoNodes
  <1>2. /\ sent[n] = e /\ sent[p] = e /\ tx_msg_queue[p] = e /\ wire[n] = e
        /\ rx_msg_queue[n] = e /\ handled[n] = e /\ u.state = "SYNC"
    BY <1>1 DEF Init
  <1>3. e \in Seq(Sendable) /\ e \in Seq(Seq(Byte)) /\ Len(e) = 0 /\ Len(e) \in Nat
    BY EmptySeq
  <1> HIDE DEF e, p, u
  <1>4. SentOK(n)
    BY <1>2, <1>3 DEF SentOK, Distinct
  <1>5. Framed(crc, e, e, e)
    BY <1>3 DEF Framed, FramesSent
  <1>6. Streams(e, e, 1, at)
    BY <1>3 DEF Streams
  <1>7. Positioned(crc, e, e, 1, at, u)
    BY <1>2, <1>3 DEF Positioned
  <1>8. Chosen(1, at, {}, u)
    BY DEF Chosen
  <1>9. Queued(e, e, {}, 0, 0, g)
    BY <1>3 DEF Queued
  <1>10. Reached(e, e, {}, 0) /\ Answered(e, e, 0)
    BY <1>3 DEF Reached, Answered
  <1> HIDE DEF at, g
  <1>11. Arrives(crc, e, e, e, u, e, 1, at, {}, 0, 0, g)
    BY <1>6, <1>7, <1>8, <1>9 DEF Arrives
  <1>12. Joins(crc, e, e, e, u, e, e, e, e, 1, at, {}, 0, 0, g)
    BY <1>5, <1>10, <1>11 DEF Joins
  <1>13. Line(crc, e, e, e, u, e, e, e)
    BY <1>12 DEF Line
  <1>14. LineTo(n)
    BY <1>2, <1>13 DEF LineTo, p, u
  <1> QED
    BY <1>4, <1>14

LEMMA DistinctOn ==
  ASSUME NEW s \in Seq(Sendable), Distinct(s), NEW m \in Sendable,
         \A j \in 1 .. Len(s) : ~SameMessage(s[j], m)
  PROVE  Append(s, m) \in Seq(Sendable) /\ Distinct(Append(s, m))
  <1> DEFINE t == Append(s, m)
  <1>1. /\ t \in Seq(Sendable) /\ Len(t) = Len(s) + 1 /\ Len(s) \in Nat
        /\ \A i \in 1 .. Len(s) : t[i] = s[i]
        /\ t[Len(s) + 1] = m
        /\ \A i \in 1 .. Len(s) + 1 : i \in 1 .. Len(s) \/ i = Len(s) + 1
    BY Appended
  <1> HIDE DEF t
  <1>2. ASSUME NEW i \in 1 .. Len(t), NEW j \in 1 .. Len(t), SameMessage(t[i], t[j])
        PROVE  i = j
    <2>1. CASE i \in 1 .. Len(s) /\ j \in 1 .. Len(s)
      BY <1>1, <1>2, <2>1 DEF Distinct
    <2>2. CASE i \in 1 .. Len(s) /\ j = Len(s) + 1
      BY <1>1, <1>2, <2>2
    <2>3. CASE i = Len(s) + 1 /\ j \in 1 .. Len(s)
      <3>1. SameMessage(s[j], m)
        BY <1>1, <1>2, <2>3 DEF SameMessage
      <3> QED
        BY <2>3, <3>1
    <2> QED
      BY <1>1, <2>1, <2>2, <2>3
  <1>3. Distinct(t)
    BY <1>2 DEF Distinct
  <1> QED
    BY <1>1, <1>3 DEF t

(* A message sent by n, for the line to its peer.                          *)
LEMMA LineGetsMessage ==
  ASSUME HInv, LinesOK, MarksOnlyAtStarts, NEW n \in Nodes, NEW m, MarshalsMessage(n, m),
         \A j \in 1 .. Len(sent[n]) : ~SameMessage(sent[n][j], m),
         UNCHANGED <<crc, wire, unmarshal>>, rx_msg_queue'[Peer(n)] = rx_msg_queue[Peer(n)],
         handled'[Peer(n)] = handled[Peer(n)]
  PROVE  /\ SentOK(n)' /\ (SentOK(Peer(n)) /\ LineTo(Peer(n)))'
         /\ sent'[n] = Append(sent[n], m)
  <1> DEFINE p == Peer(n)   s == sent[n]   t == tx_msg_queue[n]   f == FrameWith(crc, m)
  <1>1. p \in Nodes /\ p # n /\ Peer(p) = n
    BY TwoNodes
  <1>2. /\ s \in Seq(Sendable) /\ Distinct(s) /\ t \in Seq(Seq(Byte)) /\ crc \in BOOLEAN
        /\ SentOK(p) /\ LineTo(p)
    BY <1>1, LineTypes
  <1>3. m \in Sendable /\ f \in Seq(Byte)
    BY <1>2, FrameIsBytes DEF MarshalsMessage
  <1>4. /\ tx_msg_queue \in [Nodes -> Seq(Seq(Byte))] /\ sent \in [Nodes -> Seq(Messages)]
        /\ tx_msg_queue' = [tx_msg_queue EXCEPT ![n] = Append(t, f)]
        /\ sent' = [sent EXCEPT ![n] = Append(s, m)]
    BY DEF HInv, HistoryOK, IInv, TypeOK, MarshalsMessage
  <1> DEFINE s2 == Append(s, m)   t2 == Append(t, f)
  <1>5. s2 \in Seq(Sendable) /\ Distinct(s2)
    BY <1>2, <1>3, DistinctOn
  <1>6. Line(crc, s, t, wire[p], unmarshal[p], rx_msg_queue[p], handled[p], sent[p])
    BY <1>1, <1>2 DEF LineTo
  <1>7. Line(crc, s2, t2, wire[p], unmarshal[p], rx_msg_queue[p], handled[p], sent[p])
    <2> HIDE DEF p, s, t
    <2> QED
      BY <1>2, <1>3, <1>6, LineSends
  <1> HIDE DEF s2, t2
  <1>8. sent'[n] = s2 /\ tx_msg_queue'[n] = t2 /\ sent'[p] = sent[p]
    BY <1>1, <1>4 DEF s2, t2
  <1>9. SentOK(n)' /\ SentOK(p)'
    BY <1>2, <1>5, <1>8 DEF SentOK
  <1>10. LineTo(p)'
    BY <1>1, <1>7, <1>8 DEF LineTo
  <1> QED
    BY <1>8, <1>9, <1>10 DEF s2

-----------------------------------------------------------------------------
(* The steps, on a line that loses and damages nothing. *)

LEMMA LineAsks ==
  ASSUME NEW b, NEW s, NEW t, NEW w, NEW u, NEW q, NEW hd, NEW as,
         Line(b, s, t, w, u, q, hd, as), NEW a2,
         \A j \in 1 .. Len(a2) : a2[j].header.type = RESP => j \in 1 .. Len(as) /\ a2[j] = as[j]
  PROVE  Line(b, s, t, w, u, q, hd, a2)
  <1>1. PICK F, c, at, Q, d, M, g : Joins(b, s, t, w, u, q, hd, as, F, c, at, Q, d, M, g)
    BY DEF Line
  <1>2. Answered(a2, s, d)
    BY <1>1 DEF Joins, Answered
  <1>3. Joins(b, s, t, w, u, q, hd, a2, F, c, at, Q, d, M, g)
    BY <1>1, <1>2 DEF Joins
  <1> QED
    BY <1>3 DEF Line

LEMMA NodeUntouched ==
  ASSUME NEW n \in Nodes, SentOK(n), LineTo(n), UNCHANGED <<crc, sent, tx_msg_queue, handled>>,
         UNCHANGED <<wire[n], unmarshal[n], rx_msg_queue[n]>>
  PROVE  (SentOK(n) /\ LineTo(n))'
  BY DEF SentOK, LineTo

LEMMA RequestLines ==
  ASSUME HInv, LinesOK, MarksOnlyAtStarts, NEW n \in Nodes, NEW u, NEW m, Requests(n, u, m)
  PROVE  LinesOK'
  <1> DEFINE p == Peer(n)   s == sent[n]
  <1>1. p \in Nodes /\ p # n /\ Peer(p) = n
    BY TwoNodes
  <1>2. UNCHANGED <<crc, wire, unmarshal, rx_msg_queue, handled>>
    BY DEF Requests
  <1>3. s \in Seq(Sendable) /\ SentOK(n) /\ LineTo(n) /\ SentOK(p) /\ LineTo(p)
    BY <1>1, LineTypes
  <1>4. CASE UNCHANGED <<tx_msg_queue, sent>>
    BY <1>1, <1>2, <1>3, <1>4, NodeUntouched, BothLines
  <1>5. CASE MarshalsMessage(n, m)
    <2>1. ASSUME NEW j \in 1 .. Len(s), SameMessage(s[j], m)
          PROVE  FALSE
      <3>1. s[j].header.type = REQ /\ s[j].header.uuid = u
        BY <2>1 DEF SameMessage, Requests
      <3>2. s[j].header.uuid <= next_uuid[n] /\ u = next_uuid[n] + 1 /\ next_uuid[n] \in Int
        BY <3>1 DEF HInv, HistoryOK, Numbered, Requests
      <3> QED
        BY <3>1, <3>2
    <2>2. SentOK(n)' /\ (SentOK(p) /\ LineTo(p))' /\ sent'[n] = Append(s, m)
      BY <1>2, <1>5, <2>1, LineGetsMessage
    <2>3. m \in Sendable /\ m.header.type # RESP
      BY <1>5 DEF MarshalsMessage, Requests, REQ, RESP
    <2> DEFINE a2 == Append(s, m)
    <2>4. \A j \in 1 .. Len(a2) : a2[j].header.type = RESP => j \in 1 .. Len(s) /\ a2[j] = s[j]
      <3>1. /\ Len(a2) = Len(s) + 1
            /\ \A i \in 1 .. Len(s) : a2[i] = s[i]
            /\ a2[Len(s) + 1] = m
            /\ \A i \in 1 .. Len(s) + 1 : i \in 1 .. Len(s) \/ i = Len(s) + 1
        BY <1>3, <2>3, Appended
      <3> HIDE DEF a2
      <3> QED
        BY <2>3, <3>1
    <2>5. sent'[p] = sent[p] /\ tx_msg_queue'[p] = tx_msg_queue[p] /\ sent'[n] = a2
      BY <1>1, <1>5, <2>2 DEF MarshalsMessage, HInv, HistoryOK, IInv, TypeOK
    <2> HIDE DEF a2
    <2>6. Line(crc, sent[p], tx_msg_queue[p], wire[n], unmarshal[n], rx_msg_queue[n], handled[n], s)
      BY <1>3 DEF LineTo
    <2>7. Line(crc, sent[p], tx_msg_queue[p], wire[n], unmarshal[n], rx_msg_queue[n], handled[n], a2)
      BY <2>4, <2>6, LineAsks
    <2>8. LineTo(n)'
      BY <1>2, <2>5, <2>7 DEF LineTo
    <2> QED
      BY <2>2, <2>8, BothLines
  <1> QED
    BY <1>4, <1>5 DEF Requests

LEMMA TransmitLines ==
  ASSUME HInv, LinesOK, MarksOnlyAtStarts, NEW n \in Nodes, Transmit(n)
  PROVE  LinesOK'
  <1> DEFINE p == Peer(n)   t == tx_msg_queue[n]
  <1>1. p \in Nodes /\ p # n /\ Peer(p) = n
    BY TwoNodes
  <1>2. UNCHANGED <<crc, unmarshal, rx_msg_queue, handled, sent>>
    BY DEF Transmit
  <1>3. /\ SentOK(n) /\ LineTo(n) /\ SentOK(p) /\ LineTo(p) /\ sent[n] \in Seq(Sendable)
        /\ t \in Seq(Seq(Byte)) /\ wire[p] \in Seq(Byte) /\ crc \in BOOLEAN
        /\ tx_msg_queue \in [Nodes -> Seq(Seq(Byte))] /\ wire \in [Nodes -> Seq(Byte)]
    BY <1>1, LineTypes DEF HInv, IInv, TypeOK
  <1>4. CASE UNCHANGED <<wire, tx_msg_queue>>
    BY <1>1, <1>2, <1>3, <1>4, NodeUntouched, BothLines
  <1>5. CASE /\ ezRPC_NumOfTxPendingMsg(n) > 0
             /\ wire' = [wire EXCEPT ![p] = wire[p] \o Head(t)]
             /\ tx_msg_queue' = [tx_msg_queue EXCEPT ![n] = Tail(t)]
    <2>1. t # << >>
      BY <1>5, EmptySeq DEF ezRPC_NumOfTxPendingMsg
    <2>2. Line(crc, sent[n], t, wire[p], unmarshal[p], rx_msg_queue[p], handled[p], sent[p])
      BY <1>1, <1>3 DEF LineTo
    <2>3. \A m \in Sendable : Len(FrameWith(crc, m)) >= 1
      BY <1>3, FrameIsBytes
    <2> DEFINE v == wire[p] \o Head(t)   t2 == Tail(t)
    <2>4. Line(crc, sent[n], t2, v, unmarshal[p], rx_msg_queue[p], handled[p], sent[p])
      <3> HIDE DEF t, p
      <3> QED
        BY <1>3, <2>1, <2>2, <2>3, LineTransmits
    <2> HIDE DEF v, t2
    <2>5. wire'[p] = v /\ wire'[n] = wire[n] /\ tx_msg_queue'[n] = t2
          /\ tx_msg_queue'[p] = tx_msg_queue[p]
      BY <1>1, <1>3, <1>5 DEF v, t2
    <2>6. (SentOK(p) /\ LineTo(p))'
      BY <1>1, <1>2, <1>3, <2>4, <2>5 DEF SentOK, LineTo
    <2>7. (SentOK(n) /\ LineTo(n))'
      BY <1>1, <1>2, <1>3, <2>5 DEF SentOK, LineTo
    <2> QED
      BY <2>6, <2>7, BothLines
  <1> QED
    BY <1>4, <1>5 DEF Transmit

LEMMA ReadLines ==
  ASSUME HInv, HInv', LinesOK, MarksOnlyAtStarts, NEW n \in Nodes, ReadsByte(n)
  PROVE  LinesOK'
  <1> DEFINE p == Peer(n)
  <1>1. p \in Nodes /\ p # n /\ Peer(p) = n
    BY TwoNodes
  <1>2. /\ UNCHANGED <<crc, sent, tx_msg_queue, handled>>
        /\ wire' = [wire EXCEPT ![n] = Tail(wire[n])]
        /\ unmarshal'[p] = unmarshal[p] /\ rx_msg_queue'[p] = rx_msg_queue[p]
    BY <1>1, BytesRead DEF HInv, RunVars
  <1>3. /\ SentOK(n) /\ LineTo(n) /\ SentOK(p) /\ LineTo(p) /\ sent[p] \in Seq(Sendable)
        /\ tx_msg_queue[p] \in Seq(Seq(Byte)) /\ wire \in [Nodes -> Seq(Byte)]
    BY <1>1, LineTypes DEF HInv, IInv, TypeOK
  <1>4. wire'[p] = wire[p]
    BY <1>1, <1>2, <1>3
  <1>5. (SentOK(p) /\ LineTo(p))'
    BY <1>1, <1>2, <1>3, <1>4, NodeUntouched
  <1>6. Line(crc, sent[p], tx_msg_queue[p], wire'[n], unmarshal'[n], rx_msg_queue'[n], handled[n],
             sent[n])
    <2>1. Line(crc, sent[p], tx_msg_queue[p], wire[n], unmarshal[n], rx_msg_queue[n], handled[n],
               sent[n])
      BY <1>3 DEF LineTo
    <2> QED
      BY <1>3, <2>1, LineReads
  <1>7. (SentOK(n) /\ LineTo(n))'
    BY <1>2, <1>3, <1>6 DEF SentOK, LineTo
  <1> QED
    BY <1>5, <1>7, BothLines

LEMMA SameLines ==
  ASSUME LinesOK, UNCHANGED <<crc, sent, tx_msg_queue, handled, wire, unmarshal, rx_msg_queue>>
  PROVE  LinesOK'
  <1>1. ASSUME NEW n \in Nodes
        PROVE  (SentOK(n) /\ LineTo(n))'
    BY NodeUntouched DEF LinesOK
  <1> QED
    BY <1>1 DEF LinesOK

LEMMA ReceiveLines ==
  ASSUME HInv, HInv', LinesOK, MarksOnlyAtStarts, NEW n \in Nodes, ReceiveByte(n)
  PROVE  LinesOK'
  <1>1. CASE PayloadOverrun(n)
    BY <1>1, SameLines DEF PayloadOverrun, RunVars
  <1> QED
    BY <1>1, ReadLines, ReadsOrOverruns

-----------------------------------------------------------------------------
(* What handling does when the front of the queue is a message of the peer. *)
FrontOf(x, n) ==
  Front(x, crc, sent[Peer(n)], tx_msg_queue[Peer(n)], wire[n], unmarshal[n], rx_msg_queue[n],
        handled[n], sent[n])

Discards(n, x) ==
  /\ x.header.type = RESP /\ RecordsOf(n, x.header.uuid) = {}
  /\ UNCHANGED <<records, tx_msg_queue, sent, handled>>

Serves(n, x) ==
  /\ x.header.type = RESP => RecordsOf(n, x.header.uuid) # {}
  /\ CloseRecord(n, x.header)
  /\ handled' = [handled EXCEPT ![n] = Append(handled[n], x)]
  /\ \/ UNCHANGED <<tx_msg_queue, sent>>
     \/ \E r : AnswerTo(r, x) /\ MarshalsMessage(n, r)

HandleEffect(n) ==
  /\ UNCHANGED <<crc, next_uuid, unmarshal, wire, faults, confused>>
  /\ \/ UNCHANGED <<records, rx_msg_queue, tx_msg_queue, sent, handled>>
     \/ \E x : /\ FrontOf(x, n)
               /\ rx_msg_queue' = [rx_msg_queue EXCEPT ![n] = Pop(rx_msg_queue[n], 2)]
               /\ Discards(n, x) \/ Serves(n, x)

LEMMA ReplySendable ==
  ASSUME NEW x \in Sendable, NEW r,
         r = Message(Header(x.header.uuid, RESP, x.header.cmd_id, Len(Reply)), Reply)
  PROVE  r \in Sendable /\ r.header.type = RESP /\ r.header.uuid = x.header.uuid
  <1>1. PICK u \in UNION {1 .. MaxRequests[n] : n \in Nodes}, t \in {REQ, RESP}, c \in AskedIds,
             p \in Payloads \cup {Reply} : x = Message(Header(u, t, c, Len(p)), p)
    BY DEF Sendable
  <1>2. x.header.uuid = u /\ x.header.cmd_id = c
    BY <1>1 DEF Message, Header
  <1>3. r = Message(Header(u, RESP, c, Len(Reply)), Reply)
    BY <1>2
  <1>4. r \in Sendable
    BY <1>3 DEF Sendable
  <1>5. r.header.type = RESP /\ r.header.uuid = u
    BY <1>3 DEF Message, Header
  <1> QED
    BY <1>2, <1>4, <1>5

LEMMA HandleIsEffect ==
  ASSUME HInv, LinesOK, MarksOnlyAtStarts, NEW n \in Nodes, ezRpc_HandleReceivedMsg(n),
         ~confused'[n]
  PROVE  HandleEffect(n)
  <1> DEFINE q == rx_msg_queue[n]
  <1>1. UNCHANGED <<crc, next_uuid, unmarshal, wire, faults>>
    BY DEF ezRpc_HandleReceivedMsg, NothingReceived, DiscardResponse, HandleCommand,
           UnknownCommand, Handling
  <1>2. CASE NothingReceived(n)
    BY <1>1, <1>2 DEF NothingReceived, HandleEffect
  <1>3. ASSUME q # << >>
        PROVE  \E x : FrontOf(x, n)
    <2>1. /\ sent[Peer(n)] \in Seq(Sendable) /\ Distinct(sent[Peer(n)])
          /\ tx_msg_queue[Peer(n)] \in Seq(Seq(Byte))
      BY TwoNodes, LineTypes
    <2>2. LineTo(n) /\ q \in Seq(Element) /\ handled[n] \in Seq(Messages)
      BY LineTypes
    <2> HIDE DEF q
    <2>3. \E x : Front(x, crc, sent[Peer(n)], tx_msg_queue[Peer(n)], wire[n], unmarshal[n], q,
                       handled[n], sent[n])
      BY <1>3, <2>1, <2>2, QueueInFront DEF LineTo, q
    <2> QED
      BY <2>3 DEF FrontOf, q
  <1>4. ASSUME NEW x, FrontOf(x, n)
        PROVE  /\ x \in Sendable /\ q[2].data = x.payload /\ FrontHeader(n) = {x.header}
               /\ PayloadFits(n, x.header) /\ Message(x.header, x.payload) = x
    <2>1. /\ x \in Sendable /\ Len(q) > 1 /\ Head(q) = HeaderElement(x.header)
          /\ q[2] = PayloadElement(x.payload)
      BY <1>4 DEF FrontOf, Front
    <2>2. IsMessageSent(x)
      BY <2>1, SendableFacts
    <2>3. FrontHeader(n) = {x.header}
      BY <2>1 DEF FrontHeader, HeaderElement
    <2>4. q[2].data = x.payload /\ SizeOf(q[2]) = Len(x.payload)
      BY <2>1 DEF PayloadElement, SizeOf
    <2>5. PayloadFits(n, x.header)
      BY <2>1, <2>2, <2>4 DEF PayloadFits, IsMessageSent
    <2> QED
      BY <2>1, <2>2, <2>3, <2>4, <2>5 DEF IsMessageSent
  <1>5. CASE DiscardResponse(n)
    <2>1. PICK x : FrontOf(x, n)
      BY <1>3, <1>5 DEF DiscardResponse
    <2>2. \E h \in FrontHeader(n) : h.type = RESP /\ RecordsOf(n, h.uuid) = {}
      BY <1>5 DEF DiscardResponse
    <2>3. x.header.type = RESP /\ RecordsOf(n, x.header.uuid) = {}
      BY <1>4, <2>1, <2>2
    <2> QED
      BY <1>1, <1>5, <2>1, <2>3 DEF DiscardResponse, HandleEffect, Discards
  <1>6. CASE HandleCommand(n)
    <2>1. PICK x : FrontOf(x, n)
      BY <1>3, <1>6 DEF HandleCommand
    <2>2. /\ x \in Sendable /\ q[2].data = x.payload /\ FrontHeader(n) = {x.header}
          /\ PayloadFits(n, x.header) /\ Message(x.header, x.payload) = x
      BY <1>4, <2>1
    <2> DEFINE h == x.header
    <2>3. /\ h.type = RESP => RecordsOf(n, h.uuid) # {}
          /\ CloseRecord(n, h)
          /\ \/ /\ PayloadFits(n, h)
                /\ handled' = [handled EXCEPT ![n] = Append(handled[n], Message(h, q[2].data))]
                /\ IF h.type = RESP THEN UNCHANGED <<tx_msg_queue, sent>>
                   ELSE ezRPC_CreateRpcResponse(n, h)
             \/ ~PayloadFits(n, h)
      BY <1>6, <2>2 DEF HandleCommand
    <2>4. handled' = [handled EXCEPT ![n] = Append(handled[n], x)]
      BY <2>2, <2>3
    <2>5. \/ UNCHANGED <<tx_msg_queue, sent>>
          \/ \E r : AnswerTo(r, x) /\ MarshalsMessage(n, r)
      <3>1. CASE h.type = RESP
        BY <2>2, <2>3, <3>1
      <3>2. CASE h.type # RESP
        <4> DEFINE g == Header(h.uuid, RESP, h.cmd_id, Len(Reply))   r == Message(g, Reply)
        <4>1. h.type = REQ
          <5>1. IsMessageSent(x)
            BY <2>2, SendableFacts
          <5> QED
            BY <3>2, <5>1 DEF IsMessageSent
        <4>2. \/ UNCHANGED <<tx_msg_queue, sent>>
              \/ Marshal(n, g, Reply)
          BY <2>2, <2>3, <3>2 DEF ezRPC_CreateRpcResponse
        <4>3. r \in Sendable /\ r.header.type = RESP /\ r.header.uuid = h.uuid
          BY <2>2, ReplySendable
        <4> HIDE DEF g
        <4>4. Marshal(n, g, Reply) => MarshalsMessage(n, r)
          BY <4>3, MarshalSends
        <4> HIDE DEF r
        <4>5. AnswerTo(r, x)
          BY <4>1, <4>3 DEF AnswerTo
        <4> QED
          BY <4>2, <4>4, <4>5
      <3> QED
        BY <3>1, <3>2
    <2>6. Serves(n, x)
      BY <2>3, <2>4, <2>5 DEF Serves
    <2> HIDE DEF h
    <2> QED
      BY <1>1, <1>6, <2>1, <2>6 DEF HandleCommand, HandleEffect
  <1>7. ~UnknownCommand(n)
    <2>1. SUFFICES ASSUME UnknownCommand(n) PROVE FALSE
      OBVIOUS
    <2>2. confused' = [confused EXCEPT ![n] = TRUE] /\ confused \in [Nodes -> BOOLEAN]
      BY <2>1 DEF UnknownCommand, HInv, IInv, TypeOK
    <2> QED
      BY <2>2
  <1> QED
    BY <1>2, <1>5, <1>6, <1>7 DEF ezRpc_HandleReceivedMsg

LEMMA HandleLines ==
  ASSUME HInv, LinesOK, MarksOnlyAtStarts, NEW n \in Nodes, HandleEffect(n)
  PROVE  LinesOK'
  <1> DEFINE p == Peer(n)   s == sent[n]
  <1>1. p \in Nodes /\ p # n /\ Peer(p) = n
    BY TwoNodes
  <1>2. UNCHANGED <<crc, wire, unmarshal>>
    BY DEF HandleEffect
  <1>3. /\ s \in Seq(Sendable) /\ SentOK(n) /\ LineTo(n) /\ SentOK(p) /\ LineTo(p) /\ Len(s) \in Nat
        /\ rx_msg_queue \in [Nodes -> Seq(Element)] /\ handled \in [Nodes -> Seq(Messages)]
        /\ tx_msg_queue \in [Nodes -> Seq(Seq(Byte))] /\ sent \in [Nodes -> Seq(Messages)]
    BY <1>1, LineTypes DEF HInv, HistoryOK, IInv, TypeOK
  <1>4. CASE UNCHANGED <<records, rx_msg_queue, tx_msg_queue, sent, handled>>
    BY <1>1, <1>2, <1>3, <1>4, NodeUntouched, BothLines
  <1>5. ASSUME NEW x, FrontOf(x, n),
               rx_msg_queue' = [rx_msg_queue EXCEPT ![n] = Pop(rx_msg_queue[n], 2)],
               Discards(n, x) \/ Serves(n, x)
        PROVE  LinesOK'
    <2> DEFINE r == Pop(rx_msg_queue[n], 2)   h == Append(handled[n], x)
    <2>1. rx_msg_queue'[n] = r /\ rx_msg_queue'[p] = rx_msg_queue[p]
      BY <1>1, <1>3, <1>5
    <2>2. handled'[n] \in {handled[n], h} /\ handled'[p] = handled[p]
      <3> HIDE DEF h
      <3>1. handled' = handled \/ handled' = [handled EXCEPT ![n] = h]
        BY <1>5 DEF Discards, Serves, h
      <3> QED
        BY <1>1, <1>3, <3>1
    <2>3. ASSUME NEW a2, Len(a2) \in Nat,
                 \A j \in 1 .. Len(a2) : (j \in 1 .. Len(s) /\ a2[j] = s[j]) \/ AnswerTo(a2[j], x)
          PROVE  Line(crc, sent[p], tx_msg_queue[p], wire[n], unmarshal[n], r, handled'[n], a2)
      BY <1>5, <2>2, <2>3 DEF FrontOf, Front
    <2> HIDE DEF r, h
    <2>4. CASE UNCHANGED <<tx_msg_queue, sent>>
      <3>1. Line(crc, sent[p], tx_msg_queue[p], wire[n], unmarshal[n], r, handled'[n], s)
        BY <1>3, <2>3
      <3>2. (SentOK(n) /\ LineTo(n))'
        BY <1>2, <1>3, <2>1, <2>4, <3>1 DEF SentOK, LineTo
      <3>3. (SentOK(p) /\ LineTo(p))'
        BY <1>1, <1>2, <1>3, <2>1, <2>2, <2>4 DEF SentOK, LineTo
      <3> QED
        BY <3>2, <3>3, BothLines
    <2>5. ASSUME NEW m, AnswerTo(m, x), MarshalsMessage(n, m)
          PROVE  LinesOK'
      <3>1. \A j \in 1 .. Len(s) : ~AnswerTo(s[j], x)
        BY <1>5 DEF FrontOf, Front
      <3>2. \A j \in 1 .. Len(s) : ~SameMessage(s[j], m)
        BY <2>5, <3>1 DEF SameMessage, AnswerTo
      <3>3. SentOK(n)' /\ (SentOK(p) /\ LineTo(p))' /\ sent'[n] = Append(s, m)
        BY <1>2, <2>1, <2>2, <2>5, <3>2, LineGetsMessage
      <3>4. m \in Sendable
        BY <2>5 DEF MarshalsMessage
      <3> DEFINE a2 == Append(s, m)
      <3>5. /\ Len(a2) = Len(s) + 1
            /\ \A i \in 1 .. Len(s) : a2[i] = s[i]
            /\ a2[Len(s) + 1] = m
            /\ \A i \in 1 .. Len(s) + 1 : i \in 1 .. Len(s) \/ i = Len(s) + 1
        <4>1. s \in Seq(Sendable)
          BY <1>3
        <4> HIDE DEF s
        <4> QED
          BY <3>4, <4>1, Appended
      <3>6. sent'[p] = sent[p] /\ tx_msg_queue'[p] = tx_msg_queue[p] /\ sent'[n] = a2
        BY <1>1, <1>3, <2>5, <3>3 DEF MarshalsMessage
      <3> HIDE DEF a2
      <3>7. Line(crc, sent[p], tx_msg_queue[p], wire[n], unmarshal[n], r, handled'[n], a2)
        <4>1. Len(a2) \in Nat
          BY <1>3, <3>5
        <4>2. \A j \in 1 .. Len(a2) : (j \in 1 .. Len(s) /\ a2[j] = s[j]) \/ AnswerTo(a2[j], x)
          BY <2>5, <3>5
        <4> QED
          BY <2>3, <4>1, <4>2
      <3>8. LineTo(n)'
        BY <1>2, <2>1, <3>6, <3>7 DEF LineTo
      <3> QED
        BY <3>3, <3>8, BothLines
    <2> QED
      BY <1>5, <2>4, <2>5 DEF Discards, Serves
  <1> QED
    BY <1>4, <1>5 DEF HandleEffect

-----------------------------------------------------------------------------
(* Both lines are as LineTo has them until something goes wrong.           *)
CleanInv == HInv /\ (Clean => LinesOK)

(* What a step may do to the counts of what went wrong.                     *)
StepMarks ==
  \/ UNCHANGED <<faults, confused>>
  \/ /\ faults' = faults
     /\ \E n \in Nodes : confused' = [confused EXCEPT ![n] = TRUE]

LEMMA StaysClean ==
  ASSUME HInv, [Next]_vars, Clean'
  PROVE  Clean
  <1>1. faults' \in Int /\ faults \in Int /\ faults >= 0 /\ confused \in [Nodes -> BOOLEAN]
        /\ faults' = 0
    BY SizeAssumption DEF HInv, IInv, TypeOK, Clean
  <1>2. ASSUME NEW n \in Nodes, ReceiveByte(n)
        PROVE  UNCHANGED <<faults, confused>>
    BY <1>2, ReceiveKeeps DEF HInv
  <1>3. ASSUME NEW n \in Nodes, ezRpc_HandleReceivedMsg(n)
        PROVE  StepMarks
    BY <1>3 DEF ezRpc_HandleReceivedMsg, NothingReceived, DiscardResponse, HandleCommand,
                UnknownCommand, Handling, StepMarks
  <1>4. ASSUME NEW n \in Nodes, Transmit(n)
        PROVE  UNCHANGED <<faults, confused>>
    BY <1>4 DEF Transmit
  <1>5. ASSUME NEW n \in Nodes, NEW c \in AskedIds, NEW p \in Payloads,
               ezRPC_CreateRpcRequest(n, c, p)
        PROVE  UNCHANGED <<faults, confused>>
    BY <1>5 DEF ezRPC_CreateRpcRequest
  <1>6. ASSUME NEW n \in Nodes, Fault(n)
        PROVE  FALSE
    <2>1. faults' = faults + 1
      BY <1>6 DEF Fault
    <2> QED
      BY <1>1, <2>1
  <1>7. ASSUME UNCHANGED vars
        PROVE  UNCHANGED <<faults, confused>>
    BY <1>7 DEF vars
  <1>8. StepMarks
    <2>1. ASSUME NEW n \in Nodes, \/ \E c \in AskedIds, p \in Payloads : ezRPC_CreateRpcRequest(n, c, p)
                                  \/ ezRPC_Run(n)
                                  \/ Fault(n)
          PROVE  StepMarks
      BY <1>2, <1>3, <1>4, <1>5, <1>6, <2>1 DEF ezRPC_Run, StepMarks
    <2> QED
      BY <1>7, <2>1 DEF Next, StepMarks
  <1>9. \A k \in Nodes : ~confused'[k]
    BY DEF Clean
  <1> QED
    BY <1>1, <1>8, <1>9 DEF Clean, StepMarks

LEMMA NextLines ==
  ASSUME HInv, HInv', LinesOK, MarksOnlyAtStarts, Clean', [Next]_vars
  PROVE  LinesOK'
  <1>1. ASSUME UNCHANGED vars
        PROVE  LinesOK'
    <2>1. UNCHANGED <<crc, sent, tx_msg_queue, handled, wire, unmarshal, rx_msg_queue>>
      BY <1>1 DEF vars
    <2> QED
      BY <2>1, SameLines
  <1>2. ASSUME NEW n \in Nodes, NEW c \in AskedIds, NEW p \in Payloads,
               ezRPC_CreateRpcRequest(n, c, p)
        PROVE  LinesOK'
    BY <1>2, RequestEffect, RequestLines
  <1>3. ASSUME NEW n \in Nodes, ezRPC_Run(n)
        PROVE  LinesOK'
    <2>1. CASE ReceiveByte(n)
      BY <2>1, ReceiveLines
    <2>2. CASE ezRpc_HandleReceivedMsg(n)
      <3>1. HandleEffect(n)
        BY <2>2, HandleIsEffect DEF Clean
      <3> QED
        BY <3>1, HandleLines
    <2>3. CASE Transmit(n)
      BY <2>3, TransmitLines
    <2> QED
      BY <1>3, <2>1, <2>2, <2>3 DEF ezRPC_Run
  <1>4. ASSUME NEW n \in Nodes, Fault(n)
        PROVE  FALSE
    <2>1. faults' = faults + 1 /\ faults' = 0 /\ faults \in Int /\ faults >= 0
      BY <1>4, SizeAssumption DEF Fault, Clean, HInv, IInv, TypeOK
    <2> QED
      BY <2>1
  <1> QED
    BY <1>1, <1>2, <1>3, <1>4 DEF Next

LEMMA CleanStep == MarksOnlyAtStarts /\ CleanInv /\ [Next]_vars => CleanInv'
  BY NextHInv, StaysClean, NextLines DEF CleanInv

LEMMA CleanStart == Init => CleanInv
  BY InitHInv, InitLines DEF CleanInv

(* Of two messages sent one after the other at most one is handled.        *)
EverySecondAtMost ==
  \A n \in Nodes : LET s == sent[Peer(n)]   hd == handled[n] IN
    faults = 0 =>
      \A i \in 1 .. Len(s) - 1, j \in 1 .. Len(hd), k \in 1 .. Len(hd) :
        ~(hd[j] = s[i] /\ hd[k] = s[i + 1])

LEMMA LinesSkip ==
  ASSUME HInv, LinesOK, NEW n \in Nodes, NEW i \in 1 .. Len(sent[Peer(n)]) - 1,
         NEW j \in 1 .. Len(handled[n]), handled[n][j] = sent[Peer(n)][i],
         NEW k \in 1 .. Len(handled[n]), handled[n][k] = sent[Peer(n)][i + 1]
  PROVE  FALSE
  <1>1. LineTo(n) /\ sent[Peer(n)] \in Seq(Sendable) /\ Distinct(sent[Peer(n)])
        /\ tx_msg_queue[Peer(n)] \in Seq(Seq(Byte))
    BY TwoNodes, LineTypes
  <1> DEFINE s == sent[Peer(n)]
  <1>2. Line(crc, s, tx_msg_queue[Peer(n)], wire[n], unmarshal[n], rx_msg_queue[n], handled[n],
             sent[n])
    BY <1>1 DEF LineTo
  <1>3. s \in Seq(Sendable) /\ Distinct(s) /\ i \in 1 .. Len(s) - 1
        /\ handled[n][j] = s[i] /\ handled[n][k] = s[i + 1]
    BY <1>1
  <1> HIDE DEF s
  <1> QED
    BY <1>1, <1>2, <1>3, LineSkips

(* An instance that knows every command it can be asked meets no other as   *)
(* long as the line is perfect.                                            *)
LEMMA NeverUnknown ==
  ASSUME HInv, LinesOK, NEW n \in Nodes, UnknownCommand(n), AskedIds \subseteq Commands
  PROVE  FALSE
  <1> DEFINE q == rx_msg_queue[n]   s == sent[Peer(n)]   t == tx_msg_queue[Peer(n)]
  <1>1. q # << >> /\ \E h \in FrontHeader(n) : h.cmd_id \notin Commands
    BY DEF UnknownCommand
  <1>2. s \in Seq(Sendable) /\ Distinct(s) /\ t \in Seq(Seq(Byte))
    BY TwoNodes, LineTypes
  <1>3. LineTo(n) /\ q \in Seq(Element) /\ handled[n] \in Seq(Messages)
    BY LineTypes
  <1>4. PICK x : Front(x, crc, s, t, wire[n], unmarshal[n], q, handled[n], sent[n])
    <2>1. Line(crc, s, t, wire[n], unmarshal[n], q, handled[n], sent[n])
      BY <1>3 DEF LineTo
    <2> HIDE DEF q, s, t
    <2> QED
      BY <1>1, <1>2, <1>3, <2>1, QueueInFront
  <1>5. x \in Sendable /\ FrontHeader(n) = {x.header}
    BY <1>4 DEF Front, FrontHeader, HeaderElement
  <1>6. x.header.cmd_id \in AskedIds
    BY <1>5, SendableFacts DEF IsMessageSent
  <1> QED
    BY <1>1, <1>5, <1>6

KnownInv == CleanInv /\ (faults = 0 => Clean)

LEMMA KnownStep ==
  ASSUME MarksOnlyAtStarts, AskedIds \subseteq Commands, KnownInv, [Next]_vars
  PROVE  KnownInv'
  <1>1. CleanInv'
    BY CleanStep DEF KnownInv
  <1>2. ASSUME faults' = 0
        PROVE  Clean'
    <2>1. faults \in Int /\ faults >= 0
      BY SizeAssumption DEF KnownInv, CleanInv, HInv, IInv, TypeOK
    <2>2. HInv
      BY DEF KnownInv, CleanInv
    <2>3. CASE ~UNCHANGED <<faults, confused>>
      <3>1. PICK n \in Nodes : UnknownCommand(n) \/ Fault(n)
        <4>1. ~UNCHANGED vars
          BY <2>3 DEF vars
        <4>2. ASSUME NEW n \in Nodes, ReceiveByte(n)
              PROVE  FALSE
          BY <2>2, <2>3, <4>2, ReceiveKeeps DEF HInv
        <4>3. ASSUME NEW n \in Nodes, ezRpc_HandleReceivedMsg(n)
              PROVE  UnknownCommand(n)
          BY <2>3, <4>3 DEF ezRpc_HandleReceivedMsg, NothingReceived, DiscardResponse,
                            HandleCommand, Handling
        <4>4. ASSUME NEW n \in Nodes, Transmit(n)
              PROVE  FALSE
          BY <2>3, <4>4 DEF Transmit
        <4>5. ASSUME NEW n \in Nodes, NEW c \in AskedIds, NEW p \in Payloads,
                     ezRPC_CreateRpcRequest(n, c, p)
              PROVE  FALSE
          BY <2>3, <4>5 DEF ezRPC_CreateRpcRequest
        <4> QED
          BY <4>1, <4>2, <4>3, <4>4, <4>5 DEF Next, ezRPC_Run
      <3>2. ~Fault(n)
        <4>1. Fault(n) => faults' = faults + 1
          BY DEF Fault
        <4> QED
          BY <1>2, <2>1, <4>1
      <3>3. faults = 0 /\ UnknownCommand(n)
        BY <1>2, <3>1, <3>2 DEF UnknownCommand, Handling
      <3>4. LinesOK
        BY <3>3 DEF KnownInv, CleanInv
      <3> QED
        BY <2>2, <3>3, <3>4, NeverUnknown
    <2>4. CASE UNCHANGED <<faults, confused>>
      BY <1>2, <2>4 DEF KnownInv, Clean
    <2> QED
      BY <2>3, <2>4
  <1> QED
    BY <1>1, <1>2 DEF KnownInv

LEMMA KnownStart == Init => KnownInv
  BY CleanStart DEF KnownInv, Clean, Init

(* How far the loss of frames behind others goes, which the documentation   *)
(* of the receive queue does not allow: ezRpc_UnmarshalData leaves every    *)
(* frame with its byte count above zero, so whatever the commands, the     *)
(* payloads (without the mark a frame starts with) and the timing, of two  *)
(* messages sent one after the other over a perfect line one is lost.      *)
THEOREM EverySecondFrameIsLost ==
  ASSUME MarksOnlyAtStarts, AskedIds \subseteq Commands
  PROVE  Spec => []EverySecondAtMost
  <1>1. KnownInv /\ [Next]_vars => KnownInv'
    BY KnownStep
  <1>2. KnownInv => EverySecondAtMost
    <2>1. KnownInv /\ faults = 0 => HInv /\ LinesOK
      BY DEF KnownInv, CleanInv
    <2> QED
      BY <2>1, LinesSkip DEF EverySecondAtMost
  <1> QED
    BY <1>1, <1>2, KnownStart, PTL DEF Spec

-----------------------------------------------------------------------------
(* The requests that wait for a response, as the records r have them.      *)
Taken(r) == (1 .. Records) \ {k \in 1 .. Records : r[k].is_available}

OpenOf(r) == {r[k].uuid : k \in Taken(r)}

(* Two records with the same uuid would be one pending request.            *)
LEMMA TakenAreOpen ==
  ASSUME NEW r, NEW top, RecordsKept(r, top)
  PROVE  Cardinality(Taken(r)) = Cardinality(OpenOf(r))
  <1> DEFINE S == Taken(r)   T == OpenOf(r)   f == [k \in S |-> r[k].uuid]
  <1>1. \A k \in S : k \in 1 .. Records /\ ~r[k].is_available
    BY DEF Taken
  <1>2. \A k, l \in S : r[k].uuid = r[l].uuid => k = l
    BY <1>1 DEF RecordsKept
  <1>3. f \in Bijection(S, T)
    <2>1. f \in [S -> T]
      BY DEF OpenOf
    <2>2. \A k, l \in S : f[k] = f[l] => k = l
      BY <1>2
    <2>3. \A y \in T : \E k \in S : f[k] = y
      BY DEF OpenOf
    <2> QED
      BY <2>1, <2>2, <2>3 DEF Bijection, Injection, IsInjective, Surjection
  <1>4. IsFiniteSet(S)
    <2>1. IsFiniteSet(1 .. Records)
      BY SizeAssumption, FS_Interval
    <2>2. S \in SUBSET (1 .. Records)
      BY DEF Taken
    <2> HIDE DEF S
    <2> QED
      BY <2>1, <2>2, FS_Subset
  <1> HIDE DEF S, T, f
  <1>5. ExistsBijection(S, T)
    BY <1>3 DEF ExistsBijection
  <1>6. Cardinality(S) = Cardinality(T)
    BY <1>4, <1>5, FS_Bijection
  <1> QED
    BY <1>6 DEF S, T

LEMMA OpenTaken ==
  ASSUME NEW r \in [1 .. Records -> ezRpcRequestRecord], NEW i \in 1 .. Records,
         r[i].is_available, NEW x
  PROVE  /\ x.is_available => OpenOf([r EXCEPT ![i] = x]) = OpenOf(r)
         /\ ~x.is_available => OpenOf([r EXCEPT ![i] = x]) = OpenOf(r) \cup {x.uuid}
  <1> DEFINE q == [r EXCEPT ![i] = x]
  <1>1. q[i] = x /\ \A k \in 1 .. Records : k # i => q[k] = r[k]
    OBVIOUS
  <1> HIDE DEF q
  <1>2. Taken(q) = IF x.is_available THEN Taken(r) ELSE Taken(r) \cup {i}
    BY <1>1 DEF Taken
  <1>3. i \notin Taken(r) /\ \A k \in Taken(r) : k \in 1 .. Records
    BY DEF Taken
  <1>4. \A k \in Taken(r) : q[k].uuid = r[k].uuid
    BY <1>1, <1>3
  <1>5. ASSUME x.is_available
        PROVE  OpenOf(q) = OpenOf(r)
    BY <1>2, <1>4, <1>5 DEF OpenOf
  <1>6. ASSUME ~x.is_available
        PROVE  OpenOf(q) = OpenOf(r) \cup {x.uuid}
    BY <1>1, <1>2, <1>4, <1>6 DEF OpenOf
  <1> QED
    BY <1>5, <1>6 DEF q

LEMMA OpenClosed ==
  ASSUME NEW r \in [1 .. Records -> ezRpcRequestRecord], NEW top, RecordsKept(r, top),
         NEW i \in 1 .. Records
  PROVE  OpenOf([r EXCEPT ![i].is_available = TRUE]) = OpenOf(r) \ {r[i].uuid}
  <1> DEFINE q == [r EXCEPT ![i].is_available = TRUE]
  <1>1. /\ q[i].is_available
        /\ \A k \in 1 .. Records : k # i => q[k] = r[k]
    <2>1. r[i] \in ezRpcRequestRecord
      OBVIOUS
    <2>2. q[i] = [r[i] EXCEPT !.is_available = TRUE] /\ \A k \in 1 .. Records : k # i => q[k] = r[k]
      OBVIOUS
    <2> HIDE DEF q
    <2> QED
      BY <2>1, <2>2 DEF ezRpcRequestRecord
  <1> HIDE DEF q
  <1>2. Taken(q) = Taken(r) \ {i}
    BY <1>1 DEF Taken
  <1>3. \A k \in Taken(r) : k \in 1 .. Records /\ (r[k].uuid = r[i].uuid => k = i)
    BY DEF Taken, RecordsKept
  <1>4. OpenOf(q) = OpenOf(r) \ {r[i].uuid}
    <2>1. \A k \in Taken(q) : k \in Taken(r) /\ q[k].uuid = r[k].uuid /\ r[k].uuid # r[i].uuid
      BY <1>1, <1>2, <1>3
    <2>2. \A k \in Taken(r) : r[k].uuid # r[i].uuid => k \in Taken(q) /\ q[k].uuid = r[k].uuid
      BY <1>1, <1>2, <1>3
    <2> QED
      BY <2>1, <2>2 DEF OpenOf
  <1> QED
    BY <1>4 DEF q

(* The two state functions the link is told of.                            *)
LEMMA OpenIs ==
  ASSUME HInv
  PROVE  /\ open = [n \in Nodes |-> OpenOf(records[n])]
         /\ pending = [n \in Nodes |-> Cardinality(open[n])]
  <1>1. \A n \in Nodes : (1 .. Records) \ AvailRecords(n) = Taken(records[n])
    BY DEF AvailRecords, Taken
  <1>2. open = [n \in Nodes |-> OpenOf(records[n])]
    BY <1>1 DEF open, OpenOf
  <1>3. \A n \in Nodes : ezRPC_NumOfPendingRecords(n) = Cardinality(open[n])
    <2> TAKE n \in Nodes
    <2>1. ezRPC_NumOfPendingRecords(n) = Cardinality(Taken(records[n]))
      BY <1>1 DEF ezRPC_NumOfPendingRecords
    <2>2. RecordsKept(records[n], next_uuid[n])
      BY DEF HInv, HistoryOK
    <2>3. open[n] = OpenOf(records[n])
      BY <1>2
    <2> QED
      BY <2>1, <2>2, <2>3, TakenAreOpen
  <1> QED
    BY <1>2, <1>3 DEF pending

LEMMA OpenIsNext ==
  ASSUME HInv'
  PROVE  /\ open' = [n \in Nodes |-> OpenOf(records'[n])]
         /\ pending' = [n \in Nodes |-> Cardinality(open'[n])]
  <1>1. \A n \in Nodes : ((1 .. Records) \ AvailRecords(n))' = Taken(records'[n])
    BY DEF AvailRecords, Taken
  <1>2. open' = [n \in Nodes |-> OpenOf(records'[n])]
    BY <1>1 DEF open, OpenOf
  <1>3. \A n \in Nodes : ezRPC_NumOfPendingRecords(n)' = Cardinality(open'[n])
    <2> TAKE n \in Nodes
    <2>1. ezRPC_NumOfPendingRecords(n)' = Cardinality(Taken(records'[n]))
      BY <1>1 DEF ezRPC_NumOfPendingRecords
    <2>2. RecordsKept(records'[n], next_uuid'[n])
      BY DEF HInv, HistoryOK
    <2>3. open'[n] = OpenOf(records'[n])
      BY <1>2
    <2> QED
      BY <2>1, <2>2, <2>3, TakenAreOpen
  <1> QED
    BY <1>2, <1>3 DEF pending

LEMMA OpenStays ==
  ASSUME HInv, HInv', UNCHANGED records
  PROVE  open' = open
  BY OpenIs, OpenIsNext

(* A step the link does not see.                                           *)
LEMMA LinkStays ==
  ASSUME HInv, HInv', UNCHANGED <<crc, faults, confused, sent, handled>>, open' = open
  PROVE  UNCHANGED Link!vars
  <1>1. pending' = pending
    BY OpenIs, OpenIsNext
  <1> QED
    BY <1>1 DEF Link!vars

(* Only an available record is taken for a request.                        *)
LEMMA TakingOpens ==
  ASSUME HInv, HInv', NEW n \in Nodes, NEW u, NEW b \in BOOLEAN, TakesRecord(n, u, b)
  PROVE  open' = IF b THEN open ELSE [open EXCEPT ![n] = @ \cup {u}]
  <1>1. records \in [Nodes -> [1 .. Records -> ezRpcRequestRecord]]
    BY DEF HInv, IInv, TypeOK
  <1>2. /\ open = [k \in Nodes |-> OpenOf(records[k])]
        /\ open' = [k \in Nodes |-> OpenOf(records'[k])]
    BY OpenIs, OpenIsNext
  <1>3. PICK i \in 1 .. Records :
          /\ records[n][i].is_available
          /\ records' = [records EXCEPT ![n] =
                           [records[n] EXCEPT ![i] = [uuid |-> u, is_available |-> b]]]
    BY DEF TakesRecord
  <1> DEFINE r == records[n]   x == [uuid |-> u, is_available |-> b]   q == [r EXCEPT ![i] = x]
  <1>4. r \in [1 .. Records -> ezRpcRequestRecord] /\ r[i].is_available
    BY <1>1, <1>3
  <1>5. OpenOf(q) = IF b THEN OpenOf(r) ELSE OpenOf(r) \cup {u}
    <2>1. x.uuid = u /\ x.is_available = b
      OBVIOUS
    <2> HIDE DEF r, x
    <2>2. /\ x.is_available => OpenOf(q) = OpenOf(r)
          /\ ~x.is_available => OpenOf(q) = OpenOf(r) \cup {x.uuid}
      BY <1>4, OpenTaken
    <2> QED
      BY <2>1, <2>2
  <1>6. records' = [records EXCEPT ![n] = q]
    BY <1>3
  <1> HIDE DEF q
  <1>7. records'[n] = q /\ \A k \in Nodes : k # n => records'[k] = records[k]
    BY <1>1, <1>6
  <1>8. open'[n] = (IF b THEN open[n] ELSE open[n] \cup {u})
        /\ \A k \in Nodes : k # n => open'[k] = open[k]
    BY <1>2, <1>5, <1>7
  <1> QED
    BY <1>2, <1>8

(* A response closes the request with its uuid, whatever message it is.    *)
LEMMA ClosingOpens ==
  ASSUME HInv, HInv', NEW n \in Nodes, NEW h, CloseRecord(n, h),
         h.type = RESP => RecordsOf(n, h.uuid) # {}
  PROVE  open' = IF h.type = RESP THEN [open EXCEPT ![n] = @ \ {h.uuid}] ELSE open
  <1>1. records \in [Nodes -> [1 .. Records -> ezRpcRequestRecord]]
        /\ RecordsKept(records[n], next_uuid[n])
    BY DEF HInv, HistoryOK, IInv, TypeOK
  <1>2. /\ open = [k \in Nodes |-> OpenOf(records[k])]
        /\ open' = [k \in Nodes |-> OpenOf(records'[k])]
    BY OpenIs, OpenIsNext
  <1>3. CASE h.type # RESP
    BY <1>3, OpenStays DEF CloseRecord
  <1>4. CASE h.type = RESP
    <2> DEFINE i == First(RecordsOf(n, h.uuid))   r == records[n]
               q == [r EXCEPT ![i].is_available = TRUE]
    <2>1. i \in 1 .. Records /\ r[i].uuid = h.uuid
      <3>1. RecordsOf(n, h.uuid) \in SUBSET (1 .. Records)
        BY DEF RecordsOf
      <3>2. i \in RecordsOf(n, h.uuid)
        BY <1>4, <3>1, FirstIsOne
      <3> HIDE DEF i
      <3> QED
        BY <3>2 DEF RecordsOf
    <2>2. records' = [records EXCEPT ![n] = q]
      BY <1>1, <1>4 DEF CloseRecord
    <2> HIDE DEF i
    <2>3. r \in [1 .. Records -> ezRpcRequestRecord] /\ RecordsKept(r, next_uuid[n])
      BY <1>1
    <2>4. OpenOf(q) = OpenOf(r) \ {h.uuid}
      <3> HIDE DEF r
      <3> QED
        BY <2>1, <2>3, OpenClosed
    <2> HIDE DEF q
    <2>5. records'[n] = q /\ \A k \in Nodes : k # n => records'[k] = records[k]
      BY <1>1, <2>2
    <2>6. open'[n] = open[n] \ {h.uuid} /\ \A k \in Nodes : k # n => open'[k] = open[k]
      BY <1>2, <2>4, <2>5
    <2> QED
      BY <1>2, <1>4, <2>6
  <1> QED
    BY <1>3, <1>4

-----------------------------------------------------------------------------
(* A request whose record was made available has been answered.            *)
Closed(r, s, hd) ==
  \A i \in 1 .. Len(s), k \in 1 .. Records :
    s[i].header.type = REQ /\ r[k].uuid = s[i].header.uuid /\ r[k].is_available
      => \E j \in 1 .. Len(hd) : AnswerTo(hd[j], s[i])

ClosedOK == \A n \in Nodes : Closed(records[n], sent[n], handled[n])

LEMMA ClosedTakes ==
  ASSUME NEW r \in [1 .. Records -> ezRpcRequestRecord], NEW top \in Int, RecordsKept(r, top),
         NEW s \in Seq(Messages), Numbered(s, top), NEW hd, Closed(r, s, hd),
         NEW i \in 1 .. Records, NEW x, x.uuid = top + 1
  PROVE  Closed([r EXCEPT ![i] = x], s, hd)
  <1> DEFINE q == [r EXCEPT ![i] = x]
  <1>1. q[i] = x /\ \A k \in 1 .. Records : k # i => q[k] = r[k]
    OBVIOUS
  <1> HIDE DEF q
  <1>2. \A j \in 1 .. Len(s) : s[j].header.type = REQ => s[j].header.uuid # top + 1
    <2> TAKE j \in 1 .. Len(s)
    <2>1. s[j] \in Messages
      BY ElementOfSeq
    <2>2. s[j].header.uuid \in UInt16
      BY <2>1 DEF Messages, ezRpcMsgHeader
    <2> QED
      BY <2>2, WordIsInt DEF Numbered
  <1>3. ASSUME NEW j \in 1 .. Len(s), NEW k \in 1 .. Records,
               s[j].header.type = REQ, q[k].uuid = s[j].header.uuid, q[k].is_available
        PROVE  k # i
    BY <1>1, <1>2, <1>3
  <1>4. Closed(q, s, hd)
    BY <1>1, <1>3 DEF Closed
  <1> QED
    BY <1>4 DEF q

LEMMA ClosedSends ==
  ASSUME NEW r, NEW s \in Seq(Messages), NEW hd, Closed(r, s, hd), NEW m \in Messages,
         \A k \in 1 .. Records :
           m.header.type = REQ /\ r[k].uuid = m.header.uuid => ~r[k].is_available
  PROVE  Closed(r, Append(s, m), hd)
  <1> DEFINE t == Append(s, m)
  <1>1. /\ Len(t) = Len(s) + 1
        /\ \A j \in 1 .. Len(s) : t[j] = s[j]
        /\ t[Len(s) + 1] = m
        /\ \A j \in 1 .. Len(s) + 1 : j \in 1 .. Len(s) \/ j = Len(s) + 1
    BY Appended
  <1> HIDE DEF t
  <1>2. ASSUME NEW j \in 1 .. Len(t), NEW k \in 1 .. Records,
               t[j].header.type = REQ, r[k].uuid = t[j].header.uuid, r[k].is_available
        PROVE  \E l \in 1 .. Len(hd) : AnswerTo(hd[l], t[j])
    <2>1. CASE j \in 1 .. Len(s)
      <3>1. t[j] = s[j]
        BY <1>1, <2>1
      <3> QED
        BY <1>2, <2>1, <3>1 DEF Closed
    <2>2. CASE j = Len(s) + 1
      BY <1>1, <1>2, <2>2
    <2> QED
      BY <1>1, <2>1, <2>2
  <1>3. Closed(r, t, hd)
    BY <1>2 DEF Closed
  <1> QED
    BY <1>3 DEF t

LEMMA ClosedHandles ==
  ASSUME NEW r \in [1 .. Records -> ezRpcRequestRecord], NEW s, NEW hd \in Seq(Messages),
         Closed(r, s, hd), NEW x \in Messages
  PROVE  /\ Closed(r, s, Append(hd, x))
         /\ \A i \in 1 .. Records : x.header.type = RESP /\ r[i].uuid = x.header.uuid
              => Closed([r EXCEPT ![i].is_available = TRUE], s, Append(hd, x))
  <1> DEFINE h == Append(hd, x)
  <1>1. /\ Len(h) = Len(hd) + 1 /\ Len(hd) \in Nat
        /\ \A j \in 1 .. Len(hd) : h[j] = hd[j]
        /\ h[Len(hd) + 1] = x
    BY Appended
  <1> HIDE DEF h
  <1>2. (\A j \in 1 .. Len(hd) : j \in 1 .. Len(h)) /\ Len(hd) + 1 \in 1 .. Len(h)
    BY <1>1
  <1>3. \A y : (\E j \in 1 .. Len(hd) : AnswerTo(hd[j], y)) => \E j \in 1 .. Len(h) : AnswerTo(h[j], y)
    BY <1>1, <1>2
  <1>4. Closed(r, s, h)
    BY <1>3 DEF Closed
  <1>5. ASSUME NEW i \in 1 .. Records, x.header.type = RESP, r[i].uuid = x.header.uuid
        PROVE  Closed([r EXCEPT ![i].is_available = TRUE], s, h)
    <2> DEFINE q == [r EXCEPT ![i].is_available = TRUE]
    <2>1. q[i].uuid = r[i].uuid /\ \A k \in 1 .. Records : k # i => q[k] = r[k]
      <3>1. r[i] \in ezRpcRequestRecord
        OBVIOUS
      <3>2. /\ q[i] = [r[i] EXCEPT !.is_available = TRUE]
            /\ \A k \in 1 .. Records : k # i => q[k] = r[k]
        OBVIOUS
      <3> HIDE DEF q
      <3> QED
        BY <3>1, <3>2 DEF ezRpcRequestRecord
    <2> HIDE DEF q
    <2>2. ASSUME NEW j \in 1 .. Len(s), NEW k \in 1 .. Records,
                 s[j].header.type = REQ, q[k].uuid = s[j].header.uuid, q[k].is_available
          PROVE  \E l \in 1 .. Len(h) : AnswerTo(h[l], s[j])
      <3>1. CASE k = i
        <4>1. AnswerTo(x, s[j])
          BY <1>5, <2>1, <2>2, <3>1 DEF AnswerTo
        <4> QED
          BY <1>1, <1>2, <4>1
      <3>2. CASE k # i
        <4>1. q[k] = r[k]
          BY <2>1, <3>2
        <4> QED
          BY <1>4, <2>2, <4>1 DEF Closed
      <3> QED
        BY <3>1, <3>2
    <2>3. Closed(q, s, h)
      BY <2>2 DEF Closed
    <2> QED
      BY <2>3 DEF q
  <1> QED
    BY <1>4, <1>5 DEF h

LEMMA InitClosed == Init => ClosedOK
  <1> SUFFICES ASSUME Init, NEW n \in Nodes PROVE Closed(records[n], sent[n], handled[n])
    BY DEF ClosedOK
  <1>1. sent[n] = << >> /\ Len(<< >>) = 0
    BY EmptySeq DEF Init
  <1> QED
    BY <1>1 DEF Closed

LEMMA ClosedOfOthers ==
  ASSUME ClosedOK, NEW n \in Nodes, Closed(records[n], sent[n], handled[n])',
         \A k \in Nodes : k # n => /\ records'[k] = records[k] /\ sent'[k] = sent[k]
                                   /\ handled'[k] = handled[k]
  PROVE  ClosedOK'
  <1>1. \A k \in Nodes : Closed(records[k], sent[k], handled[k])'
    BY DEF ClosedOK
  <1> QED
    BY <1>1 DEF ClosedOK

LEMMA RequestClosed ==
  ASSUME HInv, ClosedOK, NEW n \in Nodes, NEW u, NEW m, Requests(n, u, m)
  PROVE  ClosedOK'
  <1>1. /\ records \in [Nodes -> [1 .. Records -> ezRpcRequestRecord]]
        /\ sent \in [Nodes -> Seq(Messages)]
        /\ RecordsKept(records[n], next_uuid[n]) /\ Numbered(sent[n], next_uuid[n])
        /\ Closed(records[n], sent[n], handled[n])
    BY DEF HInv, HistoryOK, IInv, TypeOK, ClosedOK
  <1>2. /\ u = next_uuid[n] + 1 /\ next_uuid[n] \in Int /\ handled' = handled
        /\ m.header.type = REQ /\ m.header.uuid = u
        /\ \/ UNCHANGED <<records, tx_msg_queue, sent>>
           \/ TakesRecord(n, u, TRUE) /\ UNCHANGED <<tx_msg_queue, sent>>
           \/ TakesRecord(n, u, FALSE) /\ MarshalsMessage(n, m)
    BY DEF Requests
  <1>3. CASE UNCHANGED <<records, tx_msg_queue, sent>>
    BY <1>1, <1>2, <1>3, ClosedOfOthers
  <1> DEFINE r == records[n]   s == sent[n]
  <1>4. ASSUME NEW b \in BOOLEAN, TakesRecord(n, u, b)
        PROVE  /\ Closed(records'[n], s, handled[n])
               /\ \A k \in 1 .. Records : records'[n][k].uuid = u => (records'[n][k].is_available <=> b)
               /\ \A k \in Nodes : k # n => records'[k] = records[k]
    <2>1. PICK i \in 1 .. Records :
            records' = [records EXCEPT ![n] = [r EXCEPT ![i] = [uuid |-> u, is_available |-> b]]]
      BY <1>4 DEF TakesRecord
    <2> DEFINE x == [uuid |-> u, is_available |-> b]   q == [r EXCEPT ![i] = x]
    <2>2. x.uuid = next_uuid[n] + 1 /\ x.is_available = b
      BY <1>2
    <2> HIDE DEF x
    <2>3. records' = [records EXCEPT ![n] = q]
      BY <2>1 DEF x
    <2>4. r \in [1 .. Records -> ezRpcRequestRecord] /\ s \in Seq(Messages)
          /\ RecordsKept(r, next_uuid[n]) /\ Numbered(s, next_uuid[n]) /\ Closed(r, s, handled[n])
      BY <1>1
    <2> HIDE DEF r, s
    <2>5. Closed(q, s, handled[n])
      BY <1>2, <2>2, <2>4, ClosedTakes
    <2>6. q[i] = x /\ \A k \in 1 .. Records : k # i => q[k] = r[k]
      BY <2>4
    <2> HIDE DEF q
    <2>7. \A k \in 1 .. Records : r[k].uuid # u
      <3> TAKE k \in 1 .. Records
      <3>1. r[k].uuid \in UInt16
        BY <2>4 DEF ezRpcRequestRecord
      <3>2. r[k].uuid \in Int /\ r[k].uuid <= next_uuid[n]
        BY <2>4, <3>1, WordIsInt DEF RecordsKept
      <3> QED
        BY <1>2, <3>2
    <2>8. records'[n] = q /\ \A k \in Nodes : k # n => records'[k] = records[k]
      BY <1>1, <2>3
    <2>9. \A k \in 1 .. Records : q[k].uuid = u => (q[k].is_available <=> b)
      BY <2>2, <2>6, <2>7
    <2> QED
      BY <2>5, <2>8, <2>9
  <1>5. CASE TakesRecord(n, u, TRUE) /\ UNCHANGED <<tx_msg_queue, sent>>
    BY <1>2, <1>4, <1>5, ClosedOfOthers
  <1>6. CASE TakesRecord(n, u, FALSE) /\ MarshalsMessage(n, m)
    <2>1. /\ Closed(records'[n], s, handled[n])
          /\ \A k \in 1 .. Records : records'[n][k].uuid = u => ~records'[n][k].is_available
          /\ \A k \in Nodes : k # n => records'[k] = records[k]
      BY <1>4, <1>6
    <2>2. m \in Messages /\ sent' = [sent EXCEPT ![n] = Append(s, m)]
      BY <1>6, SendableType DEF MarshalsMessage
    <2>3. s \in Seq(Messages)
      BY <1>1
    <2> HIDE DEF s
    <2>4. Closed(records'[n], Append(s, m), handled[n])
      BY <1>2, <2>1, <2>2, <2>3, ClosedSends
    <2>5. sent'[n] = Append(s, m) /\ \A k \in Nodes : k # n => sent'[k] = sent[k]
      BY <1>1, <2>2
    <2> QED
      BY <1>2, <2>1, <2>4, <2>5, ClosedOfOthers
  <1> QED
    BY <1>2, <1>3, <1>5, <1>6

LEMMA HandleClosed ==
  ASSUME HInv, ClosedOK, NEW n \in Nodes, HandleEffect(n)
  PROVE  ClosedOK'
  <1>1. /\ records \in [Nodes -> [1 .. Records -> ezRpcRequestRecord]]
        /\ sent \in [Nodes -> Seq(Messages)] /\ handled \in [Nodes -> Seq(Messages)]
        /\ Closed(records[n], sent[n], handled[n])
    BY DEF HInv, HistoryOK, IInv, TypeOK, ClosedOK
  <1>2. CASE UNCHANGED <<records, sent, handled>>
    BY <1>1, <1>2, ClosedOfOthers
  <1>3. ASSUME NEW x, FrontOf(x, n), Serves(n, x)
        PROVE  ClosedOK'
    <2> DEFINE r == records[n]   s == sent[n]   h == Append(handled[n], x)
    <2>1. x \in Messages /\ x \in Sendable
      BY <1>3, SendableType DEF FrontOf, Front
    <2>2. r \in [1 .. Records -> ezRpcRequestRecord] /\ s \in Seq(Messages)
          /\ handled[n] \in Seq(Messages) /\ Closed(r, s, handled[n])
      BY <1>1
    <2>3. handled' = [handled EXCEPT ![n] = h]
      BY <1>3 DEF Serves
    <2>4. /\ Closed(r, s, h)
          /\ \A i \in 1 .. Records : x.header.type = RESP /\ r[i].uuid = x.header.uuid
               => Closed([r EXCEPT ![i].is_available = TRUE], s, h)
      <3> HIDE DEF r, s
      <3> QED
        BY <2>1, <2>2, ClosedHandles
    <2> HIDE DEF h
    <2>5. handled'[n] = h /\ \A k \in Nodes : k # n => handled'[k] = handled[k]
      BY <1>1, <2>3
    <2>6. Closed(records'[n], s, h) /\ \A k \in Nodes : k # n => records'[k] = records[k]
      <3>1. CASE x.header.type # RESP
        BY <1>3, <2>4, <3>1 DEF Serves, CloseRecord
      <3>2. CASE x.header.type = RESP
        <4> DEFINE i == First(RecordsOf(n, x.header.uuid))   q == [r EXCEPT ![i].is_available = TRUE]
        <4>1. i \in 1 .. Records /\ r[i].uuid = x.header.uuid
          <5>1. RecordsOf(n, x.header.uuid) \in SUBSET (1 .. Records)
            BY DEF RecordsOf
          <5>2. i \in RecordsOf(n, x.header.uuid)
            BY <1>3, <3>2, <5>1, FirstIsOne DEF Serves
          <5> HIDE DEF i
          <5> QED
            BY <5>2 DEF RecordsOf
        <4>2. records' = [records EXCEPT ![n] = q]
          BY <1>1, <1>3, <3>2 DEF Serves, CloseRecord
        <4> HIDE DEF i
        <4>3. Closed(q, s, h)
          BY <2>4, <3>2, <4>1
        <4> HIDE DEF q
        <4>4. records'[n] = q /\ \A k \in Nodes : k # n => records'[k] = records[k]
          BY <1>1, <4>2
        <4> QED
          BY <4>3, <4>4
      <3> QED
        BY <3>1, <3>2
    <2>7. CASE UNCHANGED <<tx_msg_queue, sent>>
      BY <2>5, <2>6, <2>7, ClosedOfOthers
    <2>8. ASSUME NEW m, AnswerTo(m, x), MarshalsMessage(n, m)
          PROVE  ClosedOK'
      <3>1. m \in Messages /\ m.header.type = RESP /\ sent' = [sent EXCEPT ![n] = Append(s, m)]
        BY <2>8, SendableType DEF MarshalsMessage, AnswerTo
      <3>2. m.header.type # REQ
        BY <3>1 DEF RESP, REQ
      <3> DEFINE t == Append(s, m)
      <3>3. Closed(records'[n], t, h)
        <4> HIDE DEF s
        <4> QED
          BY <2>2, <2>6, <3>1, <3>2, ClosedSends
      <3> HIDE DEF t
      <3>4. sent'[n] = t /\ \A k \in Nodes : k # n => sent'[k] = sent[k]
        BY <1>1, <3>1 DEF t
      <3> QED
        BY <2>5, <2>6, <3>3, <3>4, ClosedOfOthers
    <2> QED
      BY <1>3, <2>7, <2>8 DEF Serves
  <1> QED
    BY <1>2, <1>3 DEF HandleEffect, Discards

-----------------------------------------------------------------------------
(* What a line says of the messages on its ends.                           *)
LEMMA LineKnows ==
  ASSUME NEW b, NEW s \in Seq(Sendable), NEW t \in Seq(Seq(Byte)), NEW w, NEW u, NEW q, NEW hd, NEW as,
         Line(b, s, t, w, u, q, hd, as)
  PROVE  Reached(hd, s, 1 .. Len(s), Len(s)) /\ Answered(as, s, Len(s))
  <1>1. PICK F, c, at, Q, d, M, g : Joins(b, s, t, w, u, q, hd, as, F, c, at, Q, d, M, g)
    BY DEF Line
  <1>2. Places(s, t, F, c, Q, d)
    BY <1>1, JoinPlaces
  <1>3. (\A i \in Q : i \in 1 .. Len(s)) /\ d \in Nat /\ d <= Len(s) /\ Len(s) \in Nat
    BY <1>2 DEF Places
  <1>4. (\A i \in 1 .. d : i \in 1 .. Len(s)) /\ \A i \in 1 .. Len(s) : i <= Len(s)
    BY <1>3
  <1>5. Reached(hd, s, Q, d) /\ Answered(as, s, d)
    BY <1>1 DEF Joins
  <1>6. Reached(hd, s, 1 .. Len(s), Len(s))
    BY <1>3, <1>4, <1>5 DEF Reached
  <1>7. Answered(as, s, Len(s))
    BY <1>4, <1>5 DEF Answered
  <1> QED
    BY <1>6, <1>7

(* A response that is served answers a request that still waits for it: a  *)
(* second response to it would have been sent twice.                       *)
LEMMA ServedIsOpen ==
  ASSUME HInv, LinesOK, ClosedOK, NEW n \in Nodes, NEW x, FrontOf(x, n),
         x.header.type = RESP, RecordsOf(n, x.header.uuid) # {}
  PROVE  x.header.uuid \in open[n]
  <1> DEFINE p == Peer(n)
  <1>1. p \in Nodes /\ Peer(p) = n
    BY TwoNodes
  <1>2. /\ sent[p] \in Seq(Sendable) /\ Distinct(sent[p]) /\ LineTo(n) /\ LineTo(p)
        /\ tx_msg_queue[p] \in Seq(Seq(Byte))
        /\ sent[n] \in Seq(Sendable) /\ tx_msg_queue[n] \in Seq(Seq(Byte))
    BY <1>1, LineTypes
  <1> DEFINE s == sent[p]   a == sent[n]   hd == handled[n]
  <1>3. /\ Line(crc, s, tx_msg_queue[p], wire[n], unmarshal[n], rx_msg_queue[n], hd, a)
        /\ s \in Seq(Sendable) /\ tx_msg_queue[p] \in Seq(Seq(Byte))
    BY <1>2 DEF LineTo
  <1>4. /\ Line(crc, a, tx_msg_queue[n], wire[p], unmarshal[p], rx_msg_queue[p], handled[p], s)
        /\ a \in Seq(Sendable) /\ tx_msg_queue[n] \in Seq(Seq(Byte))
    BY <1>1, <1>2 DEF LineTo
  <1>5. NextOf(x, s, hd)
    BY DEF FrontOf, Front
  <1>6. Reached(hd, s, 1 .. Len(s), Len(s))
    <2> HIDE DEF s, a, hd
    <2> QED
      BY <1>3, LineKnows
  <1>7. Answered(s, a, Len(a))
    <2> HIDE DEF s, a, hd
    <2> QED
      BY <1>4, LineKnows
  <1>8. Closed(records[n], a, hd)
    BY DEF ClosedOK
  <1>9. PICK k \in 1 .. Records : records[n][k].uuid = x.header.uuid
    BY DEF RecordsOf
  <1>10. open[n] = OpenOf(records[n])
    BY OpenIs
  <1>11. Distinct(s) /\ NextOf(x, s, hd)
    BY <1>2, <1>5
  <1> HIDE DEF s, a, hd, p
  <1>12. ~records[n][k].is_available
    <2> SUFFICES ASSUME records[n][k].is_available PROVE FALSE
      OBVIOUS
    <2>1. PICK e \in 1 .. Len(s) :
            /\ x = s[e]
            /\ \A j \in 1 .. Len(hd), l \in e .. Len(s) : hd[j] # s[l]
      BY <1>11 DEF NextOf
    <2>2. PICK i \in 1 .. Len(a) : AnswerTo(x, a[i])
      BY <1>7, <2>1 DEF Answered
    <2>3. PICK j \in 1 .. Len(hd) : AnswerTo(hd[j], a[i])
      BY <1>8, <1>9, <2>2 DEF Closed, AnswerTo
    <2>4. PICK l \in 1 .. Len(s) : hd[j] = s[l]
      BY <1>6 DEF Reached
    <2>5. l = e
      BY <1>11, <2>1, <2>2, <2>3, <2>4 DEF Distinct, SameMessage, AnswerTo
    <2>6. e \in e .. Len(s)
      BY <2>1
    <2> QED
      BY <2>1, <2>4, <2>5, <2>6
  <1> QED
    BY <1>9, <1>10, <1>12 DEF OpenOf, Taken

(* The steps of the link.                                                  *)
LEMMA CountedAlike == \A S : Link!Cardinality(S) = Cardinality(S)
  BY DEF Cardinality, Link!Cardinality

LEMMA LinkMoves ==
  ASSUME HInv',
         \/ Link!Damage
         \/ \E n \in Nodes :
              \/ ~Link!Handles(n) /\ Link!Sends(n) /\ Link!Request(n, Link!LastSent(n))
              \/ Link!Handles(n) /\ Link!Handle(n, Link!LastHandled(n))
              \/ Link!MisreadResponse(n)
              \/ Link!MeetUnknown(n)
  PROVE  Link!Next
  <1>1. pending' = [n \in Nodes |-> Link!Cardinality(open'[n])]
    BY OpenIsNext, CountedAlike
  <1> QED
    BY <1>1 DEF Link!Next

LEMMA LastOf ==
  ASSUME NEW f \in [Nodes -> Seq(Messages)], NEW n \in Nodes, NEW m \in Messages,
         NEW g, g = [f EXCEPT ![n] = Append(f[n], m)]
  PROVE  Len(g[n]) > Len(f[n]) /\ g[n][Len(g[n])] = m
  <1> DEFINE s == f[n]   t == Append(s, m)
  <1>1. s \in Seq(Messages) /\ g[n] = t
    OBVIOUS
  <1> HIDE DEF s
  <1>2. Len(t) = Len(s) + 1 /\ Len(s) \in Nat /\ t[Len(s) + 1] = m
    BY <1>1, Appended
  <1> HIDE DEF t
  <1>3. Len(g[n]) > Len(s) /\ g[n][Len(g[n])] = m
    BY <1>1, <1>2
  <1> QED
    BY <1>3 DEF s

LEMMA RequestMoves ==
  ASSUME HInv, HInv', NEW n \in Nodes, NEW u, NEW m, Requests(n, u, m)
  PROVE  Link!Next \/ UNCHANGED Link!vars
  <1>1. sent \in [Nodes -> Seq(Messages)] /\ Numbered(sent[n], next_uuid[n])
    BY DEF HInv, HistoryOK
  <1>2. /\ u = next_uuid[n] + 1 /\ next_uuid[n] \in Int
        /\ UNCHANGED <<crc, faults, confused, handled>>
        /\ m.header.type = REQ /\ m.header.uuid = u
        /\ \/ UNCHANGED <<records, tx_msg_queue, sent>>
           \/ TakesRecord(n, u, TRUE) /\ UNCHANGED <<tx_msg_queue, sent>>
           \/ TakesRecord(n, u, FALSE) /\ MarshalsMessage(n, m)
    BY DEF Requests
  <1>3. CASE UNCHANGED <<records, tx_msg_queue, sent>>
    BY <1>2, <1>3, OpenStays, LinkStays
  <1>4. CASE TakesRecord(n, u, TRUE) /\ UNCHANGED <<tx_msg_queue, sent>>
    <2>1. open' = open
      BY <1>4, TakingOpens
    <2> QED
      BY <1>2, <1>4, <2>1, LinkStays
  <1>5. CASE TakesRecord(n, u, FALSE) /\ MarshalsMessage(n, m)
    <2>1. open' = [open EXCEPT ![n] = @ \cup {u}]
      BY <1>5, TakingOpens
    <2>2. m \in Messages /\ sent' = [sent EXCEPT ![n] = Append(sent[n], m)]
      BY <1>5, SendableType DEF MarshalsMessage
    <2>3. Len(sent'[n]) > Len(sent[n]) /\ sent'[n][Len(sent'[n])] = m
      BY <1>1, <2>2, LastOf
    <2>4. \A i \in 1 .. Len(sent[n]) :
            sent[n][i].header.type = REQ => sent[n][i].header.uuid # m.header.uuid
      <3> TAKE i \in 1 .. Len(sent[n])
      <3>1. sent[n] \in Seq(Messages)
        BY <1>1
      <3>2. sent[n][i] \in Messages
        BY <3>1, ElementOfSeq
      <3>3. sent[n][i].header.uuid \in UInt16
        BY <3>2 DEF Messages, ezRpcMsgHeader
      <3>4. sent[n][i].header.uuid \in Int
        BY <3>3, WordIsInt
      <3> QED
        BY <1>1, <1>2, <3>4 DEF Numbered
    <2>5. Link!Sends(n) /\ Link!LastSent(n) = m
      BY <2>3 DEF Link!Sends, Link!LastSent
    <2>6. Len(handled[n]) \in Nat
      BY LenProperties DEF HInv, HistoryOK
    <2>7. ~Link!Handles(n)
      BY <1>2, <2>6 DEF Link!Handles
    <2>8. Link!Request(n, m)
      BY <1>2, <2>1, <2>2, <2>4 DEF Link!Request
    <2> QED
      BY <2>5, <2>7, <2>8, LinkMoves
  <1> QED
    BY <1>2, <1>3, <1>4, <1>5

(* A message handled, answered or not.                                     *)
LEMMA HandleMoves ==
  ASSUME HInv, HInv', NEW n \in Nodes, NEW m \in Messages, Link!Authentic(n, m),
         m.header.type = RESP => m.header.uuid \in open[n] \/ faults > 0,
         handled' = [handled EXCEPT ![n] = Append(handled[n], m)],
         open' = IF m.header.type = RESP THEN [open EXCEPT ![n] = @ \ {m.header.uuid}] ELSE open,
         UNCHANGED <<crc, faults, confused>>,
         \/ sent' = sent
         \/ \E r \in Messages :
              /\ m.header.type # RESP /\ r.header.type = RESP /\ r.header.uuid = m.header.uuid
              /\ sent' = [sent EXCEPT ![n] = Append(sent[n], r)]
  PROVE  Link!Next
  <1>1. sent \in [Nodes -> Seq(Messages)] /\ handled \in [Nodes -> Seq(Messages)]
    BY DEF HInv, HistoryOK
  <1>2. Link!Handles(n) /\ Link!LastHandled(n) = m
    BY <1>1, LastOf DEF Link!Handles, Link!LastHandled
  <1>3. UNCHANGED sent \/ Link!Answer(n, m)
    <2>1. ASSUME NEW r \in Messages, m.header.type # RESP, r.header.type = RESP,
                 r.header.uuid = m.header.uuid,
                 sent' = [sent EXCEPT ![n] = Append(sent[n], r)]
          PROVE  Link!Answer(n, m)
      <3>1. Link!Sends(n) /\ Link!LastSent(n) = r
        BY <1>1, <2>1, LastOf DEF Link!Sends, Link!LastSent
      <3> QED
        BY <2>1, <3>1 DEF Link!Answer
    <2> QED
      BY <2>1
  <1>4. Link!Handle(n, m)
    BY <1>3 DEF Link!Handle
  <1> QED
    BY <1>2, <1>4, LinkMoves

-----------------------------------------------------------------------------
(* What the CRC is for: of the payloads that reach a handler none was      *)
(* changed on the way.                                                     *)
CrcCatches ==
  crc => \A n \in Nodes : ~confused[n] =>
    \A j \in 1 .. Len(handled[n]) :
      \E i \in 1 .. Len(sent[Peer(n)]) : handled[n][j].payload = sent[Peer(n)][i].payload

LinkInv == KnownInv /\ (faults = 0 => ClosedOK)

LEMMA PeersAlike ==
  ASSUME NEW n \in Nodes
  PROVE  Link!Peer(n) = Peer(n)
  BY DEF Link!Peer, Peer

(* On a perfect line.                                                      *)
LEMMA CleanHandleMoves ==
  ASSUME HInv, HInv', LinesOK, ClosedOK, NEW n \in Nodes, HandleEffect(n)
  PROVE  Link!Next \/ UNCHANGED Link!vars
  <1>1. UNCHANGED <<crc, faults, confused>>
    BY DEF HandleEffect
  <1>2. CASE UNCHANGED <<records, sent, handled>>
    BY <1>1, <1>2, OpenStays, LinkStays
  <1>3. ASSUME NEW x, FrontOf(x, n), Serves(n, x)
        PROVE  Link!Next
    <2>1. x \in Sendable /\ NextOf(x, sent[Peer(n)], handled[n])
      BY <1>3 DEF FrontOf, Front
    <2>2. x \in Messages
      BY <2>1, SendableType
    <2>3. Link!Authentic(n, x)
      <3>1. Link!NextFor(n, x)
        BY <2>1, PeersAlike DEF Link!NextFor, NextOf
      <3> QED
        BY <3>1 DEF Link!Authentic
    <2>4. x.header.type = RESP => x.header.uuid \in open[n]
      BY <1>3, ServedIsOpen DEF Serves
    <2>5. open' = IF x.header.type = RESP THEN [open EXCEPT ![n] = @ \ {x.header.uuid}] ELSE open
      BY <1>3, ClosingOpens DEF Serves
    <2>6. handled' = [handled EXCEPT ![n] = Append(handled[n], x)]
      BY <1>3 DEF Serves
    <2>7. \/ sent' = sent
          \/ \E r \in Messages :
               /\ x.header.type # RESP /\ r.header.type = RESP /\ r.header.uuid = x.header.uuid
               /\ sent' = [sent EXCEPT ![n] = Append(sent[n], r)]
      BY <1>3, SendableType DEF Serves, MarshalsMessage, AnswerTo, REQ, RESP
    <2> QED
      BY <1>1, <2>2, <2>3, <2>4, <2>5, <2>6, <2>7, HandleMoves
  <1> QED
    BY <1>2, <1>3 DEF HandleEffect, Discards

(* Closing a record that is not open changes nothing the link knows.       *)
LEMMA MisreadMoves ==
  ASSUME HInv, HInv', NEW n \in Nodes, NEW u, faults > 0, open' = [open EXCEPT ![n] = @ \ {u}],
         UNCHANGED <<crc, faults, sent, handled>>,
         confused' \in {confused, [confused EXCEPT ![n] = TRUE]}
  PROVE  Link!Next \/ UNCHANGED Link!vars
  <1>1. CASE u \in open[n]
    <2>1. Link!MisreadResponse(n)
      BY <1>1 DEF Link!MisreadResponse
    <2> QED
      BY <2>1, LinkMoves
  <1>2. CASE u \notin open[n]
    <2>1. open' = open
      BY <1>2, OpenIs
    <2>2. CASE confused' = confused
      BY <2>1, <2>2, LinkStays
    <2>3. CASE confused' = [confused EXCEPT ![n] = TRUE]
      <3>1. Link!MeetUnknown(n)
        BY <2>1, <2>3 DEF Link!MeetUnknown
      <3> QED
        BY <3>1, LinkMoves
    <2> QED
      BY <2>2, <2>3
  <1> QED
    BY <1>1, <1>2

LEMMA UnknownMoves ==
  ASSUME HInv, HInv', NEW n \in Nodes, UnknownCommand(n), faults > 0
  PROVE  Link!Next \/ UNCHANGED Link!vars
  <1>1. /\ UNCHANGED <<crc, faults, sent, handled>>
        /\ confused' = [confused EXCEPT ![n] = TRUE]
    BY DEF UnknownCommand, Handling
  <1>2. PICK h : CloseRecord(n, h) /\ (h.type = RESP => RecordsOf(n, h.uuid) # {})
    BY DEF UnknownCommand
  <1>3. open' = IF h.type = RESP THEN [open EXCEPT ![n] = @ \ {h.uuid}] ELSE open
    BY <1>2, ClosingOpens
  <1>4. CASE h.type = RESP
    BY <1>1, <1>3, <1>4, MisreadMoves
  <1>5. CASE h.type # RESP
    <2>1. Link!MeetUnknown(n)
      BY <1>1, <1>3, <1>5 DEF Link!MeetUnknown
    <2> QED
      BY <2>1, LinkMoves
  <1> QED
    BY <1>4, <1>5

(* What the caught payloads say of the message a step adds.                *)
LEMMA LastPayloadSent ==
  ASSUME HInv, CrcCatches', NEW n \in Nodes, NEW m \in Messages, ~confused'[n], crc' = crc,
         handled' = [handled EXCEPT ![n] = Append(handled[n], m)],
         sent'[Peer(n)] = sent[Peer(n)], crc
  PROVE  \E i \in 1 .. Len(sent[Peer(n)]) : m.payload = sent[Peer(n)][i].payload
  <1>1. handled \in [Nodes -> Seq(Messages)]
    BY DEF HInv, HistoryOK
  <1> DEFINE s == handled[n]   t == Append(s, m)   k == Len(s) + 1
  <1>2. s \in Seq(Messages) /\ handled'[n] = t
    BY <1>1
  <1> HIDE DEF s
  <1>3. Len(t) = k /\ Len(s) \in Nat /\ t[k] = m
    BY <1>2, Appended
  <1> HIDE DEF t
  <1>4. k \in 1 .. Len(t)
    BY <1>3
  <1> HIDE DEF k
  <1>5. \A j \in 1 .. Len(handled'[n]) :
          \E i \in 1 .. Len(sent'[Peer(n)]) : handled'[n][j].payload = sent'[Peer(n)][i].payload
    BY DEF CrcCatches, Peer
  <1> QED
    BY <1>2, <1>3, <1>4, <1>5

LEMMA DamagedHandleMoves ==
  ASSUME HInv, HInv', CrcCatches', NEW n \in Nodes, HandleCommand(n), faults > 0
  PROVE  Link!Next \/ UNCHANGED Link!vars
  <1>1. UNCHANGED <<crc, faults, confused>> /\ rx_msg_queue[n] # << >>
    BY DEF HandleCommand, Handling
  <1> DEFINE d == rx_msg_queue[n][2].data
  <1>2. PICK h \in FrontHeader(n) :
          /\ h.type = RESP => RecordsOf(n, h.uuid) # {}
          /\ CloseRecord(n, h)
          /\ \/ /\ PayloadFits(n, h)
                /\ handled' = [handled EXCEPT ![n] = Append(handled[n], Message(h, d))]
                /\ IF h.type = RESP THEN UNCHANGED <<tx_msg_queue, sent>>
                   ELSE ezRPC_CreateRpcResponse(n, h)
             \/ ~PayloadFits(n, h) /\ UNCHANGED <<tx_msg_queue, sent, handled>>
    BY DEF HandleCommand
  <1>3. open' = IF h.type = RESP THEN [open EXCEPT ![n] = @ \ {h.uuid}] ELSE open
    BY <1>2, ClosingOpens
  <1>4. CASE UNCHANGED <<tx_msg_queue, sent, handled>>
    <2>1. CASE h.type = RESP
      BY <1>1, <1>3, <1>4, <2>1, MisreadMoves
    <2>2. CASE h.type # RESP
      BY <1>1, <1>3, <1>4, <2>2, LinkStays
    <2> QED
      BY <2>1, <2>2
  <1>5. CASE /\ PayloadFits(n, h)
             /\ handled' = [handled EXCEPT ![n] = Append(handled[n], Message(h, d))]
             /\ IF h.type = RESP THEN UNCHANGED <<tx_msg_queue, sent>>
                ELSE ezRPC_CreateRpcResponse(n, h)
    <2>1. h \in ezRpcMsgHeader /\ Header(h.uuid, RESP, h.cmd_id, Len(Reply)) \in ezRpcMsgHeader
      BY <1>1, FrontHeaderType DEF HInv
    <2>2. d \in Seq(Byte)
      <3>1. rx_msg_queue[n] \in Seq(Element) /\ Len(rx_msg_queue[n]) > 1
        BY <1>5 DEF PayloadFits, HInv, IInv, TypeOK
      <3>2. 2 \in 1 .. Len(rx_msg_queue[n])
        BY <3>1, LenProperties
      <3>3. rx_msg_queue[n][2] \in Element
        BY <3>1, <3>2, ElementOfSeq
      <3> QED
        BY <3>3, ElementFacts
    <2> DEFINE m == Message(h, d)
    <2>3. m \in Messages /\ m.header = h /\ m.payload = d
      BY <2>1, <2>2, HeaderIsMessages DEF Message
    <2>4. handled' = [handled EXCEPT ![n] = Append(handled[n], m)]
      BY <1>5
    <2> HIDE DEF m
    <2>5. \/ sent' = sent
          \/ \E r \in Messages :
               /\ m.header.type # RESP /\ r.header.type = RESP /\ r.header.uuid = m.header.uuid
               /\ sent' = [sent EXCEPT ![n] = Append(sent[n], r)]
      <3>1. CASE h.type = RESP
        BY <1>5, <3>1
      <3>2. CASE h.type # RESP
        <4> DEFINE g == Header(h.uuid, RESP, h.cmd_id, Len(Reply))   r == Message(g, Reply)
        <4>1. \/ sent' = sent
              \/ sent' = [sent EXCEPT ![n] = Append(sent[n], r)]
          BY <1>5, <3>2 DEF ezRPC_CreateRpcResponse, Marshal
        <4>2. g.type = RESP /\ g.uuid = h.uuid
          BY DEF Header
        <4>3. g \in ezRpcMsgHeader /\ Reply \in Seq(Byte)
          BY <2>1, MessageAssumption
        <4> HIDE DEF g
        <4>4. r \in Messages /\ r.header = g
          BY <4>3, HeaderIsMessages
        <4> HIDE DEF r
        <4> QED
          BY <2>3, <3>2, <4>1, <4>2, <4>4
      <3> QED
        BY <3>1, <3>2
    <2>6. sent'[Peer(n)] = sent[Peer(n)]
      <3>1. sent \in [Nodes -> Seq(Messages)] /\ Peer(n) # n /\ Peer(n) \in Nodes
        BY TwoNodes DEF HInv, HistoryOK
      <3> QED
        BY <2>5, <3>1
    <2>7. Link!Authentic(n, m)
      <3>1. CASE confused[n]
        BY <3>1 DEF Link!Authentic
      <3>2. CASE ~confused[n]
        <4>1. crc => \E i \in 1 .. Len(sent[Peer(n)]) : m.payload = sent[Peer(n)][i].payload
          BY <1>1, <2>3, <2>4, <2>6, <3>2, LastPayloadSent
        <4> QED
          BY <4>1, PeersAlike DEF Link!Authentic
      <3> QED
        BY <3>1, <3>2
    <2> QED
      BY <1>1, <1>3, <2>3, <2>4, <2>5, <2>7, HandleMoves
  <1> QED
    BY <1>2, <1>4, <1>5

-----------------------------------------------------------------------------
(* The records keep to the histories, and every step is one of the link's.  *)
LEMMA NextClosed ==
  ASSUME HInv, LinesOK, ClosedOK, MarksOnlyAtStarts, Clean', [Next]_vars
  PROVE  ClosedOK'
  <1>1. ASSUME UNCHANGED <<records, sent, handled>>
        PROVE  ClosedOK'
    BY <1>1 DEF ClosedOK
  <1>2. ASSUME NEW n \in Nodes, NEW c \in AskedIds, NEW p \in Payloads,
               ezRPC_CreateRpcRequest(n, c, p)
        PROVE  ClosedOK'
    BY <1>2, RequestEffect, RequestClosed
  <1>3. ASSUME NEW n \in Nodes, ReceiveByte(n)
        PROVE  ClosedOK'
    <2>1. UNCHANGED <<records, sent, handled>>
      BY <1>3, ReceiveKeeps DEF HInv
    <2> QED
      BY <1>1, <2>1
  <1>4. ASSUME NEW n \in Nodes, ezRpc_HandleReceivedMsg(n)
        PROVE  ClosedOK'
    <2>1. HandleEffect(n)
      BY <1>4, HandleIsEffect DEF Clean
    <2> QED
      BY <2>1, HandleClosed
  <1>5. ASSUME NEW n \in Nodes, Transmit(n)
        PROVE  ClosedOK'
    <2>1. UNCHANGED <<records, sent, handled>>
      BY <1>5 DEF Transmit
    <2> QED
      BY <1>1, <2>1
  <1>6. ASSUME NEW n \in Nodes, Fault(n)
        PROVE  ClosedOK'
    <2>1. UNCHANGED <<records, sent, handled>>
      BY <1>6 DEF Fault
    <2> QED
      BY <1>1, <2>1
  <1>7. ASSUME UNCHANGED vars
        PROVE  ClosedOK'
    <2>1. UNCHANGED <<records, sent, handled>>
      BY <1>7 DEF vars
    <2> QED
      BY <1>1, <2>1
  <1> QED
    BY <1>2, <1>3, <1>4, <1>5, <1>6, <1>7 DEF Next, ezRPC_Run

LEMMA LinkInvStep ==
  ASSUME MarksOnlyAtStarts, AskedIds \subseteq Commands, LinkInv, [Next]_vars
  PROVE  LinkInv'
  <1>1. KnownInv /\ KnownInv'
    BY KnownStep DEF LinkInv
  <1>2. ASSUME faults' = 0
        PROVE  ClosedOK'
    <2>1. HInv /\ Clean'
      BY <1>1, <1>2 DEF KnownInv, CleanInv
    <2>2. Clean
      BY <2>1, StaysClean
    <2>3. LinesOK /\ ClosedOK
      BY <1>1, <2>2 DEF LinkInv, KnownInv, CleanInv, Clean
    <2> QED
      BY <2>1, <2>3, NextClosed
  <1> QED
    BY <1>1, <1>2 DEF LinkInv

LEMMA LinkInvStart == Init => LinkInv
  BY KnownStart, InitClosed DEF LinkInv

LEMMA NextIsLink ==
  ASSUME MarksOnlyAtStarts, AskedIds \subseteq Commands, LinkInv, LinkInv', CrcCatches',
         [Next]_vars
  PROVE  Link!Next \/ UNCHANGED Link!vars
  <1>1. /\ HInv /\ HInv' /\ (faults = 0 => LinesOK /\ ClosedOK /\ Clean) /\ (faults' = 0 => Clean')
        /\ faults \in Nat
    BY SizeAssumption DEF LinkInv, KnownInv, CleanInv, Clean, HInv, IInv, TypeOK
  <1>2. ASSUME UNCHANGED vars
        PROVE  UNCHANGED Link!vars
    <2>1. UNCHANGED <<crc, faults, confused, sent, handled, records>>
      BY <1>2 DEF vars
    <2> QED
      BY <1>1, <2>1, OpenStays, LinkStays
  <1>3. ASSUME NEW n \in Nodes, NEW c \in AskedIds, NEW p \in Payloads,
               ezRPC_CreateRpcRequest(n, c, p)
        PROVE  Link!Next \/ UNCHANGED Link!vars
    BY <1>1, <1>3, RequestEffect, RequestMoves
  <1>4. ASSUME NEW n \in Nodes, ReceiveByte(n)
        PROVE  UNCHANGED Link!vars
    <2>1. UNCHANGED <<crc, faults, confused, sent, handled, records>>
      BY <1>1, <1>4, ReceiveKeeps DEF HInv
    <2> QED
      BY <1>1, <2>1, OpenStays, LinkStays
  <1>5. ASSUME NEW n \in Nodes, ezRpc_HandleReceivedMsg(n)
        PROVE  Link!Next \/ UNCHANGED Link!vars
    <2>1. faults' = faults
      BY <1>5 DEF ezRpc_HandleReceivedMsg, NothingReceived, DiscardResponse, HandleCommand,
                  UnknownCommand, Handling
    <2>2. CASE faults = 0
      <3>1. HandleEffect(n)
        BY <1>1, <1>5, <2>1, <2>2, HandleIsEffect DEF Clean
      <3> QED
        BY <1>1, <2>2, <3>1, CleanHandleMoves
    <2>3. CASE faults > 0
      <3>1. CASE NothingReceived(n) \/ DiscardResponse(n)
        <4>1. UNCHANGED <<crc, faults, confused, sent, handled, records>>
          BY <3>1 DEF NothingReceived, DiscardResponse, Handling
        <4> QED
          BY <1>1, <4>1, OpenStays, LinkStays
      <3>2. CASE HandleCommand(n)
        BY <1>1, <2>3, <3>2, DamagedHandleMoves
      <3>3. CASE UnknownCommand(n)
        BY <1>1, <2>3, <3>3, UnknownMoves
      <3> QED
        BY <1>5, <3>1, <3>2, <3>3 DEF ezRpc_HandleReceivedMsg
    <2> QED
      BY <1>1, <2>2, <2>3
  <1>6. ASSUME NEW n \in Nodes, Transmit(n)
        PROVE  UNCHANGED Link!vars
    <2>1. UNCHANGED <<crc, faults, confused, sent, handled, records>>
      BY <1>6 DEF Transmit
    <2> QED
      BY <1>1, <2>1, OpenStays, LinkStays
  <1>7. ASSUME NEW n \in Nodes, Fault(n)
        PROVE  Link!Next
    <2>1. UNCHANGED <<crc, confused, sent, handled, records>> /\ faults' = faults + 1
      BY <1>7 DEF Fault
    <2>2. faults' > 0
      BY <1>1, <2>1
    <2>3. open' = open
      BY <1>1, <2>1, OpenStays
    <2>4. Link!Damage
      BY <2>1, <2>2, <2>3 DEF Link!Damage
    <2> QED
      BY <1>1, <2>4, LinkMoves
  <1> QED
    BY <1>2, <1>3, <1>4, <1>5, <1>6, <1>7 DEF Next, ezRPC_Run

LEMMA InitIsLink == Init => Link!Init
  <1> SUFFICES ASSUME Init PROVE Link!Init
    OBVIOUS
  <1>1. HInv
    BY InitHInv
  <1>2. \A n \in Nodes : OpenOf(records[n]) = {}
    BY DEF Init, OpenOf, Taken
  <1>3. open = [n \in Nodes |-> {}] /\ \A n \in Nodes : open[n] = {}
    BY <1>1, <1>2, OpenIs
  <1>4. pending = [n \in Nodes |-> 0]
    BY <1>1, <1>3, OpenIs, FS_EmptySet
  <1> QED
    BY <1>3, <1>4 DEF Init, Link!Init

(* On a perfect line the CRC has nothing to catch.                         *)
LEMMA NothingToCatch == LinkInv /\ faults = 0 => CrcCatches
  <1> SUFFICES ASSUME LinkInv, faults = 0, NEW n \in Nodes, NEW j \in 1 .. Len(handled[n])
               PROVE  \E i \in 1 .. Len(sent[Peer(n)]) :
                        handled[n][j].payload = sent[Peer(n)][i].payload
    BY DEF CrcCatches
  <1>1. HInv /\ LinesOK
    BY DEF LinkInv, KnownInv, CleanInv
  <1> DEFINE s == sent[Peer(n)]   t == tx_msg_queue[Peer(n)]   hd == handled[n]
  <1>2. /\ s \in Seq(Sendable) /\ t \in Seq(Seq(Byte))
        /\ Line(crc, s, t, wire[n], unmarshal[n], rx_msg_queue[n], hd, sent[n])
    BY <1>1, TwoNodes, LineTypes DEF LineTo
  <1>3. Reached(hd, s, 1 .. Len(s), Len(s))
    <2> HIDE DEF s, t, hd
    <2> QED
      BY <1>2, LineKnows
  <1> QED
    BY <1>3 DEF Reached

(* ezRpc implements the link of RpcLink, whatever the lines lose or damage  *)
(* and up to a byte written behind a block, as long as a CRC handler,      *)
(* where there is one, catches what it is there for: messages are handled  *)
(* in the order of sending and at most once, a response that is handled    *)
(* closes the request it answers, and the records are those of the         *)
(* requests that wait.                                                     *)
THEOREM LinkRefinement ==
  ASSUME MarksOnlyAtStarts, AskedIds \subseteq Commands
  PROVE  Spec /\ []CrcCatches => ImplementsLink
  <1>1. LinkInv /\ [Next]_vars => LinkInv'
    BY LinkInvStep
  <1>2. LinkInv /\ LinkInv' /\ CrcCatches' /\ [Next]_vars => [Link!Next]_(Link!vars)
    BY NextIsLink
  <1> QED
    BY <1>1, <1>2, LinkInvStart, InitIsLink, PTL DEF Spec, ImplementsLink, Link!Spec

(* On lines that lose and damage nothing that holds of every CRC.          *)
THEOREM PerfectLinkRefinement ==
  ASSUME MarksOnlyAtStarts, AskedIds \subseteq Commands, MaxFaults = 0
  PROVE  Spec => ImplementsLink
  <1>1. LinkInv /\ [Next]_vars => LinkInv'
    BY LinkInvStep
  <1>2. LinkInv => CrcCatches
    <2>1. LinkInv => faults = 0
      BY DEF LinkInv, KnownInv, CleanInv, HInv, IInv, TypeOK
    <2> QED
      BY <2>1, NothingToCatch
  <1>3. Spec => []CrcCatches
    BY <1>1, <1>2, LinkInvStart, PTL DEF Spec
  <1> QED
    BY <1>3, LinkRefinement, PTL
=============================================================================
