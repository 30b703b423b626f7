----------------------------- MODULE RingBuffer -----------------------------
(***************************************************************************)
(* utilities/ring_buffer: a byte ring over a caller's array, with a head   *)
(* (write) index, a tail (read) index and a count of the bytes written.    *)
(* An index may rest one past the end of the array: it wraps at the next   *)
(* transfer that crosses the end, which is copied in two parts.            *)
(***************************************************************************)
EXTENDS Naturals, Sequences

CONSTANTS
  Byte,         \* what one array element can hold
  Zero,         \* the byte memset writes
  RingCapacity, \* ring_buff->capacity
  MaxRequest    \* bound on the size of one push or pop (uint16_t in the code)

ASSUME RingAssumption == RingCapacity \in Nat \ {0}
ASSUME RequestAssumption == MaxRequest \in Nat
ASSUME ZeroAssumption == Zero \in Byte

VARIABLES
  buff, head_index, tail_index, written_byte_count,
  moved,        \* what the last Push or Pop returned
  data          \* what the last Pop copied out

ringVars == <<buff, head_index, tail_index, written_byte_count, moved, data>>

Slot == 0 .. RingCapacity - 1
Request == 0 .. MaxRequest
Chunk == UNION {[1 .. n -> Byte] : n \in Request}

Smaller(a, b) == IF a <= b THEN a ELSE b

RingInit ==
  /\ buff \in [Slot -> {Zero}]
  /\ head_index = 0 /\ tail_index = 0 /\ written_byte_count = 0
  /\ moved = 0 /\ data = << >>

GetAvailableMemory == RingCapacity - written_byte_count
IsEmpty == written_byte_count = 0
IsFull == written_byte_count = RingCapacity

-----------------------------------------------------------------------------
(* Faulty variants of the definitions below, one plausible slip each.      *)

PushedIgnoresRoom(chunk) == Smaller(Len(chunk), RingCapacity)

PopWrappedRereadsEnd(size) ==
  LET n == Smaller(size, written_byte_count)
      first == RingCapacity - tail_index
  IN  /\ first < n
      /\ data' = [i \in 1 .. n |->
                    IF i <= first THEN buff[tail_index + i - 1] ELSE buff[i - 1]]
      /\ tail_index' = n - first
      /\ written_byte_count' = written_byte_count - n
      /\ moved' = n
      /\ UNCHANGED <<buff, head_index>>

ResetKeepsTail ==
  /\ head_index' = 0 /\ written_byte_count' = 0
  /\ buff' = [i \in Slot |-> Zero]
  /\ UNCHANGED <<tail_index, moved, data>>

-----------------------------------------------------------------------------
(* ezRingBuffer_Push: as much of the chunk as fits, ahead of the end ...   *)
Pushed(chunk) == Smaller(Len(chunk), GetAvailableMemory)

PushStraight(chunk) ==
  LET n == Pushed(chunk)
  IN  /\ RingCapacity - head_index >= n
      /\ buff' = [i \in Slot |->
                    IF i >= head_index /\ i < head_index + n
                    THEN chunk[i - head_index + 1] ELSE buff[i]]
      /\ head_index' = head_index + n
      /\ written_byte_count' = written_byte_count + n
      /\ moved' = n
      /\ UNCHANGED <<tail_index, data>>

(* ... or up to the end and on from the start.                             *)
PushWrapped(chunk) ==
  LET n == Pushed(chunk)
      first == RingCapacity - head_index
  IN  /\ first < n
      /\ buff' = [i \in Slot |->
                    IF i >= head_index THEN chunk[i - head_index + 1]
                    ELSE IF i < n - first THEN chunk[first + i + 1]
                    ELSE buff[i]]
      /\ head_index' = n - first
      /\ written_byte_count' = written_byte_count + n
      /\ moved' = n
      /\ UNCHANGED <<tail_index, data>>

(* ezRingBuffer_Pop, in one part or in two.                                *)
Popped(size) == Smaller(size, written_byte_count)

PopStraight(size) ==
  LET n == Popped(size)
  IN  /\ RingCapacity - tail_index >= n
      /\ data' = [i \in 1 .. n |-> buff[tail_index + i - 1]]
      /\ tail_index' = tail_index + n
      /\ written_byte_count' = written_byte_count - n
      /\ moved' = n
      /\ UNCHANGED <<buff, head_index>>

PopWrapped(size) ==
  LET n == Popped(size)
      first == RingCapacity - tail_index
  IN  /\ first < n
      /\ data' = [i \in 1 .. n |->
                    IF i <= first THEN buff[tail_index + i - 1]
                    ELSE buff[i - first - 1]]
      /\ tail_index' = n - first
      /\ written_byte_count' = written_byte_count - n
      /\ moved' = n
      /\ UNCHANGED <<buff, head_index>>

(* ezRingBuffer_Reset clears the array, ezRingBuffer_Init on the same      *)
(* array does not.                                                         *)
Reset ==
  /\ head_index' = 0 /\ tail_index' = 0 /\ written_byte_count' = 0
  /\ buff' = [i \in Slot |-> Zero]
  /\ UNCHANGED <<moved, data>>

InitAgain ==
  /\ head_index' = 0 /\ tail_index' = 0 /\ written_byte_count' = 0
  /\ UNCHANGED <<buff, moved, data>>

RingNext ==
  \/ \E chunk \in Chunk : PushStraight(chunk) \/ PushWrapped(chunk)
  \/ \E size \in Request : PopStraight(size) \/ PopWrapped(size)
  \/ Reset
  \/ InitAgain

RingSpec == RingInit /\ [][RingNext]_ringVars

-----------------------------------------------------------------------------
(* The stored bytes, oldest first.                                         *)
Wrap(i) == IF i < RingCapacity THEN i ELSE i - RingCapacity
Stored == [i \in 1 .. written_byte_count |-> buff[Wrap(tail_index + i - 1)]]

(* Ranges of the fields.  An index equal to the capacity is a legal state, *)
(* so memcpy at that index must always be of zero bytes.                   *)
RingTypeOK ==
  /\ buff \in [Slot -> Byte]
  /\ head_index \in 0 .. RingCapacity
  /\ tail_index \in 0 .. RingCapacity
  /\ written_byte_count \in 0 .. RingCapacity
  /\ moved \in 0 .. RingCapacity
  /\ data \in UNION {[1 .. n -> Byte] : n \in 0 .. RingCapacity}

(* The three counters agree: the distance from tail to head, once round    *)
(* the ring if needed, is the number of bytes written.  The code updates   *)
(* them separately, on four paths.                                         *)
IndicesAgree ==
  \/ head_index = tail_index + written_byte_count
  \/ head_index + RingCapacity = tail_index + written_byte_count

(* The ring buffer is a byte FIFO: no byte is lost, repeated, reordered or *)
(* taken from the part of the array that holds no data, and Push and Pop   *)
(* report the number of bytes they moved.                                  *)
Fifo == INSTANCE ByteFifo WITH
  fifo <- Stored, count <- moved, Capacity <- RingCapacity
ImplementsFifo == Fifo!Spec
=============================================================================
