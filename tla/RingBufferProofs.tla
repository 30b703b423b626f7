-------------------------- MODULE RingBufferProofs --------------------------
(***************************************************************************)
(* For every capacity and request size: the indices stay in range and      *)
(* agree with the count, and the ring buffer implements ByteFifo.          *)
(***************************************************************************)
EXTENDS RingBuffer, TLAPS

IInv == RingTypeOK /\ IndicesAgree

(* The smaller of two naturals.                                            *)
LEMMA SmallerBounds ==
  ASSUME NEW a \in Nat, NEW b \in Nat
  PROVE  /\ Smaller(a, b) \in Nat
         /\ Smaller(a, b) <= a /\ Smaller(a, b) <= b
  BY DEF Smaller

(* A chunk is a sequence of bytes no longer than MaxRequest.               *)
LEMMA ChunkIsSeq ==
  ASSUME NEW chunk \in Chunk
  PROVE  /\ chunk \in Seq(Byte)
         /\ Len(chunk) \in Request
         /\ chunk \in [1 .. Len(chunk) -> Byte]
<1>1. PICK n \in Request : chunk \in [1 .. n -> Byte]
  BY DEF Chunk
<1>2. n \in Nat
  BY RequestAssumption DEF Request
<1>3. chunk \in Seq(Byte) /\ Len(chunk) = n
  BY <1>1, <1>2
<1> QED
  BY <1>1, <1>3

(* The fields of a ring buffer in range, as numbers.                       *)
LEMMA Fields ==
  ASSUME IInv
  PROVE  /\ RingCapacity \in Nat /\ RingCapacity > 0
         /\ head_index \in Nat /\ head_index <= RingCapacity
         /\ tail_index \in Nat /\ tail_index <= RingCapacity
         /\ written_byte_count \in Nat /\ written_byte_count <= RingCapacity
  BY RingAssumption DEF IInv, RingTypeOK

LEMMA Agreement ==
  ASSUME IInv
  PROVE  \/ head_index = tail_index + written_byte_count
         \/ head_index + RingCapacity = tail_index + written_byte_count
  BY DEF IInv, IndicesAgree

(* What both push paths move: no more than the chunk, no more than the     *)
(* room left.                                                              *)
LEMMA PushedBounds ==
  ASSUME IInv, NEW chunk \in Chunk
  PROVE  /\ Pushed(chunk) \in Nat
         /\ Pushed(chunk) <= Len(chunk)
         /\ Pushed(chunk) <= RingCapacity - written_byte_count
         /\ Len(chunk) \in Nat
<1>1. Len(chunk) \in Nat
  BY ChunkIsSeq, RequestAssumption DEF Request
<1>2. RingCapacity - written_byte_count \in Nat
  BY Fields
<1> QED
  BY <1>1, <1>2, SmallerBounds DEF Pushed, GetAvailableMemory

(* What both pop paths move: no more than asked, no more than is stored.   *)
LEMMA PoppedBounds ==
  ASSUME IInv, NEW size \in Request
  PROVE  /\ Popped(size) \in Nat
         /\ Popped(size) <= written_byte_count
         /\ size \in Nat
<1>1. size \in Nat
  BY RequestAssumption DEF Request
<1> QED
  BY <1>1, Fields, SmallerBounds DEF Popped

LEMMA PushStraightPreserves ==
  ASSUME IInv, NEW chunk \in Chunk, PushStraight(chunk)
  PROVE  IInv'
<1> DEFINE n == Pushed(chunk)
<1>1. /\ n \in Nat /\ n <= Len(chunk) /\ n <= RingCapacity - written_byte_count
      /\ Len(chunk) \in Nat
  BY PushedBounds
<1>2. /\ RingCapacity - head_index >= n
      /\ head_index' = head_index + n
      /\ written_byte_count' = written_byte_count + n
      /\ moved' = n
      /\ tail_index' = tail_index /\ data' = data
  BY DEF PushStraight
<1>3. buff' = [i \in Slot |->
                 IF i >= head_index /\ i < head_index + n
                 THEN chunk[i - head_index + 1] ELSE buff[i]]
  BY DEF PushStraight
<1> HIDE DEF n
<1>4. buff' \in [Slot -> Byte]
  <2>1. ASSUME NEW i \in Slot, i >= head_index, i < head_index + n
        PROVE  chunk[i - head_index + 1] \in Byte
    <3>1. i - head_index + 1 \in 1 .. Len(chunk)
      BY <1>1, <2>1, Fields DEF Slot
    <3>2. QED
      BY <3>1, ChunkIsSeq
  <2>2. buff \in [Slot -> Byte]
    BY DEF IInv, RingTypeOK
  <2>3. QED
    BY <1>3, <2>1, <2>2
<1>5. /\ head_index' \in 0 .. RingCapacity
      /\ tail_index' \in 0 .. RingCapacity
      /\ written_byte_count' \in 0 .. RingCapacity
      /\ moved' \in 0 .. RingCapacity
  BY <1>1, <1>2, Fields
<1>6. IndicesAgree'
  <2>1. /\ n \in Nat /\ head_index \in Nat /\ tail_index \in Nat
        /\ written_byte_count \in Nat /\ RingCapacity \in Nat
    BY <1>1, Fields
  <2> QED
    BY <1>2, <2>1, Agreement DEF IndicesAgree
<1> QED
  BY <1>2, <1>4, <1>5, <1>6 DEF IInv, RingTypeOK

LEMMA PushWrappedPreserves ==
  ASSUME IInv, NEW chunk \in Chunk, PushWrapped(chunk)
  PROVE  IInv'
<1> DEFINE n == Pushed(chunk)
           first == RingCapacity - head_index
<1>1. /\ n \in Nat /\ n <= Len(chunk) /\ n <= RingCapacity - written_byte_count
      /\ Len(chunk) \in Nat
  BY PushedBounds
<1>2. /\ first < n
      /\ head_index' = n - first
      /\ written_byte_count' = written_byte_count + n
      /\ moved' = n
      /\ tail_index' = tail_index /\ data' = data
  BY DEF PushWrapped
<1>3. buff' = [i \in Slot |->
                 IF i >= head_index THEN chunk[i - head_index + 1]
                 ELSE IF i < n - first THEN chunk[first + i + 1]
                 ELSE buff[i]]
  BY DEF PushWrapped
<1> HIDE DEF n
<1>4. buff' \in [Slot -> Byte]
  <2>1. ASSUME NEW i \in Slot, i >= head_index
        PROVE  chunk[i - head_index + 1] \in Byte
    <3>1. i - head_index + 1 \in 1 .. Len(chunk)
      BY <1>1, <1>2, <2>1, Fields DEF Slot
    <3>2. QED
      BY <3>1, ChunkIsSeq
  <2>2. ASSUME NEW i \in Slot, i < n - first
        PROVE  chunk[first + i + 1] \in Byte
    <3>1. i \in Nat
      BY <2>2, Fields DEF Slot
    <3>2. first \in Nat /\ n \in Nat /\ n <= Len(chunk) /\ Len(chunk) \in Nat
      BY <1>1, Fields
    <3> HIDE DEF first
    <3>3. first + i + 1 \in 1 .. Len(chunk)
      BY <2>2, <3>1, <3>2
    <3> QED
      BY <3>3, ChunkIsSeq
  <2>3. buff \in [Slot -> Byte]
    BY DEF IInv, RingTypeOK
  <2>4. QED
    BY <1>3, <2>1, <2>2, <2>3
<1>5. /\ head_index' \in 0 .. RingCapacity
      /\ tail_index' \in 0 .. RingCapacity
      /\ written_byte_count' \in 0 .. RingCapacity
      /\ moved' \in 0 .. RingCapacity
  BY <1>1, <1>2, Fields
<1>6. IndicesAgree'
  <2>1. head_index' + RingCapacity = head_index + n
    BY <1>1, <1>2, Fields
  <2>2. CASE head_index = tail_index + written_byte_count
    <3>1. head_index' + RingCapacity = tail_index' + written_byte_count'
      BY <1>1, <1>2, <2>1, <2>2, Fields
    <3> QED
      BY <3>1 DEF IndicesAgree
  <2>3. CASE head_index + RingCapacity = tail_index + written_byte_count
    BY <1>1, <1>2, <2>3, Fields
  <2> QED
    BY <2>2, <2>3, Agreement
<1> QED
  BY <1>2, <1>4, <1>5, <1>6 DEF IInv, RingTypeOK

LEMMA PopStraightPreserves ==
  ASSUME IInv, NEW size \in Request, PopStraight(size)
  PROVE  IInv'
<1> DEFINE n == Popped(size)
<1>1. n \in Nat /\ n <= written_byte_count
  BY PoppedBounds
<1>2. /\ RingCapacity - tail_index >= n
      /\ tail_index' = tail_index + n
      /\ written_byte_count' = written_byte_count - n
      /\ moved' = n
      /\ head_index' = head_index /\ buff' = buff
  BY DEF PopStraight
<1>3. data' = [i \in 1 .. n |-> buff[tail_index + i - 1]]
  BY DEF PopStraight
<1> HIDE DEF n
<1>4. data' \in UNION {[1 .. k -> Byte] : k \in 0 .. RingCapacity}
  <2>1. ASSUME NEW i \in 1 .. n
        PROVE  buff[tail_index + i - 1] \in Byte
    <3>1. tail_index + i - 1 \in Slot
      BY <1>1, <1>2, Fields DEF Slot
    <3>2. QED
      BY <3>1 DEF IInv, RingTypeOK
  <2>2. data' \in [1 .. n -> Byte]
    BY <1>3, <2>1
  <2>3. n \in 0 .. RingCapacity
    BY <1>1, Fields
  <2>4. QED
    BY <2>2, <2>3
<1>5. /\ head_index' \in 0 .. RingCapacity
      /\ tail_index' \in 0 .. RingCapacity
      /\ written_byte_count' \in 0 .. RingCapacity
      /\ moved' \in 0 .. RingCapacity
  BY <1>1, <1>2, Fields
<1>6. IndicesAgree'
  <2>1. /\ n \in Nat /\ head_index \in Nat /\ tail_index \in Nat
        /\ written_byte_count \in Nat /\ RingCapacity \in Nat
    BY <1>1, Fields
  <2> QED
    BY <1>1, <1>2, <2>1, Agreement DEF IndicesAgree
<1> QED
  BY <1>2, <1>4, <1>5, <1>6 DEF IInv, RingTypeOK

LEMMA PopWrappedPreserves ==
  ASSUME IInv, NEW size \in Request, PopWrapped(size)
  PROVE  IInv'
<1> DEFINE n == Popped(size)
           first == RingCapacity - tail_index
<1>1. n \in Nat /\ n <= written_byte_count
  BY PoppedBounds
<1>2. /\ first < n
      /\ tail_index' = n - first
      /\ written_byte_count' = written_byte_count - n
      /\ moved' = n
      /\ head_index' = head_index /\ buff' = buff
  BY DEF PopWrapped
<1>3. data' = [i \in 1 .. n |->
                 IF i <= first THEN buff[tail_index + i - 1]
                 ELSE buff[i - first - 1]]
  BY DEF PopWrapped
<1> HIDE DEF n
<1>4. data' \in UNION {[1 .. k -> Byte] : k \in 0 .. RingCapacity}
  <2>0. buff \in [Slot -> Byte]
    BY DEF IInv, RingTypeOK
  <2>1. ASSUME NEW i \in 1 .. n, i <= first
        PROVE  buff[tail_index + i - 1] \in Byte
    <3>1. tail_index + i - 1 \in Slot
      BY <1>1, <1>2, <2>1, Fields DEF Slot
    <3>2. QED
      BY <2>0, <3>1
  <2>2. ASSUME NEW i \in 1 .. n, ~ (i <= first)
        PROVE  buff[i - first - 1] \in Byte
    <3>1. i - first - 1 \in Slot
      BY <1>1, <1>2, <2>2, Fields DEF Slot
    <3>2. QED
      BY <2>0, <3>1
  <2>3. data' \in [1 .. n -> Byte]
    BY <1>3, <2>1, <2>2
  <2>4. n \in 0 .. RingCapacity
    BY <1>1, Fields
  <2>5. QED
    BY <2>3, <2>4
<1>5. /\ head_index' \in 0 .. RingCapacity
      /\ tail_index' \in 0 .. RingCapacity
      /\ written_byte_count' \in 0 .. RingCapacity
      /\ moved' \in 0 .. RingCapacity
  BY <1>1, <1>2, Fields
<1>6. IndicesAgree'
  <2>1. /\ n \in Nat /\ head_index \in Nat /\ tail_index \in Nat
        /\ written_byte_count \in Nat /\ RingCapacity \in Nat
    BY <1>1, Fields
  <2> QED
    BY <1>1, <1>2, <2>1, Fields, Agreement DEF IndicesAgree
<1> QED
  BY <1>2, <1>4, <1>5, <1>6 DEF IInv, RingTypeOK

(* Every operation preserves the invariant.                                *)
LEMMA NextPreserves ==
  ASSUME IInv, [RingNext]_ringVars
  PROVE  IInv'
<1>1. CASE Reset
  <2>1. buff' \in [Slot -> Byte]
    BY <1>1, ZeroAssumption DEF Reset
  <2>2. QED
    BY <1>1, <2>1, Fields DEF Reset, IInv, RingTypeOK, IndicesAgree
<1>2. CASE InitAgain
  BY <1>2, Fields DEF InitAgain, IInv, RingTypeOK, IndicesAgree
<1>3. CASE UNCHANGED ringVars
  BY <1>3 DEF ringVars, IInv, RingTypeOK, IndicesAgree
<1> QED
  BY <1>1, <1>2, <1>3, PushStraightPreserves, PushWrappedPreserves,
     PopStraightPreserves, PopWrappedPreserves DEF RingNext

(* The fields of a ring buffer stay in range, and its indices and count    *)
(* agree, for every capacity and every sequence of requests.               *)
THEOREM Invariance == RingSpec => []IInv
<1>1. RingInit => IInv
  <2> SUFFICES ASSUME RingInit PROVE IInv
    OBVIOUS
  <2>1. buff \in [Slot -> Byte]
    BY ZeroAssumption DEF RingInit
  <2>2. data \in [1 .. 0 -> Byte]
    BY DEF RingInit
  <2>3. data \in UNION {[1 .. k -> Byte] : k \in 0 .. RingCapacity}
    BY <2>2, RingAssumption
  <2>4. QED
    BY <2>1, <2>3, RingAssumption DEF RingInit, IInv, RingTypeOK, IndicesAgree
<1>2. IInv /\ [RingNext]_ringVars => IInv'
  BY NextPreserves
<1> QED
  BY <1>1, <1>2, PTL DEF RingSpec

(* The fields stay in range: no index or count passes the capacity.        *)
THEOREM TypeCorrect == RingSpec => []RingTypeOK
  BY Invariance, PTL DEF IInv

(* Head, tail and count always agree modulo the capacity.                  *)
THEOREM IndicesAlwaysAgree == RingSpec => []IndicesAgree
  BY Invariance, PTL DEF IInv

-----------------------------------------------------------------------------
(* The refinement: Stored is the FIFO.                                     *)

LEMMA StoredIsSeq ==
  ASSUME IInv
  PROVE  /\ Stored \in Seq(Byte)
         /\ Len(Stored) = written_byte_count
         /\ \A i \in 1 .. written_byte_count :
              Stored[i] = buff[Wrap(tail_index + i - 1)]
<1>1. ASSUME NEW i \in 1 .. written_byte_count
      PROVE  buff[Wrap(tail_index + i - 1)] \in Byte
  <2>1. Wrap(tail_index + i - 1) \in Slot
    BY Fields DEF Wrap, Slot
  <2>2. QED
    BY <2>1 DEF IInv, RingTypeOK
<1>2. Stored \in [1 .. written_byte_count -> Byte]
  BY <1>1 DEF Stored
<1>3. written_byte_count \in Nat
  BY Fields
<1> QED
  BY <1>2, <1>3 DEF Stored

(* A sequence followed by the first n elements of another one.             *)
LEMMA ConcatPrefix ==
  ASSUME NEW s \in Seq(Byte), NEW t \in Seq(Byte), NEW n \in Nat, n <= Len(t)
  PROVE  s \o SubSeq(t, 1, n)
           = [i \in 1 .. Len(s) + n |-> IF i <= Len(s) THEN s[i] ELSE t[i - Len(s)]]
<1>1. SubSeq(t, 1, n) \in Seq(Byte) /\ Len(SubSeq(t, 1, n)) = n
  OBVIOUS
<1>2. \A i \in 1 .. n : SubSeq(t, 1, n)[i] = t[i]
  OBVIOUS
<1> DEFINE r == s \o SubSeq(t, 1, n)
<1>3. r \in Seq(Byte) /\ Len(r) = Len(s) + n /\ Len(s) \in Nat
  BY <1>1
<1>4. DOMAIN r = 1 .. Len(s) + n /\ r = [i \in DOMAIN r |-> r[i]]
  BY <1>3
<1>5. ASSUME NEW i \in 1 .. Len(s) + n
      PROVE  r[i] = IF i <= Len(s) THEN s[i] ELSE t[i - Len(s)]
  <2>1. i <= Len(s) => r[i] = s[i]
    BY <1>1, <1>3
  <2>2. ~ (i <= Len(s)) => r[i] = SubSeq(t, 1, n)[i - Len(s)] /\ i - Len(s) \in 1 .. n
    BY <1>1, <1>3
  <2> QED
    BY <1>2, <2>1, <2>2
<1> QED
  BY <1>4, <1>5

(* Both push paths append the bytes they report behind the stored ones.    *)
LEMMA PushRefines ==
  ASSUME IInv, NEW chunk \in Chunk, PushStraight(chunk) \/ PushWrapped(chunk)
  PROVE  Stored' = Stored \o SubSeq(chunk, 1, Pushed(chunk))
<1> DEFINE n == Pushed(chunk)
           w == written_byte_count
<1>1. /\ n \in Nat /\ n <= Len(chunk) /\ n <= RingCapacity - w
      /\ Len(chunk) \in Nat
  BY PushedBounds
<1>2. Stored \o SubSeq(chunk, 1, n)
        = [i \in 1 .. w + n |-> IF i <= w THEN Stored[i] ELSE chunk[i - w]]
  <2>1. chunk \in Seq(Byte) /\ Stored \in Seq(Byte) /\ Len(Stored) = w
    BY StoredIsSeq, ChunkIsSeq
  <2> HIDE DEF n, w
  <2>2. Stored \o SubSeq(chunk, 1, n)
          = [i \in 1 .. Len(Stored) + n |->
               IF i <= Len(Stored) THEN Stored[i] ELSE chunk[i - Len(Stored)]]
    BY <1>1, <2>1, ConcatPrefix
  <2> QED
    BY <2>1, <2>2
<1>3. Stored' = [i \in 1 .. w + n |-> buff'[Wrap(tail_index + i - 1)]]
  BY DEF Stored, Wrap, PushStraight, PushWrapped
<1>4. ASSUME NEW i \in 1 .. w + n
      PROVE  buff'[Wrap(tail_index + i - 1)]
               = IF i <= w THEN Stored[i] ELSE chunk[i - w]
  <2> DEFINE k == Wrap(tail_index + i - 1)
  <2>1. /\ w \in Nat /\ head_index \in Nat /\ tail_index \in Nat
        /\ RingCapacity \in Nat /\ i \in Nat /\ i >= 1 /\ i <= w + n
    BY <1>1, Fields
  <2>2. k \in Slot
    BY <1>1, <2>1, Fields DEF Wrap, Slot
  <2>3. i <= w => Stored[i] = buff[k]
    BY <2>1, StoredIsSeq
  <2>4. CASE PushStraight(chunk)
    <3>1. /\ RingCapacity - head_index >= n
          /\ buff'[k] = IF k >= head_index /\ k < head_index + n
                        THEN chunk[k - head_index + 1] ELSE buff[k]
      BY <2>2, <2>4 DEF PushStraight
    <3>2. CASE i <= w
      <4>1. ~ (k >= head_index /\ k < head_index + n)
        BY <1>1, <2>1, <3>1, <3>2, Fields, Agreement DEF Wrap
      <4>2. QED
        BY <2>3, <3>1, <3>2, <4>1
    <3>3. CASE ~ (i <= w)
      <4>1. /\ k >= head_index /\ k < head_index + n
            /\ k - head_index + 1 = i - w
        BY <1>1, <2>1, <3>1, <3>3, Fields, Agreement DEF Wrap
      <4>2. QED
        BY <3>1, <3>3, <4>1
    <3>4. QED
      BY <3>2, <3>3
  <2>5. CASE PushWrapped(chunk)
    <3> DEFINE first == RingCapacity - head_index
    <3>1. /\ first < n
          /\ buff'[k] = IF k >= head_index THEN chunk[k - head_index + 1]
                        ELSE IF k < n - first THEN chunk[first + k + 1]
                        ELSE buff[k]
      BY <2>2, <2>5 DEF PushWrapped
    <3>2. CASE i <= w
      <4>1. ~ (k >= head_index) /\ ~ (k < n - first)
        BY <1>1, <2>1, <3>1, <3>2, Fields, Agreement DEF Wrap
      <4>2. QED
        BY <2>3, <3>1, <3>2, <4>1
    <3>3. CASE ~ (i <= w)
      <4>1. \/ k >= head_index /\ k - head_index + 1 = i - w
            \/ ~ (k >= head_index) /\ k < n - first /\ first + k + 1 = i - w
        BY <1>1, <2>1, <3>1, <3>3, Fields, Agreement DEF Wrap
      <4>2. QED
        BY <3>1, <3>3, <4>1
    <3>4. QED
      BY <3>2, <3>3
  <2>6. QED
    BY <2>4, <2>5
<1> QED
  BY <1>2, <1>3, <1>4

(* SubSeq written as a function.                                           *)
LEMMA SubSeqAsFunction ==
  ASSUME NEW s \in Seq(Byte), NEW m \in Nat \ {0}, NEW n \in Nat,
         m <= n + 1, n <= Len(s)
  PROVE  SubSeq(s, m, n) = [i \in 1 .. n - m + 1 |-> s[i + m - 1]]
<1> DEFINE r == SubSeq(s, m, n)
<1>1. r \in Seq(Byte) /\ Len(r) = n - m + 1
  OBVIOUS
<1>2. DOMAIN r = 1 .. n - m + 1 /\ r = [i \in DOMAIN r |-> r[i]]
  BY <1>1
<1>3. \A i \in 1 .. n - m + 1 : r[i] = s[i + m - 1]
  OBVIOUS
<1> QED
  BY <1>2, <1>3

(* Both pop paths deliver the oldest bytes stored and drop those.          *)
LEMMA PopRefines ==
  ASSUME IInv, NEW size \in Request, PopStraight(size) \/ PopWrapped(size)
  PROVE  /\ data' = SubSeq(Stored, 1, Popped(size))
         /\ Stored' = SubSeq(Stored, Popped(size) + 1, Len(Stored))
<1> DEFINE n == Popped(size)
           w == written_byte_count
<1>1. n \in Nat /\ n <= w
  BY PoppedBounds
<1>2. /\ w \in Nat /\ head_index \in Nat /\ tail_index \in Nat
      /\ RingCapacity \in Nat /\ tail_index <= RingCapacity /\ w <= RingCapacity
  BY Fields
<1>3. Stored \in Seq(Byte) /\ Len(Stored) = w
  BY StoredIsSeq
<1>4. \A i \in 1 .. w : Stored[i] = buff[Wrap(tail_index + i - 1)]
  BY StoredIsSeq
<1>5. /\ written_byte_count' = w - n
      /\ buff' = buff
      /\ \/ RingCapacity - tail_index >= n /\ tail_index' = tail_index + n
         \/ RingCapacity - tail_index < n /\ tail_index' = n - (RingCapacity - tail_index)
  BY DEF PopStraight, PopWrapped
<1>6. data' = [i \in 1 .. n |-> buff[Wrap(tail_index + i - 1)]]
  <2>1. CASE PopStraight(size)
    <3>1. ASSUME NEW i \in 1 .. n, RingCapacity - tail_index >= n
          PROVE  Wrap(tail_index + i - 1) = tail_index + i - 1
      BY <1>1, <1>2, <3>1 DEF Wrap
    <3>2. QED
      BY <2>1, <3>1 DEF PopStraight
  <2>2. CASE PopWrapped(size)
    <3> DEFINE first == RingCapacity - tail_index
    <3>1. ASSUME NEW i \in 1 .. n
          PROVE  Wrap(tail_index + i - 1)
                   = IF i <= first THEN tail_index + i - 1 ELSE i - first - 1
      BY <1>1, <1>2 DEF Wrap
    <3>2. data' = [i \in 1 .. n |->
                     IF i <= first THEN buff[tail_index + i - 1]
                     ELSE buff[i - first - 1]]
      BY <2>2 DEF PopWrapped
    <3>3. QED
      BY <3>1, <3>2
  <2>3. QED
    BY <2>1, <2>2
<1>7. Stored' = [i \in 1 .. w - n |-> buff[Wrap(tail_index' + i - 1)]]
  BY <1>5 DEF Stored, Wrap
<1> HIDE DEF n, w
<1>8. ASSUME NEW i \in 1 .. w - n
      PROVE  Wrap(tail_index' + i - 1) = Wrap(tail_index + (i + n) - 1)
  <2>1. \/ head_index = tail_index + w
        \/ head_index + RingCapacity = tail_index + w
    BY Agreement DEF w
  <2>2. head_index <= RingCapacity
    BY Fields
  <2>3. CASE RingCapacity - tail_index >= n /\ tail_index' = tail_index + n
    <3>1. tail_index' + i - 1 = tail_index + (i + n) - 1
      BY <1>1, <1>2, <2>3
    <3>2. QED
      BY <3>1
  <2>4. CASE RingCapacity - tail_index < n /\ tail_index' = n - (RingCapacity - tail_index)
    BY <1>1, <1>2, <2>1, <2>2, <2>4 DEF Wrap
  <2>5. QED
    BY <1>5, <2>3, <2>4
<1>9. data' = SubSeq(Stored, 1, n)
  <2>1. SubSeq(Stored, 1, n) = [i \in 1 .. n - 1 + 1 |-> Stored[i + 1 - 1]]
    BY <1>1, <1>2, <1>3, SubSeqAsFunction
  <2>2. ASSUME NEW i \in 1 .. n
        PROVE  Stored[i + 1 - 1] = buff[Wrap(tail_index + i - 1)]
    <3>1. i + 1 - 1 = i /\ i \in 1 .. w
      BY <1>1, <1>2
    <3>2. QED
      BY <1>4, <3>1
  <2>3. 1 .. n - 1 + 1 = 1 .. n
    BY <1>1
  <2>4. QED
    BY <1>6, <2>1, <2>2, <2>3
<1>10. Stored' = SubSeq(Stored, n + 1, Len(Stored))
  <2>1. SubSeq(Stored, n + 1, w)
          = [i \in 1 .. w - (n + 1) + 1 |-> Stored[i + (n + 1) - 1]]
    BY <1>1, <1>2, <1>3, SubSeqAsFunction
  <2>2. ASSUME NEW i \in 1 .. w - n
        PROVE  Stored[i + (n + 1) - 1] = buff[Wrap(tail_index' + i - 1)]
    <3>1. i + (n + 1) - 1 = i + n /\ i + n \in 1 .. w
      BY <1>1, <1>2
    <3>2. QED
      BY <1>4, <1>8, <3>1
  <2>3. 1 .. w - (n + 1) + 1 = 1 .. w - n
    BY <1>1, <1>2
  <2>4. QED
    BY <1>3, <1>7, <2>1, <2>2, <2>3
<1> QED
  BY <1>9, <1>10 DEF n

(* Every step of the ring buffer is a step of the FIFO or leaves it alone. *)
LEMMA StepRefines ==
  ASSUME IInv, [RingNext]_ringVars
  PROVE  [Fifo!Next]_(Fifo!vars)
<1>1. written_byte_count \in Nat /\ Len(Stored) = written_byte_count
  BY Fields, StoredIsSeq
<1>2. ASSUME NEW chunk \in Chunk, PushStraight(chunk) \/ PushWrapped(chunk)
      PROVE  Fifo!Push(chunk)
  <2>1. Stored' = Stored \o SubSeq(chunk, 1, Pushed(chunk))
    BY <1>2, PushRefines
  <2>2. moved' = Pushed(chunk) /\ data' = data
    BY <1>2 DEF PushStraight, PushWrapped
  <2>3. Pushed(chunk) = Fifo!Smaller(Len(chunk), RingCapacity - Len(Stored))
    BY <1>1 DEF Pushed, GetAvailableMemory, Smaller, Fifo!Smaller
  <2>4. QED
    BY <2>1, <2>2, <2>3 DEF Fifo!Push
<1>3. ASSUME NEW size \in Request, PopStraight(size) \/ PopWrapped(size)
      PROVE  Fifo!Pop(size)
  <2>1. /\ data' = SubSeq(Stored, 1, Popped(size))
        /\ Stored' = SubSeq(Stored, Popped(size) + 1, Len(Stored))
    BY <1>3, PopRefines
  <2>2. moved' = Popped(size)
    BY <1>3 DEF PopStraight, PopWrapped
  <2>3. Popped(size) = Fifo!Smaller(size, Len(Stored))
    BY <1>1 DEF Popped, Smaller, Fifo!Smaller
  <2>4. QED
    BY <2>1, <2>2, <2>3 DEF Fifo!Pop
<1>4. ASSUME Reset \/ InitAgain
      PROVE  Fifo!Clear
  <2>1. written_byte_count' = 0
    BY <1>4 DEF Reset, InitAgain
  <2>2. Stored' = << >>
    BY <2>1 DEF Stored
  <2>3. QED
    BY <1>4, <2>2 DEF Reset, InitAgain, Fifo!Clear
<1>5. CASE UNCHANGED ringVars
  BY <1>5 DEF ringVars, Fifo!vars, Stored, Wrap
<1>6. Chunk = Fifo!Chunk /\ Request = Fifo!Request
  BY DEF Chunk, Request, Fifo!Chunk, Fifo!Request
<1> QED
  BY <1>2, <1>3, <1>4, <1>5, <1>6 DEF RingNext, Fifo!Next

(* The ring buffer implements the byte FIFO, for every capacity, every     *)
(* alphabet of bytes and every bound on the size of a request.             *)
THEOREM FifoRefinement == RingSpec => ImplementsFifo
<1>1. RingInit => Fifo!Init
  <2> SUFFICES ASSUME RingInit PROVE Fifo!Init
    OBVIOUS
  <2>1. Stored = << >>
    BY DEF RingInit, Stored
  <2>2. QED
    BY <2>1 DEF RingInit, Fifo!Init
<1>2. IInv /\ [RingNext]_ringVars => [Fifo!Next]_(Fifo!vars)
  BY StepRefines
<1> QED
  BY <1>1, <1>2, Invariance, PTL DEF RingSpec, ImplementsFifo, Fifo!Spec
=============================================================================
