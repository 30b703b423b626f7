------------------------------ MODULE ByteFifo ------------------------------
(***************************************************************************)
(* What a ring buffer of Capacity bytes promises: bytes come out once, in  *)
(* the order they went in, a push takes what fits and reports how much, a  *)
(* pop gives what there is up to what was asked.                           *)
(***************************************************************************)
EXTENDS Naturals, Sequences

CONSTANTS Byte, Capacity, MaxRequest

VARIABLES
  fifo,    \* the bytes stored, oldest first
  count,   \* the number of bytes the last push or pop reported
  data     \* the bytes the last pop delivered

vars == <<fifo, count, data>>

Request == 0 .. MaxRequest
Chunk == UNION {[1 .. n -> Byte] : n \in Request}

Smaller(a, b) == IF a <= b THEN a ELSE b

Init == fifo = << >> /\ count = 0 /\ data = << >>

Push(chunk) ==
  LET n == Smaller(Len(chunk), Capacity - Len(fifo))
  IN  /\ fifo' = fifo \o SubSeq(chunk, 1, n)
      /\ count' = n
      /\ data' = data

Pop(size) ==
  LET n == Smaller(size, Len(fifo))
  IN  /\ data' = SubSeq(fifo, 1, n)
      /\ fifo' = SubSeq(fifo, n + 1, Len(fifo))
      /\ count' = n

Clear == fifo' = << >> /\ UNCHANGED <<count, data>>

Next ==
  \/ \E chunk \in Chunk : Push(chunk)
  \/ \E size \in Request : Pop(size)
  \/ Clear

Spec == Init /\ [][Next]_vars
=============================================================================
