-------------------------------- MODULE Heap --------------------------------
(***************************************************************************)
(* What an allocator over some buffers promises: blocks are handed out of  *)
(* the free memory of one buffer, come back, and may be merged when they   *)
(* are contiguous.  No byte ever belongs to two blocks, and no operation   *)
(* on one buffer touches another.  The order in which free blocks are      *)
(* tried, and how eagerly they are merged, is left open.                   *)
(***************************************************************************)
EXTENDS Integers

CONSTANTS
  Buffers,     \* the buffers under management
  Size         \* the size of each, a positive number

VARIABLES free, alloc     \* the sets of free and of allocated blocks, per buffer

vars == <<free, alloc>>

Block == [buff : 0 .. Size - 1, buff_size : 1 .. Size]
Bytes(b) == b.buff .. b.buff + b.buff_size - 1
Whole == [buff |-> 0, buff_size |-> Size]

Init == free = [l \in Buffers |-> {}] /\ alloc = [l \in Buffers |-> {}]

(* (Re)initialisation, which may find no header for the whole buffer.      *)
Start(l) ==
  /\ \E blocks \in {{Whole}, {}} : free' = [free EXCEPT ![l] = blocks]
  /\ alloc' = [alloc EXCEPT ![l] = {}]

(* The rest of the block is free again, or lost when no header is left.    *)
Allocate(l, b, n) ==
  LET taken == [buff |-> b.buff, buff_size |-> n]
      rest == [buff |-> b.buff + n, buff_size |-> b.buff_size - n]
  IN  /\ n <= b.buff_size
      /\ alloc' = [alloc EXCEPT ![l] = @ \cup {taken}]
      /\ \/ free' = [free EXCEPT ![l] = @ \ {b}]
         \/ n < b.buff_size /\ free' = [free EXCEPT ![l] = (@ \ {b}) \cup {rest}]

(* Some free blocks that together make up one interval become one.         *)
Release(l, b) ==
  /\ alloc' = [alloc EXCEPT ![l] = @ \ {b}]
  /\ \E part \in SUBSET (free[l] \cup {b}), whole \in Block :
       /\ Bytes(whole) = UNION {Bytes(c) : c \in part}
       /\ free' = [free EXCEPT ![l] = ((@ \cup {b}) \ part) \cup {whole}]

Next ==
  \E l \in Buffers :
    \/ Start(l)
    \/ \E b \in free[l], n \in 1 .. Size : Allocate(l, b, n)
    \/ \E b \in alloc[l] : Release(l, b)

Spec == Init /\ [][Next]_vars

-----------------------------------------------------------------------------
TypeOK == free \in [Buffers -> SUBSET Block] /\ alloc \in [Buffers -> SUBSET Block]

(* No byte belongs to two blocks, no block is both free and in use, and    *)
(* every block lies inside its buffer.                                     *)
Disjoint(blocks) ==
  \A b, c \in blocks : b # c => Bytes(b) \cap Bytes(c) = {}

NoOverlap ==
  \A l \in Buffers :
    /\ free[l] \cap alloc[l] = {}
    /\ Disjoint(free[l] \cup alloc[l])
    /\ \A b \in free[l] \cup alloc[l] : Bytes(b) \subseteq 0 .. Size - 1
=============================================================================
