---------------------------- MODULE StaticAlloc ----------------------------
(***************************************************************************)
(* utilities/static_alloc: malloc and free over caller-supplied buffers.   *)
(* Every memory list keeps its free and its allocated blocks on a linked   *)
(* list (here a sequence, see ListSeq); the block headers of all memory    *)
(* lists come from one global pool of CONFIG_NUM_OF_MEM_BLOCK headers.     *)
(***************************************************************************)
EXTENDS Integers, Sequences, FiniteSets, SequencesExt, FiniteSetsExt

CONSTANTS
  MemLists,        \* the memory lists of the program
  BuffSize,        \* the size of every list's buffer
  NumOfMemBlock    \* CONFIG_NUM_OF_MEM_BLOCK

ASSUME SizeAssumption == BuffSize \in Nat \ {0}
ASSUME PoolAssumption == NumOfMemBlock \in Nat \ {0}

VARIABLES
  ready,        \* the lists on which InitMemList has been called
  free_list,    \* free_list[l]: the blocks on free_list_head, in list order
  alloc_list,   \* alloc_list[l]: the blocks on alloc_list_head
  used          \* how many headers of block_pool have a non-NULL buff

vars == <<ready, free_list, alloc_list, used>>

(* A header: where the block starts in the buffer, and its size.           *)
Block == [buff : 0 .. BuffSize - 1, buff_size : 1 .. BuffSize]
EndOf(b) == b.buff + b.buff_size

Init ==
  /\ ready = {}
  /\ free_list = [l \in MemLists |-> << >>]
  /\ alloc_list = [l \in MemLists |-> << >>]
  /\ used = 0

FreeHeader(m) == m.used < NumOfMemBlock

-----------------------------------------------------------------------------
(* Faulty variants of the definitions below, one plausible slip each.      *)

RemainderKeepsStart(b, n) == [buff |-> b.buff, buff_size |-> b.buff_size - n]

MergeKeepsHeaders(blocks) == 0

MergeOverGaps(blocks) ==
  {k \in 1 .. Len(blocks) : \A j \in 1 .. k - 1 : EndOf(blocks[j]) <= blocks[j + 1].buff}

SplitLosesRest(m, b, n) == FALSE

SplitsExactFit(m, b, n) == b.buff_size >= n /\ FreeHeader(m)

-----------------------------------------------------------------------------
(* Reserving: first fit in list order.  m is the memory one list works on: *)
(* its two lists and the state of the header pool.                         *)

Fits(m, n) == {i \in DOMAIN m.free : m.free[i].buff_size >= n}

Remainder(b, n) == [buff |-> b.buff + n, buff_size |-> b.buff_size - n]

(* The rest of a larger block gets a header of its own if the pool has one.*)
Splits(m, b, n) == b.buff_size > n /\ FreeHeader(m)

(* The block found moves to the end of the allocated list.                 *)
Reserved(m, n) ==
  LET i == Min(Fits(m, n))
      b == m.free[i]
      rest == IF Splits(m, b, n) THEN <<Remainder(b, n)>> ELSE << >>
  IN  [free  |-> RemoveAt(m.free, i) \o rest,
       alloc |-> Append(m.alloc, [b EXCEPT !.buff_size = n]),
       used  |-> m.used + Len(rest)]

(* Freeing: where the header goes, and the merge loop.                     *)

(* Only the first element of a non-empty free list is ever compared with.  *)
ReturnHeaderToFreeList(blocks, b) ==
  IF blocks = << >> \/ b.buff < Head(blocks).buff
  THEN <<b>> \o blocks
  ELSE <<Head(blocks), b>> \o Tail(blocks)

(* The loop absorbs the blocks 2 .. k that follow the first one in memory. *)
Absorbable(blocks) ==
  {k \in 1 .. Len(blocks) : \A j \in 1 .. k - 1 : EndOf(blocks[j]) = blocks[j + 1].buff}

Merge(blocks) ==
  LET k == Max(Absorbable(blocks))
  IN  <<[buff |-> blocks[1].buff, buff_size |-> EndOf(blocks[k]) - blocks[1].buff]>>
        \o SubSeq(blocks, k + 1, Len(blocks))

HeadersReleased(blocks) == Max(Absorbable(blocks)) - 1

(* The allocated blocks that start at an address.                          *)
BlocksAt(m, addr) == {i \in DOMAIN m.alloc : m.alloc[i].buff = addr}

Released(m, addr) ==
  LET i == Min(BlocksAt(m, addr))
      returned == ReturnHeaderToFreeList(m.free, m.alloc[i])
  IN  [free  |-> Merge(returned),
       alloc |-> RemoveAt(m.alloc, i),
       used  |-> m.used - HeadersReleased(returned)]

(* A list just initialised.  On a list that was in use the old headers     *)
(* stay taken: nothing releases them.  Without a free header it is empty.  *)
Initialised(m) ==
  [free  |-> IF FreeHeader(m) THEN <<[buff |-> 0, buff_size |-> BuffSize]>> ELSE << >>,
   alloc |-> << >>,
   used  |-> IF FreeHeader(m) THEN m.used + 1 ELSE m.used]

-----------------------------------------------------------------------------
(* The operations.                                                         *)

Memory(l) == [free |-> free_list[l], alloc |-> alloc_list[l], used |-> used]

Becomes(l, m) ==
  /\ free_list' = [free_list EXCEPT ![l] = m.free]
  /\ alloc_list' = [alloc_list EXCEPT ![l] = m.alloc]
  /\ used' = m.used

InitMemList(l) ==
  /\ ready' = ready \cup {l}
  /\ Becomes(l, Initialised(Memory(l)))

Malloc(l, n) ==
  /\ l \in ready
  /\ Fits(Memory(l), n) # {}
  /\ Becomes(l, Reserved(Memory(l), n))
  /\ UNCHANGED ready

Free(l, addr) ==
  /\ l \in ready
  /\ BlocksAt(Memory(l), addr) # {}
  /\ Becomes(l, Released(Memory(l), addr))
  /\ UNCHANGED ready

Next ==
  \E l \in MemLists :
    \/ InitMemList(l)
    \/ \E n \in 1 .. BuffSize : Malloc(l, n)
    \/ \E addr \in 0 .. BuffSize - 1 : Free(l, addr)

Spec == Init /\ [][Next]_vars

-----------------------------------------------------------------------------
Blocks(l) == ToSet(free_list[l]) \cup ToSet(alloc_list[l])
Covered(l) == UNION {b.buff .. EndOf(b) - 1 : b \in Blocks(l)}

(* The headers on the lists, each known by the place it has on its list.   *)
Places(l, list, n) == {<<l, list, i>> : i \in 1 .. n}

Headers(l) ==
  Places(l, "free", Len(free_list[l])) \cup Places(l, "alloc", Len(alloc_list[l]))

OnLists == UNION {Headers(l) : l \in MemLists}

(* Taken headers of the pool that are on no list of the program.           *)
Leaked == used - Cardinality(OnLists)

(* The lists hold blocks, and the pool never gives more than it has.       *)
TypeOK ==
  /\ ready \subseteq MemLists
  /\ free_list \in [MemLists -> Seq(Block)]
  /\ alloc_list \in [MemLists -> Seq(Block)]
  /\ used \in 0 .. NumOfMemBlock

(* No byte of a buffer is in two blocks of its list, free or allocated: a  *)
(* caller never shares memory with another one, nor with the free list.    *)
BlocksDisjoint ==
  \A l \in MemLists :
    LET blocks == free_list[l] \o alloc_list[l]
    IN  \A i, j \in DOMAIN blocks :
          i < j => \/ EndOf(blocks[i]) <= blocks[j].buff
                   \/ EndOf(blocks[j]) <= blocks[i].buff

(* The header pool is shared by all lists.  Malloc and Free keep every     *)
(* taken header on a list; only initialising a list leaks headers, those   *)
(* the list had before.                                                    *)
OnlyInitLeaksHeaders ==
  [][Leaked' # Leaked => \E l \in MemLists : InitMemList(l)]_vars

(* Bytes drop out of both lists only while the pool is exhausted: when a   *)
(* larger block cannot be split, its tail belongs to nobody afterwards.    *)
BytesLostOnlyWithoutHeaders ==
  [][\A l \in MemLists : Covered(l) \ Covered(l)' # {} => ~ FreeHeader(Memory(l))]_vars

(* Every memory list is an allocator over its own buffer, whatever happens *)
(* on the other lists that share the header pool with it.                  *)
Heap == INSTANCE Heap WITH
          Buffers <- MemLists,
          Size <- BuffSize,
          free <- [l \in MemLists |-> ToSet(free_list[l])],
          alloc <- [l \in MemLists |-> ToSet(alloc_list[l])]

ImplementsHeap == Heap!Spec

(* The documentation says that freeing merges adjacent free blocks, and a  *)
(* test expects one free block after everything was freed.  The merge loop *)
(* only ever starts at the first block of a list that is not sorted.       *)
AllFreedIsOneBlock ==
  \A l \in ready :
    alloc_list[l] = << >> /\ Covered(l) = 0 .. BuffSize - 1
      => Len(free_list[l]) = 1
=============================================================================
