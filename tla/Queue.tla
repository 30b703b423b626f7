------------------------------- MODULE Queue -------------------------------
(***************************************************************************)
(* utilities/queue: queues whose items live in a caller-supplied buffer.   *)
(* An item is two blocks of the queue's own memory list, the item header   *)
(* and the data; every queue draws block headers from the pool of          *)
(* StaticAlloc, so queues interfere through it.                            *)
(***************************************************************************)
EXTENDS Integers, Sequences, SequencesExt, FiniteSetsExt

CONSTANTS
  Queues,          \* the queues of the program
  BuffSize,        \* the size of every queue's buffer
  NumOfMemBlock,   \* CONFIG_NUM_OF_MEM_BLOCK
  ItemSize,        \* sizeof(ezQueueItem)
  MaxDataSize,     \* the largest data_size a caller asks for
  Payload,         \* what callers store
  Zeroed           \* a byte cleared by memset

ASSUME MemoryAssumption == BuffSize \in Nat \ {0} /\ NumOfMemBlock \in Nat \ {0}
ASSUME ItemAssumption == ItemSize \in Nat \ {0} /\ MaxDataSize \in Nat \ {0}
ASSUME ZeroedAssumption == Zeroed \notin Payload

VARIABLES
  ready, free_list, alloc_list, used,   \* the memory lists: see StaticAlloc
  buff,           \* buff[q]: the bytes of q's buffer, as far as data is concerned
  q_item_list,    \* q_item_list[q]: the items linked in q
  reserved        \* reserved[q]: the items callers have reserved and still hold

memory == <<ready, free_list, alloc_list, used>>
vars == <<memory, buff, q_item_list, reserved>>

Mem == INSTANCE StaticAlloc WITH MemLists <- Queues

Address == 0 .. BuffSize - 1
Item == [addr : Address, data : Address, data_size : 1 .. MaxDataSize]

Init ==
  /\ Mem!Init
  /\ buff = [q \in Queues |-> [a \in Address |-> Zeroed]]
  /\ q_item_list = [q \in Queues |-> << >>]
  /\ reserved = [q \in Queues |-> {}]

-----------------------------------------------------------------------------
(* Faulty variants of the definitions below, one plausible slip each.      *)

DataFailureKeepsItem(m, n) ==
  IF Mem!Fits(m, ItemSize) = {} THEN m ELSE Mem!Reserved(m, ItemSize)

SizeCountsItem(m, n) ==
  LET m1 == Mem!Reserved(m, ItemSize)
      m2 == Mem!Reserved(m1, n)
  IN  [memory |-> m2,
       element |-> [addr |-> Last(m1.alloc).buff, data |-> Last(m2.alloc).buff,
                    data_size |-> n + ItemSize]]

StoredShifted(q, addr, size, b) ==
  [a \in Address |-> IF a \in addr - 1 .. addr + size - 2 THEN b ELSE buff[q][a]]

-----------------------------------------------------------------------------
AddressOf(m) == Last(m.alloc).buff

(* The memory after ReserveElement could not get n bytes for the data: the *)
(* item block it did get, if any, is freed again.                          *)
Refused(m, n) ==
  IF Mem!Fits(m, ItemSize) = {} THEN m
  ELSE LET m1 == Mem!Reserved(m, ItemSize) IN Mem!Released(m1, AddressOf(m1))

CanReserve(m, n) ==
  /\ Mem!Fits(m, ItemSize) # {}
  /\ Mem!Fits(Mem!Reserved(m, ItemSize), n) # {}

(* The memory and the element of a successful ReserveElement.              *)
Taken(m, n) ==
  LET m1 == Mem!Reserved(m, ItemSize)
      m2 == Mem!Reserved(m1, n)
  IN  [memory |-> m2,
       element |-> [addr |-> AddressOf(m1), data |-> AddressOf(m2), data_size |-> n]]

(* Both blocks of an item are freed, the data first.                       *)
Freed(m, e) == Mem!Released(Mem!Released(m, e.data), e.addr)

(* Bytes addr .. addr + size - 1 of q's buffer set to b.                   *)
Stored(q, addr, size, b) ==
  [a \in Address |-> IF a \in addr .. addr + size - 1 THEN b ELSE buff[q][a]]

Cleared(q, e) ==
  [a \in Address |->
     IF a \in e.addr .. e.addr + ItemSize - 1 THEN Zeroed
     ELSE Stored(q, e.data, e.data_size, Zeroed)[a]]

-----------------------------------------------------------------------------
CreateQueue(q) ==
  /\ Mem!InitMemList(q)
  /\ buff' = [buff EXCEPT ![q] = [a \in Address |-> Zeroed]]
  /\ q_item_list' = [q_item_list EXCEPT ![q] = << >>]
  /\ reserved' = [reserved EXCEPT ![q] = {}]

(* The element is only reserved: it is not in the queue.                   *)
ReserveElement(q, n) ==
  /\ q \in ready
  /\ CanReserve(Mem!Memory(q), n)
  /\ LET t == Taken(Mem!Memory(q), n)
     IN  /\ Mem!Becomes(q, t.memory)
         /\ reserved' = [reserved EXCEPT ![q] = @ \cup {t.element}]
  /\ UNCHANGED <<ready, buff, q_item_list>>

(* A failing ReserveElement, or Push, may still rearrange the free list.   *)
ReserveFails(q, n) ==
  /\ q \in ready
  /\ ~ CanReserve(Mem!Memory(q), n)
  /\ Mem!Becomes(q, Refused(Mem!Memory(q), n))
  /\ UNCHANGED <<ready, buff, q_item_list, reserved>>

(* The caller has stored p through the data pointer it was given.          *)
PushReservedElement(q, e, p) ==
  /\ buff' = [buff EXCEPT ![q] = Stored(q, e.data, e.data_size, p)]
  /\ q_item_list' = [q_item_list EXCEPT ![q] = Append(@, e)]
  /\ reserved' = [reserved EXCEPT ![q] = @ \ {e}]
  /\ UNCHANGED memory

ReleaseReservedElement(q, e) ==
  /\ Mem!Becomes(q, Freed(Mem!Memory(q), e))
  /\ buff' = [buff EXCEPT ![q] = Cleared(q, e)]
  /\ reserved' = [reserved EXCEPT ![q] = @ \ {e}]
  /\ UNCHANGED <<ready, q_item_list>>

Push(q, p, n) ==
  /\ q \in ready
  /\ CanReserve(Mem!Memory(q), n)
  /\ LET t == Taken(Mem!Memory(q), n)
     IN  /\ Mem!Becomes(q, t.memory)
         /\ buff' = [buff EXCEPT ![q] = Stored(q, t.element.data, n, p)]
         /\ q_item_list' = [q_item_list EXCEPT ![q] = Append(@, t.element)]
  /\ UNCHANGED <<ready, reserved>>

(* Popping frees both blocks of the item it unlinks.                       *)
Pop(q, e, rest) ==
  /\ Mem!Becomes(q, Freed(Mem!Memory(q), e))
  /\ buff' = [buff EXCEPT ![q] = Cleared(q, e)]
  /\ q_item_list' = [q_item_list EXCEPT ![q] = rest]
  /\ UNCHANGED <<ready, reserved>>

(* A faulty variant of PopFront: it unlinks the wrong end.                 *)
PopFrontUnlinksBack(q) ==
  q_item_list[q] # << >> /\ Pop(q, Head(q_item_list[q]), Front(q_item_list[q]))

PopFront(q) ==
  q_item_list[q] # << >> /\ Pop(q, Head(q_item_list[q]), Tail(q_item_list[q]))

PopBack(q) ==
  q_item_list[q] # << >> /\ Pop(q, Last(q_item_list[q]), Front(q_item_list[q]))

(* GetFront and GetBack hand out a pointer into the buffer: what a caller  *)
(* reads through it.                                                       *)
DataOf(q, e) == buff[q][e.data]

Next ==
  \E q \in Queues :
    \/ CreateQueue(q)
    \/ \E n \in 1 .. MaxDataSize : ReserveElement(q, n) \/ ReserveFails(q, n)
    \/ \E e \in reserved[q] :
         \/ ReleaseReservedElement(q, e)
         \/ \E p \in Payload : PushReservedElement(q, e, p)
    \/ \E n \in 1 .. MaxDataSize, p \in Payload : Push(q, p, n)
    \/ PopFront(q)
    \/ PopBack(q)

Spec == Init /\ [][Next]_vars

-----------------------------------------------------------------------------
Items(q) == ToSet(q_item_list[q]) \cup reserved[q]

BlocksOf(e) ==
  {[buff |-> e.addr, buff_size |-> ItemSize], [buff |-> e.data, buff_size |-> e.data_size]}

(* The memory lists are well typed; items point into the buffer.           *)
TypeOK ==
  /\ Mem!TypeOK
  /\ buff \in [Queues -> [Address -> Payload \cup {Zeroed}]]
  /\ q_item_list \in [Queues -> Seq(Item)]
  /\ reserved \in [Queues -> SUBSET Item]

(* The allocated blocks of a queue are exactly the two blocks of each item *)
(* that is linked or held by a caller: nothing leaks when a reservation    *)
(* fails half way or an item leaves the queue, and no live item has lost a *)
(* block.                                                                  *)
ItemsOwnTheirBlocks ==
  \A q \in Queues :
    /\ ToSet(Mem!Memory(q).alloc) = UNION {BlocksOf(e) : e \in Items(q)}
    /\ Len(alloc_list[q]) = 2 * (Len(q_item_list[q]) + Cardinality(reserved[q]))

(* Nothing writes into the data of a linked item: every byte is still the  *)
(* payload that was pushed, whatever is reserved, pushed or freed around it.*)
PayloadIntact ==
  \A q \in Queues : \A e \in ToSet(q_item_list[q]) :
    \E p \in Payload : \A a \in e.data .. e.data + e.data_size - 1 : buff[q][a] = p

(* The payloads read through GetFront and GetBack behave as the abstract   *)
(* queue: first in first out, or last out from the back, none changed.     *)
Deque == INSTANCE Deque WITH
           elements <- [q \in Queues |->
                          [i \in DOMAIN q_item_list[q] |-> DataOf(q, q_item_list[q][i])]],
           pending <- [q \in Queues |-> Cardinality(reserved[q])]

ImplementsDeque == Deque!Spec
=============================================================================
