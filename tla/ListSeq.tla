------------------------------ MODULE ListSeq ------------------------------
(***************************************************************************)
(* What a set of linked lists promises its users: every list is a sequence *)
(* of items, an item is on at most one list at a time and at most once, an *)
(* insertion puts one unlisted item at one position of one list, a removal *)
(* takes one listed item out, and nothing else ever moves.                 *)
(*                                                                         *)
(* The allocator, the queue, the worker list and the message queues of the *)
(* framework are modelled over sequences.  LinkedList implements this      *)
(* module, which is what entitles them to.                                 *)
(***************************************************************************)
EXTENDS Naturals, Sequences, SequencesExt

CONSTANTS Heads, Items

VARIABLE lists

OnList(n) == \E h \in Heads : n \in Range(lists[h])

Init == lists = [h \in Heads |-> << >>]

PutIn(h, i, n) ==
  /\ ~ OnList(n)
  /\ lists' = [lists EXCEPT ![h] = InsertAt(@, i, n)]

TakeOut(h, i) == lists' = [lists EXCEPT ![h] = RemoveAt(@, i)]

Next ==
  \E h \in Heads :
    \/ \E i \in 1 .. Len(lists[h]) + 1, n \in Items : PutIn(h, i, n)
    \/ \E i \in 1 .. Len(lists[h]) : TakeOut(h, i)

Spec == Init /\ [][Next]_lists
=============================================================================
