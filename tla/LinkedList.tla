----------------------------- MODULE LinkedList -----------------------------
(***************************************************************************)
(* The circular doubly linked list of utilities/linked_list: nodes that    *)
(* embed a next and a prev pointer, list heads that are nodes themselves,  *)
(* and the pointer surgery of AppendNode and of the UNLINK_NODE macro.     *)
(*                                                                         *)
(* A head is a sentinel: every list of the framework has one and it is     *)
(* never unlinked.  Callers append only nodes that are on no list (the     *)
(* code does not check it); an unlinked node points to itself.             *)
(***************************************************************************)
EXTENDS Naturals, Sequences, FiniteSets

CONSTANTS
  Heads,   \* the list heads, initialised by ezLinkedList_InitNode
  Items    \* the nodes embedded in blocks, queue items, listeners, drivers

ASSUME HeadsAreNoItems == Heads \cap Items = {}
ASSUME NodesAreFinite == IsFiniteSet(Heads \cup Items)

VARIABLES next, prev

listVars == <<next, prev>>

Node == Heads \cup Items

ListInit == next = [n \in Node |-> n] /\ prev = [n \in Node |-> n]

Detached(n) == next[n] = n

-----------------------------------------------------------------------------
(* Faulty variants of the definitions below, one plausible slip each.      *)

LinkForgetsOldNeighbour(new_node, node) ==
  /\ next' = [next EXCEPT ![new_node] = next[node], ![node] = new_node]
  /\ prev' = [prev EXCEPT ![new_node] = node]

UnlinkForgetsPredecessor(node) ==
  /\ next' = [next EXCEPT ![node] = node]
  /\ prev' = [prev EXCEPT ![next[node]] = prev[node], ![node] = node]

UnlinkClearsToNull(node) ==
  /\ next' = [next EXCEPT ![prev[node]] = next[node], ![node] = "NULL"]
  /\ prev' = [prev EXCEPT ![next[node]] = prev[node], ![node] = "NULL"]

-----------------------------------------------------------------------------
(* The pointer writes of ezLinkedList_AppendNode(new_node, node).          *)
Link(new_node, node) ==
  /\ next' = [next EXCEPT ![new_node] = next[node], ![node] = new_node]
  /\ prev' = [prev EXCEPT ![new_node] = node, ![next[node]] = new_node]

(* The writes of EZ_LINKEDLIST_UNLINK_NODE(node), InitNode included.       *)
Unlink(node) ==
  /\ next' = [next EXCEPT ![prev[node]] = next[node], ![node] = node]
  /\ prev' = [prev EXCEPT ![next[node]] = prev[node], ![node] = node]

-----------------------------------------------------------------------------
(* The operations.  A node argument is a head or an item on some list.     *)

Listed(node) == node \in Heads \/ ~ Detached(node)

AppendNode(new_node, node) ==
  /\ Detached(new_node)
  /\ Listed(node)
  /\ Link(new_node, node)

(* EZ_LINKEDLIST_ADD_HEAD appends after head->next, which is the first     *)
(* item of a list that has one: the new node becomes the second.           *)
AddHead(new_node, head) ==
  /\ Detached(new_node)
  /\ Link(new_node, next[head])

AddTail(new_node, head) ==
  /\ Detached(new_node)
  /\ Link(new_node, prev[head])

InsertNewHead(current_head, new_node) ==
  /\ Detached(new_node)
  /\ Listed(current_head)
  /\ Link(new_node, prev[current_head])

UnlinkCurrentHead(head) ==
  /\ next[head] # head
  /\ Unlink(head)

ListNext ==
  \/ \E n \in Items, m \in Node : AppendNode(n, m) \/ InsertNewHead(m, n)
  \/ \E n \in Items, h \in Heads : AddHead(n, h) \/ AddTail(n, h)
  \/ \E n \in Items : UnlinkCurrentHead(n) \/ (~ Detached(n) /\ Unlink(n))

ListSpec == ListInit /\ [][ListNext]_listVars

-----------------------------------------------------------------------------
(* The nodes EZ_LINKEDLIST_FOR_EACH(node, head) visits, in order.          *)
ForEach(head) ==
  LET size == Cardinality(Node)
      at[k \in 0 .. size] == IF k = 0 THEN next[head] ELSE next[at[k - 1]]
      stops == {k \in 0 .. size : at[k] = head}
  IN  IF Detached(head) \/ stops = {} THEN << >>
      ELSE LET len == CHOOSE k \in stops : \A j \in stops : k <= j
           IN  [k \in 1 .. len |-> at[k - 1]]

GetListSize(head) == Len(ForEach(head))

IsNodeInList(head, searched_node) ==
  \/ head = searched_node
  \/ \E k \in DOMAIN ForEach(head) : ForEach(head)[k] = searched_node

-----------------------------------------------------------------------------
(* Every pointer points to a node of the program.                          *)
ListTypeOK == next \in [Node -> Node] /\ prev \in [Node -> Node]

(* The invariant every traversal, insertion and unlink of the code relies  *)
(* on: next and prev are inverse to each other at every node, whatever     *)
(* list or no list the node is on.                                         *)
WellLinked ==
  \A n \in Node : prev[next[n]] = n /\ next[prev[n]] = n

(* IsNodeInList tells the truth for every head: a node that is not         *)
(* detached is found from exactly one head, a detached one from none.      *)
ListsPartitionNodes ==
  \A n \in Items :
    Cardinality({h \in Heads : IsNodeInList(h, n)}) = IF Detached(n) THEN 0 ELSE 1

(* Every pointer operation inserts one node at one place of one list, or   *)
(* takes one out, or changes nothing: no operation loses, repeats or       *)
(* reorders the nodes of its own list, or touches another list.  A list    *)
(* read through next pointers is the sequence of ListSeq.                  *)
Lists == INSTANCE ListSeq WITH lists <- [h \in Heads |-> ForEach(h)]

ImplementsListSeq == Lists!Spec
=============================================================================
