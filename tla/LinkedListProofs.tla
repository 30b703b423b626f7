-------------------------- MODULE LinkedListProofs --------------------------
(***************************************************************************)
(* For any number of heads and items, whatever sequence of insertions and  *)
(* unlinks the callers make: next and prev stay inverse to each other, the *)
(* traversals partition the linked nodes, and the lists they read change   *)
(* as the sequences of ListSeq do.                                         *)
(***************************************************************************)
EXTENDS LinkedList, SequenceTheorems, FiniteSetTheorems, WellFoundedInduction, TLAPS

(* The inductive invariant: WellLinked is inductive once typed.            *)
IInv == ListTypeOK /\ WellLinked

(* AppendNode of a detached node keeps the pointers typed and inverse.     *)
LEMMA LinkPreserves ==
  ASSUME IInv, NEW n \in Node, NEW m \in Node, Detached(n), n # m, Link(n, m)
  PROVE  IInv'
  BY DEF IInv, ListTypeOK, WellLinked, Detached, Link

(* UNLINK_NODE keeps them typed and inverse, on any node, listed or not.   *)
LEMMA UnlinkPreserves ==
  ASSUME IInv, NEW n \in Node, Unlink(n)
  PROVE  IInv'
  BY DEF IInv, ListTypeOK, WellLinked, Unlink

(* An item that is detached is neither the first nor the last node of any  *)
(* list, so ADD_HEAD and ADD_TAIL never link a node behind itself.         *)
LEMMA NeighbourOfHead ==
  ASSUME IInv, NEW n \in Items, NEW h \in Heads, Detached(n)
  PROVE  next[h] \in Node \ {n} /\ prev[h] \in Node \ {n}
  BY HeadsAreNoItems DEF IInv, ListTypeOK, WellLinked, Detached, Node

(* The same for a node behind which InsertNewHead inserts.                 *)
LEMMA PredecessorOfListed ==
  ASSUME IInv, NEW n \in Items, NEW c \in Node, Detached(n), Listed(c)
  PROVE  prev[c] \in Node \ {n}
  BY HeadsAreNoItems DEF IInv, ListTypeOK, WellLinked, Detached, Listed, Node

(* Every operation of the list preserves the invariant.                    *)
LEMMA NextPreserves ==
  ASSUME IInv, [ListNext]_listVars
  PROVE  IInv'
<1>0. Items \subseteq Node /\ Heads \subseteq Node
  BY DEF Node
<1>1. ASSUME NEW n \in Items, NEW m \in Node, AppendNode(n, m)
      PROVE  IInv'
  <2>1. n # m
    BY <1>1, HeadsAreNoItems DEF AppendNode, Listed
  <2>2. QED
    BY <1>0, <1>1, <2>1, LinkPreserves DEF AppendNode
<1>2. ASSUME NEW n \in Items, NEW c \in Node, InsertNewHead(c, n)
      PROVE  IInv'
  <2>1. prev[c] \in Node \ {n}
    BY <1>2, PredecessorOfListed DEF InsertNewHead
  <2>2. QED
    BY <1>0, <1>2, <2>1, LinkPreserves DEF InsertNewHead
<1>3. ASSUME NEW n \in Items, NEW h \in Heads, AddHead(n, h)
      PROVE  IInv'
  BY <1>0, <1>3, NeighbourOfHead, LinkPreserves DEF AddHead
<1>4. ASSUME NEW n \in Items, NEW h \in Heads, AddTail(n, h)
      PROVE  IInv'
  BY <1>0, <1>4, NeighbourOfHead, LinkPreserves DEF AddTail
<1>5. ASSUME NEW n \in Items, UnlinkCurrentHead(n)
      PROVE  IInv'
  BY <1>0, <1>5, UnlinkPreserves DEF UnlinkCurrentHead
<1>6. ASSUME NEW n \in Items, Unlink(n)
      PROVE  IInv'
  BY <1>0, <1>6, UnlinkPreserves
<1>7. CASE UNCHANGED listVars
  BY <1>7 DEF listVars, IInv, ListTypeOK, WellLinked
<1> QED
  BY <1>1, <1>2, <1>3, <1>4, <1>5, <1>6, <1>7 DEF ListNext

(* Types and WellLinked are kept, for every set of heads and items.        *)
THEOREM Invariance == ListSpec => []IInv
<1>1. ListInit => IInv
  BY DEF ListInit, IInv, ListTypeOK, WellLinked
<1>2. IInv /\ [ListNext]_listVars => IInv'
  BY NextPreserves
<1> QED
  BY <1>1, <1>2, PTL DEF ListSpec

(* Pointers never leave the nodes of the program.                          *)
THEOREM TypeCorrect == ListSpec => []ListTypeOK
  BY Invariance, PTL DEF IInv

(* next and prev are inverse in every reachable state: a forward and a     *)
(* backward traversal see the same ring.                                   *)
THEOREM AlwaysWellLinked == ListSpec => []WellLinked
  BY Invariance, PTL DEF IInv

-----------------------------------------------------------------------------
(* The traversal.  Walks by next pointers exist and are unique, which is   *)
(* shown with the smallest number of steps for which that would fail.      *)

LEMMA Smallest ==
  ASSUME NEW T \in SUBSET Nat, T # {}
  PROVE  \E x \in T : \A y \in T : x <= y
  <1>1. PICK x \in T : \A y \in T : ~ (<<y, x>> \in OpToRel(<, Nat))
    BY NatLessThanWellFounded, WFMin
  <1>2. \A y \in T : ~ (y < x)
    BY <1>1 DEF OpToRel
  <1> QED
    BY <1>2

IsWalk(at, nx, h, m) ==
  at = [k \in 0 .. m |-> IF k = 0 THEN nx[h] ELSE nx[at[k - 1]]]

Steps(nx, h) ==
  LET at[k \in 0 .. Cardinality(Node)] == IF k = 0 THEN nx[h] ELSE nx[at[k - 1]]
  IN  at

Visited(at, h) ==
  LET stops == {k \in 0 .. Cardinality(Node) : at[k] = h}
  IN  IF stops = {} THEN << >>
      ELSE LET len == CHOOSE k \in stops : \A j \in stops : k <= j
           IN  [k \in 1 .. len |-> at[k - 1]]

LEMMA NodeCount ==
  /\ IsFiniteSet(Node) /\ IsFiniteSet(Items) /\ Items \subseteq Node
  /\ Cardinality(Node) \in Nat /\ Cardinality(Items) <= Cardinality(Node)
  <1>1. IsFiniteSet(Node) /\ Items \subseteq Node
    BY NodesAreFinite DEF Node
  <1> QED
    BY <1>1, FS_Subset, FS_CardinalityType

LEMMA WalkExists ==
  ASSUME NEW nx, NEW h, NEW m \in Nat
  PROVE  \E at : IsWalk(at, nx, h, m)
  <1> DEFINE T == {k \in Nat : ~ \E at : IsWalk(at, nx, h, k)}
  <1>1. SUFFICES ASSUME T # {} PROVE FALSE
    OBVIOUS
  <1>2. PICK k \in T : \A y \in T : k <= y
    BY <1>1, Smallest
  <1>3. k \in Nat /\ ~ \E at : IsWalk(at, nx, h, k)
    OBVIOUS
  <1>4. CASE k = 0
    <2> DEFINE at == [i \in 0 .. 0 |-> nx[h]]
    <2>1. IsWalk(at, nx, h, 0)
      BY DEF IsWalk
    <2> QED
      BY <1>3, <1>4, <2>1
  <1>5. CASE k # 0
    <2>1. k - 1 \in Nat /\ k - 1 \notin T
      BY <1>2, <1>3, <1>5
    <2>2. PICK f : IsWalk(f, nx, h, k - 1)
      BY <2>1
    <2> DEFINE at == [i \in 0 .. k |-> IF i = k THEN nx[f[k - 1]] ELSE f[i]]
    <2>3. ASSUME NEW i \in 0 .. k
          PROVE  at[i] = IF i = 0 THEN nx[h] ELSE nx[at[i - 1]]
      <3>1. CASE i = k
        BY <1>3, <1>5, <3>1
      <3>2. CASE i # k
        <4>1. i \in 0 .. k - 1 /\ (i # 0 => i - 1 \in 0 .. k - 1 /\ i - 1 \in 0 .. k /\ i - 1 # k)
          BY <1>3, <3>2
        <4>2. f[i] = IF i = 0 THEN nx[h] ELSE nx[f[i - 1]]
          BY <2>2, <4>1 DEF IsWalk
        <4> QED
          BY <3>2, <4>1, <4>2
      <3> QED
        BY <3>1, <3>2
    <2>4. at = [i \in 0 .. k |-> at[i]]
      OBVIOUS
    <2> HIDE DEF at
    <2>5. at = [i \in 0 .. k |-> IF i = 0 THEN nx[h] ELSE nx[at[i - 1]]]
      BY <2>3, <2>4
    <2> QED
      BY <1>3, <2>5 DEF IsWalk
  <1> QED
    BY <1>4, <1>5

LEMMA StepsIsWalk ==
  ASSUME NEW nx, NEW h
  PROVE  IsWalk(Steps(nx, h), nx, h, Cardinality(Node))
  <1>1. \E at : IsWalk(at, nx, h, Cardinality(Node))
    BY WalkExists, NodeCount
  <1>2. Steps(nx, h) = CHOOSE at : IsWalk(at, nx, h, Cardinality(Node))
    BY DEF Steps, IsWalk
  <1> QED
    BY <1>1, <1>2

(* A head that points to itself is reached at once.                        *)
LEMMA VisitedNone ==
  ASSUME NEW nx, NEW h, nx[h] = h
  PROVE  Visited(Steps(nx, h), h) = << >>
  <1> DEFINE at == Steps(nx, h)
             stops == {k \in 0 .. Cardinality(Node) : at[k] = h}
             least == CHOOSE k \in stops : \A j \in stops : k <= j
  <1>1. at[0] = h /\ 0 \in 0 .. Cardinality(Node)
    BY StepsIsWalk, NodeCount DEF IsWalk
  <1> HIDE DEF at
  <1>2. 0 \in stops /\ \A j \in stops : j \in Nat
    BY <1>1, NodeCount
  <1>3. Visited(at, h) = [k \in 1 .. least |-> at[k - 1]]
    BY <1>2 DEF Visited
  <1> HIDE DEF stops
  <1>4. least = 0
    BY <1>2
  <1> HIDE DEF least
  <1>5. Visited(at, h) = << >>
    BY <1>3, <1>4
  <1> QED
    BY <1>5 DEF at

LEMMA ForEachVisits ==
  /\ \A h : ForEach(h) = Visited(Steps(next, h), h)
  /\ \A h : ForEach(h)' = Visited(Steps(next', h), h)
  <1> DEFINE Walked(nx, h) == IF nx[h] = h THEN << >> ELSE Visited(Steps(nx, h), h)
  <1>1. /\ \A h : ForEach(h) = Walked(next, h)
        /\ \A h : ForEach(h)' = Walked(next', h)
    BY DEF ForEach, Visited, Steps, Detached
  <1>2. \A nx, h : Walked(nx, h) = Visited(Steps(nx, h), h)
    BY VisitedNone
  <1> QED
    BY <1>1, <1>2

(* The nodes of the list with head h and items s, around the ring: the     *)
(* head is in the places 0 and Len(s) + 1.                                 *)
Place(h, s, i) == IF i \in 1 .. Len(s) THEN s[i] ELSE h

Rounds(nx, h, s) == \A i \in 0 .. Len(s) : nx[Place(h, s, i)] = Place(h, s, i + 1)

LEMMA StepsGoRound ==
  ASSUME NEW nx, NEW h, NEW s \in Seq(Items), Rounds(nx, h, s),
         NEW at, NEW m \in Nat, IsWalk(at, nx, h, m), Len(s) <= m
  PROVE  \A k \in 0 .. Len(s) : at[k] = Place(h, s, k + 1)
  <1>0. Len(s) \in Nat
    BY LenProperties
  <1> DEFINE T == {k \in 0 .. Len(s) : at[k] # Place(h, s, k + 1)}
  <1>1. SUFFICES ASSUME T # {} PROVE FALSE
    OBVIOUS
  <1>2. T \in SUBSET Nat
    BY <1>0
  <1>3. PICK k \in T : \A y \in T : k <= y
    BY <1>1, <1>2, Smallest
  <1>4. k \in 0 .. Len(s) /\ k \in 0 .. m /\ at[k] # Place(h, s, k + 1)
    BY <1>0
  <1>5. at[k] = IF k = 0 THEN nx[h] ELSE nx[at[k - 1]]
    BY <1>4 DEF IsWalk
  <1>6. nx[Place(h, s, k)] = Place(h, s, k + 1)
    BY <1>4 DEF Rounds
  <1>7. CASE k = 0
    <2>1. Place(h, s, 0) = h
      BY DEF Place
    <2> QED
      BY <1>4, <1>5, <1>6, <1>7, <2>1
  <1>8. CASE k # 0
    <2>1. k - 1 \in 0 .. Len(s) /\ k - 1 \notin T /\ k - 1 + 1 = k
      BY <1>0, <1>3, <1>4, <1>8
    <2>2. at[k - 1] = Place(h, s, k)
      BY <2>1
    <2> QED
      BY <1>4, <1>5, <1>6, <1>8, <2>2
  <1> QED
    BY <1>7, <1>8

(* So a traversal visits exactly the items of the list, in order.          *)
LEMMA VisitedItems ==
  ASSUME NEW nx, NEW h \in Heads, NEW s \in Seq(Items), Rounds(nx, h, s),
         \A i, j \in 1 .. Len(s) : s[i] = s[j] => i = j
  PROVE  Visited(Steps(nx, h), h) = s
  <1> DEFINE at == Steps(nx, h)
             n == Len(s)
             size == Cardinality(Node)
             stops == {k \in 0 .. size : at[k] = h}
             least == CHOOSE k \in stops : \A j \in stops : k <= j
  <1>1. n \in Nat /\ s \in [1 .. n -> Items] /\ size \in Nat
    BY LenProperties, NodeCount
  <1>2. n <= size
    <2>1. s \in Injection(1 .. n, Items)
      BY <1>1 DEF Injection, IsInjective
    <2>2. Cardinality(1 .. n) <= Cardinality(Items)
      BY <2>1, NodeCount, FS_Injection
    <2>3. Cardinality(1 .. n) = IF 1 > n THEN 0 ELSE n - 1 + 1
      <3>1. 1 \in Int /\ n \in Int
        BY <1>1
      <3> HIDE DEF n
      <3> QED
        BY <3>1, FS_Interval, Zenon
    <2>4. Cardinality(Items) \in Nat /\ Cardinality(Items) <= size
      BY NodeCount, FS_CardinalityType
    <2> QED
      BY <1>1, <2>2, <2>3, <2>4
  <1>3. \A k \in 0 .. n : at[k] = Place(h, s, k + 1)
    BY <1>1, <1>2, StepsIsWalk, StepsGoRound
  <1> HIDE DEF at
  <1>4. \A k \in 0 .. n - 1 : at[k] = s[k + 1] /\ s[k + 1] # h
    BY <1>1, <1>3, HeadsAreNoItems DEF Place
  <1>5. at[n] = h
    BY <1>1, <1>3 DEF Place
  <1>6. n \in stops /\ \A j \in stops : n <= j
    BY <1>1, <1>2, <1>4, <1>5
  <1>7. least = n
    <2>1. \A k \in stops : k \in Nat
      BY <1>1
    <2> HIDE DEF stops
    <2>2. \A k \in stops : (\A j \in stops : k <= j) => k = n
      BY <1>1, <1>6, <2>1
    <2> QED
      BY <1>6, <2>2
  <1>8. Visited(at, h) = [k \in 1 .. least |-> at[k - 1]]
    BY <1>6 DEF Visited
  <1> HIDE DEF least, stops
  <1>9. \A k \in 1 .. n : at[k - 1] = s[k]
    BY <1>1, <1>4
  <1>10. s = [k \in 1 .. n |-> s[k]]
    BY <1>1
  <1>11. Visited(at, h) = s
    BY <1>7, <1>8, <1>9, <1>10
  <1> QED
    BY <1>11 DEF at

-----------------------------------------------------------------------------
(* What the pointers show: the sequences L[h] of the items on the lists.   *)

Apart(L) ==
  \A h, k \in Heads : \A i \in 1 .. Len(L[h]), j \in 1 .. Len(L[k]) :
    L[h][i] = L[k][j] => h = k /\ i = j

Complete(nx, L) ==
  \A n \in Items : nx[n] # n => \E h \in Heads : \E i \in 1 .. Len(L[h]) : n = L[h][i]

Absent(L, n) == \A k \in Heads : \A j \in 1 .. Len(L[k]) : L[k][j] # n

Rings(nx, L) ==
  /\ L \in [Heads -> Seq(Items)]
  /\ \A h \in Heads : Rounds(nx, h, L[h])
  /\ Apart(L)

Shows(nx, L) == Rings(nx, L) /\ Complete(nx, L)

LEMMA ShownLists ==
  ASSUME NEW nx, NEW L, Rings(nx, L), NEW h \in Heads
  PROVE  /\ L[h] \in Seq(Items) /\ Len(L[h]) \in Nat
         /\ \A i \in 1 .. Len(L[h]) : L[h][i] \in Items
  <1>1. L[h] \in Seq(Items)
    BY DEF Rings
  <1> QED
    BY <1>1, LenProperties, ElementOfSeq

LEMMA ShownForEach ==
  ASSUME NEW nx, NEW L, Rings(nx, L)
  PROVE  L = [h \in Heads |-> Visited(Steps(nx, h), h)]
  <1>1. ASSUME NEW h \in Heads
        PROVE  L[h] = Visited(Steps(nx, h), h)
    <2>1. L[h] \in Seq(Items) /\ Rounds(nx, h, L[h])
      BY DEF Rings
    <2>2. \A i, j \in 1 .. Len(L[h]) : L[h][i] = L[h][j] => i = j
      BY DEF Rings, Apart
    <2> QED
      BY <2>1, <2>2, VisitedItems
  <1> QED
    BY <1>1 DEF Rings

(* No node is in two places, of one ring or of two.                        *)
LEMMA PlacesApart ==
  ASSUME NEW nx, NEW L, Rings(nx, L), NEW h \in Heads, NEW k \in Heads,
         NEW i \in 0 .. Len(L[h]), NEW j \in 0 .. Len(L[k]),
         Place(h, L[h], i) = Place(k, L[k], j)
  PROVE  h = k /\ i = j
  <1>1. /\ Len(L[h]) \in Nat /\ Len(L[k]) \in Nat
        /\ \A m \in 1 .. Len(L[h]) : L[h][m] \in Items
        /\ \A m \in 1 .. Len(L[k]) : L[k][m] \in Items
    BY ShownLists
  <1>2. CASE i \in 1 .. Len(L[h]) /\ j \in 1 .. Len(L[k])
    BY <1>2 DEF Place, Rings, Apart
  <1>3. CASE i \notin 1 .. Len(L[h]) /\ j \notin 1 .. Len(L[k])
    BY <1>1, <1>3 DEF Place
  <1>4. CASE i \in 1 .. Len(L[h]) /\ j \notin 1 .. Len(L[k])
    BY <1>1, <1>4, HeadsAreNoItems DEF Place
  <1>5. CASE i \notin 1 .. Len(L[h]) /\ j \in 1 .. Len(L[k])
    BY <1>1, <1>5, HeadsAreNoItems DEF Place
  <1> QED
    BY <1>2, <1>3, <1>4, <1>5

(* A node on a list is not detached.                                       *)
LEMMA ShownMeansLinked ==
  ASSUME NEW nx, NEW L, Rings(nx, L), NEW h \in Heads, NEW i \in 1 .. Len(L[h])
  PROVE  nx[L[h][i]] # L[h][i]
  <1>1. Len(L[h]) \in Nat /\ i \in 0 .. Len(L[h]) /\ L[h][i] \in Items
    BY ShownLists
  <1>2. nx[Place(h, L[h], i)] = Place(h, L[h], i + 1)
    BY <1>1 DEF Rings, Rounds
  <1>3. Place(h, L[h], i) = L[h][i]
    BY DEF Place
  <1>4. CASE i + 1 \in 1 .. Len(L[h])
    <2>1. i + 1 # i
      BY <1>1
    <2>2. L[h][i + 1] # L[h][i]
      BY <1>4, <2>1 DEF Rings, Apart
    <2> QED
      BY <1>2, <1>3, <1>4, <2>2 DEF Place
  <1>5. CASE i + 1 \notin 1 .. Len(L[h])
    BY <1>1, <1>2, <1>3, <1>5, HeadsAreNoItems DEF Place
  <1> QED
    BY <1>4, <1>5

-----------------------------------------------------------------------------
(* The sequences after an insertion and a removal. *)

Inserted(s, i, n, t) == t = Lists!InsertAt(s, i + 1, n)
Removed(s, i, t) == t = Lists!RemoveAt(s, i)

(* The same by their elements.                                             *)
Extends(s, i, n, r) ==
  /\ r \in Seq(Items) /\ Len(r) = Len(s) + 1 /\ r[i + 1] = n
  /\ \A j \in 1 .. i : r[j] = s[j]
  /\ \A j \in i + 1 .. Len(s) : r[j + 1] = s[j]

Shortens(s, i, r) ==
  /\ r \in Seq(Items) /\ Len(r) = Len(s) - 1
  /\ \A j \in 1 .. i - 1 : r[j] = s[j]
  /\ \A j \in i .. Len(s) - 1 : r[j] = s[j + 1]

LEMMA InsertedElements ==
  ASSUME NEW s \in Seq(Items), NEW i \in 0 .. Len(s), NEW n \in Items,
         NEW r, Inserted(s, i, n, r)
  PROVE  Extends(s, i, n, r)
  <1> DEFINE front == SubSeq(s, 1, i)
             mid == <<n>>
             back == SubSeq(s, i + 1, Len(s))
             fm == front \o mid
             t == fm \o back
  <1>1. Len(s) \in Nat /\ i \in Nat /\ i <= Len(s) /\ \A j \in 1 .. Len(s) : s[j] \in Items
    BY LenProperties, ElementOfSeq
  <1>2. front \in Seq(Items) /\ Len(front) = i /\ \A j \in 1 .. i : front[j] = s[j]
    <2>1. \A j \in 1 .. i : s[j] \in Items
      BY <1>1
    <2>2. /\ front \in Seq(Items) /\ Len(front) = IF 1 <= i THEN i - 1 + 1 ELSE 0
          /\ \A j \in 1 .. i - 1 + 1 : front[j] = s[1 + j - 1]
      BY <1>1, <2>1, SubSeqProperties
    <2> HIDE DEF front
    <2> QED
      BY <1>1, <2>2
  <1>3. mid \in Seq(Items) /\ Len(mid) = 1 /\ mid[1] = n
    OBVIOUS
  <1>4. /\ back \in Seq(Items) /\ Len(back) = Len(s) - i
        /\ \A j \in 1 .. Len(s) - i : back[j] = s[i + j]
    <2>1. \A j \in i + 1 .. Len(s) : s[j] \in Items
      BY <1>1
    <2>2. /\ back \in Seq(Items)
          /\ Len(back) = IF i + 1 <= Len(s) THEN Len(s) - (i + 1) + 1 ELSE 0
          /\ \A j \in 1 .. Len(s) - (i + 1) + 1 : back[j] = s[(i + 1) + j - 1]
      BY <1>1, <2>1, SubSeqProperties
    <2> HIDE DEF back
    <2> QED
      BY <1>1, <2>2
  <1> HIDE DEF front, mid, back
  <1>5. /\ fm \in Seq(Items) /\ Len(fm) = i + 1 /\ fm[i + 1] = n
        /\ \A j \in 1 .. i : fm[j] = s[j]
    <2>1. /\ fm \in Seq(Items) /\ Len(fm) = Len(front) + Len(mid)
          /\ \A j \in 1 .. Len(front) + Len(mid) :
               fm[j] = IF j <= Len(front) THEN front[j] ELSE mid[j - Len(front)]
      BY <1>2, <1>3, ConcatProperties
    <2> HIDE DEF fm
    <2>2. i + 1 \in 1 .. i + 1 /\ ~ (i + 1 <= i) /\ i + 1 - i = 1
      BY <1>1
    <2>3. \A j \in 1 .. i : j \in 1 .. i + 1 /\ j <= i
      BY <1>1
    <2> QED
      BY <1>2, <1>3, <2>1, <2>2, <2>3
  <1> HIDE DEF fm
  <1>6. /\ t \in Seq(Items) /\ Len(t) = Len(s) + 1
        /\ \A j \in 1 .. Len(s) + 1 : t[j] = IF j <= i + 1 THEN fm[j] ELSE back[j - (i + 1)]
    <2>1. /\ t \in Seq(Items) /\ Len(t) = Len(fm) + Len(back)
          /\ \A j \in 1 .. Len(fm) + Len(back) :
               t[j] = IF j <= Len(fm) THEN fm[j] ELSE back[j - Len(fm)]
      BY <1>4, <1>5, ConcatProperties
    <2> HIDE DEF t
    <2>2. i + 1 + (Len(s) - i) = Len(s) + 1
      BY <1>1
    <2> QED
      BY <1>4, <1>5, <2>1, <2>2
  <1> HIDE DEF t
  <1>7. t[i + 1] = n /\ \A j \in 1 .. i : t[j] = s[j]
    BY <1>1, <1>5, <1>6
  <1>8. ASSUME NEW j \in i + 1 .. Len(s)
        PROVE  t[j + 1] = s[j]
    <2>1. j - i \in 1 .. Len(s) - i /\ i + (j - i) = j /\ j + 1 - (i + 1) = j - i
          /\ j + 1 \in 1 .. Len(s) + 1 /\ ~ (j + 1 <= i + 1)
      BY <1>1
    <2>2. t[j + 1] = back[j - i] /\ back[j - i] = s[j]
      BY <1>4, <1>6, <2>1
    <2> QED
      BY <2>2
  <1>9. t = r
    <2>1. Lists!InsertAt(s, i + 1, n)
            = (SubSeq(s, 1, (i + 1) - 1) \o <<n>>) \o SubSeq(s, i + 1, Len(s))
      BY DEF Lists!InsertAt
    <2>2. (i + 1) - 1 = i
      BY <1>1
    <2> QED
      BY <2>1, <2>2 DEF t, fm, front, mid, back, Inserted
  <1> QED
    BY <1>6, <1>7, <1>8, <1>9 DEF Extends

LEMMA RemainingElements ==
  ASSUME NEW s \in Seq(Items), NEW i \in 1 .. Len(s), NEW r, Removed(s, i, r)
  PROVE  Shortens(s, i, r)
  <1> DEFINE front == SubSeq(s, 1, i - 1)
             back == SubSeq(s, i + 1, Len(s))
             t == front \o back
  <1>1. Len(s) \in Nat /\ i \in Nat /\ 1 <= i /\ i <= Len(s) /\ \A j \in 1 .. Len(s) : s[j] \in Items
    BY LenProperties, ElementOfSeq
  <1>2. front \in Seq(Items) /\ Len(front) = i - 1 /\ \A j \in 1 .. i - 1 : front[j] = s[j]
    <2>1. \A j \in 1 .. i - 1 : s[j] \in Items
      BY <1>1
    <2>2. /\ front \in Seq(Items) /\ Len(front) = IF 1 <= i - 1 THEN (i - 1) - 1 + 1 ELSE 0
          /\ \A j \in 1 .. (i - 1) - 1 + 1 : front[j] = s[1 + j - 1]
      BY <1>1, <2>1, SubSeqProperties
    <2> HIDE DEF front
    <2> QED
      BY <1>1, <2>2
  <1>3. /\ back \in Seq(Items) /\ Len(back) = Len(s) - i
        /\ \A j \in 1 .. Len(s) - i : back[j] = s[i + j]
    <2>1. \A j \in i + 1 .. Len(s) : s[j] \in Items
      BY <1>1
    <2>2. /\ back \in Seq(Items)
          /\ Len(back) = IF i + 1 <= Len(s) THEN Len(s) - (i + 1) + 1 ELSE 0
          /\ \A j \in 1 .. Len(s) - (i + 1) + 1 : back[j] = s[(i + 1) + j - 1]
      BY <1>1, <2>1, SubSeqProperties
    <2> HIDE DEF back
    <2> QED
      BY <1>1, <2>2
  <1> HIDE DEF front, back
  <1>4. /\ t \in Seq(Items) /\ Len(t) = Len(s) - 1
        /\ \A j \in 1 .. Len(s) - 1 : t[j] = IF j <= i - 1 THEN front[j] ELSE back[j - (i - 1)]
    <2>1. /\ t \in Seq(Items) /\ Len(t) = Len(front) + Len(back)
          /\ \A j \in 1 .. Len(front) + Len(back) :
               t[j] = IF j <= Len(front) THEN front[j] ELSE back[j - Len(front)]
      BY <1>2, <1>3, ConcatProperties
    <2> HIDE DEF t
    <2>2. i - 1 + (Len(s) - i) = Len(s) - 1
      BY <1>1
    <2> QED
      BY <1>2, <1>3, <2>1, <2>2
  <1> HIDE DEF t
  <1>5. ASSUME NEW j \in 1 .. i - 1
        PROVE  t[j] = s[j]
    <2>1. j \in 1 .. Len(s) - 1 /\ j <= i - 1
      BY <1>1
    <2> QED
      BY <1>2, <1>4, <2>1
  <1>6. ASSUME NEW j \in i .. Len(s) - 1
        PROVE  t[j] = s[j + 1]
    <2>1. j - (i - 1) \in 1 .. Len(s) - i /\ i + (j - (i - 1)) = j + 1
          /\ j \in 1 .. Len(s) - 1 /\ ~ (j <= i - 1)
      BY <1>1
    <2>2. t[j] = back[j - (i - 1)] /\ back[j - (i - 1)] = s[j + 1]
      BY <1>3, <1>4, <2>1
    <2> QED
      BY <2>2
  <1>7. t = r
    BY DEF t, front, back, Lists!RemoveAt, Removed
  <1> QED
    BY <1>4, <1>5, <1>6, <1>7 DEF Shortens

(* The places behind an inserted item move up, those behind a removed one  *)
(* move down.                                                              *)
MovedUp(h, s, i, n, t) ==
  /\ \A j \in 0 .. i : Place(h, t, j) = Place(h, s, j)
  /\ Place(h, t, i + 1) = n
  /\ \A j \in i + 1 .. Len(s) + 1 : Place(h, t, j + 1) = Place(h, s, j)

MovedDown(h, s, i, t) ==
  /\ \A j \in 0 .. i - 1 : Place(h, t, j) = Place(h, s, j)
  /\ \A j \in i .. Len(s) : Place(h, t, j) = Place(h, s, j + 1)

LEMMA PlaceInserted ==
  ASSUME NEW s \in Seq(Items), NEW i \in 0 .. Len(s), NEW n \in Items, NEW h,
         NEW t, Inserted(s, i, n, t)
  PROVE  MovedUp(h, s, i, n, t)
  <1>1. Len(s) \in Nat /\ i \in Nat /\ i <= Len(s)
    BY LenProperties
  <1>2. /\ Len(t) = Len(s) + 1 /\ t[i + 1] = n
        /\ \A j \in 1 .. i : t[j] = s[j]
        /\ \A j \in i + 1 .. Len(s) : t[j + 1] = s[j]
    BY InsertedElements DEF Extends
  <1>3. ASSUME NEW j \in 0 .. i
        PROVE  Place(h, t, j) = Place(h, s, j)
    <2>1. (j \in 1 .. Len(t) <=> j \in 1 .. i) /\ (j \in 1 .. Len(s) <=> j \in 1 .. i)
      BY <1>1, <1>2
    <2> QED
      BY <1>2, <2>1 DEF Place
  <1>4. Place(h, t, i + 1) = n
    <2>1. i + 1 \in 1 .. Len(t)
      BY <1>1, <1>2
    <2> QED
      BY <1>2, <2>1 DEF Place
  <1>5. ASSUME NEW j \in i + 1 .. Len(s) + 1
        PROVE  Place(h, t, j + 1) = Place(h, s, j)
    <2>1. /\ j + 1 \in 1 .. Len(t) <=> j \in i + 1 .. Len(s)
          /\ j \in 1 .. Len(s) <=> j \in i + 1 .. Len(s)
      BY <1>1, <1>2
    <2> QED
      BY <1>2, <2>1 DEF Place
  <1> QED
    BY <1>3, <1>4, <1>5 DEF MovedUp

LEMMA PlaceRemoved ==
  ASSUME NEW s \in Seq(Items), NEW i \in 1 .. Len(s), NEW h, NEW t, Removed(s, i, t)
  PROVE  MovedDown(h, s, i, t)
  <1>1. Len(s) \in Nat /\ i \in Nat /\ 1 <= i /\ i <= Len(s)
    BY LenProperties
  <1>2. /\ Len(t) = Len(s) - 1
        /\ \A j \in 1 .. i - 1 : t[j] = s[j]
        /\ \A j \in i .. Len(s) - 1 : t[j] = s[j + 1]
    BY RemainingElements DEF Shortens
  <1>3. ASSUME NEW j \in 0 .. i - 1
        PROVE  Place(h, t, j) = Place(h, s, j)
    <2>1. (j \in 1 .. Len(t) <=> j \in 1 .. i - 1) /\ (j \in 1 .. Len(s) <=> j \in 1 .. i - 1)
      BY <1>1, <1>2
    <2> QED
      BY <1>2, <2>1 DEF Place
  <1>4. ASSUME NEW j \in i .. Len(s)
        PROVE  Place(h, t, j) = Place(h, s, j + 1)
    <2>1. /\ j \in 1 .. Len(t) <=> j \in i .. Len(s) - 1
          /\ j + 1 \in 1 .. Len(s) <=> j \in i .. Len(s) - 1
      BY <1>1, <1>2
    <2> QED
      BY <1>2, <2>1 DEF Place
  <1> QED
    BY <1>3, <1>4 DEF MovedDown

(* The pointers after Link of n behind m, and after Unlink of n behind m.  *)
Linking(nx, ny, n, m) == ny = [nx EXCEPT ![n] = nx[m], ![m] = n]
Unlinking(nx, ny, n, m) == ny = [nx EXCEPT ![m] = nx[n], ![n] = n]

(* M is L with the sequence t for the list with head h.                    *)
Updated(L, h, t, M) == M = [L EXCEPT ![h] = t]

SameBut(nx, ny, n, m) == \A x \in Node : x # n /\ x # m => ny[x] = nx[x]

LEMMA PlaceIsNode ==
  ASSUME NEW nx, NEW L, Rings(nx, L), NEW h \in Heads, NEW i \in Int
  PROVE  Place(h, L[h], i) \in Node
  BY ShownLists DEF Place, Node

(* The places away from the two nodes of an operation are as before.       *)
LEMMA Elsewhere ==
  ASSUME NEW nx, NEW L, Rings(nx, L), NEW n, NEW m, NEW ny, SameBut(nx, ny, n, m),
         NEW k \in Heads, NEW j \in 0 .. Len(L[k]),
         Place(k, L[k], j) # n, Place(k, L[k], j) # m
  PROVE  ny[Place(k, L[k], j)] = Place(k, L[k], j + 1)
  <1>1. Place(k, L[k], j) \in Node
    BY PlaceIsNode
  <1>2. nx[Place(k, L[k], j)] = Place(k, L[k], j + 1)
    BY DEF Rings, Rounds
  <1> QED
    BY <1>1, <1>2 DEF SameBut

(* An element is in one place of one sequence.                             *)
LEMMA ApartElements ==
  ASSUME NEW L, Apart(L), NEW h \in Heads, NEW k \in Heads,
         NEW i \in 1 .. Len(L[h]), NEW j \in 1 .. Len(L[k]), L[h][i] = L[k][j]
  PROVE  h = k /\ i = j
  BY DEF Apart

(* A node that is on no list is in no place.                               *)
LEMMA AbsentElsewhere ==
  ASSUME NEW L, NEW n \in Items, Absent(L, n), NEW k \in Heads, NEW j \in 0 .. Len(L[k])
  PROVE  Place(k, L[k], j) # n
  BY HeadsAreNoItems DEF Place, Absent

(* Linking an item that is on no list behind the node in place i inserts   *)
(* it there in its sequence.                                               *)
LEMMA LinkInserts ==
  ASSUME NEW nx \in [Node -> Node], NEW L, Rings(nx, L), NEW h \in Heads,
         NEW s, s = L[h], NEW i \in 0 .. Len(s), NEW n \in Items, Absent(L, n),
         NEW m, m = Place(h, s, i), NEW ny, Linking(nx, ny, n, m),
         NEW t, Inserted(s, i, n, t), NEW M, Updated(L, h, t, M)
  PROVE  Rings(ny, M)
  <1>1. /\ s \in Seq(Items) /\ Len(s) \in Nat /\ i \in Nat /\ i <= Len(s)
        /\ i \in 0 .. Len(L[h]) /\ L \in [Heads -> Seq(Items)]
    BY ShownLists DEF Rings
  <1>2. /\ t \in Seq(Items) /\ Len(t) = Len(s) + 1 /\ t[i + 1] = n
        /\ \A j \in 1 .. i : t[j] = s[j]
        /\ \A j \in i + 1 .. Len(s) : t[j + 1] = s[j]
    <2>1. Extends(s, i, n, t)
      BY <1>1, InsertedElements
    <2> QED
      BY <2>1 DEF Extends
  <1>3. /\ \A j \in 0 .. i : Place(h, t, j) = Place(h, s, j)
        /\ Place(h, t, i + 1) = n
        /\ \A j \in i + 1 .. Len(s) + 1 : Place(h, t, j + 1) = Place(h, s, j)
    <2>1. MovedUp(h, s, i, n, t)
      BY <1>1, PlaceInserted
    <2> QED
      BY <2>1 DEF MovedUp
  <1>4. m \in Node /\ n \in Node /\ m # n
    BY <1>1, PlaceIsNode, AbsentElsewhere DEF Node
  <1>5. M \in [Heads -> Seq(Items)] /\ M[h] = t /\ \A k \in Heads \ {h} : M[k] = L[k]
    BY <1>1, <1>2 DEF Updated
  <1>6. ny[m] = n /\ ny[n] = nx[m] /\ SameBut(nx, ny, n, m)
    BY <1>4 DEF Linking, SameBut
  <1>7. ASSUME NEW k \in Heads, NEW j \in 0 .. Len(L[k]), k # h \/ j # i
        PROVE  ny[Place(k, L[k], j)] = Place(k, L[k], j + 1)
    <2>1. Place(k, L[k], j) # n
      BY AbsentElsewhere
    <2>2. Place(k, L[k], j) # m
      BY <1>1, <1>7, PlacesApart
    <2> QED
      BY <1>6, <2>1, <2>2, Elsewhere
  <1>8. Rounds(ny, h, t)
    <2> SUFFICES ASSUME NEW j \in 0 .. Len(t)
                 PROVE  ny[Place(h, t, j)] = Place(h, t, j + 1)
      BY DEF Rounds
    <2>1. CASE j < i
      <3>1. j \in 0 .. i /\ j + 1 \in 0 .. i /\ j \in 0 .. Len(s) /\ j # i
        BY <1>1, <2>1
      <3> QED
        BY <1>3, <1>7, <3>1
    <2>2. CASE j = i
      <3>1. j \in 0 .. i
        BY <1>1, <2>2
      <3> QED
        BY <1>3, <1>6, <2>2, <3>1
    <2>3. CASE j = i + 1
      <3>1. i + 1 \in i + 1 .. Len(s) + 1
        BY <1>1
      <3>2. nx[m] = Place(h, s, i + 1)
        BY <1>1 DEF Rings, Rounds
      <3> QED
        BY <1>3, <1>6, <2>3, <3>1, <3>2
    <2>4. CASE j > i + 1
      <3>1. /\ j - 1 \in i + 1 .. Len(s) + 1 /\ j \in i + 1 .. Len(s) + 1
            /\ j - 1 \in 0 .. Len(s) /\ j - 1 # i /\ (j - 1) + 1 = j
        BY <1>1, <1>2, <2>4
      <3>2. ny[Place(h, s, j - 1)] = Place(h, s, (j - 1) + 1)
        BY <1>7, <3>1
      <3> QED
        BY <1>3, <3>1, <3>2
    <2>5. j < i \/ j = i \/ j = i + 1 \/ j > i + 1
      BY <1>1, <1>2
    <2> QED
      BY <2>1, <2>2, <2>3, <2>4, <2>5
  <1>9. ASSUME NEW k \in Heads
        PROVE  Rounds(ny, k, M[k])
    <2>1. CASE k = h
      BY <1>5, <1>8, <2>1
    <2>2. CASE k # h
      BY <1>5, <1>7, <2>2 DEF Rounds
    <2> QED
      BY <2>1, <2>2
  (* Where the element in place j of t was, if it is not the new one.      *)
  <1> DEFINE was(j) == IF j <= i THEN j ELSE j - 1
  <1>10. ASSUME NEW j \in 1 .. Len(t), j # i + 1
         PROVE  was(j) \in 1 .. Len(s) /\ t[j] = s[was(j)]
    <2>1. CASE j <= i
      <3>1. j \in 1 .. i /\ j \in 1 .. Len(s)
        BY <1>1, <2>1
      <3> QED
        BY <1>2, <2>1, <3>1
    <2>2. CASE ~ (j <= i)
      <3>1. j - 1 \in i + 1 .. Len(s) /\ j - 1 \in 1 .. Len(s) /\ (j - 1) + 1 = j
        BY <1>1, <1>2, <1>10, <2>2
      <3> QED
        BY <1>2, <2>2, <3>1
    <2> QED
      BY <2>1, <2>2
  <1>15. \A x, y \in 1 .. Len(t) : x # i + 1 /\ y # i + 1 /\ was(x) = was(y) => x = y
    BY <1>1, <1>2
  <1> HIDE DEF was
  <1>11. ASSUME NEW k \in Heads, NEW j \in 1 .. Len(L[k])
         PROVE  L[k][j] # n
    BY DEF Absent
  <1>12. Apart(M)
    <2> SUFFICES ASSUME NEW a \in Heads, NEW b \in Heads, NEW x \in 1 .. Len(M[a]),
                        NEW y \in 1 .. Len(M[b]), M[a][x] = M[b][y]
                 PROVE  a = b /\ x = y
      BY DEF Apart
    <2>0. Apart(L)
      BY DEF Rings
    <2>1. CASE a = h /\ b = h
      <3>1. x \in 1 .. Len(t) /\ y \in 1 .. Len(t) /\ t[x] = t[y] /\ x \in Nat /\ y \in Nat
        BY <1>1, <1>2, <1>5, <2>1
      <3>2. CASE x = i + 1 \/ y = i + 1
        <4>1. (x = i + 1 /\ y # i + 1) => t[y] # n
          BY <1>10, <1>11, <3>1
        <4>2. (y = i + 1 /\ x # i + 1) => t[x] # n
          BY <1>10, <1>11, <3>1
        <4> QED
          BY <1>2, <2>1, <3>1, <3>2, <4>1, <4>2
      <3>3. CASE x # i + 1 /\ y # i + 1
        <4>1. /\ was(x) \in 1 .. Len(L[h]) /\ was(y) \in 1 .. Len(L[h])
              /\ L[h][was(x)] = L[h][was(y)]
          BY <1>10, <3>1, <3>3
        <4>2. was(x) = was(y)
          BY <2>0, <4>1 DEF Apart
        <4> QED
          BY <1>15, <2>1, <3>1, <3>3, <4>2
      <3> QED
        BY <3>2, <3>3
    <2>2. CASE a = h /\ b # h
      <3>1. x \in 1 .. Len(t) /\ y \in 1 .. Len(L[b]) /\ t[x] = L[b][y]
        BY <1>5, <2>2
      <3>2. x # i + 1
        BY <1>2, <1>11, <3>1
      <3>3. was(x) \in 1 .. Len(L[h]) /\ L[h][was(x)] = L[b][y]
        BY <1>10, <3>1, <3>2
      <3> QED
        BY <2>0, <2>2, <3>1, <3>3 DEF Apart
    <2>3. CASE a # h /\ b = h
      <3>1. y \in 1 .. Len(t) /\ x \in 1 .. Len(L[a]) /\ t[y] = L[a][x]
        BY <1>5, <2>3
      <3>2. y # i + 1
        BY <1>2, <1>11, <3>1
      <3>3. was(y) \in 1 .. Len(L[h]) /\ L[a][x] = L[h][was(y)]
        BY <1>10, <3>1, <3>2
      <3> QED
        BY <2>0, <2>3, <3>1, <3>3 DEF Apart
    <2>4. CASE a # h /\ b # h
      <3>1. x \in 1 .. Len(L[a]) /\ y \in 1 .. Len(L[b]) /\ L[a][x] = L[b][y]
        BY <1>5, <2>4
      <3> QED
        BY <2>0, <3>1, ApartElements
    <2> QED
      BY <2>1, <2>2, <2>3, <2>4
  <1> QED
    BY <1>5, <1>9, <1>12 DEF Rings

(* And if every linked item was on a list, it is so afterwards.            *)
LEMMA LinkCompletes ==
  ASSUME NEW nx \in [Node -> Node], NEW L, Rings(nx, L), Complete(nx, L), NEW h \in Heads,
         NEW s, s = L[h], NEW i \in 0 .. Len(s), NEW n \in Items, Absent(L, n),
         NEW m, m = Place(h, s, i), NEW ny, Linking(nx, ny, n, m),
         NEW t, Inserted(s, i, n, t), NEW M, Updated(L, h, t, M)
  PROVE  Complete(ny, M)
  <1>1. /\ s \in Seq(Items) /\ Len(s) \in Nat /\ i \in Nat /\ i <= Len(s)
        /\ i \in 0 .. Len(L[h]) /\ L \in [Heads -> Seq(Items)]
    BY ShownLists DEF Rings
  <1>2. /\ t \in Seq(Items) /\ Len(t) = Len(s) + 1 /\ t[i + 1] = n
        /\ \A j \in 1 .. i : t[j] = s[j]
        /\ \A j \in i + 1 .. Len(s) : t[j + 1] = s[j]
    <2>1. Extends(s, i, n, t)
      BY <1>1, InsertedElements
    <2> QED
      BY <2>1 DEF Extends
  <1>4. m \in Node /\ n \in Node /\ m # n
    BY <1>1, PlaceIsNode, AbsentElsewhere DEF Node
  <1>5. M \in [Heads -> Seq(Items)] /\ M[h] = t /\ \A k \in Heads \ {h} : M[k] = L[k]
    BY <1>1, <1>2 DEF Updated
  <1>6. SameBut(nx, ny, n, m)
    BY <1>4 DEF Linking, SameBut
  <1>13. Complete(ny, M)
    <2> SUFFICES ASSUME NEW x \in Items, ny[x] # x
                 PROVE  \E k \in Heads : \E j \in 1 .. Len(M[k]) : x = M[k][j]
      BY DEF Complete
    <2>1. CASE x = n
      <3>1. i + 1 \in 1 .. Len(t)
        BY <1>1, <1>2
      <3> QED
        BY <1>2, <1>5, <2>1, <3>1
    <2>2. CASE x # n
      <3>1. PICK k \in Heads : \E j \in 1 .. Len(L[k]) : x = L[k][j]
        <4>1. CASE x = m
          <5>1. i \in 1 .. Len(s)
            BY <4>1, HeadsAreNoItems DEF Place
          <5> QED
            BY <4>1, <5>1 DEF Place
        <4>2. CASE x # m
          <5>1. nx[x] # x
            BY <1>6, <2>2, <4>2 DEF Node, SameBut
          <5> QED
            BY <5>1 DEF Complete
        <4> QED
          BY <4>1, <4>2
      <3>2. PICK j \in 1 .. Len(L[k]) : x = L[k][j]
        BY <3>1
      <3>3. CASE k = h
        <4>1. CASE j <= i
          <5>1. j \in 1 .. i /\ j \in 1 .. Len(t)
            BY <1>1, <1>2, <4>1
          <5> QED
            BY <1>2, <1>5, <3>2, <3>3, <5>1
        <4>2. CASE ~ (j <= i)
          <5>1. j \in i + 1 .. Len(s) /\ j + 1 \in 1 .. Len(t)
            BY <1>1, <1>2, <3>3, <4>2
          <5> QED
            BY <1>2, <1>5, <3>2, <3>3, <5>1
        <4> QED
          BY <4>1, <4>2
      <3>4. CASE k # h
        BY <1>5, <3>2, <3>4
      <3> QED
        BY <3>3, <3>4
    <2> QED
      BY <2>1, <2>2
  <1> QED
    BY <1>13

(* Unlinking the item in place i removes it from its sequence, and leaves  *)
(* it on no list.                                                          *)
LEMMA UnlinkRemoves ==
  ASSUME NEW nx \in [Node -> Node], NEW L, Rings(nx, L), NEW h \in Heads,
         NEW s, s = L[h], NEW i \in 1 .. Len(s), NEW n, n = s[i],
         NEW m, m = Place(h, s, i - 1), NEW ny, Unlinking(nx, ny, n, m),
         NEW t, Removed(s, i, t), NEW M, Updated(L, h, t, M)
  PROVE  Rings(ny, M)
  <1>1. /\ s \in Seq(Items) /\ Len(s) \in Nat /\ i \in Nat /\ 1 <= i /\ i <= Len(s)
        /\ i - 1 \in 0 .. Len(L[h]) /\ i \in 0 .. Len(L[h]) /\ i - 1 # i
        /\ i - 1 \in Int /\ n \in Items /\ L \in [Heads -> Seq(Items)]
    BY ShownLists DEF Rings
  <1>2. /\ t \in Seq(Items) /\ Len(t) = Len(s) - 1
        /\ \A j \in 1 .. i - 1 : t[j] = s[j]
        /\ \A j \in i .. Len(s) - 1 : t[j] = s[j + 1]
    <2>1. Shortens(s, i, t)
      BY <1>1, RemainingElements
    <2> QED
      BY <2>1 DEF Shortens
  <1>3. /\ \A j \in 0 .. i - 1 : Place(h, t, j) = Place(h, s, j)
        /\ \A j \in i .. Len(s) : Place(h, t, j) = Place(h, s, j + 1)
    <2>1. MovedDown(h, s, i, t)
      BY <1>1, PlaceRemoved
    <2> QED
      BY <2>1 DEF MovedDown
  <1>4. n = Place(h, L[h], i) /\ m \in Node /\ n \in Node
    BY <1>1, PlaceIsNode DEF Node, Place
  <1>5. M \in [Heads -> Seq(Items)] /\ M[h] = t /\ \A k \in Heads \ {h} : M[k] = L[k]
    BY <1>1, <1>2 DEF Updated
  <1>6. ny[m] = Place(h, s, i + 1) /\ ny[n] = n /\ SameBut(nx, ny, n, m)
    <2>1. m # n
      BY <1>1, <1>4, PlacesApart
    <2>2. nx[n] = Place(h, s, i + 1)
      BY <1>1, <1>4 DEF Rings, Rounds
    <2> QED
      BY <1>4, <2>1, <2>2 DEF Unlinking, SameBut
  <1>7. ASSUME NEW k \in Heads, NEW j \in 0 .. Len(L[k]), k # h \/ (j # i - 1 /\ j # i)
        PROVE  ny[Place(k, L[k], j)] = Place(k, L[k], j + 1)
    <2>1. Place(k, L[k], j) # n
      BY <1>1, <1>4, <1>7, PlacesApart
    <2>2. Place(k, L[k], j) # m
      BY <1>1, <1>7, PlacesApart
    <2> QED
      BY <1>6, <2>1, <2>2, Elsewhere
  <1>8. Rounds(ny, h, t)
    <2> SUFFICES ASSUME NEW j \in 0 .. Len(t)
                 PROVE  ny[Place(h, t, j)] = Place(h, t, j + 1)
      BY DEF Rounds
    <2>1. CASE j < i - 1
      <3>1. j \in 0 .. i - 1 /\ j + 1 \in 0 .. i - 1 /\ j \in 0 .. Len(s) /\ j # i - 1 /\ j # i
        BY <1>1, <2>1
      <3>2. ny[Place(h, s, j)] = Place(h, s, j + 1)
        BY <1>7, <3>1
      <3> QED
        BY <1>3, <3>1, <3>2
    <2>2. CASE j = i - 1
      <3>1. j \in 0 .. i - 1 /\ j + 1 = i /\ i \in i .. Len(s)
        BY <1>1, <2>2
      <3>2. Place(h, t, j) = m /\ Place(h, t, i) = Place(h, s, i + 1)
        BY <1>3, <2>2, <3>1
      <3> QED
        BY <1>6, <3>1, <3>2
    <2>3. CASE j > i - 1
      <3>1. /\ j \in i .. Len(s) /\ j + 1 \in i .. Len(s) /\ j + 1 \in 0 .. Len(s)
            /\ j + 1 # i - 1 /\ j + 1 # i
        BY <1>1, <1>2, <2>3
      <3>2. ny[Place(h, s, j + 1)] = Place(h, s, (j + 1) + 1)
        BY <1>7, <3>1
      <3> QED
        BY <1>3, <3>1, <3>2
    <2>4. j < i - 1 \/ j = i - 1 \/ j > i - 1
      BY <1>1, <1>2
    <2> QED
      BY <2>1, <2>2, <2>3, <2>4
  <1>9. ASSUME NEW k \in Heads
        PROVE  Rounds(ny, k, M[k])
    <2>1. CASE k = h
      BY <1>5, <1>8, <2>1
    <2>2. CASE k # h
      BY <1>5, <1>7, <2>2 DEF Rounds
    <2> QED
      BY <2>1, <2>2
  (* Where the element in place j of t was.                                *)
  <1> DEFINE was(j) == IF j <= i - 1 THEN j ELSE j + 1
  <1>10. ASSUME NEW j \in 1 .. Len(t)
         PROVE  was(j) \in 1 .. Len(s) /\ t[j] = s[was(j)]
    <2>1. CASE j <= i - 1
      <3>1. j \in 1 .. i - 1 /\ j \in 1 .. Len(s)
        BY <1>1, <2>1
      <3> QED
        BY <1>2, <2>1, <3>1
    <2>2. CASE ~ (j <= i - 1)
      <3>1. j \in i .. Len(s) - 1 /\ j + 1 \in 1 .. Len(s)
        BY <1>1, <1>2, <2>2
      <3> QED
        BY <1>2, <2>2, <3>1
    <2> QED
      BY <2>1, <2>2
  <1>11. \A x, y \in 1 .. Len(t) : was(x) = was(y) => x = y
    BY <1>1, <1>2
  <1> HIDE DEF was
  <1>12. Apart(M)
    <2> SUFFICES ASSUME NEW a \in Heads, NEW b \in Heads, NEW x \in 1 .. Len(M[a]),
                        NEW y \in 1 .. Len(M[b]), M[a][x] = M[b][y]
                 PROVE  a = b /\ x = y
      BY DEF Apart
    <2>0. Apart(L)
      BY DEF Rings
    <2>1. CASE a = h /\ b = h
      <3>1. x \in 1 .. Len(t) /\ y \in 1 .. Len(t) /\ t[x] = t[y]
        BY <1>5, <2>1
      <3>2. /\ was(x) \in 1 .. Len(L[h]) /\ was(y) \in 1 .. Len(L[h])
            /\ L[h][was(x)] = L[h][was(y)]
        BY <1>10, <3>1
      <3>3. was(x) = was(y)
        BY <2>0, <3>2 DEF Apart
      <3> QED
        BY <1>11, <2>1, <3>1, <3>3
    <2>2. CASE a = h /\ b # h
      <3>1. x \in 1 .. Len(t) /\ y \in 1 .. Len(L[b]) /\ t[x] = L[b][y]
        BY <1>5, <2>2
      <3>2. was(x) \in 1 .. Len(L[h]) /\ L[h][was(x)] = L[b][y]
        BY <1>10, <3>1
      <3> QED
        BY <2>0, <2>2, <3>1, <3>2 DEF Apart
    <2>3. CASE a # h /\ b = h
      <3>1. y \in 1 .. Len(t) /\ x \in 1 .. Len(L[a]) /\ t[y] = L[a][x]
        BY <1>5, <2>3
      <3>2. was(y) \in 1 .. Len(L[h]) /\ L[a][x] = L[h][was(y)]
        BY <1>10, <3>1
      <3> QED
        BY <2>0, <2>3, <3>1, <3>2 DEF Apart
    <2>4. CASE a # h /\ b # h
      <3>1. x \in 1 .. Len(L[a]) /\ y \in 1 .. Len(L[b]) /\ L[a][x] = L[b][y]
        BY <1>5, <2>4
      <3> QED
        BY <2>0, <3>1, ApartElements
    <2> QED
      BY <2>1, <2>2, <2>3, <2>4
  <1> QED
    BY <1>5, <1>9, <1>12 DEF Rings

LEMMA UnlinkCompletes ==
  ASSUME NEW nx \in [Node -> Node], NEW L, Rings(nx, L), Complete(nx, L), NEW h \in Heads,
         NEW s, s = L[h], NEW i \in 1 .. Len(s), NEW n, n = s[i],
         NEW m, m = Place(h, s, i - 1), NEW ny, Unlinking(nx, ny, n, m),
         NEW t, Removed(s, i, t), NEW M, Updated(L, h, t, M)
  PROVE  Complete(ny, M)
  <1>1. /\ s \in Seq(Items) /\ Len(s) \in Nat /\ i \in Nat /\ 1 <= i /\ i <= Len(s)
        /\ i - 1 \in Int /\ n \in Items /\ L \in [Heads -> Seq(Items)]
    BY ShownLists DEF Rings
  <1>2. /\ t \in Seq(Items) /\ Len(t) = Len(s) - 1
        /\ \A j \in 1 .. i - 1 : t[j] = s[j]
        /\ \A j \in i .. Len(s) - 1 : t[j] = s[j + 1]
    <2>1. Shortens(s, i, t)
      BY <1>1, RemainingElements
    <2> QED
      BY <2>1 DEF Shortens
  <1>4. m \in Node /\ n \in Node
    BY <1>1, PlaceIsNode DEF Node
  <1>5. M \in [Heads -> Seq(Items)] /\ M[h] = t /\ \A k \in Heads \ {h} : M[k] = L[k]
    BY <1>1, <1>2 DEF Updated
  <1>6. ny[n] = n /\ SameBut(nx, ny, n, m)
    BY <1>4 DEF Unlinking, SameBut
  <1>13. Complete(ny, M)
    <2> SUFFICES ASSUME NEW x \in Items, ny[x] # x
                 PROVE  \E k \in Heads : \E j \in 1 .. Len(M[k]) : x = M[k][j]
      BY DEF Complete
    <2>1. x # n
      BY <1>6
    <2>2. PICK k \in Heads : \E j \in 1 .. Len(L[k]) : x = L[k][j]
      <3>1. CASE x = m
        <4>1. i - 1 \in 1 .. Len(s)
          BY <3>1, HeadsAreNoItems DEF Place
        <4> QED
          BY <3>1, <4>1 DEF Place
      <3>2. CASE x # m
        <4>1. nx[x] # x
          BY <1>6, <2>1, <3>2 DEF Node, SameBut
        <4> QED
          BY <4>1 DEF Complete
      <3> QED
        BY <3>1, <3>2
    <2>3. PICK j \in 1 .. Len(L[k]) : x = L[k][j]
      BY <2>2
    <2>4. CASE k = h
      <3>1. j # i
        BY <2>1, <2>3, <2>4
      <3>2. CASE j < i
        <4>1. j \in 1 .. i - 1 /\ j \in 1 .. Len(t)
          BY <1>1, <1>2, <3>2
        <4> QED
          BY <1>2, <1>5, <2>3, <2>4, <4>1
      <3>3. CASE ~ (j < i)
        <4>1. j - 1 \in i .. Len(s) - 1 /\ j - 1 \in 1 .. Len(t) /\ (j - 1) + 1 = j
          BY <1>1, <1>2, <2>4, <3>1, <3>3
        <4>2. t[j - 1] = x
          BY <1>2, <2>3, <2>4, <4>1
        <4> QED
          BY <1>5, <4>1, <4>2
      <3> QED
        BY <3>2, <3>3
    <2>5. CASE k # h
      BY <1>5, <2>3, <2>5
    <2> QED
      BY <2>4, <2>5
  <1> QED
    BY <1>13

-----------------------------------------------------------------------------
(* Every operation links or unlinks at a place of some list.               *)

AtPlace(L, c) == \E h \in Heads : \E i \in 0 .. Len(L[h]) : c = Place(h, L[h], i)

LEMMA PlaceOfListed ==
  ASSUME NEW L, Shows(next, L), NEW c \in Node, Listed(c)
  PROVE  AtPlace(L, c)
  <1>1. CASE c \in Heads
    <2>1. 0 \in 0 .. Len(L[c]) /\ c = Place(c, L[c], 0)
      BY <1>1, ShownLists DEF Place, Shows
    <2> QED
      BY <1>1, <2>1 DEF AtPlace
  <1>2. CASE c \notin Heads
    <2>1. c \in Items /\ next[c] # c
      BY <1>2 DEF Listed, Detached, Node
    <2>2. PICK h \in Heads : \E i \in 1 .. Len(L[h]) : c = L[h][i]
      BY <2>1 DEF Shows, Complete
    <2>3. PICK i \in 1 .. Len(L[h]) : c = L[h][i]
      BY <2>2
    <2>4. i \in 0 .. Len(L[h]) /\ c = Place(h, L[h], i)
      BY <2>3, ShownLists DEF Place, Shows
    <2> QED
      BY <2>4 DEF AtPlace
  <1> QED
    BY <1>1, <1>2

LEMMA PlaceOfNext ==
  ASSUME NEW L, Shows(next, L), NEW h \in Heads
  PROVE  AtPlace(L, next[h])
  <1>1. Len(L[h]) \in Nat /\ 0 \in 0 .. Len(L[h])
    BY ShownLists DEF Shows
  <1>2. Place(h, L[h], 0) = h
    BY DEF Place
  <1>3. next[Place(h, L[h], 0)] = Place(h, L[h], 0 + 1)
    BY <1>1 DEF Shows, Rings, Rounds
  <1>4. next[h] = Place(h, L[h], 1)
    BY <1>2, <1>3
  <1>5. CASE Len(L[h]) = 0
    <2>1. Place(h, L[h], 1) = h
      BY <1>5 DEF Place
    <2> QED
      BY <1>1, <1>2, <1>4, <2>1 DEF AtPlace
  <1>6. CASE Len(L[h]) # 0
    <2>1. 1 \in 0 .. Len(L[h])
      BY <1>1, <1>6
    <2> QED
      BY <1>4, <2>1 DEF AtPlace
  <1> QED
    BY <1>5, <1>6

(* The node before the one in place i + 1 is the one in place i.           *)
LEMMA Before ==
  ASSUME IInv, NEW L, Shows(next, L), NEW h \in Heads, NEW i \in 0 .. Len(L[h])
  PROVE  prev[Place(h, L[h], i + 1)] = Place(h, L[h], i)
  <1>1. Place(h, L[h], i) \in Node
    BY PlaceIsNode DEF Shows
  <1>2. next[Place(h, L[h], i)] = Place(h, L[h], i + 1)
    BY DEF Shows, Rings, Rounds
  <1> QED
    BY <1>1, <1>2 DEF IInv, WellLinked

LEMMA PlaceOfPrev ==
  ASSUME IInv, NEW L, Shows(next, L), NEW c \in Node, Listed(c)
  PROVE  AtPlace(L, prev[c])
  <1>1. PICK h \in Heads : \E j \in 0 .. Len(L[h]) : c = Place(h, L[h], j)
    BY PlaceOfListed DEF AtPlace
  <1>2. PICK j \in 0 .. Len(L[h]) : c = Place(h, L[h], j)
    BY <1>1
  <1>3. Len(L[h]) \in Nat
    BY ShownLists DEF Shows
  <1>4. PICK i \in 0 .. Len(L[h]) : c = Place(h, L[h], i + 1)
    <2>1. CASE j = 0
      <3>1. Len(L[h]) \in 0 .. Len(L[h])
        BY <1>3
      <3>2. Place(h, L[h], 0) = h /\ Place(h, L[h], Len(L[h]) + 1) = h
        BY <1>3 DEF Place
      <3> QED
        BY <1>2, <2>1, <3>1, <3>2
    <2>2. CASE j # 0
      <3>1. j - 1 \in 0 .. Len(L[h]) /\ (j - 1) + 1 = j
        BY <1>3, <2>2
      <3> QED
        BY <1>2, <3>1
    <2> QED
      BY <2>1, <2>2
  <1>5. prev[c] = Place(h, L[h], i)
    BY <1>4, Before
  <1> QED
    BY <1>5 DEF AtPlace

-----------------------------------------------------------------------------
(* So every operation is a step of ListSeq, on the sequences shown.        *)

PutsIn(L, M) ==
  \E h \in Heads : \E i \in 1 .. Len(L[h]) + 1, n \in Items :
    Absent(L, n) /\ M = [L EXCEPT ![h] = Lists!InsertAt(L[h], i, n)]

TakesOut(L, M) ==
  \E h \in Heads : \E i \in 1 .. Len(L[h]) : M = [L EXCEPT ![h] = Lists!RemoveAt(L[h], i)]

LEMMA LinkStep ==
  ASSUME IInv, NEW L, Shows(next, L), NEW n \in Items, Detached(n),
         NEW m, AtPlace(L, m), Link(n, m)
  PROVE  \E M : Shows(next', M) /\ PutsIn(L, M)
  <1>1. PICK h \in Heads : \E j \in 0 .. Len(L[h]) : m = Place(h, L[h], j)
    BY DEF AtPlace
  <1>2. PICK i \in 0 .. Len(L[h]) : m = Place(h, L[h], i)
    BY <1>1
  <1> DEFINE s == L[h]
             t == Lists!InsertAt(s, i + 1, n)
             M == [L EXCEPT ![h] = t]
  <1>3. next \in [Node -> Node] /\ next[n] = n
    BY DEF IInv, ListTypeOK, Detached
  <1>4. Linking(next, next', n, m)
    BY DEF Link, Linking
  <1>5. Inserted(s, i, n, t) /\ Updated(L, h, t, M)
    BY DEF Inserted, Updated
  <1>6. Absent(L, n)
    BY <1>3, ShownMeansLinked DEF Absent, Shows
  <1>7. i + 1 \in 1 .. Len(L[h]) + 1
    BY ShownLists DEF Shows
  <1>8. PutsIn(L, M)
    BY <1>6, <1>7 DEF PutsIn
  <1> HIDE DEF M, t
  <1>9. Shows(next', M)
    <2>1. Rings(next, L) /\ Complete(next, L)
      BY DEF Shows
    <2>2. Rings(next', M)
      BY <1>2, <1>3, <1>4, <1>5, <1>6, <2>1, LinkInserts
    <2>3. Complete(next', M)
      BY <1>2, <1>3, <1>4, <1>5, <1>6, <2>1, LinkCompletes
    <2> QED
      BY <2>2, <2>3 DEF Shows
  <1> QED
    BY <1>8, <1>9

LEMMA UnlinkStep ==
  ASSUME IInv, NEW L, Shows(next, L), NEW n \in Items, ~ Detached(n), Unlink(n)
  PROVE  \E M : Shows(next', M) /\ TakesOut(L, M)
  <1>1. PICK h \in Heads : \E j \in 1 .. Len(L[h]) : n = L[h][j]
    BY DEF Shows, Complete, Detached
  <1>2. PICK i \in 1 .. Len(L[h]) : n = L[h][i]
    BY <1>1
  <1> DEFINE s == L[h]
             t == Lists!RemoveAt(s, i)
             M == [L EXCEPT ![h] = t]
             m == prev[n]
  <1>3. next \in [Node -> Node]
    BY DEF IInv, ListTypeOK
  <1>4. m = Place(h, s, i - 1)
    <2>1. i - 1 \in 0 .. Len(L[h]) /\ (i - 1) + 1 = i
      BY ShownLists DEF Shows
    <2>2. prev[Place(h, L[h], (i - 1) + 1)] = Place(h, L[h], i - 1)
      BY <2>1, Before
    <2>3. Place(h, L[h], i) = n
      BY <1>2 DEF Place
    <2> QED
      BY <2>1, <2>2, <2>3
  <1>5. Unlinking(next, next', n, m)
    BY DEF Unlink, Unlinking
  <1>6. Removed(s, i, t) /\ Updated(L, h, t, M)
    BY DEF Removed, Updated
  <1>7. TakesOut(L, M)
    BY DEF TakesOut
  <1> HIDE DEF M, t, m
  <1>8. Shows(next', M)
    <2>1. Rings(next, L) /\ Complete(next, L)
      BY DEF Shows
    <2>2. Rings(next', M)
      BY <1>2, <1>3, <1>4, <1>5, <1>6, <2>1, UnlinkRemoves
    <2>3. Complete(next', M)
      BY <1>2, <1>3, <1>4, <1>5, <1>6, <2>1, UnlinkCompletes
    <2> QED
      BY <2>2, <2>3 DEF Shows
  <1> QED
    BY <1>7, <1>8

LEMMA StepShown ==
  ASSUME IInv, NEW L, Shows(next, L), [ListNext]_listVars
  PROVE  \E M : Shows(next', M) /\ (PutsIn(L, M) \/ TakesOut(L, M) \/ M = L)
<1>0. Items \subseteq Node /\ Heads \subseteq Node /\ \A h \in Heads : Listed(h)
  BY DEF Node, Listed
<1>1. ASSUME NEW n \in Items, NEW m \in Node, AppendNode(n, m)
      PROVE  \E M : Shows(next', M) /\ PutsIn(L, M)
  BY <1>1, PlaceOfListed, LinkStep DEF AppendNode
<1>2. ASSUME NEW n \in Items, NEW c \in Node, InsertNewHead(c, n)
      PROVE  \E M : Shows(next', M) /\ PutsIn(L, M)
  BY <1>2, PlaceOfPrev, LinkStep DEF InsertNewHead
<1>3. ASSUME NEW n \in Items, NEW h \in Heads, AddHead(n, h)
      PROVE  \E M : Shows(next', M) /\ PutsIn(L, M)
  BY <1>3, PlaceOfNext, LinkStep DEF AddHead
<1>4. ASSUME NEW n \in Items, NEW h \in Heads, AddTail(n, h)
      PROVE  \E M : Shows(next', M) /\ PutsIn(L, M)
  BY <1>0, <1>4, PlaceOfPrev, LinkStep DEF AddTail
<1>5. ASSUME NEW n \in Items, UnlinkCurrentHead(n)
      PROVE  \E M : Shows(next', M) /\ TakesOut(L, M)
  BY <1>5, UnlinkStep DEF UnlinkCurrentHead, Detached
<1>6. ASSUME NEW n \in Items, ~ Detached(n), Unlink(n)
      PROVE  \E M : Shows(next', M) /\ TakesOut(L, M)
  BY <1>6, UnlinkStep
<1>7. CASE UNCHANGED listVars
  BY <1>7 DEF listVars
<1> QED
  BY <1>1, <1>2, <1>3, <1>4, <1>5, <1>6, <1>7 DEF ListNext

-----------------------------------------------------------------------------
(* The pointers always show some sequences, and those are what ForEach     *)
(* visits.                                                                 *)
Shown == \E L : Shows(next, L)

LEMMA ShownByForEach ==
  /\ \A L : Shows(next, L) => L = [h \in Heads |-> ForEach(h)]
  /\ \A L : Shows(next', L) => L = [h \in Heads |-> ForEach(h)']
  BY ShownForEach, ForEachVisits DEF Shows

LEMMA InitShown ==
  ASSUME ListInit
  PROVE  Shows(next, [h \in Heads |-> << >>])
  <1> DEFINE e == << >>
             L == [h \in Heads |-> e]
  <1>1. e \in Seq(Items) /\ Len(e) = 0
    OBVIOUS
  <1> HIDE DEF e
  <1>2. L \in [Heads -> Seq(Items)] /\ \A h \in Heads : L[h] = e
    BY <1>1
  <1> HIDE DEF L
  <1>3. ASSUME NEW h \in Heads
        PROVE  Rounds(next, h, L[h])
    <2>1. \A i \in Int : Place(h, e, i) = h
      BY <1>1 DEF Place
    <2>2. next[h] = h
      BY DEF ListInit, Node
    <2> QED
      BY <1>1, <1>2, <2>1, <2>2 DEF Rounds
  <1>4. Apart(L)
    BY <1>1, <1>2 DEF Apart
  <1>5. Complete(next, L)
    BY DEF Complete, ListInit, Node
  <1>6. Shows(next, L)
    BY <1>2, <1>3, <1>4, <1>5 DEF Shows, Rings
  <1> QED
    BY <1>6 DEF L, e

LEMMA ShownInvariance == ListSpec => [](IInv /\ Shown)
<1>1. ListInit => Shown
  BY InitShown DEF Shown
<1>2. IInv /\ Shown /\ [ListNext]_listVars => Shown'
  BY StepShown DEF Shown
<1> QED
  BY <1>1, <1>2, Invariance, PTL DEF ListSpec

LEMMA FoundFrom ==
  ASSUME NEW L, Shows(next, L), NEW n \in Items, NEW h \in Heads
  PROVE  IsNodeInList(h, n) <=> \E i \in 1 .. Len(L[h]) : L[h][i] = n
  <1>1. ForEach(h) = L[h]
    BY ShownByForEach
  <1>2. DOMAIN L[h] = 1 .. Len(L[h])
    BY ShownLists, LenProperties DEF Shows
  <1>3. h # n
    BY HeadsAreNoItems
  <1> QED
    BY <1>1, <1>2, <1>3 DEF IsNodeInList

LEMMA ShownPartition ==
  ASSUME NEW L, Shows(next, L)
  PROVE  ListsPartitionNodes
  <1> SUFFICES ASSUME NEW n \in Items
               PROVE  Cardinality({h \in Heads : IsNodeInList(h, n)})
                        = IF Detached(n) THEN 0 ELSE 1
    BY DEF ListsPartitionNodes
  <1> DEFINE found == {h \in Heads : IsNodeInList(h, n)}
  <1>1. CASE Detached(n)
    <2>1. \A h \in Heads : ~ IsNodeInList(h, n)
      BY <1>1, FoundFrom, ShownMeansLinked DEF Detached, Shows
    <2>2. found = {}
      BY <2>1
    <2> QED
      BY <1>1, <2>2, FS_EmptySet
  <1>2. CASE ~ Detached(n)
    <2>1. PICK h \in Heads : \E i \in 1 .. Len(L[h]) : n = L[h][i]
      BY <1>2 DEF Shows, Complete, Detached
    <2>2. IsNodeInList(h, n)
      BY <2>1, FoundFrom
    <2>3. ASSUME NEW k \in Heads, IsNodeInList(k, n)
          PROVE  k = h
      <3>1. PICK i \in 1 .. Len(L[h]) : n = L[h][i]
        BY <2>1
      <3>2. PICK j \in 1 .. Len(L[k]) : L[k][j] = n
        BY <2>3, FoundFrom
      <3>3. Apart(L)
        BY DEF Shows, Rings
      <3> QED
        BY <3>1, <3>2, <3>3, ApartElements
    <2>4. found = {h}
      BY <2>2, <2>3
    <2> QED
      BY <1>2, <2>4, FS_Singleton
  <1> QED
    BY <1>1, <1>2

(* IsNodeInList tells the truth in every reachable state, for every number *)
(* of lists and nodes: an item is found from exactly one head if it was    *)
(* linked and not unlinked since, and from none otherwise.                 *)
THEOREM ListsAlwaysPartitionNodes == ListSpec => []ListsPartitionNodes
<1>1. Shown => ListsPartitionNodes
  BY ShownPartition DEF Shown
<1> QED
  BY <1>1, ShownInvariance, PTL

-----------------------------------------------------------------------------
(* The refinement of ListSeq.                                              *)

LEMMA RefinedInit ==
  ASSUME ListInit
  PROVE  Lists!Init
  BY InitShown, ShownByForEach DEF Lists!Init

LEMMA AbsentIsOffList ==
  ASSUME NEW L, Shows(next, L), NEW n, Absent(L, n)
  PROVE  ~ Lists!OnList(n)
  <1>1. L = [h \in Heads |-> ForEach(h)]
    BY ShownByForEach
  <1>2. ASSUME NEW h \in Heads
        PROVE  n \notin Lists!Range(L[h])
    <2>1. DOMAIN L[h] = 1 .. Len(L[h])
      BY ShownLists, LenProperties DEF Shows
    <2> QED
      BY <2>1 DEF Absent, Lists!Range
  <1> QED
    BY <1>1, <1>2 DEF Lists!OnList

LEMMA RefinedStep ==
  ASSUME IInv, NEW L, Shows(next, L), [ListNext]_listVars
  PROVE  \/ Lists!Next
         \/ [h \in Heads |-> ForEach(h)]' = [h \in Heads |-> ForEach(h)]
  <1>1. PICK M : Shows(next', M) /\ (PutsIn(L, M) \/ TakesOut(L, M) \/ M = L)
    BY StepShown
  <1>2. /\ L = [h \in Heads |-> ForEach(h)]
        /\ M = [h \in Heads |-> ForEach(h)']
    BY <1>1, ShownByForEach
  <1>3. CASE M = L
    BY <1>2, <1>3
  <1>4. CASE PutsIn(L, M)
    <2>0. PICK h \in Heads : \E i \in 1 .. Len(L[h]) + 1, n \in Items :
            Absent(L, n) /\ M = [L EXCEPT ![h] = Lists!InsertAt(L[h], i, n)]
      BY <1>4 DEF PutsIn
    <2>1. PICK i \in 1 .. Len(L[h]) + 1, n \in Items :
            Absent(L, n) /\ M = [L EXCEPT ![h] = Lists!InsertAt(L[h], i, n)]
      BY <2>0
    <2>2. ~ Lists!OnList(n)
      BY <2>1, AbsentIsOffList
    <2>3. Lists!PutIn(h, i, n)
      BY <1>2, <2>1, <2>2 DEF Lists!PutIn
    <2> QED
      BY <1>2, <2>1, <2>3 DEF Lists!Next
  <1>5. CASE TakesOut(L, M)
    <2>0. PICK h \in Heads : \E i \in 1 .. Len(L[h]) :
            M = [L EXCEPT ![h] = Lists!RemoveAt(L[h], i)]
      BY <1>5 DEF TakesOut
    <2>1. PICK i \in 1 .. Len(L[h]) : M = [L EXCEPT ![h] = Lists!RemoveAt(L[h], i)]
      BY <2>0
    <2>2. Lists!TakeOut(h, i)
      BY <1>2, <2>1 DEF Lists!TakeOut
    <2> QED
      BY <1>2, <2>1, <2>2 DEF Lists!Next
  <1> QED
    BY <1>1, <1>3, <1>4, <1>5

(* Every pointer operation inserts one node at one place of one list, or   *)
(* takes one out, or changes nothing, for every number of lists and nodes: *)
(* the lists are the sequences the other modules take them for.            *)
THEOREM ListSeqRefinement == ListSpec => ImplementsListSeq
<1>1. ListInit => Lists!Init
  BY RefinedInit
<1>2. IInv /\ Shown /\ [ListNext]_listVars => [Lists!Next]_([h \in Heads |-> ForEach(h)])
  BY RefinedStep DEF Shown
<1> QED
  BY <1>1, <1>2, ShownInvariance, PTL DEF ListSpec, ImplementsListSeq, Lists!Spec
=============================================================================
