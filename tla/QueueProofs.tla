---------------------------- MODULE QueueProofs ----------------------------
(***************************************************************************)
(* Proofs about Queue, for any number of queues that share the pool of     *)
(* headers, and any sizes of their buffers, items and data.                *)
(***************************************************************************)
EXTENDS Queue, SequenceTheorems, FiniteSetTheorems, TLAPS

(* The memory lists of the queues, with what is proved of them.            *)
Alloc == INSTANCE StaticAllocProofs WITH MemLists <- Queues

LEMMA SameOperators ==
  /\ \A m, n : Mem!Fits(m, n) = Alloc!Fits(m, n)
  /\ \A m, n : Mem!Reserved(m, n) = Alloc!Reserved(m, n)
  /\ \A m, a : Mem!Released(m, a) = Alloc!Released(m, a)
  /\ \A s : Alloc!ToSet(s) = ToSet(s)
  <1>0. \A s : Alloc!ToSet(s) = ToSet(s)
    BY DEF ToSet, Alloc!ToSet
  <1>1. \A m, n : Mem!Fits(m, n) = Alloc!Fits(m, n)
    BY DEF Mem!Fits, Alloc!Fits
  <1>2. \A m, n : Mem!Reserved(m, n) = Alloc!Reserved(m, n)
    BY DEF Mem!Reserved, Alloc!Reserved, Mem!Fits, Alloc!Fits, Mem!Splits, Alloc!Splits,
           Mem!Remainder, Alloc!Remainder, Mem!FreeHeader, Alloc!FreeHeader, Mem!Min, Alloc!Min,
           Mem!RemoveAt, Alloc!RemoveAt
  <1>3. \A m, a : Mem!Released(m, a) = Alloc!Released(m, a)
    <2>1. \A T : Mem!Min(T) = Alloc!Min(T) /\ Mem!Max(T) = Alloc!Max(T)
      BY DEF Mem!Min, Alloc!Min, Mem!Max, Alloc!Max
    <2>2. \A s, i : Mem!RemoveAt(s, i) = Alloc!RemoveAt(s, i)
      BY DEF Mem!RemoveAt, Alloc!RemoveAt
    <2>3. \A s, b : Mem!ReturnHeaderToFreeList(s, b) = Alloc!ReturnHeaderToFreeList(s, b)
      BY DEF Mem!ReturnHeaderToFreeList, Alloc!ReturnHeaderToFreeList
    <2>4. \A b : Mem!EndOf(b) = Alloc!EndOf(b)
      BY DEF Mem!EndOf, Alloc!EndOf
    <2>5. \A s : Mem!Absorbable(s) = Alloc!Absorbable(s)
      BY <2>4 DEF Mem!Absorbable, Alloc!Absorbable
    <2>6. \A s : Mem!Merge(s) = Alloc!Merge(s) /\ Mem!HeadersReleased(s) = Alloc!HeadersReleased(s)
      BY <2>1, <2>4, <2>5 DEF Mem!Merge, Alloc!Merge, Mem!HeadersReleased, Alloc!HeadersReleased
    <2>7. \A m, a : Mem!BlocksAt(m, a) = Alloc!BlocksAt(m, a)
      BY DEF Mem!BlocksAt, Alloc!BlocksAt
    <2> QED
      BY <2>1, <2>2, <2>3, <2>6, <2>7 DEF Mem!Released, Alloc!Released
  <1> QED
    BY <1>0, <1>1, <1>2, <1>3

LEMMA SameActions ==
  /\ Mem!Init = Alloc!Init /\ Mem!TypeOK = Alloc!TypeOK
  /\ \A q : Mem!Memory(q) = Alloc!Memory(q)
  /\ \A q, m : Mem!Becomes(q, m) = Alloc!Becomes(q, m)
  /\ \A q : Mem!InitMemList(q) = Alloc!InitMemList(q)
  BY DEF Mem!Init, Alloc!Init, Mem!TypeOK, Alloc!TypeOK, Mem!Block, Alloc!Block, Mem!Memory,
         Alloc!Memory, Mem!Becomes, Alloc!Becomes, Mem!InitMemList, Alloc!InitMemList,
         Mem!Initialised, Alloc!Initialised, Mem!FreeHeader, Alloc!FreeHeader

-----------------------------------------------------------------------------
(* Items and their blocks. *)

Starts(e) == {e.addr, e.data}

AllBlocks(S) == UNION {BlocksOf(e) : e \in S}

(* What is allocated is the two blocks of each item of S, and no block is  *)
(* shared by two items.                                                    *)
Owns(alloc, S) ==
  /\ S \subseteq Item
  /\ ToSet(alloc) = AllBlocks(S)
  /\ \A e \in S : e.addr # e.data
  /\ \A e, f \in S : e # f => Starts(e) \cap Starts(f) = {}

LEMMA ItemFields ==
  ASSUME NEW e \in Item
  PROVE  /\ e.addr \in Nat /\ e.data \in Nat /\ e.data_size \in Nat \ {0}
         /\ e.addr \in Address /\ e.data \in Address /\ e.data_size <= MaxDataSize
  BY MemoryAssumption, ItemAssumption DEF Item, Address

LEMMA OwnedBlocks ==
  ASSUME NEW alloc, NEW S, Owns(alloc, S)
  PROVE  /\ \A b : b \in ToSet(alloc) <=> \E e \in S : b \in BlocksOf(e)
         /\ \A b : b \in ToSet(alloc) => \E e \in S : b.buff \in Starts(e)
  BY DEF Owns, AllBlocks, BlocksOf, Starts

LEMMA OneMoreItem ==
  ASSUME NEW S, NEW e
  PROVE  AllBlocks(S \cup {e}) = AllBlocks(S) \cup BlocksOf(e)
  <1>1. \A T, d : d \in AllBlocks(T) <=> \E f \in T : d \in BlocksOf(f)
    BY DEF AllBlocks
  <1>2. \A d : d \in AllBlocks(S \cup {e}) <=> d \in AllBlocks(S) \/ d \in BlocksOf(e)
    BY <1>1
  <1> QED
    BY <1>2

LEMMA OneItemLess ==
  ASSUME NEW S, NEW e \in S, \A f \in S \ {e} : BlocksOf(f) \cap BlocksOf(e) = {}
  PROVE  AllBlocks(S \ {e}) = AllBlocks(S) \ BlocksOf(e)
  <1>1. \A T, d : d \in AllBlocks(T) <=> \E f \in T : d \in BlocksOf(f)
    BY DEF AllBlocks
  <1>2. \A d : d \in AllBlocks(S \ {e}) <=> d \in AllBlocks(S) /\ d \notin BlocksOf(e)
    BY <1>1
  <1> QED
    BY <1>2

LEMMA ItemBlocks ==
  ASSUME NEW m, NEW S, Alloc!Accounted(m), Owns(m.alloc, S), NEW e \in S
  PROVE  /\ [buff |-> e.addr, buff_size |-> ItemSize] \in ToSet(m.alloc)
         /\ [buff |-> e.data, buff_size |-> e.data_size] \in ToSet(m.alloc)
         /\ e.addr # e.data /\ e \in Item
  <1>1. /\ [buff |-> e.addr, buff_size |-> ItemSize] \in BlocksOf(e)
        /\ [buff |-> e.data, buff_size |-> e.data_size] \in BlocksOf(e)
    BY DEF BlocksOf
  <1>2. \A b : b \in BlocksOf(e) => b \in ToSet(m.alloc)
    BY OwnedBlocks
  <1> QED
    BY <1>1, <1>2 DEF Owns

(* Clearing one item reaches no byte of another one's data.                *)
LEMMA ItemsApart ==
  ASSUME NEW m, NEW S, Alloc!Accounted(m), Owns(m.alloc, S), NEW e \in S, NEW f \in S, e # f,
         NEW a \in f.data .. f.data + f.data_size - 1
  PROVE  /\ a \notin e.addr .. e.addr + ItemSize - 1
         /\ a \notin e.data .. e.data + e.data_size - 1
  <1> DEFINE b == [buff |-> e.addr, buff_size |-> ItemSize]
             c == [buff |-> e.data, buff_size |-> e.data_size]
             d == [buff |-> f.data, buff_size |-> f.data_size]
  <1>1. /\ b \in Alloc!ToSet(m.alloc) /\ c \in Alloc!ToSet(m.alloc) /\ d \in Alloc!ToSet(m.alloc)
        /\ e \in Item /\ f \in Item
    BY ItemBlocks, SameOperators
  <1>2. e.addr # f.data /\ e.data # f.data
    BY DEF Owns, Starts
  <1>3. b # d /\ c # d
    BY <1>2
  <1>4. /\ b.buff + b.buff_size <= d.buff \/ d.buff + d.buff_size <= b.buff
        /\ c.buff + c.buff_size <= d.buff \/ d.buff + d.buff_size <= c.buff
    <2> HIDE DEF b, c, d
    <2> QED
      BY <1>1, <1>3, MemoryAssumption, Alloc!BlocksAreApart
  <1>5. /\ e.addr + ItemSize <= f.data \/ f.data + f.data_size <= e.addr
        /\ e.data + e.data_size <= f.data \/ f.data + f.data_size <= e.data
    BY <1>4
  <1>6. /\ e.addr \in Nat /\ e.data \in Nat /\ e.data_size \in Nat
        /\ f.data \in Nat /\ f.data_size \in Nat /\ ItemSize \in Nat
    BY <1>1, ItemFields, ItemAssumption
  <1> QED
    BY <1>5, <1>6

(* The data of an item is in the buffer.                                   *)
LEMMA DataInBuffer ==
  ASSUME NEW m, NEW S, Alloc!Accounted(m), Owns(m.alloc, S), NEW e \in S
  PROVE  /\ e.data .. e.data + e.data_size - 1 \subseteq Address
         /\ e.data \in e.data .. e.data + e.data_size - 1
  <1> DEFINE b == [buff |-> e.addr, buff_size |-> ItemSize]
             c == [buff |-> e.data, buff_size |-> e.data_size]
  <1>1. b \in Alloc!ToSet(m.alloc) /\ c \in Alloc!ToSet(m.alloc) /\ e.addr # e.data /\ e \in Item
    BY ItemBlocks, SameOperators
  <1>2. b # c
    BY <1>1
  <1>3. c \in Alloc!FitBlock
    <2> HIDE DEF b, c
    <2> QED
      BY <1>1, <1>2, MemoryAssumption, Alloc!BlocksAreApart
  <1>4. c.buff + c.buff_size <= BuffSize
    BY <1>3 DEF Alloc!FitBlock, Alloc!EndOf
  <1>5. e.data + e.data_size <= BuffSize
    BY <1>4
  <1> QED
    BY <1>1, <1>5, ItemFields, MemoryAssumption DEF Address

-----------------------------------------------------------------------------
(* What the helpers do to the memory of a queue.                           *)

(* The memory is another one, with the same claim on the pool.             *)
Follows(new, m) == Alloc!Accounted(new) /\ Alloc!Surplus(new) = Alloc!Surplus(m)

LEMMA Reserving ==
  ASSUME NEW m, NEW n \in Nat \ {0}, Alloc!Accounted(m), Mem!Fits(m, n) # {}
  PROVE  LET new == Mem!Reserved(m, n)
             b == [buff |-> AddressOf(new), buff_size |-> n]
         IN  /\ Follows(new, m)
             /\ AddressOf(new) \in Nat /\ AddressOf(new) + n <= BuffSize
             /\ b \notin ToSet(m.alloc) /\ ToSet(new.alloc) = ToSet(m.alloc) \cup {b}
             /\ Len(new.alloc) = Len(m.alloc) + 1
  <1> DEFINE new == Mem!Reserved(m, n)
  <1>1. new = Alloc!Reserved(m, n) /\ Alloc!Fits(m, n) # {}
    BY SameOperators
  <1>2. /\ Alloc!Accounted(new) /\ Alloc!Surplus(new) = Alloc!Surplus(m)
        /\ \E x \in Nat :
             /\ x + n <= BuffSize
             /\ new.alloc[Len(new.alloc)] = [buff |-> x, buff_size |-> n]
             /\ [buff |-> x, buff_size |-> n] \notin Alloc!ToSet(m.alloc)
             /\ Alloc!ToSet(new.alloc) = Alloc!ToSet(m.alloc) \cup {[buff |-> x, buff_size |-> n]}
             /\ Len(new.alloc) = Len(m.alloc) + 1
    BY <1>1, MemoryAssumption, Alloc!ReservedAccounted
  <1> HIDE DEF new
  <1>3. PICK x \in Nat :
          /\ x + n <= BuffSize
          /\ new.alloc[Len(new.alloc)] = [buff |-> x, buff_size |-> n]
          /\ [buff |-> x, buff_size |-> n] \notin ToSet(m.alloc)
          /\ ToSet(new.alloc) = ToSet(m.alloc) \cup {[buff |-> x, buff_size |-> n]}
          /\ Len(new.alloc) = Len(m.alloc) + 1
    BY <1>2, SameOperators
  <1>4. AddressOf(new) = x
    BY <1>3 DEF AddressOf, Last
  <1> QED
    BY <1>2, <1>3, <1>4 DEF Follows, new

LEMMA Releasing ==
  ASSUME NEW m, NEW x, NEW n, Alloc!Accounted(m), [buff |-> x, buff_size |-> n] \in ToSet(m.alloc)
  PROVE  LET new == Mem!Released(m, x)
         IN  /\ Follows(new, m)
             /\ ToSet(new.alloc) = ToSet(m.alloc) \ {[buff |-> x, buff_size |-> n]}
             /\ Len(new.alloc) = Len(m.alloc) - 1
  <1> DEFINE b == [buff |-> x, buff_size |-> n]
             new == Mem!Released(m, x)
  <1>1. b.buff = x
    OBVIOUS
  <1>2. b \in Alloc!ToSet(m.alloc) /\ new = Alloc!Released(m, b.buff)
    BY <1>1, SameOperators
  <1> HIDE DEF b, new
  <1>3. /\ Alloc!Accounted(new) /\ Alloc!Surplus(new) = Alloc!Surplus(m)
        /\ Alloc!ToSet(new.alloc) = Alloc!ToSet(m.alloc) \ {b}
        /\ Len(new.alloc) = Len(m.alloc) - 1
    BY <1>2, MemoryAssumption, Alloc!ReleasedAccounted
  <1> QED
    BY <1>3, SameOperators DEF Follows, b, new

(* A length in the memory, to reason about sums.                           *)
LEMMA AllocLength ==
  ASSUME NEW m, Alloc!Accounted(m)
  PROVE  Len(m.alloc) \in Nat
  <1>1. m.alloc \in Seq(Alloc!FitBlock)
    BY DEF Alloc!Accounted, Alloc!Sound
  <1> QED
    BY <1>1, LenProperties

(* A reservation that fails gives back the block it did get.               *)
LEMMA RefusedOwns ==
  ASSUME NEW m, NEW n \in 1 .. MaxDataSize, NEW S, Alloc!Accounted(m), Owns(m.alloc, S)
  PROVE  LET new == Refused(m, n)
         IN  Follows(new, m) /\ Owns(new.alloc, S) /\ Len(new.alloc) = Len(m.alloc)
  <1>1. CASE Mem!Fits(m, ItemSize) = {}
    BY <1>1 DEF Refused, Follows
  <1>2. CASE Mem!Fits(m, ItemSize) # {}
    <2> DEFINE m1 == Mem!Reserved(m, ItemSize)
               new == Mem!Released(m1, AddressOf(m1))
               b == [buff |-> AddressOf(m1), buff_size |-> ItemSize]
    <2>1. /\ Follows(m1, m) /\ b \notin ToSet(m.alloc)
          /\ ToSet(m1.alloc) = ToSet(m.alloc) \cup {b} /\ Len(m1.alloc) = Len(m.alloc) + 1
      BY <1>2, ItemAssumption, Reserving
    <2> HIDE DEF m1
    <2>2. Alloc!Accounted(m1) /\ b \in ToSet(m1.alloc)
      BY <2>1 DEF Follows
    <2>3. /\ Follows(new, m1) /\ ToSet(new.alloc) = ToSet(m1.alloc) \ {b}
          /\ Len(new.alloc) = Len(m1.alloc) - 1
      BY <2>2, Releasing
    <2> HIDE DEF new, b
    <2>4. ToSet(new.alloc) = ToSet(m.alloc)
      BY <2>1, <2>3
    <2>5. Len(new.alloc) = Len(m.alloc)
      BY <2>1, <2>3, AllocLength
    <2>6. Follows(new, m) /\ Owns(new.alloc, S)
      BY <2>1, <2>3, <2>4 DEF Follows, Owns
    <2> QED
      BY <1>2, <2>5, <2>6 DEF Refused, new, m1
  <1> QED
    BY <1>1, <1>2

(* A reservation that succeeds adds one item, with two new blocks.         *)
LEMMA TakenOwns ==
  ASSUME NEW m, NEW n \in 1 .. MaxDataSize, NEW S, Alloc!Accounted(m), Owns(m.alloc, S),
         CanReserve(m, n)
  PROVE  LET t == Taken(m, n)
         IN  /\ Follows(t.memory, m)
             /\ t.element \in Item /\ t.element \notin S /\ t.element.data_size = n
             /\ Owns(t.memory.alloc, S \cup {t.element})
             /\ Len(t.memory.alloc) = Len(m.alloc) + 2
  <1> DEFINE m1 == Mem!Reserved(m, ItemSize)
             m2 == Mem!Reserved(m1, n)
             x == AddressOf(m1)
             y == AddressOf(m2)
             b == [buff |-> x, buff_size |-> ItemSize]
             c == [buff |-> y, buff_size |-> n]
             e == [addr |-> x, data |-> y, data_size |-> n]
  <1>0. n \in Nat \ {0} /\ ItemSize \in Nat \ {0} /\ n <= MaxDataSize /\ BuffSize \in Nat
    BY ItemAssumption, MemoryAssumption
  <1>1. Taken(m, n).memory = m2 /\ Taken(m, n).element = e
    BY DEF Taken
  <1>2. /\ Follows(m1, m) /\ x \in Nat /\ x + ItemSize <= BuffSize
        /\ b \notin ToSet(m.alloc) /\ ToSet(m1.alloc) = ToSet(m.alloc) \cup {b}
        /\ Len(m1.alloc) = Len(m.alloc) + 1
    BY <1>0, Reserving DEF CanReserve
  <1>3. Mem!Fits(m1, n) # {}
    BY DEF CanReserve
  <1> HIDE DEF m1
  <1>4. /\ Follows(m2, m1) /\ y \in Nat /\ y + n <= BuffSize
        /\ c \notin ToSet(m1.alloc) /\ ToSet(m2.alloc) = ToSet(m1.alloc) \cup {c}
        /\ Len(m2.alloc) = Len(m1.alloc) + 1
    BY <1>0, <1>2, <1>3, Reserving DEF Follows
  <1> HIDE DEF m2, x, y
  <1>5. Follows(m2, m) /\ Alloc!Accounted(m2)
    BY <1>2, <1>4 DEF Follows
  <1>6. e \in Item
    <2>1. x \in Address /\ y \in Address /\ n \in 1 .. MaxDataSize
      BY <1>0, <1>2, <1>4 DEF Address
    <2> QED
      BY <2>1 DEF Item
  <1>7. \A d \in ToSet(m2.alloc) : /\ d # b => d.buff # x
                                   /\ d # c => d.buff # y
    <2>1. b.buff = x /\ c.buff = y
      OBVIOUS
    <2>2. b \in ToSet(m2.alloc) /\ c \in ToSet(m2.alloc)
      BY <1>2, <1>4
    <2> HIDE DEF b, c
    <2>3. ASSUME NEW d \in ToSet(m2.alloc), NEW g \in ToSet(m2.alloc), d # g
          PROVE  d.buff # g.buff
      BY <1>5, <2>3, SameOperators, MemoryAssumption, Alloc!BlocksAreApart
    <2> QED
      BY <2>1, <2>2, <2>3
  <1>8. b # c /\ b \in ToSet(m2.alloc) /\ b.buff = x
    BY <1>2, <1>4
  <1>9. x # y
    BY <1>7, <1>8
  <1>10. \A d \in ToSet(m.alloc) : d.buff # x /\ d.buff # y
    <2> HIDE DEF b, c
    <2> QED
      BY <1>2, <1>4, <1>7
  <1>11. \A f \in S : x \notin Starts(f) /\ y \notin Starts(f)
    <2> SUFFICES ASSUME NEW f \in S PROVE x \notin Starts(f) /\ y \notin Starts(f)
      OBVIOUS
    <2> DEFINE g == [buff |-> f.addr, buff_size |-> ItemSize]
               h == [buff |-> f.data, buff_size |-> f.data_size]
    <2>1. g \in ToSet(m.alloc) /\ h \in ToSet(m.alloc)
      BY ItemBlocks
    <2>2. g.buff = f.addr /\ h.buff = f.data
      OBVIOUS
    <2> HIDE DEF g, h
    <2> QED
      BY <1>10, <2>1, <2>2 DEF Starts
  <1>12. Starts(e) = {x, y} /\ BlocksOf(e) = {b, c} /\ e.addr = x /\ e.data = y /\ e.data_size = n
    BY DEF Starts, BlocksOf
  <1> HIDE DEF e, b, c
  <1>13. e \notin S
    BY <1>11, <1>12
  <1>14. Owns(m2.alloc, S \cup {e})
    <2>1. AllBlocks(S \cup {e}) = AllBlocks(S) \cup {b, c}
      BY <1>12, OneMoreItem
    <2>2. ToSet(m2.alloc) = AllBlocks(S \cup {e})
      BY <1>2, <1>4, <2>1 DEF Owns
    <2>3. \A f, g \in S \cup {e} : f # g => Starts(f) \cap Starts(g) = {}
      BY <1>11, <1>12 DEF Owns
    <2> QED
      BY <1>6, <1>9, <1>12, <2>2, <2>3 DEF Owns
  <1>15. Len(m2.alloc) = Len(m.alloc) + 2
    BY <1>2, <1>4, AllocLength
  <1> QED
    BY <1>1, <1>5, <1>6, <1>12, <1>13, <1>14, <1>15

(* Freeing an item gives back its two blocks and no other.                 *)
LEMMA FreedOwns ==
  ASSUME NEW m, NEW S, NEW e \in S, Alloc!Accounted(m), Owns(m.alloc, S)
  PROVE  LET new == Freed(m, e)
         IN  /\ Follows(new, m) /\ Owns(new.alloc, S \ {e})
             /\ Len(new.alloc) = Len(m.alloc) - 2
  <1> DEFINE b == [buff |-> e.addr, buff_size |-> ItemSize]
             c == [buff |-> e.data, buff_size |-> e.data_size]
             m1 == Mem!Released(m, e.data)
             m2 == Mem!Released(m1, e.addr)
  <1>1. b \in ToSet(m.alloc) /\ c \in ToSet(m.alloc) /\ e.addr # e.data
    BY ItemBlocks
  <1>2. /\ Follows(m1, m) /\ ToSet(m1.alloc) = ToSet(m.alloc) \ {c}
        /\ Len(m1.alloc) = Len(m.alloc) - 1
    BY <1>1, Releasing
  <1>3. b # c
    BY <1>1
  <1> HIDE DEF m1
  <1>4. b \in ToSet(m1.alloc) /\ Alloc!Accounted(m1)
    BY <1>1, <1>2, <1>3 DEF Follows
  <1>5. /\ Follows(m2, m1) /\ ToSet(m2.alloc) = ToSet(m1.alloc) \ {b}
        /\ Len(m2.alloc) = Len(m1.alloc) - 1
    BY <1>4, Releasing
  <1>6. Freed(m, e) = m2
    BY DEF Freed, m1
  <1>7. BlocksOf(e) = {b, c}
    BY DEF BlocksOf
  <1> HIDE DEF m2, b, c
  <1>8. ToSet(m2.alloc) = ToSet(m.alloc) \ BlocksOf(e)
    BY <1>2, <1>5, <1>7
  <1>9. ASSUME NEW f \in S, f # e
        PROVE  BlocksOf(f) \cap BlocksOf(e) = {}
    <2>1. \A d \in BlocksOf(f) : d.buff \in Starts(f)
      BY DEF BlocksOf, Starts
    <2>2. \A d \in BlocksOf(e) : d.buff \in Starts(e)
      BY DEF BlocksOf, Starts
    <2>3. Starts(f) \cap Starts(e) = {}
      BY <1>9 DEF Owns
    <2> QED
      BY <2>1, <2>2, <2>3
  <1>10. ToSet(m2.alloc) = AllBlocks(S \ {e})
    BY <1>8, <1>9, OneItemLess DEF Owns
  <1>11. Owns(m2.alloc, S \ {e})
    BY <1>10 DEF Owns
  <1>12. Len(m2.alloc) = Len(m.alloc) - 2
    BY <1>2, <1>5, AllocLength
  <1> QED
    BY <1>2, <1>5, <1>6, <1>11, <1>12 DEF Follows

-----------------------------------------------------------------------------
(* The list of items. *)

NoItemTwice(items) == \A i, j \in 1 .. Len(items) : i # j => items[i] # items[j]

(* rest is items without the item e.                                       *)
Unlinked(rest, items, e) ==
  /\ rest \in Seq(Item) /\ NoItemTwice(rest) /\ Len(rest) = Len(items) - 1
  /\ e \in ToSet(items) /\ ToSet(rest) = ToSet(items) \ {e}

LEMMA ElementsOf ==
  ASSUME NEW items \in Seq(Item), NEW e
  PROVE  e \in ToSet(items) <=> \E i \in 1 .. Len(items) : e = items[i]
  BY LenProperties DEF ToSet

LEMMA ElementsUpTo ==
  ASSUME NEW items \in Seq(Item), NEW n, Len(items) = n
  PROVE  \A e : e \in ToSet(items) <=> \E i \in 1 .. n : e = items[i]
  BY ElementsOf, Zenon

LEMMA AppendedItem ==
  ASSUME NEW items \in Seq(Item), NoItemTwice(items), NEW e \in Item, e \notin ToSet(items)
  PROVE  /\ Append(items, e) \in Seq(Item) /\ NoItemTwice(Append(items, e))
         /\ Len(Append(items, e)) = Len(items) + 1
         /\ ToSet(Append(items, e)) = ToSet(items) \cup {e}
  <1> DEFINE t == Append(items, e)
             n == Len(items)
  <1>1. /\ t \in Seq(Item) /\ n \in Nat /\ Len(t) = n + 1 /\ t[n + 1] = e
        /\ \A i \in 1 .. n : t[i] = items[i]
    BY AppendProperties, LenProperties
  <1>2. \A i \in 1 .. n : items[i] # e
    BY ElementsOf
  <1> HIDE DEF t
  <1>3. \A f : f \in ToSet(t) <=> \E i \in 1 .. n + 1 : f = t[i]
    BY <1>1, ElementsUpTo
  <1>4. \A f : f \in ToSet(items) <=> \E i \in 1 .. n : f = items[i]
    BY ElementsOf
  <1>5. \A i \in 1 .. n + 1 : i \in 1 .. n \/ i = n + 1
    BY <1>1
  <1>6. n + 1 \in 1 .. n + 1 /\ 1 .. n \subseteq 1 .. n + 1
    BY <1>1
  <1>7. ToSet(t) = ToSet(items) \cup {e}
    <2>1. ASSUME NEW f PROVE f \in ToSet(t) <=> f \in ToSet(items) \/ f = e
      BY <1>1, <1>3, <1>4, <1>5, <1>6
    <2> QED
      BY <2>1
  <1>8. NoItemTwice(t)
    BY <1>1, <1>2, <1>5 DEF NoItemTwice
  <1> QED
    BY <1>1, <1>7, <1>8 DEF t

(* Unlinking the item at one end: the others keep their order.             *)
LEMMA UnlinkedEnd ==
  ASSUME NEW items \in Seq(Item), NoItemTwice(items), NEW rest \in Seq(Item), NEW n \in Nat,
         Len(items) = n + 1, Len(rest) = n, NEW k \in {0, 1}, NEW e,
         \A i \in 1 .. n : rest[i] = items[i + k],
         e = items[IF k = 1 THEN 1 ELSE n + 1]
  PROVE  Unlinked(rest, items, e)
  <1>1. \A f : f \in ToSet(rest) <=> \E i \in 1 .. n : f = rest[i]
    BY ElementsUpTo
  <1>2. \A f : f \in ToSet(items) <=> \E i \in 1 .. n + 1 : f = items[i]
    BY ElementsUpTo
  <1> DEFINE h == IF k = 1 THEN 1 ELSE n + 1
  <1>3. /\ h \in 1 .. n + 1 /\ e = items[h]
        /\ \A i \in 1 .. n : i + k \in 1 .. n + 1 /\ i + k # h
        /\ \A j \in 1 .. n + 1 : j # h => j - k \in 1 .. n /\ (j - k) + k = j
    OBVIOUS
  <1> HIDE DEF h
  <1>4. \A i, j \in 1 .. n + 1 : i # j => items[i] # items[j]
    BY DEF NoItemTwice
  <1>5. ASSUME NEW f \in ToSet(rest) PROVE f \in ToSet(items) /\ f # e
    <2>1. PICK i \in 1 .. n : f = rest[i]
      BY <1>1, <1>5
    <2>2. f = items[i + k] /\ i + k \in 1 .. n + 1 /\ i + k # h
      BY <1>3, <2>1
    <2> QED
      BY <1>2, <1>3, <1>4, <2>2
  <1>6. ASSUME NEW f \in ToSet(items), f # e PROVE f \in ToSet(rest)
    <2>1. PICK j \in 1 .. n + 1 : f = items[j]
      BY <1>2, <1>6
    <2>2. j - k \in 1 .. n /\ (j - k) + k = j
      BY <1>3, <1>6, <2>1
    <2>3. rest[j - k] = f
      BY <2>1, <2>2
    <2> QED
      BY <1>1, <2>2, <2>3
  <1>7. ToSet(rest) = ToSet(items) \ {e}
    BY <1>5, <1>6
  <1>8. NoItemTwice(rest)
    <2> SUFFICES ASSUME NEW i \in 1 .. n, NEW j \in 1 .. n, i # j PROVE rest[i] # rest[j]
      BY DEF NoItemTwice
    <2>1. i + k \in 1 .. n + 1 /\ j + k \in 1 .. n + 1 /\ i + k # j + k
      BY <1>3
    <2> QED
      BY <1>4, <2>1
  <1>9. e \in ToSet(items)
    BY <1>2, <1>3
  <1> QED
    BY <1>7, <1>8, <1>9 DEF Unlinked

LEMMA UnlinkedFront ==
  ASSUME NEW items \in Seq(Item), NoItemTwice(items), items # << >>
  PROVE  Unlinked(Tail(items), items, Head(items))
  <1> DEFINE n == Len(items) - 1
             rest == Tail(items)
  <1>1. /\ rest \in Seq(Item) /\ Len(rest) = n /\ n \in Nat /\ Len(items) = n + 1
        /\ \A i \in 1 .. n : rest[i] = items[i + 1]
        /\ Head(items) = items[1]
    BY HeadTailProperties, LenProperties
  <1> HIDE DEF n, rest
  <1> QED
    BY <1>1, UnlinkedEnd DEF rest

LEMMA UnlinkedBack ==
  ASSUME NEW items \in Seq(Item), NoItemTwice(items), items # << >>
  PROVE  Unlinked(Front(items), items, Last(items))
  <1> DEFINE n == Len(items) - 1
             rest == Front(items)
  <1>1. Len(items) \in Nat \ {0}
    BY LenProperties
  <1>2. /\ rest \in Seq(Item) /\ Len(rest) = n /\ n \in Nat /\ Len(items) = n + 1
        /\ \A i \in 1 .. n : rest[i] = items[i]
    <2>1. n \in Nat /\ Len(items) = n + 1 /\ n <= Len(items)
      BY <1>1
    <2>2. rest = SubSeq(items, 1, n)
      BY DEF Front
    <2> HIDE DEF n
    <2> QED
      BY <2>1, <2>2
  <1>3. Last(items) = items[n + 1]
    BY <1>1 DEF Last
  <1> HIDE DEF n, rest
  <1>4. \A i \in 1 .. n : rest[i] = items[i + 0]
    BY <1>2
  <1> QED
    BY <1>2, <1>3, <1>4, UnlinkedEnd DEF rest

-----------------------------------------------------------------------------
(* The invariant, of one queue: its memory m, its items, those its callers *)
(* hold, and its bytes.                                                    *)

Intact(items, bytes) ==
  \A e \in ToSet(items) :
    \E p \in Payload : \A a \in e.data .. e.data + e.data_size - 1 : bytes[a] = p

(* The data of the items other than e is what it was.                      *)
KeepsData(items, e, bytes, old) ==
  \A f \in ToSet(items) : f # e =>
    \A a \in f.data .. f.data + f.data_size - 1 : bytes[a] = old[a]

Listed(items, held) ==
  /\ items \in Seq(Item) /\ NoItemTwice(items)
  /\ held \subseteq Item /\ IsFiniteSet(held) /\ ToSet(items) \cap held = {}

Keeps(alloc, items, held, bytes) ==
  /\ Listed(items, held)
  /\ Owns(alloc, ToSet(items) \cup held)
  /\ Len(alloc) = 2 * (Len(items) + Cardinality(held))
  /\ bytes \in [Address -> Payload \cup {Zeroed}]
  /\ Intact(items, bytes)

Holds(m, items, held, bytes) ==
  Alloc!Accounted(m) /\ Keeps(m.alloc, items, held, bytes)

LEMMA HeldItems ==
  ASSUME NEW items, NEW held, Listed(items, held)
  PROVE  Len(items) \in Nat /\ Cardinality(held) \in Nat
  BY LenProperties, FS_CardinalityType DEF Listed

(* ezQueue_ReserveElement *)
LEMMA HoldsTaken ==
  ASSUME NEW m, NEW items, NEW held, NEW bytes, Holds(m, items, held, bytes),
         NEW n \in 1 .. MaxDataSize, CanReserve(m, n)
  PROVE  LET t == Taken(m, n)
         IN  /\ Follows(t.memory, m) /\ t.element \notin ToSet(items) \cup held
             /\ t.element.data_size = n
             /\ Holds(t.memory, items, held \cup {t.element}, bytes)
  <1> DEFINE S == ToSet(items) \cup held
             new == Taken(m, n).memory
             e == Taken(m, n).element
  <1>1. /\ Follows(new, m) /\ e \in Item /\ e \notin S /\ e.data_size = n
        /\ Owns(new.alloc, S \cup {e}) /\ Len(new.alloc) = Len(m.alloc) + 2
    BY TakenOwns DEF Holds, Keeps
  <1> HIDE DEF new, e
  <1>2. IsFiniteSet(held) /\ e \notin held
    BY <1>1 DEF Holds, Keeps, Listed
  <1>3. IsFiniteSet(held \cup {e}) /\ Cardinality(held \cup {e}) = Cardinality(held) + 1
    BY <1>2, FS_AddElement
  <1>4. Listed(items, held \cup {e})
    BY <1>1, <1>3 DEF Holds, Keeps, Listed
  <1>5. S \cup {e} = ToSet(items) \cup (held \cup {e})
    OBVIOUS
  <1>6. Len(new.alloc) = 2 * (Len(items) + Cardinality(held \cup {e}))
    BY <1>1, <1>3, HeldItems DEF Holds, Keeps
  <1> QED
    BY <1>1, <1>4, <1>5, <1>6 DEF Holds, Keeps, Follows, new, e

(* ezQueue_PushReservedElement *)
Pushed(q, items, held, e, p, new, rest, bytes) ==
  /\ new = Append(items, e)
  /\ rest = held \ {e}
  /\ bytes = Stored(q, e.data, e.data_size, p)

LEMMA HoldsPushed ==
  ASSUME NEW m, NEW items, NEW held, NEW q \in Queues, Holds(m, items, held, buff[q]),
         NEW e \in held, NEW p \in Payload, NEW new, NEW rest, NEW bytes,
         Pushed(q, items, held, e, p, new, rest, bytes)
  PROVE  /\ Holds(m, new, rest, bytes) /\ KeepsData(items, e, bytes, buff[q])
         /\ bytes[e.data] = p
  <1> DEFINE S == ToSet(items) \cup held
  <1> USE DEF Pushed
  <1>1. /\ items \in Seq(Item) /\ NoItemTwice(items) /\ e \in Item /\ e \notin ToSet(items)
        /\ held \subseteq Item /\ IsFiniteSet(held) /\ ToSet(items) \cap held = {}
    BY DEF Holds, Keeps, Listed
  <1>2. /\ new \in Seq(Item) /\ NoItemTwice(new) /\ Len(new) = Len(items) + 1
        /\ ToSet(new) = ToSet(items) \cup {e}
    BY <1>1, AppendedItem
  <1>3. IsFiniteSet(rest) /\ Cardinality(rest) = Cardinality(held) - 1
    BY <1>1, FS_RemoveElement
  <1>4. Listed(new, rest)
    BY <1>1, <1>2, <1>3 DEF Listed
  <1>5. ToSet(new) \cup rest = S
    BY <1>2
  <1>6. Len(m.alloc) = 2 * (Len(new) + Cardinality(rest))
    BY <1>2, <1>3, HeldItems DEF Holds, Keeps
  <1>7. bytes \in [Address -> Payload \cup {Zeroed}]
    BY DEF Holds, Keeps, Stored
  <1>8. e \in S /\ Alloc!Accounted(m) /\ Owns(m.alloc, S)
    BY DEF Holds, Keeps
  <1>9. ASSUME NEW f \in ToSet(items)
        PROVE  \A a \in f.data .. f.data + f.data_size - 1 : bytes[a] = buff[q][a]
    <2> SUFFICES ASSUME NEW a \in f.data .. f.data + f.data_size - 1
                 PROVE  bytes[a] = buff[q][a]
      OBVIOUS
    <2>1. f \in S /\ e # f
      BY <1>1
    <2> HIDE DEF S
    <2>2. a \in Address /\ a \notin e.data .. e.data + e.data_size - 1
      BY <1>8, <2>1, ItemsApart, DataInBuffer
    <2> QED
      BY <2>2 DEF Stored
  <1>10. \A a \in e.data .. e.data + e.data_size - 1 : bytes[a] = p
    <2> HIDE DEF S
    <2>1. e.data .. e.data + e.data_size - 1 \subseteq Address
      BY <1>8, DataInBuffer
    <2> QED
      BY <2>1 DEF Stored
  <1>11. bytes[e.data] = p
    <2> HIDE DEF S
    <2> QED
      BY <1>8, <1>10, DataInBuffer
  <1>12. KeepsData(items, e, bytes, buff[q])
    BY <1>9 DEF KeepsData
  <1>13. Intact(new, bytes)
    BY <1>2, <1>9, <1>10 DEF Intact, Holds, Keeps
  <1> QED
    BY <1>4, <1>5, <1>6, <1>7, <1>11, <1>12, <1>13 DEF Holds, Keeps

(* What freeing an item e of a queue leaves of the others.                 *)
LEMMA ClearedOthers ==
  ASSUME NEW m, NEW items, NEW held, NEW q \in Queues, Holds(m, items, held, buff[q]),
         NEW e \in ToSet(items) \cup held
  PROVE  /\ Cleared(q, e) \in [Address -> Payload \cup {Zeroed}]
         /\ KeepsData(items, e, Cleared(q, e), buff[q])
  <1> DEFINE bytes == Cleared(q, e)
             S == ToSet(items) \cup held
  <1>1. bytes \in [Address -> Payload \cup {Zeroed}]
    BY DEF Holds, Keeps, Cleared, Stored
  <1>2. e \in S /\ Alloc!Accounted(m) /\ Owns(m.alloc, S)
    BY DEF Holds, Keeps
  <1>3. ASSUME NEW f \in ToSet(items), f # e, NEW a \in f.data .. f.data + f.data_size - 1
        PROVE  bytes[a] = buff[q][a]
    <2>0. f \in S
      OBVIOUS
    <2> HIDE DEF S
    <2>1. /\ a \in Address /\ a \notin e.data .. e.data + e.data_size - 1
          /\ a \notin e.addr .. e.addr + ItemSize - 1
      BY <1>2, <1>3, <2>0, ItemsApart, DataInBuffer
    <2> QED
      BY <2>1 DEF Cleared, Stored
  <1> QED
    BY <1>1, <1>3 DEF KeepsData

(* ezQueue_ReleaseReservedElement *)
LEMMA HoldsReleased ==
  ASSUME NEW m, NEW items, NEW held, NEW q \in Queues, Holds(m, items, held, buff[q]),
         NEW e \in held
  PROVE  /\ Follows(Freed(m, e), m)
         /\ Holds(Freed(m, e), items, held \ {e}, Cleared(q, e))
  <1> DEFINE S == ToSet(items) \cup held
             new == Freed(m, e)
             bytes == Cleared(q, e)
  <1>0. e \in S /\ Alloc!Accounted(m) /\ Owns(m.alloc, S)
    BY DEF Holds, Keeps
  <1>1. /\ Follows(new, m) /\ Owns(new.alloc, S \ {e}) /\ Len(new.alloc) = Len(m.alloc) - 2
    <2> HIDE DEF S
    <2> QED
      BY <1>0, FreedOwns
  <1>2. /\ bytes \in [Address -> Payload \cup {Zeroed}]
        /\ KeepsData(items, e, bytes, buff[q])
    BY <1>0, ClearedOthers
  <1> HIDE DEF new, bytes
  <1>3. IsFiniteSet(held) /\ e \notin ToSet(items)
    BY DEF Holds, Keeps, Listed
  <1>4. IsFiniteSet(held \ {e}) /\ Cardinality(held \ {e}) = Cardinality(held) - 1
    BY <1>3, FS_RemoveElement
  <1>5. Listed(items, held \ {e})
    BY <1>4 DEF Holds, Keeps, Listed
  <1>6. S \ {e} = ToSet(items) \cup (held \ {e})
    BY <1>3
  <1>7. Len(new.alloc) = 2 * (Len(items) + Cardinality(held \ {e}))
    BY <1>1, <1>4, HeldItems DEF Holds, Keeps
  <1>8. Intact(items, bytes)
    BY <1>2, <1>3 DEF Intact, KeepsData, Holds, Keeps
  <1> QED
    BY <1>1, <1>2, <1>5, <1>6, <1>7, <1>8 DEF Holds, Keeps, Follows, new, bytes

(* ezQueue_PopFront and ezQueue_PopBack *)
LEMMA HoldsPopped ==
  ASSUME NEW m, NEW items, NEW held, NEW q \in Queues, Holds(m, items, held, buff[q]),
         NEW e, NEW rest, Unlinked(rest, items, e)
  PROVE  /\ Follows(Freed(m, e), m)
         /\ Holds(Freed(m, e), rest, held, Cleared(q, e))
  <1> DEFINE S == ToSet(items) \cup held
             new == Freed(m, e)
             bytes == Cleared(q, e)
  <1>0. /\ rest \in Seq(Item) /\ NoItemTwice(rest) /\ Len(rest) = Len(items) - 1
        /\ e \in ToSet(items) /\ ToSet(rest) = ToSet(items) \ {e}
    BY DEF Unlinked
  <1>1. /\ Follows(new, m) /\ Owns(new.alloc, S \ {e}) /\ Len(new.alloc) = Len(m.alloc) - 2
    <2>1. e \in S /\ Alloc!Accounted(m) /\ Owns(m.alloc, S)
      BY <1>0 DEF Holds, Keeps
    <2> HIDE DEF S
    <2> QED
      BY <2>1, FreedOwns
  <1>2. /\ bytes \in [Address -> Payload \cup {Zeroed}]
        /\ KeepsData(items, e, bytes, buff[q])
    <2>1. e \in ToSet(items) \cup held
      BY <1>0
    <2> QED
      BY <2>1, ClearedOthers
  <1> HIDE DEF new, bytes
  <1>3. e \notin held
    BY <1>0 DEF Holds, Keeps, Listed
  <1>4. Listed(rest, held)
    BY <1>0 DEF Holds, Keeps, Listed
  <1>5. S \ {e} = ToSet(rest) \cup held
    BY <1>0, <1>3
  <1>6. Len(new.alloc) = 2 * (Len(rest) + Cardinality(held))
    BY <1>0, <1>1, HeldItems DEF Holds, Keeps
  <1>7. Intact(rest, bytes)
    BY <1>0, <1>2 DEF Intact, KeepsData, Holds, Keeps
  <1> QED
    BY <1>1, <1>2, <1>4, <1>5, <1>6, <1>7 DEF Holds, Keeps, Follows, new, bytes

-----------------------------------------------------------------------------
(* The inductive invariant. *)

Typed ==
  /\ buff \in [Queues -> [Address -> Payload \cup {Zeroed}]]
  /\ q_item_list \in [Queues -> Seq(Item)]
  /\ reserved \in [Queues -> SUBSET Item]
  /\ alloc_list \in [Queues -> Seq(Alloc!FitBlock)]
  /\ free_list \in [Queues -> Seq(Alloc!FitBlock)]

IInv ==
  /\ Alloc!PoolInv
  /\ Typed
  /\ \A q \in Queues : Keeps(alloc_list[q], q_item_list[q], reserved[q], buff[q])

LEMMA HoldsNow ==
  ASSUME IInv, NEW q \in Queues
  PROVE  Holds(Mem!Memory(q), q_item_list[q], reserved[q], buff[q])
  <1>1. Alloc!Accounted(Alloc!Memory(q))
    BY MemoryAssumption, Alloc!MemoryIsAccounted DEF IInv
  <1>2. Mem!Memory(q).alloc = alloc_list[q]
    BY DEF Mem!Memory
  <1> QED
    BY <1>1, <1>2, SameActions DEF Holds, IInv

(* What one queue does is no concern of the others.                        *)
LEMMA QueueBecomes ==
  ASSUME IInv, NEW q \in Queues, NEW m, NEW items, NEW held, NEW bytes,
         Mem!Becomes(q, m), ready' = ready, Follows(m, Mem!Memory(q)),
         Holds(m, items, held, bytes),
         q_item_list' = [q_item_list EXCEPT ![q] = items],
         reserved' = [reserved EXCEPT ![q] = held],
         buff' = [buff EXCEPT ![q] = bytes]
  PROVE  IInv'
  <1>1. Alloc!Becomes(q, m) /\ Alloc!Memory(q) = Mem!Memory(q)
    BY SameActions
  <1>2. Alloc!PoolInv'
    BY <1>1, MemoryAssumption, Alloc!BecomesKeepsPool DEF IInv, Follows
  <1>3. Keeps(m.alloc, items, held, bytes)
    BY DEF Holds
  <1>4. m.alloc \in Seq(Alloc!FitBlock) /\ m.free \in Seq(Alloc!FitBlock)
    BY DEF Holds, Alloc!Accounted, Alloc!Sound
  <1>5. items \in Seq(Item) /\ held \subseteq Item /\ bytes \in [Address -> Payload \cup {Zeroed}]
    BY <1>3 DEF Keeps, Listed
  <1>6. /\ free_list' = [free_list EXCEPT ![q] = m.free]
        /\ alloc_list' = [alloc_list EXCEPT ![q] = m.alloc]
    BY DEF Mem!Becomes
  <1>7. Typed'
    BY <1>4, <1>5, <1>6 DEF IInv, Typed
  <1>8. ASSUME NEW k \in Queues
        PROVE  Keeps(alloc_list'[k], q_item_list'[k], reserved'[k], buff'[k])
    <2>1. CASE k = q
      <3>1. /\ alloc_list'[k] = m.alloc /\ q_item_list'[k] = items
            /\ reserved'[k] = held /\ buff'[k] = bytes
        BY <1>6, <2>1 DEF IInv, Typed
      <3> QED
        BY <1>3, <3>1
    <2>2. CASE k # q
      <3>1. /\ alloc_list'[k] = alloc_list[k] /\ q_item_list'[k] = q_item_list[k]
            /\ reserved'[k] = reserved[k] /\ buff'[k] = buff[k]
        BY <1>6, <2>2 DEF IInv, Typed
      <3> QED
        BY <3>1 DEF IInv
    <2> QED
      BY <2>1, <2>2
  <1> QED
    BY <1>2, <1>7, <1>8 DEF IInv

LEMMA EmptyKeeps ==
  Keeps(<< >>, << >>, {}, [a \in Address |-> Zeroed])
  <1>1. ToSet(<< >>) = {} /\ << >> \in Seq(Item) /\ Len(<< >>) = 0
    BY DEF ToSet
  <1>2. IsFiniteSet({}) /\ Cardinality({}) = 0
    BY FS_EmptySet
  <1>3. AllBlocks({}) = {}
    BY DEF AllBlocks
  <1>4. Listed(<< >>, {})
    BY <1>1, <1>2 DEF Listed, NoItemTwice
  <1>5. Owns(<< >>, ToSet(<< >>) \cup {})
    BY <1>1, <1>3 DEF Owns
  <1>6. Intact(<< >>, [a \in Address |-> Zeroed])
    BY <1>1 DEF Intact
  <1> QED
    BY <1>1, <1>2, <1>4, <1>5, <1>6 DEF Keeps

LEMMA InitIInv == Init => IInv
  <1> SUFFICES ASSUME Init PROVE IInv
    OBVIOUS
  <1>1. Alloc!PoolInv
    BY MemoryAssumption, SameActions, Alloc!InitPoolInv DEF Init
  <1>2. /\ free_list = [q \in Queues |-> << >>] /\ alloc_list = [q \in Queues |-> << >>]
        /\ buff = [q \in Queues |-> [a \in Address |-> Zeroed]]
        /\ q_item_list = [q \in Queues |-> << >>]
        /\ reserved = [q \in Queues |-> {}]
    BY DEF Init, Mem!Init
  <1>3. Typed
    BY <1>2, EmptySeq DEF Typed
  <1>4. ASSUME NEW q \in Queues
        PROVE  Keeps(alloc_list[q], q_item_list[q], reserved[q], buff[q])
    <2>1. /\ alloc_list[q] = << >> /\ q_item_list[q] = << >> /\ reserved[q] = {}
          /\ buff[q] = [a \in Address |-> Zeroed]
      BY <1>2
    <2> QED
      BY <2>1, EmptyKeeps
  <1> QED
    BY <1>1, <1>3, <1>4 DEF IInv

LEMMA CreateStep ==
  ASSUME IInv, NEW q \in Queues, CreateQueue(q)
  PROVE  IInv'
  <1>1. Alloc!PoolInv'
    BY MemoryAssumption, SameActions, Alloc!InitMemListKeepsPool DEF IInv, CreateQueue
  <1>2. /\ alloc_list' = [alloc_list EXCEPT ![q] = << >>]
        /\ q_item_list' = [q_item_list EXCEPT ![q] = << >>]
        /\ reserved' = [reserved EXCEPT ![q] = {}]
        /\ buff' = [buff EXCEPT ![q] = [a \in Address |-> Zeroed]]
    BY DEF CreateQueue, Mem!InitMemList, Mem!Becomes, Mem!Initialised
  <1>3. free_list' \in [Queues -> Seq(Alloc!FitBlock)]
    BY <1>1 DEF Alloc!PoolInv, Alloc!IInv
  <1>4. Typed'
    BY <1>2, <1>3, EmptySeq DEF IInv, Typed
  <1>5. ASSUME NEW k \in Queues
        PROVE  Keeps(alloc_list'[k], q_item_list'[k], reserved'[k], buff'[k])
    <2>1. CASE k = q
      <3>1. /\ alloc_list'[k] = << >> /\ q_item_list'[k] = << >>
            /\ reserved'[k] = {} /\ buff'[k] = [a \in Address |-> Zeroed]
        BY <1>2, <2>1 DEF IInv, Typed
      <3> QED
        BY <3>1, EmptyKeeps
    <2>2. CASE k # q
      <3>1. /\ alloc_list'[k] = alloc_list[k] /\ q_item_list'[k] = q_item_list[k]
            /\ reserved'[k] = reserved[k] /\ buff'[k] = buff[k]
        BY <1>2, <2>2 DEF IInv, Typed
      <3> QED
        BY <3>1 DEF IInv
    <2> QED
      BY <2>1, <2>2
  <1> QED
    BY <1>1, <1>4, <1>5 DEF IInv

-----------------------------------------------------------------------------
(* The payloads read from the queues, for the refinement. *)

Elements ==
  [q \in Queues |-> [i \in DOMAIN q_item_list[q] |-> DataOf(q, q_item_list[q][i])]]
Pending == [q \in Queues |-> Cardinality(reserved[q])]

Values(items, bytes) == [i \in DOMAIN items |-> bytes[items[i].data]]

LEMMA Mapped ==
  /\ IInv => \A q \in Queues : /\ Elements[q] = Values(q_item_list[q], buff[q])
                               /\ Pending[q] = Cardinality(reserved[q])
  /\ DOMAIN Elements = Queues /\ DOMAIN Pending = Queues
  BY DEF IInv, Typed, Elements, Pending, Values, DataOf

(* The lists and the bytes of queue q change, those of the others do not.  *)
Lists(q, items, held, bytes) ==
  /\ q_item_list' = [q_item_list EXCEPT ![q] = items]
  /\ reserved' = [reserved EXCEPT ![q] = held]
  /\ buff' = [buff EXCEPT ![q] = bytes]

LEMMA MappedBecomes ==
  ASSUME IInv, NEW q \in Queues, NEW items, NEW held, NEW bytes,
         Lists(q, items, held, bytes)
  PROVE  /\ Elements' = [Elements EXCEPT ![q] = Values(items, bytes)]
         /\ Pending' = [Pending EXCEPT ![q] = Cardinality(held)]
  <1>1. \A k \in Queues : /\ q_item_list'[k] = IF k = q THEN items ELSE q_item_list[k]
                          /\ buff'[k] = IF k = q THEN bytes ELSE buff[k]
                          /\ reserved'[k] = IF k = q THEN held ELSE reserved[k]
    BY DEF Lists, IInv, Typed
  <1>2. Elements' = [k \in Queues |-> Values(q_item_list'[k], buff'[k])]
    BY DEF Elements, Values, DataOf
  <1>3. Elements = [k \in Queues |-> Values(q_item_list[k], buff[k])]
    BY DEF Elements, Values, DataOf
  <1>4. Elements' = [Elements EXCEPT ![q] = Values(items, bytes)]
    <2>1. \A k \in Queues : Values(q_item_list'[k], buff'[k])
                              = IF k = q THEN Values(items, bytes)
                                ELSE Values(q_item_list[k], buff[k])
      BY <1>1
    <2> QED
      BY <1>2, <1>3, <2>1
  <1>5. Pending' = [Pending EXCEPT ![q] = Cardinality(held)]
    <2>1. \A k \in Queues : Cardinality(reserved'[k])
                              = IF k = q THEN Cardinality(held) ELSE Cardinality(reserved[k])
      BY <1>1
    <2>2. Pending' = [k \in Queues |-> Cardinality(reserved'[k])]
      BY DEF Pending
    <2> QED
      BY <2>1, <2>2 DEF Pending
  <1> QED
    BY <1>4, <1>5

(* What is read of the other items does not change.                        *)
LEMMA SameData ==
  ASSUME NEW items \in Seq(Item), NEW e, NEW bytes, NEW old, KeepsData(items, e, bytes, old),
         NEW f \in ToSet(items), f # e
  PROVE  bytes[f.data] = old[f.data]
  <1>1. f \in Item
    <2>1. \E i \in 1 .. Len(items) : f = items[i]
      BY ElementsOf
    <2> QED
      BY <2>1, ElementOfSeq
  <1>2. f.data \in f.data .. f.data + f.data_size - 1
    BY <1>1, ItemFields
  <1> QED
    BY <1>2 DEF KeepsData

LEMMA ValuesAppend ==
  ASSUME NEW items \in Seq(Item), NEW e \in Item, e \notin ToSet(items), NEW bytes, NEW old,
         KeepsData(items, e, bytes, old)
  PROVE  Values(Append(items, e), bytes) = Append(Values(items, old), bytes[e.data])
  <1> DEFINE new == Append(items, e)
             n == Len(items)
             v == Values(items, old)
             w == Values(new, bytes)
             T == {v[i] : i \in 1 .. n} \cup {bytes[e.data]}
  <1>1. /\ new \in Seq(Item) /\ n \in Nat /\ Len(new) = n + 1 /\ new[n + 1] = e
        /\ \A i \in 1 .. n : new[i] = items[i]
        /\ DOMAIN items = 1 .. n /\ DOMAIN new = 1 .. n + 1
    BY AppendProperties, LenProperties
  <1> HIDE DEF new
  <1>2. ASSUME NEW i \in 1 .. n
        PROVE  bytes[items[i].data] = old[items[i].data]
    <2>1. items[i] \in ToSet(items)
      BY ElementsOf
    <2> QED
      BY <2>1, SameData
  <1>3. v = [i \in 1 .. n |-> old[items[i].data]]
    BY <1>1 DEF Values
  <1>4. w = [i \in 1 .. n + 1 |-> bytes[new[i].data]]
    BY <1>1 DEF Values
  <1>5. \A i \in 1 .. n : v[i] \in T
    OBVIOUS
  <1> HIDE DEF T, v, w
  <1>6. v \in Seq(T) /\ Len(v) = n
    BY <1>1, <1>3, <1>5
  <1>7. bytes[e.data] \in T
    BY DEF T
  <1>8. w = Append(v, bytes[e.data])
    <2> DEFINE x == bytes[e.data]
    <2>1. /\ Append(v, x) \in Seq(T) /\ Len(Append(v, x)) = n + 1 /\ Append(v, x)[n + 1] = x
          /\ \A i \in 1 .. n : Append(v, x)[i] = v[i]
      BY <1>6, <1>7, AppendProperties
    <2>2. \A i \in 1 .. n : w[i] = v[i]
      BY <1>1, <1>2, <1>3, <1>4
    <2>3. w[n + 1] = x
      BY <1>1, <1>4
    <2> HIDE DEF x
    <2>4. \A i \in 1 .. n + 1 : w[i] = Append(v, x)[i]
      BY <1>1, <2>1, <2>2, <2>3
    <2>5. \A i \in 1 .. n + 1 : w[i] \in T
      BY <1>1, <1>6, <1>7, <2>2, <2>3, ElementOfSeq DEF x
    <2>6. w \in Seq(T) /\ Len(w) = n + 1
      BY <1>1, <1>4, <2>5
    <2> QED
      BY <2>1, <2>4, <2>6, SeqEqual DEF x
  <1> QED
    BY <1>8 DEF v, w, new

LEMMA ValuesTail ==
  ASSUME NEW items \in Seq(Item), items # << >>, NoItemTwice(items), NEW bytes, NEW old,
         KeepsData(items, Head(items), bytes, old)
  PROVE  /\ Values(items, old) # << >>
         /\ Values(Tail(items), bytes) = Tail(Values(items, old))
  <1> DEFINE rest == Tail(items)
             n == Len(items) - 1
             v == Values(items, old)
             w == Values(rest, bytes)
             T == {v[i] : i \in 1 .. n + 1}
  <1>1. /\ rest \in Seq(Item) /\ n \in Nat /\ Len(items) = n + 1 /\ Len(rest) = n
        /\ \A i \in 1 .. n : rest[i] = items[i + 1]
        /\ Head(items) = items[1]
        /\ DOMAIN items = 1 .. n + 1 /\ DOMAIN rest = 1 .. n
    BY HeadTailProperties, LenProperties
  <1> HIDE DEF rest, n
  <1>2. ASSUME NEW i \in 1 .. n
        PROVE  bytes[rest[i].data] = old[items[i + 1].data]
    <2>1. i + 1 \in 1 .. n + 1 /\ i + 1 # 1 /\ 1 \in 1 .. n + 1
      BY <1>1
    <2>2. items[i + 1] \in ToSet(items) /\ items[i + 1] # Head(items)
      BY <1>1, <2>1, ElementsOf DEF NoItemTwice
    <2> QED
      BY <1>1, <2>2, SameData
  <1>3. v = [i \in 1 .. n + 1 |-> old[items[i].data]]
    BY <1>1 DEF Values
  <1>4. w = [i \in 1 .. n |-> bytes[rest[i].data]]
    BY <1>1 DEF Values
  <1>5. \A i \in 1 .. n + 1 : v[i] \in T
    OBVIOUS
  <1> HIDE DEF T, v, w
  <1>6. v \in Seq(T) /\ Len(v) = n + 1 /\ v # << >>
    BY <1>1, <1>3, <1>5
  <1>7. /\ Tail(v) \in Seq(T) /\ Len(Tail(v)) = n
        /\ \A i \in 1 .. n : Tail(v)[i] = v[i + 1]
    BY <1>1, <1>6, HeadTailProperties
  <1>8. \A i \in 1 .. n : w[i] = Tail(v)[i]
    BY <1>1, <1>2, <1>3, <1>4, <1>7
  <1>9. w \in Seq(T) /\ Len(w) = n
    <2>1. \A i \in 1 .. n : w[i] \in T
      BY <1>1, <1>7, <1>8, ElementOfSeq
    <2> QED
      BY <1>1, <1>4, <2>1
  <1>10. w = Tail(v)
    BY <1>7, <1>8, <1>9, SeqEqual
  <1> QED
    BY <1>6, <1>10 DEF v, w, rest

LEMMA ValuesFront ==
  ASSUME NEW items \in Seq(Item), items # << >>, NoItemTwice(items), NEW bytes, NEW old,
         KeepsData(items, Last(items), bytes, old)
  PROVE  /\ Values(items, old) # << >>
         /\ Values(Front(items), bytes) = Front(Values(items, old))
  <1> DEFINE rest == Front(items)
             n == Len(items) - 1
             v == Values(items, old)
             w == Values(rest, bytes)
             T == {v[i] : i \in 1 .. n + 1}
  <1>1. /\ n \in Nat /\ Len(items) = n + 1 /\ DOMAIN items = 1 .. n + 1
        /\ rest = [i \in 1 .. n |-> items[i]]
        /\ Last(items) = items[n + 1]
    <2>1. Len(items) \in Nat \ {0}
      BY LenProperties
    <2>2. n \in Nat /\ Len(items) = n + 1 /\ DOMAIN items = 1 .. n + 1
      BY <2>1, LenProperties
    <2>3. rest = SubSeq(items, 1, n)
      BY DEF Front
    <2>4. Last(items) = items[n + 1]
      BY <2>1 DEF Last
    <2> HIDE DEF n, rest
    <2>5. rest = [i \in 1 .. n |-> items[i]]
      BY <2>2, <2>3
    <2> QED
      BY <2>2, <2>4, <2>5
  <1> HIDE DEF rest, n
  <1>2. ASSUME NEW i \in 1 .. n
        PROVE  bytes[rest[i].data] = old[items[i].data]
    <2>1. i \in 1 .. n + 1 /\ i # n + 1 /\ n + 1 \in 1 .. n + 1
      BY <1>1
    <2>2. items[i] \in ToSet(items) /\ items[i] # Last(items)
      BY <1>1, <2>1, ElementsOf DEF NoItemTwice
    <2> QED
      BY <1>1, <2>2, SameData
  <1>3. v = [i \in 1 .. n + 1 |-> old[items[i].data]]
    BY <1>1 DEF Values
  <1>4. w = [i \in 1 .. n |-> bytes[rest[i].data]]
    BY <1>1 DEF Values
  <1>5. \A i \in 1 .. n + 1 : v[i] \in T
    OBVIOUS
  <1> HIDE DEF T, v, w
  <1>6. v \in Seq(T) /\ Len(v) = n + 1 /\ v # << >>
    BY <1>1, <1>3, <1>5
  <1>7. Front(v) \in Seq(T) /\ Len(Front(v)) = n /\ \A i \in 1 .. n : Front(v)[i] = v[i]
    <2>1. Front(v) = SubSeq(v, 1, n)
      BY <1>1, <1>6 DEF Front
    <2> QED
      BY <1>1, <1>6, <2>1
  <1>8. \A i \in 1 .. n : w[i] = Front(v)[i]
    BY <1>1, <1>2, <1>3, <1>4, <1>7
  <1>9. w \in Seq(T) /\ Len(w) = n
    <2>1. \A i \in 1 .. n : w[i] \in T
      BY <1>1, <1>7, <1>8, ElementOfSeq
    <2> QED
      BY <1>1, <1>4, <2>1
  <1>10. w = Front(v)
    BY <1>7, <1>8, <1>9, SeqEqual
  <1> QED
    BY <1>6, <1>10 DEF v, w, rest

-----------------------------------------------------------------------------
(* One lemma per operation: it keeps the invariant, and is the operation   *)
(* of the same name of the abstract queue.                                 *)

LEMMA CreateMapped ==
  ASSUME IInv, NEW q \in Queues, CreateQueue(q)
  PROVE  IInv' /\ Deque!Create(q)
  <1> DEFINE zero == [a \in Address |-> Zeroed]
  <1>1. /\ q_item_list' = [q_item_list EXCEPT ![q] = << >>]
        /\ reserved' = [reserved EXCEPT ![q] = {}]
        /\ buff' = [buff EXCEPT ![q] = zero]
    BY DEF CreateQueue
  <1> HIDE DEF zero
  <1>0. Lists(q, << >>, {}, zero)
    BY <1>1 DEF Lists
  <1>2. /\ Elements' = [Elements EXCEPT ![q] = Values(<< >>, zero)]
        /\ Pending' = [Pending EXCEPT ![q] = Cardinality({})]
    BY <1>0, MappedBecomes
  <1>3. Values(<< >>, zero) = << >> /\ Cardinality({}) = 0
    BY FS_EmptySet DEF Values
  <1>4. Elements' = [Elements EXCEPT ![q] = << >>] /\ Pending' = [Pending EXCEPT ![q] = 0]
    BY <1>2, <1>3
  <1> QED
    BY <1>4, CreateStep DEF Deque!Create, Elements, Pending

LEMMA ReserveMapped ==
  ASSUME IInv, NEW q \in Queues, NEW n \in 1 .. MaxDataSize, ReserveElement(q, n)
  PROVE  IInv' /\ Deque!Reserve(q)
  <1> DEFINE t == Taken(Mem!Memory(q), n)
             held == reserved[q] \cup {t.element}
  <1>1. /\ Mem!Becomes(q, t.memory) /\ UNCHANGED <<ready, buff, q_item_list>>
        /\ reserved' = [reserved EXCEPT ![q] = held] /\ CanReserve(Mem!Memory(q), n)
    BY DEF ReserveElement
  <1>2. Holds(Mem!Memory(q), q_item_list[q], reserved[q], buff[q])
    BY HoldsNow
  <1>3. /\ Follows(t.memory, Mem!Memory(q)) /\ t.element \notin reserved[q]
        /\ Holds(t.memory, q_item_list[q], held, buff[q])
    BY <1>1, <1>2, HoldsTaken
  <1> HIDE DEF t
  <1>4. IsFiniteSet(reserved[q])
    BY <1>2 DEF Holds, Keeps, Listed
  <1>5. Cardinality(held) = Cardinality(reserved[q]) + 1
    BY <1>3, <1>4, FS_AddElement
  <1> HIDE DEF held
  <1>6. /\ q_item_list' = [q_item_list EXCEPT ![q] = q_item_list[q]]
        /\ buff' = [buff EXCEPT ![q] = buff[q]]
    BY <1>1 DEF IInv, Typed
  <1>7. IInv'
    BY <1>1, <1>3, <1>6, QueueBecomes
  <1>8. Elements' = Elements
    BY <1>1 DEF Elements, DataOf
  <1>9. Pending' = [Pending EXCEPT ![q] = Cardinality(held)]
    <2>1. Lists(q, q_item_list[q], held, buff[q])
      BY <1>1, <1>6 DEF Lists
    <2> QED
      BY <2>1, MappedBecomes
  <1>10. Pending' = [Pending EXCEPT ![q] = Pending[q] + 1]
    BY <1>5, <1>9, Mapped
  <1> QED
    BY <1>7, <1>8, <1>10 DEF Deque!Reserve, Elements, Pending

LEMMA FailMapped ==
  ASSUME IInv, NEW q \in Queues, NEW n \in 1 .. MaxDataSize, ReserveFails(q, n)
  PROVE  IInv' /\ UNCHANGED <<Elements, Pending>>
  <1> DEFINE m == Refused(Mem!Memory(q), n)
  <1>1. Mem!Becomes(q, m) /\ UNCHANGED <<ready, buff, q_item_list, reserved>>
    BY DEF ReserveFails
  <1>2. Holds(Mem!Memory(q), q_item_list[q], reserved[q], buff[q])
    BY HoldsNow
  <1> DEFINE S == ToSet(q_item_list[q]) \cup reserved[q]
  <1>3. Alloc!Accounted(Mem!Memory(q)) /\ Owns(Mem!Memory(q).alloc, S)
    BY <1>2 DEF Holds, Keeps
  <1>4. /\ Follows(m, Mem!Memory(q)) /\ Owns(m.alloc, S)
        /\ Len(m.alloc) = Len(Mem!Memory(q).alloc)
    <2> HIDE DEF S
    <2> QED
      BY <1>3, RefusedOwns
  <1>5. Holds(m, q_item_list[q], reserved[q], buff[q])
    <2> HIDE DEF m
    <2> QED
      BY <1>2, <1>4 DEF Holds, Keeps, Follows
  <1> HIDE DEF m
  <1>6. /\ q_item_list' = [q_item_list EXCEPT ![q] = q_item_list[q]]
        /\ reserved' = [reserved EXCEPT ![q] = reserved[q]]
        /\ buff' = [buff EXCEPT ![q] = buff[q]]
    BY <1>1 DEF IInv, Typed
  <1>7. IInv'
    BY <1>1, <1>4, <1>5, <1>6, QueueBecomes
  <1> QED
    BY <1>1, <1>7 DEF Elements, Pending, DataOf

LEMMA PushReservedMapped ==
  ASSUME IInv, NEW q \in Queues, NEW e \in reserved[q], NEW p \in Payload,
         PushReservedElement(q, e, p)
  PROVE  IInv' /\ Deque!PushReserved(q, p)
  <1> DEFINE items == Append(q_item_list[q], e)
             held == reserved[q] \ {e}
             bytes == Stored(q, e.data, e.data_size, p)
             m == Mem!Memory(q)
  <1>1. /\ q_item_list' = [q_item_list EXCEPT ![q] = items]
        /\ reserved' = [reserved EXCEPT ![q] = held]
        /\ buff' = [buff EXCEPT ![q] = bytes]
        /\ UNCHANGED <<ready, free_list, alloc_list, used>>
    BY DEF PushReservedElement, memory
  <1>2. Mem!Becomes(q, m)
    BY <1>1 DEF Mem!Becomes, Mem!Memory, IInv, Typed
  <1>3. Holds(m, q_item_list[q], reserved[q], buff[q])
    BY HoldsNow
  <1>0. /\ items = Append(q_item_list[q], e) /\ held = reserved[q] \ {e}
        /\ Pushed(q, q_item_list[q], reserved[q], e, p, items, held, bytes)
    BY DEF Pushed
  <1> HIDE DEF m, items, held, bytes
  <1>4. /\ Holds(m, items, held, bytes) /\ KeepsData(q_item_list[q], e, bytes, buff[q])
        /\ bytes[e.data] = p
    BY <1>0, <1>3, HoldsPushed
  <1>5. /\ q_item_list[q] \in Seq(Item) /\ e \in Item /\ e \notin ToSet(q_item_list[q])
        /\ IsFiniteSet(reserved[q])
    BY <1>3 DEF Holds, Keeps, Listed
  <1>6. Values(items, bytes) = Append(Values(q_item_list[q], buff[q]), p)
    BY <1>0, <1>4, <1>5, ValuesAppend
  <1>7. /\ Cardinality(reserved[q]) \in Nat /\ Cardinality(held) \in Nat
        /\ Cardinality(held) = Cardinality(reserved[q]) - 1
    BY <1>0, <1>5, FS_RemoveElement, FS_CardinalityType
  <1>8. IInv'
    <2>1. Follows(m, m)
      BY <1>3 DEF Holds, Follows
    <2> QED
      BY <1>1, <1>2, <1>4, <2>1, QueueBecomes DEF m
  <1>9. /\ Elements' = [Elements EXCEPT ![q] = Values(items, bytes)]
        /\ Pending' = [Pending EXCEPT ![q] = Cardinality(held)]
    <2>1. Lists(q, items, held, bytes)
      BY <1>1 DEF Lists
    <2> QED
      BY <2>1, MappedBecomes
  <1>10. Elements[q] = Values(q_item_list[q], buff[q]) /\ Pending[q] = Cardinality(reserved[q])
    BY Mapped
  <1>11. /\ Elements' = [Elements EXCEPT ![q] = Append(Elements[q], p)]
         /\ Pending' = [Pending EXCEPT ![q] = Pending[q] - 1] /\ Pending[q] > 0
    BY <1>6, <1>7, <1>9, <1>10
  <1> QED
    BY <1>8, <1>11 DEF Deque!PushReserved, Elements, Pending

LEMMA ReleaseMapped ==
  ASSUME IInv, NEW q \in Queues, NEW e \in reserved[q], ReleaseReservedElement(q, e)
  PROVE  IInv' /\ Deque!GiveBack(q)
  <1> DEFINE items == q_item_list[q]
             held == reserved[q] \ {e}
             bytes == Cleared(q, e)
             m == Freed(Mem!Memory(q), e)
  <1>1. /\ Mem!Becomes(q, m) /\ UNCHANGED <<ready, q_item_list>>
        /\ reserved' = [reserved EXCEPT ![q] = held]
        /\ buff' = [buff EXCEPT ![q] = bytes]
    BY DEF ReleaseReservedElement
  <1>2. q_item_list' = [q_item_list EXCEPT ![q] = items]
    BY <1>1 DEF IInv, Typed
  <1>3. Holds(Mem!Memory(q), items, reserved[q], buff[q])
    BY HoldsNow
  <1>4. Follows(m, Mem!Memory(q)) /\ Holds(m, items, held, bytes)
    BY <1>3, HoldsReleased
  <1>5. /\ KeepsData(items, e, bytes, buff[q])
    <2>1. e \in ToSet(items) \cup reserved[q]
      OBVIOUS
    <2> QED
      BY <1>3, <2>1, ClearedOthers
  <1>6. items \in Seq(Item) /\ e \notin ToSet(items) /\ IsFiniteSet(reserved[q])
    BY <1>3 DEF Holds, Keeps, Listed
  <1> HIDE DEF bytes, m
  <1>7. Values(items, bytes) = Values(items, buff[q])
    <2>1. \A i \in 1 .. Len(items) : bytes[items[i].data] = buff[q][items[i].data]
      <3> SUFFICES ASSUME NEW i \in 1 .. Len(items)
                   PROVE  bytes[items[i].data] = buff[q][items[i].data]
        OBVIOUS
      <3>1. items[i] \in ToSet(items)
        BY <1>6, ElementsOf
      <3> QED
        BY <1>5, <1>6, <3>1, SameData
    <2>2. DOMAIN items = 1 .. Len(items)
      BY <1>6, LenProperties
    <2> QED
      BY <2>1, <2>2 DEF Values
  <1>8. /\ Cardinality(reserved[q]) \in Nat /\ Cardinality(held) \in Nat
        /\ Cardinality(held) = Cardinality(reserved[q]) - 1
    BY <1>6, FS_RemoveElement, FS_CardinalityType
  <1> HIDE DEF items, held
  <1>9. IInv'
    BY <1>1, <1>2, <1>4, QueueBecomes
  <1>10. /\ Elements' = [Elements EXCEPT ![q] = Values(items, bytes)]
         /\ Pending' = [Pending EXCEPT ![q] = Cardinality(held)]
    <2>1. Lists(q, items, held, bytes)
      BY <1>1, <1>2 DEF Lists
    <2> QED
      BY <2>1, MappedBecomes
  <1>11. Elements[q] = Values(items, buff[q]) /\ Pending[q] = Cardinality(reserved[q])
    BY Mapped DEF items
  <1>12. Elements' = Elements
    BY <1>7, <1>10, <1>11, Mapped DEF Elements
  <1>13. Pending' = [Pending EXCEPT ![q] = Pending[q] - 1] /\ Pending[q] > 0
    BY <1>8, <1>10, <1>11
  <1> QED
    BY <1>9, <1>12, <1>13 DEF Deque!GiveBack, Elements, Pending

(* Push is a reservation and the push of what was reserved.                *)
LEMMA PushMapped ==
  ASSUME IInv, NEW q \in Queues, NEW n \in 1 .. MaxDataSize, NEW p \in Payload, Push(q, p, n)
  PROVE  IInv' /\ Deque!Push(q, p)
  <1> DEFINE t == Taken(Mem!Memory(q), n)
             m == t.memory
             e == t.element
             held == reserved[q] \cup {e}
             items == Append(q_item_list[q], e)
             bytes == Stored(q, e.data, e.data_size, p)
  <1>1. /\ Mem!Becomes(q, m) /\ UNCHANGED <<ready, reserved>> /\ CanReserve(Mem!Memory(q), n)
        /\ buff' = [buff EXCEPT ![q] = Stored(q, e.data, n, p)]
        /\ q_item_list' = [q_item_list EXCEPT ![q] = items]
    BY DEF Push
  <1>2. Holds(Mem!Memory(q), q_item_list[q], reserved[q], buff[q])
    BY HoldsNow
  <1>3. /\ Follows(m, Mem!Memory(q)) /\ e \notin ToSet(q_item_list[q]) \cup reserved[q]
        /\ e.data_size = n /\ Holds(m, q_item_list[q], held, buff[q])
    BY <1>1, <1>2, HoldsTaken
  <1> HIDE DEF t, m, e
  <1>4. /\ buff' = [buff EXCEPT ![q] = bytes]
        /\ reserved' = [reserved EXCEPT ![q] = reserved[q]]
    BY <1>1, <1>3 DEF IInv, Typed
  <1>5. e \in held /\ held \ {e} = reserved[q]
    BY <1>3
  <1>0. Pushed(q, q_item_list[q], held, e, p, items, reserved[q], bytes)
    BY <1>5 DEF Pushed
  <1> HIDE DEF held, items, bytes
  <1>6. /\ Holds(m, items, reserved[q], bytes) /\ KeepsData(q_item_list[q], e, bytes, buff[q])
        /\ bytes[e.data] = p
    BY <1>0, <1>3, <1>5, HoldsPushed
  <1>7. q_item_list[q] \in Seq(Item) /\ e \in Item /\ e \notin ToSet(q_item_list[q])
    BY <1>3, <1>5 DEF Holds, Keeps, Listed
  <1>8. Values(items, bytes) = Append(Values(q_item_list[q], buff[q]), p)
    BY <1>0, <1>6, <1>7, ValuesAppend DEF Pushed
  <1>9. IInv'
    BY <1>1, <1>3, <1>4, <1>5, <1>6, QueueBecomes
  <1>10. Elements' = [Elements EXCEPT ![q] = Values(items, bytes)]
    <2>1. Lists(q, items, reserved[q], bytes)
      BY <1>1, <1>4 DEF Lists
    <2> QED
      BY <2>1, MappedBecomes
  <1>11. Elements' = [Elements EXCEPT ![q] = Append(Elements[q], p)]
    BY <1>8, <1>10, Mapped
  <1>12. Pending' = Pending
    BY <1>1 DEF Pending
  <1> QED
    BY <1>9, <1>11, <1>12 DEF Deque!Push, Elements, Pending

LEMMA PopKeeps ==
  ASSUME IInv, NEW q \in Queues, NEW e, NEW rest, Unlinked(rest, q_item_list[q], e),
         Pop(q, e, rest)
  PROVE  /\ IInv' /\ Pending' = Pending
         /\ Elements' = [Elements EXCEPT ![q] = Values(rest, Cleared(q, e))]
         /\ KeepsData(q_item_list[q], e, Cleared(q, e), buff[q])
  <1> DEFINE bytes == Cleared(q, e)
             m == Freed(Mem!Memory(q), e)
  <1>1. /\ Mem!Becomes(q, m) /\ UNCHANGED <<ready, reserved>>
        /\ q_item_list' = [q_item_list EXCEPT ![q] = rest]
        /\ buff' = [buff EXCEPT ![q] = bytes]
    BY DEF Pop
  <1>2. reserved' = [reserved EXCEPT ![q] = reserved[q]]
    BY <1>1 DEF IInv, Typed
  <1>3. Holds(Mem!Memory(q), q_item_list[q], reserved[q], buff[q])
    BY HoldsNow
  <1>4. Follows(m, Mem!Memory(q)) /\ Holds(m, rest, reserved[q], bytes)
    BY <1>3, HoldsPopped
  <1>5. KeepsData(q_item_list[q], e, bytes, buff[q])
    <2>1. e \in ToSet(q_item_list[q]) \cup reserved[q]
      BY DEF Unlinked
    <2> QED
      BY <1>3, <2>1, ClearedOthers
  <1> HIDE DEF bytes, m
  <1>6. IInv'
    BY <1>1, <1>2, <1>4, QueueBecomes
  <1>7. Elements' = [Elements EXCEPT ![q] = Values(rest, bytes)]
    <2>1. Lists(q, rest, reserved[q], bytes)
      BY <1>1, <1>2 DEF Lists
    <2> QED
      BY <2>1, MappedBecomes
  <1>8. Pending' = Pending
    BY <1>1 DEF Pending
  <1> QED
    BY <1>5, <1>6, <1>7, <1>8 DEF bytes

LEMMA ListedNow ==
  ASSUME IInv, NEW q \in Queues
  PROVE  q_item_list[q] \in Seq(Item) /\ NoItemTwice(q_item_list[q])
  BY DEF IInv, Keeps, Listed

LEMMA PopFrontMapped ==
  ASSUME IInv, NEW q \in Queues, PopFront(q)
  PROVE  IInv' /\ Deque!PopFront(q)
  <1> DEFINE items == q_item_list[q]
             e == Head(items)
             rest == Tail(items)
  <1>1. items \in Seq(Item) /\ NoItemTwice(items) /\ items # << >> /\ Pop(q, e, rest)
    BY ListedNow DEF PopFront
  <1>2. Unlinked(rest, items, e)
    BY <1>1, UnlinkedFront
  <1>3. /\ IInv' /\ Pending' = Pending
        /\ Elements' = [Elements EXCEPT ![q] = Values(rest, Cleared(q, e))]
        /\ KeepsData(items, e, Cleared(q, e), buff[q])
    <2> HIDE DEF e, rest
    <2> QED
      BY <1>1, <1>2, PopKeeps
  <1>4. /\ Values(items, buff[q]) # << >>
        /\ Values(rest, Cleared(q, e)) = Tail(Values(items, buff[q]))
    BY <1>1, <1>3, ValuesTail
  <1>5. Elements[q] = Values(items, buff[q])
    BY Mapped
  <1>6. Elements[q] # << >> /\ Elements' = [Elements EXCEPT ![q] = Tail(Elements[q])]
    BY <1>3, <1>4, <1>5
  <1> QED
    BY <1>3, <1>6 DEF Deque!PopFront, Elements, Pending

LEMMA PopBackMapped ==
  ASSUME IInv, NEW q \in Queues, PopBack(q)
  PROVE  IInv' /\ Deque!PopBack(q)
  <1> DEFINE items == q_item_list[q]
             e == Last(items)
             rest == Front(items)
  <1>1. items \in Seq(Item) /\ NoItemTwice(items) /\ items # << >> /\ Pop(q, e, rest)
    BY ListedNow DEF PopBack
  <1>2. Unlinked(rest, items, e)
    BY <1>1, UnlinkedBack
  <1>3. /\ IInv' /\ Pending' = Pending
        /\ Elements' = [Elements EXCEPT ![q] = Values(rest, Cleared(q, e))]
        /\ KeepsData(items, e, Cleared(q, e), buff[q])
    <2> HIDE DEF e, rest
    <2> QED
      BY <1>1, <1>2, PopKeeps
  <1>4. /\ Values(items, buff[q]) # << >>
        /\ Values(rest, Cleared(q, e)) = Front(Values(items, buff[q]))
    BY <1>1, <1>3, ValuesFront
  <1>5. Elements[q] = Values(items, buff[q])
    BY Mapped
  <1>6. /\ Elements[q] # << >>
        /\ Elements' = [Elements EXCEPT ![q] = Front(Elements[q])]
    BY <1>3, <1>4, <1>5
  <1>7. \A s : Deque!Front(s) = Front(s)
    BY DEF Deque!Front, Front
  <1> QED
    BY <1>3, <1>6, <1>7 DEF Deque!PopBack, Elements, Pending

-----------------------------------------------------------------------------
(* Every step. *)

LEMMA StutterMapped ==
  ASSUME IInv, UNCHANGED vars
  PROVE  IInv' /\ UNCHANGED Deque!vars
  <1>1. UNCHANGED <<ready, free_list, alloc_list, used, buff, q_item_list, reserved>>
    BY DEF vars, memory
  <1>2. Alloc!PoolInv'
    <2>1. Alloc!PoolInv /\ UNCHANGED Alloc!vars
      BY <1>1 DEF IInv, Alloc!vars
    <2> QED
      BY <2>1, MemoryAssumption, Alloc!NextPoolInv
  <1>3. Typed'
    BY <1>1 DEF IInv, Typed
  <1>4. \A q \in Queues : Keeps(alloc_list'[q], q_item_list'[q], reserved'[q], buff'[q])
    BY <1>1 DEF IInv
  <1>5. UNCHANGED Deque!vars
    BY <1>1 DEF Deque!vars, DataOf
  <1> QED
    BY <1>2, <1>3, <1>4, <1>5 DEF IInv

LEMMA NextMapped ==
  IInv /\ [Next]_vars => IInv' /\ [Deque!Next]_(Deque!vars)
  <1> SUFFICES ASSUME IInv, [Next]_vars
               PROVE  IInv' /\ [Deque!Next]_(Deque!vars)
    OBVIOUS
  <1>1. ASSUME NEW q \in Queues, CreateQueue(q)
        PROVE  IInv' /\ Deque!Next
    BY <1>1, CreateMapped DEF Deque!Next
  <1>2. ASSUME NEW q \in Queues, NEW n \in 1 .. MaxDataSize, ReserveElement(q, n)
        PROVE  IInv' /\ Deque!Next
    BY <1>2, ReserveMapped DEF Deque!Next
  <1>3. ASSUME NEW q \in Queues, NEW n \in 1 .. MaxDataSize, ReserveFails(q, n)
        PROVE  IInv' /\ UNCHANGED Deque!vars
    <2>1. IInv' /\ UNCHANGED <<Elements, Pending>>
      BY <1>3, FailMapped
    <2> QED
      BY <2>1 DEF Deque!vars, Elements, Pending
  <1>4. ASSUME NEW q \in Queues, NEW e \in reserved[q], ReleaseReservedElement(q, e)
        PROVE  IInv' /\ Deque!Next
    BY <1>4, ReleaseMapped DEF Deque!Next
  <1>5. ASSUME NEW q \in Queues, NEW e \in reserved[q], NEW p \in Payload,
               PushReservedElement(q, e, p)
        PROVE  IInv' /\ Deque!Next
    BY <1>5, PushReservedMapped DEF Deque!Next
  <1>6. ASSUME NEW q \in Queues, NEW n \in 1 .. MaxDataSize, NEW p \in Payload, Push(q, p, n)
        PROVE  IInv' /\ Deque!Next
    BY <1>6, PushMapped DEF Deque!Next
  <1>7. ASSUME NEW q \in Queues, PopFront(q)
        PROVE  IInv' /\ Deque!Next
    BY <1>7, PopFrontMapped DEF Deque!Next
  <1>8. ASSUME NEW q \in Queues, PopBack(q)
        PROVE  IInv' /\ Deque!Next
    BY <1>8, PopBackMapped DEF Deque!Next
  <1>9. CASE UNCHANGED vars
    BY <1>9, StutterMapped
  <1> QED
    BY <1>1, <1>2, <1>3, <1>4, <1>5, <1>6, <1>7, <1>8, <1>9 DEF Next

(* The inductive invariant: the blocks of every queue's items are what its *)
(* memory list has allocated, and their data is intact.                    *)
THEOREM Invariance == Spec => []IInv
  BY InitIInv, NextMapped, PTL DEF Spec

(* The memory lists of the queues stay well typed, and every linked or     *)
(* reserved item points into the buffer of its queue.                      *)
THEOREM TypeCorrect == Spec => []TypeOK
  <1>1. IInv => TypeOK
    <2> SUFFICES ASSUME IInv PROVE TypeOK
      OBVIOUS
    <2>1. Mem!TypeOK
      BY MemoryAssumption, SameActions, Alloc!PoolIsTyped DEF IInv
    <2> QED
      BY <2>1 DEF IInv, Typed, TypeOK
  <1> QED
    BY <1>1, Invariance, PTL

(* No reservation, push, pop or release, and no failure half way through   *)
(* one, leaks a block of a queue's buffer or frees one of a live item.     *)
THEOREM ItemsAlwaysOwnTheirBlocks == Spec => []ItemsOwnTheirBlocks
  <1>1. IInv => ItemsOwnTheirBlocks
    <2> SUFFICES ASSUME IInv, NEW q \in Queues
                 PROVE  /\ ToSet(Mem!Memory(q).alloc) = UNION {BlocksOf(e) : e \in Items(q)}
                        /\ Len(alloc_list[q])
                             = 2 * (Len(q_item_list[q]) + Cardinality(reserved[q]))
      BY DEF ItemsOwnTheirBlocks
    <2>1. /\ Owns(alloc_list[q], Items(q))
          /\ Len(alloc_list[q]) = 2 * (Len(q_item_list[q]) + Cardinality(reserved[q]))
      BY DEF IInv, Keeps, Items
    <2>2. Mem!Memory(q).alloc = alloc_list[q]
      BY DEF Mem!Memory
    <2>3. ToSet(alloc_list[q]) = AllBlocks(Items(q))
      BY <2>1 DEF Owns
    <2> QED
      BY <2>1, <2>2, <2>3 DEF AllBlocks
  <1> QED
    BY <1>1, Invariance, PTL

(* The bytes of a pushed item are its payload until it is popped: nothing  *)
(* done to another item, of any size and anywhere in the buffer, reaches   *)
(* them.                                                                   *)
THEOREM PayloadAlwaysIntact == Spec => []PayloadIntact
  <1>1. IInv => PayloadIntact
    <2> SUFFICES ASSUME IInv, NEW q \in Queues PROVE Intact(q_item_list[q], buff[q])
      BY DEF PayloadIntact, Intact
    <2> QED
      BY DEF IInv, Keeps
  <1> QED
    BY <1>1, Invariance, PTL

(* What callers read from the queues is a deque of payloads each, whatever *)
(* the allocator does below: ezQueue implements its promise.               *)
THEOREM DequeRefinement == Spec => ImplementsDeque
  <1>1. Init => Deque!Init
    <2> SUFFICES ASSUME Init PROVE Deque!Init
      OBVIOUS
    <2>1. \A q \in Queues : /\ [i \in DOMAIN q_item_list[q] |-> DataOf(q, q_item_list[q][i])] = << >>
                            /\ Cardinality(reserved[q]) = 0
      BY FS_EmptySet DEF Init
    <2> QED
      BY <2>1 DEF Deque!Init
  <1> QED
    BY <1>1, NextMapped, Invariance, PTL DEF Spec, ImplementsDeque, Deque!Spec
=============================================================================
