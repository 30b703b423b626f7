------------------------- MODULE StaticAllocProofs -------------------------
(***************************************************************************)
(* Proofs about StaticAlloc, for any memory lists, any size of the buffers *)
(* and any number of headers in the pool: no byte is handed out twice.     *)
(***************************************************************************)
EXTENDS StaticAlloc, SequenceTheorems, FiniteSetTheorems, WellFoundedInduction, TLAPS

(* A block that ends inside its buffer.                                    *)
FitBlock == {b \in Block : EndOf(b) <= BuffSize}

Apart(b, c) == EndOf(b) <= c.buff \/ EndOf(c) <= b.buff
Within(d, b) == b.buff <= d.buff /\ EndOf(d) <= EndOf(b)

Separate(s) == \A i, j \in 1 .. Len(s) : i # j => Apart(s[i], s[j])
Cross(s, t) == \A i \in 1 .. Len(s), j \in 1 .. Len(t) : Apart(s[i], t[j])

(* Every element of t is in s, or is x.                                    *)
From(t, s) == \A m \in 1 .. Len(t) : \E i \in 1 .. Len(s) : t[m] = s[i]

(* What holds of the two lists of a memory list.                           *)
Sound(free, alloc) ==
  /\ free \in Seq(FitBlock) /\ Separate(free)
  /\ alloc \in Seq(FitBlock) /\ Separate(alloc)
  /\ Cross(free, alloc)

IInv ==
  /\ free_list \in [MemLists -> Seq(FitBlock)]
  /\ alloc_list \in [MemLists -> Seq(FitBlock)]
  /\ \A l \in MemLists : Sound(free_list[l], alloc_list[l])

-----------------------------------------------------------------------------
(* Blocks.                                                                 *)

LEMMA BlockFields ==
  ASSUME NEW b \in FitBlock
  PROVE  /\ b.buff \in Nat /\ b.buff_size \in Nat /\ EndOf(b) \in Nat
         /\ b.buff < EndOf(b) /\ EndOf(b) <= BuffSize
         /\ EndOf(b) = b.buff + b.buff_size
  BY SizeAssumption DEF FitBlock, Block, EndOf

LEMMA NewBlock ==
  ASSUME NEW x \in Nat, NEW n \in Nat, n > 0, x + n <= BuffSize
  PROVE  /\ [buff |-> x, buff_size |-> n] \in FitBlock
         /\ EndOf([buff |-> x, buff_size |-> n]) = x + n
         /\ [buff |-> x, buff_size |-> n].buff = x
  BY SizeAssumption DEF FitBlock, Block, EndOf

LEMMA ResizedRecord ==
  ASSUME NEW A, NEW B, NEW r \in [buff : A, buff_size : B], NEW n
  PROVE  [r EXCEPT !.buff_size = n] = [buff |-> r.buff, buff_size |-> n]
  OBVIOUS

LEMMA Resized ==
  ASSUME NEW b \in FitBlock, NEW n
  PROVE  [b EXCEPT !.buff_size = n] = [buff |-> b.buff, buff_size |-> n]
  BY ResizedRecord DEF FitBlock, Block

LEMMA ApartSym ==
  ASSUME NEW b, NEW c, Apart(b, c)
  PROVE  Apart(c, b)
  BY DEF Apart

LEMMA ApartWithin ==
  ASSUME NEW b \in FitBlock, NEW c \in FitBlock, NEW d \in FitBlock, Apart(b, c), Within(d, b)
  PROVE  Apart(d, c)
  <1>1. b.buff \in Nat /\ c.buff \in Nat /\ d.buff \in Nat
    BY BlockFields
  <1>2. EndOf(b) \in Nat /\ EndOf(c) \in Nat /\ EndOf(d) \in Nat
    BY BlockFields
  <1> QED
    BY <1>1, <1>2 DEF Apart, Within

LEMMA Smallest ==
  ASSUME NEW T \in SUBSET Nat, T # {}
  PROVE  \E x \in T : \A y \in T : x <= y
  <1>1. PICK x \in T : \A y \in T : ~ (<<y, x>> \in OpToRel(<, Nat))
    BY NatLessThanWellFounded, WFMin
  <1>2. \A y \in T : ~ (y < x)
    BY <1>1 DEF OpToRel
  <1> QED
    BY <1>2

-----------------------------------------------------------------------------
(* Lists of blocks.                                                        *)

LEMMA SingleIsSeparate ==
  ASSUME NEW b \in FitBlock
  PROVE  <<b>> \in Seq(FitBlock) /\ Len(<<b>>) = 1 /\ <<b>>[1] = b /\ Separate(<<b>>)
  BY DEF Separate

LEMMA EmptyIsSeparate == << >> \in Seq(FitBlock) /\ Len(<< >>) = 0 /\ Separate(<< >>)
  BY EmptySeq DEF Separate

LEMMA ConcatElements ==
  ASSUME NEW s \in Seq(FitBlock), NEW t \in Seq(FitBlock)
  PROVE  /\ s \o t \in Seq(FitBlock)
         /\ Len(s \o t) = Len(s) + Len(t)
         /\ \A m \in 1 .. Len(s \o t) :
              \/ m \in 1 .. Len(s) /\ (s \o t)[m] = s[m]
              \/ m - Len(s) \in 1 .. Len(t) /\ (s \o t)[m] = t[m - Len(s)]
  <1> DEFINE both == s \o t
  <1>1. /\ both \in Seq(FitBlock)
        /\ Len(both) = Len(s) + Len(t)
        /\ \A m \in 1 .. Len(s) + Len(t) : both[m] = IF m <= Len(s) THEN s[m] ELSE t[m - Len(s)]
    BY ConcatProperties
  <1>2. Len(s) \in Nat /\ Len(t) \in Nat
    BY LenProperties
  <1> HIDE DEF both
  <1>3. ASSUME NEW m \in 1 .. Len(both)
        PROVE  \/ m \in 1 .. Len(s) /\ both[m] = s[m]
               \/ m - Len(s) \in 1 .. Len(t) /\ both[m] = t[m - Len(s)]
    <2>1. CASE m <= Len(s)
      BY <1>1, <1>2, <2>1
    <2>2. CASE ~ (m <= Len(s))
      BY <1>1, <1>2, <2>2
    <2> QED
      BY <2>1, <2>2
  <1> QED
    BY <1>1, <1>3 DEF both

LEMMA ConcatIsSeparate ==
  ASSUME NEW s \in Seq(FitBlock), NEW t \in Seq(FitBlock), Separate(s), Separate(t), Cross(s, t)
  PROVE  Separate(s \o t)
  <1> DEFINE both == s \o t
  <1>1. \A m \in 1 .. Len(both) :
          \/ m \in 1 .. Len(s) /\ both[m] = s[m]
          \/ m - Len(s) \in 1 .. Len(t) /\ both[m] = t[m - Len(s)]
    BY ConcatElements
  <1>2. Len(s) \in Nat /\ Len(t) \in Nat /\ Len(both) = Len(s) + Len(t)
    BY LenProperties, ConcatElements
  <1> HIDE DEF both
  <1>3. ASSUME NEW i \in 1 .. Len(both), NEW j \in 1 .. Len(both), i # j
        PROVE  Apart(both[i], both[j])
    <2>1. CASE i \in 1 .. Len(s) /\ both[i] = s[i] /\ j \in 1 .. Len(s) /\ both[j] = s[j]
      BY <1>3, <2>1 DEF Separate
    <2>2. CASE /\ i \in 1 .. Len(s) /\ both[i] = s[i]
               /\ j - Len(s) \in 1 .. Len(t) /\ both[j] = t[j - Len(s)]
      BY <2>2 DEF Cross
    <2>3. CASE /\ i - Len(s) \in 1 .. Len(t) /\ both[i] = t[i - Len(s)]
               /\ j \in 1 .. Len(s) /\ both[j] = s[j]
      <3>1. Apart(both[j], both[i])
        BY <2>3 DEF Cross
      <3> QED
        BY <3>1, ApartSym
    <2>4. CASE /\ i - Len(s) \in 1 .. Len(t) /\ both[i] = t[i - Len(s)]
               /\ j - Len(s) \in 1 .. Len(t) /\ both[j] = t[j - Len(s)]
      <3>1. i - Len(s) # j - Len(s)
        BY <1>2, <1>3
      <3> QED
        BY <2>4, <3>1 DEF Separate
    <2> QED
      BY <1>1, <2>1, <2>2, <2>3, <2>4
  <1> QED
    BY <1>3 DEF Separate, both

LEMMA RemoveAtElements ==
  ASSUME NEW s \in Seq(FitBlock), NEW n \in 1 .. Len(s)
  PROVE  /\ RemoveAt(s, n) \in Seq(FitBlock)
         /\ Len(RemoveAt(s, n)) = Len(s) - 1
         /\ \A m \in 1 .. Len(s) - 1 :
              /\ m < n => RemoveAt(s, n)[m] = s[m]
              /\ ~(m < n) => RemoveAt(s, n)[m] = s[m + 1]
  <1> DEFINE front == SubSeq(s, 1, n - 1)
             back == SubSeq(s, n + 1, Len(s))
             both == front \o back
  <1>1. Len(s) \in Nat
    BY LenProperties
  <1>2. front \in Seq(FitBlock) /\ Len(front) = n - 1 /\ \A m \in 1 .. n - 1 : front[m] = s[m]
    OBVIOUS
  <1>3. /\ back \in Seq(FitBlock) /\ Len(back) = Len(s) - n
        /\ \A m \in 1 .. Len(s) - n : back[m] = s[m + n]
    OBVIOUS
  <1> HIDE DEF front, back
  <1>4. /\ both \in Seq(FitBlock)
        /\ Len(both) = Len(front) + Len(back)
        /\ \A m \in 1 .. Len(front) + Len(back) :
             both[m] = IF m <= Len(front) THEN front[m] ELSE back[m - Len(front)]
    BY <1>2, <1>3, ConcatProperties
  <1>5. both = RemoveAt(s, n)
    BY DEF RemoveAt, front, back
  <1> HIDE DEF both
  <1>6. ASSUME NEW m \in 1 .. Len(s) - 1
        PROVE  /\ m < n => both[m] = s[m]
               /\ ~(m < n) => both[m] = s[m + 1]
    <2>1. CASE m < n
      <3>1. m \in 1 .. n - 1 /\ m \in 1 .. Len(front) + Len(back) /\ m <= Len(front)
        BY <1>1, <1>2, <1>3, <2>1
      <3> QED
        BY <1>2, <1>4, <2>1, <3>1
    <2>2. CASE ~(m < n)
      <3>1. /\ m \in 1 .. Len(front) + Len(back) /\ ~(m <= Len(front))
            /\ m - Len(front) = m - (n - 1)
            /\ m - (n - 1) \in 1 .. Len(s) - n /\ (m - (n - 1)) + n = m + 1
        BY <1>1, <1>2, <1>3, <2>2
      <3>2. both[m] = back[m - (n - 1)]
        BY <1>4, <3>1
      <3>3. back[m - (n - 1)] = s[(m - (n - 1)) + n]
        BY <1>3, <3>1
      <3> QED
        BY <2>2, <3>1, <3>2, <3>3
    <2> QED
      BY <2>1, <2>2
  <1>7. Len(both) = Len(s) - 1
    BY <1>1, <1>2, <1>3, <1>4
  <1> QED
    BY <1>4, <1>5, <1>6, <1>7

(* Without one of its blocks a list stays separate, also from that block.  *)
LEMMA RemoveAtIsSeparate ==
  ASSUME NEW s \in Seq(FitBlock), NEW n \in 1 .. Len(s), Separate(s)
  PROVE  /\ RemoveAt(s, n) \in Seq(FitBlock)
         /\ Separate(RemoveAt(s, n))
         /\ \A m \in 1 .. Len(RemoveAt(s, n)) :
              \E i \in 1 .. Len(s) : i # n /\ RemoveAt(s, n)[m] = s[i]
  <1> DEFINE rest == RemoveAt(s, n)
             at(m) == IF m < n THEN m ELSE m + 1
  <1>1. /\ rest \in Seq(FitBlock) /\ Len(rest) = Len(s) - 1 /\ Len(s) \in Nat
        /\ \A m \in 1 .. Len(s) - 1 : /\ m < n => rest[m] = s[m]
                                      /\ ~(m < n) => rest[m] = s[m + 1]
    BY RemoveAtElements, LenProperties
  <1> HIDE DEF rest
  <1>2. ASSUME NEW m \in 1 .. Len(rest)
        PROVE  rest[m] = s[at(m)] /\ at(m) \in 1 .. Len(s) /\ at(m) # n
    BY <1>1
  <1>3. ASSUME NEW i \in 1 .. Len(rest), NEW j \in 1 .. Len(rest), i # j
        PROVE  at(i) # at(j)
    BY <1>1, <1>3
  <1> HIDE DEF at
  <1>4. Separate(rest)
    BY <1>2, <1>3 DEF Separate
  <1> QED
    BY <1>1, <1>2, <1>4 DEF rest

-----------------------------------------------------------------------------
(* Freeing: the header's place, and the merge loop.                        *)

LEMMA ReturnedIsSeparate ==
  ASSUME NEW blocks \in Seq(FitBlock), Separate(blocks), NEW b \in FitBlock,
         \A i \in 1 .. Len(blocks) : Apart(blocks[i], b)
  PROVE  /\ ReturnHeaderToFreeList(blocks, b) \in Seq(FitBlock)
         /\ Len(ReturnHeaderToFreeList(blocks, b)) > 0
         /\ Separate(ReturnHeaderToFreeList(blocks, b))
         /\ \A m \in 1 .. Len(ReturnHeaderToFreeList(blocks, b)) :
              \/ ReturnHeaderToFreeList(blocks, b)[m] = b
              \/ \E i \in 1 .. Len(blocks) : ReturnHeaderToFreeList(blocks, b)[m] = blocks[i]
  <1> DEFINE R == ReturnHeaderToFreeList(blocks, b)
  <1>1. Len(blocks) \in Nat
    BY LenProperties
  <1>2. CASE R = <<b>> \o blocks
    <2>1. <<b>> \in Seq(FitBlock) /\ Len(<<b>>) = 1 /\ <<b>>[1] = b /\ Separate(<<b>>)
      BY SingleIsSeparate
    <2>2. Cross(<<b>>, blocks)
      BY <2>1, ApartSym DEF Cross
    <2>3. Separate(<<b>> \o blocks)
      BY <2>1, <2>2, ConcatIsSeparate
    <2>4. /\ <<b>> \o blocks \in Seq(FitBlock) /\ Len(<<b>> \o blocks) = 1 + Len(blocks)
          /\ \A m \in 1 .. Len(<<b>> \o blocks) :
               \/ m \in 1 .. 1 /\ (<<b>> \o blocks)[m] = <<b>>[m]
               \/ m - 1 \in 1 .. Len(blocks) /\ (<<b>> \o blocks)[m] = blocks[m - 1]
      BY <2>1, ConcatElements
    <2>5. \A m \in 1 .. 1 : <<b>>[m] = b
      BY <2>1
    <2> HIDE DEF R
    <2>6. Len(R) > 0
      BY <1>1, <1>2, <2>4
    <2>7. \A m \in 1 .. Len(R) : R[m] = b \/ \E i \in 1 .. Len(blocks) : R[m] = blocks[i]
      BY <1>2, <2>4, <2>5
    <2> QED
      BY <1>2, <2>3, <2>4, <2>6, <2>7 DEF R
  <1>3. CASE blocks # << >> /\ R = <<Head(blocks), b>> \o Tail(blocks)
    <2> DEFINE h == Head(blocks)
               t == Tail(blocks)
               two == <<h, b>>
               all == two \o t
    <2>1. /\ h = blocks[1] /\ Len(blocks) > 0
          /\ t \in Seq(FitBlock) /\ Len(t) = Len(blocks) - 1
          /\ \A i \in 1 .. Len(t) : t[i] = blocks[i + 1]
      BY <1>1, <1>3, HeadTailProperties, EmptySeq
    <2>2. 1 \in 1 .. Len(blocks) /\ \A i \in 1 .. Len(t) : i + 1 \in 1 .. Len(blocks) /\ i + 1 # 1
      BY <1>1, <2>1
    <2> HIDE DEF h, t
    <2>3. h \in FitBlock /\ Apart(h, b) /\ Apart(b, h)
      BY <2>1, <2>2, ElementOfSeq, ApartSym
    <2>4. two \in Seq(FitBlock) /\ Len(two) = 2 /\ two[1] = h /\ two[2] = b
      BY <2>3
    <2> HIDE DEF two
    <2>5. Separate(two)
      BY <2>3, <2>4 DEF Separate
    <2>6. Separate(t)
      <3>1. \A i, j \in 1 .. Len(t) : i # j => i + 1 # j + 1
        BY <1>1, <2>1
      <3> QED
        BY <2>1, <2>2, <3>1 DEF Separate
    <2>7. Cross(two, t)
      <3>1. \A j \in 1 .. Len(t) : Apart(h, t[j]) /\ Apart(b, t[j])
        BY <2>1, <2>2, ApartSym DEF Separate
      <3> QED
        BY <2>4, <3>1 DEF Cross
    <2>8. Separate(all)
      BY <2>1, <2>4, <2>5, <2>6, <2>7, ConcatIsSeparate
    <2>9. /\ all \in Seq(FitBlock) /\ Len(all) = Len(two) + Len(t)
          /\ \A m \in 1 .. Len(all) :
               \/ m \in 1 .. Len(two) /\ all[m] = two[m]
               \/ m - Len(two) \in 1 .. Len(t) /\ all[m] = t[m - Len(two)]
      BY <2>1, <2>4, ConcatElements
    <2> HIDE DEF all
    <2>10. Len(all) > 0
      BY <1>1, <2>1, <2>4, <2>9
    <2>11. \A m \in 1 .. Len(two) : two[m] = b \/ two[m] = blocks[1]
      BY <2>1, <2>4
    <2>12. ASSUME NEW m \in 1 .. Len(all)
           PROVE  all[m] = b \/ \E i \in 1 .. Len(blocks) : all[m] = blocks[i]
      BY <2>1, <2>2, <2>9, <2>11
    <2>13. R = all
      BY <1>3 DEF all, two, h, t
    <2> HIDE DEF R
    <2> QED
      BY <2>8, <2>9, <2>10, <2>12, <2>13 DEF R
  <1> QED
    BY <1>2, <1>3 DEF ReturnHeaderToFreeList

(* The blocks the loop absorbs are contiguous, so what is apart from each  *)
(* of them is apart from the block they become.                            *)
LEMMA MergedBlock ==
  ASSUME NEW blocks \in Seq(FitBlock), NEW k \in 1 .. Len(blocks), k \in Absorbable(blocks),
         NEW whole, whole = [buff |-> blocks[1].buff, buff_size |-> EndOf(blocks[k]) - blocks[1].buff]
  PROVE  /\ whole \in FitBlock
         /\ \A c \in FitBlock :
              (\A j \in 1 .. k : Apart(blocks[j], c)) => Apart(whole, c)
  <1> DEFINE buff(j) == blocks[j].buff
             end(j) == EndOf(blocks[j])
  <1>1. /\ k \in Nat /\ 1 \in 1 .. k
        /\ \A j \in 1 .. k : j \in 1 .. Len(blocks)
    BY LenProperties
  <1>2. \A j \in 1 .. k - 1 : end(j) = buff(j + 1)
    BY DEF Absorbable
  <1>3. \A j \in 1 .. k : /\ buff(j) \in Nat /\ end(j) \in Nat
                          /\ buff(j) < end(j) /\ end(j) <= BuffSize
    BY <1>1, ElementOfSeq, BlockFields
  <1>4. whole = [buff |-> buff(1), buff_size |-> end(k) - buff(1)]
    OBVIOUS
  <1> HIDE DEF buff, end
  <1>5. \A j \in 1 .. k : buff(1) <= buff(j)
    <2> SUFFICES ASSUME NEW n \in 1 .. k, ~(buff(1) <= buff(n))
                 PROVE  FALSE
      OBVIOUS
    <2> DEFINE T == {j \in 1 .. k : ~(buff(1) <= buff(j))}
    <2>1. T \in SUBSET Nat /\ T # {}
      BY <1>1
    <2>2. PICK j \in T : \A x \in T : j <= x
      BY <2>1, Smallest
    <2>3. j # 1 /\ j \in 1 .. k
      BY <1>1, <1>3, <2>2
    <2>4. j - 1 \in 1 .. k - 1 /\ j - 1 \in 1 .. k /\ (j - 1) + 1 = j /\ ~(j <= j - 1)
      BY <1>1, <2>3
    <2>5. end(j - 1) = buff(j)
      BY <1>2, <2>4
    <2>6. buff(1) <= buff(j - 1)
      BY <2>2, <2>4
    <2> QED
      BY <1>1, <1>3, <2>2, <2>4, <2>5, <2>6
  <1>6. /\ buff(1) \in Nat /\ end(k) \in Nat /\ end(k) - buff(1) \in Nat
        /\ end(k) - buff(1) > 0 /\ buff(1) + (end(k) - buff(1)) = end(k) /\ end(k) <= BuffSize
    BY <1>1, <1>3, <1>5, SizeAssumption
  <1>7. whole \in FitBlock /\ whole.buff = buff(1) /\ EndOf(whole) = end(k)
    BY <1>4, <1>6, NewBlock
  <1>8. ASSUME NEW c \in FitBlock, \A j \in 1 .. k : Apart(blocks[j], c)
        PROVE  Apart(whole, c)
    <2> DEFINE T == {j \in 1 .. k : c.buff < end(j)}
    <2>0. c.buff \in Nat /\ EndOf(c) \in Nat /\ c.buff < EndOf(c)
      BY BlockFields
    <2>1. CASE T = {}
      <3>1. ~ (c.buff < end(k))
        BY <1>1, <2>1
      <3> QED
        BY <1>6, <1>7, <2>0, <3>1 DEF Apart
    <2>2. CASE T # {}
      <3>1. T \in SUBSET Nat
        BY <1>1
      <3>2. PICK j \in T : \A x \in T : j <= x
        BY <2>2, <3>1, Smallest
      <3>3. j \in 1 .. k /\ c.buff < end(j)
        BY <3>2
      <3>4. EndOf(c) <= buff(j)
        BY <1>3, <1>8, <2>0, <3>3 DEF Apart, buff, end
      <3>5. j = 1
        <4> SUFFICES ASSUME j # 1 PROVE FALSE
          OBVIOUS
        <4>1. j - 1 \in 1 .. k - 1 /\ j - 1 \in 1 .. k /\ (j - 1) + 1 = j /\ ~(j <= j - 1)
          BY <1>1, <3>3
        <4>2. end(j - 1) = buff(j) /\ ~(c.buff < end(j - 1))
          BY <1>2, <3>2, <4>1
        <4> QED
          BY <1>3, <2>0, <3>3, <3>4, <4>1, <4>2
      <3> QED
        BY <1>7, <3>4, <3>5 DEF Apart
    <2> QED
      BY <2>1, <2>2
  <1> QED
    BY <1>7, <1>8

(* Which is what Absorbable is for: it has a largest element.              *)
LEMMA LargestAbsorbable ==
  ASSUME NEW blocks \in Seq(FitBlock), Len(blocks) > 0
  PROVE  Max(Absorbable(blocks)) \in 1 .. Len(blocks) /\ Max(Absorbable(blocks)) \in Absorbable(blocks)
  <1> DEFINE A == Absorbable(blocks)
             n == Len(blocks)
             T == {x \in 0 .. n : n - x \in A}
  <1>1. n \in Nat /\ n > 0
    BY LenProperties
  <1>2. A \subseteq 1 .. n /\ 1 \in A
    BY <1>1 DEF Absorbable
  <1> HIDE DEF A, n
  <1>3. T \in SUBSET Nat /\ T # {}
    <2>1. n - 1 \in 0 .. n /\ n - (n - 1) = 1 /\ 0 .. n \subseteq Nat
      BY <1>1
    <2>2. T \subseteq 0 .. n
      OBVIOUS
    <2>3. n - 1 \in T
      BY <1>2, <2>1
    <2> HIDE DEF T
    <2> QED
      BY <2>1, <2>2, <2>3
  <1>4. PICK x \in T : \A y \in T : x <= y
    BY <1>3, Smallest
  <1>5. PICK k \in A : x = n - k
    BY <1>1, <1>2, <1>4
  <1>6. \A y \in A : k >= y
    <2> SUFFICES ASSUME NEW y \in A PROVE k >= y
      OBVIOUS
    <2>1. n - y \in 0 .. n /\ n - (n - y) = y
      BY <1>1, <1>2
    <2>2. n - k <= n - y
      BY <1>4, <1>5, <2>1
    <2> QED
      BY <1>1, <1>2, <2>2
  <1>7. Max(A) \in A
    BY <1>6 DEF Max
  <1> QED
    BY <1>2, <1>7 DEF A, n

LEMMA MergedIsSeparate ==
  ASSUME NEW blocks \in Seq(FitBlock), Len(blocks) > 0, Separate(blocks)
  PROVE  /\ Merge(blocks) \in Seq(FitBlock)
         /\ Separate(Merge(blocks))
         /\ \A c \in FitBlock :
              (\A j \in 1 .. Len(blocks) : Apart(blocks[j], c))
                => \A m \in 1 .. Len(Merge(blocks)) : Apart(Merge(blocks)[m], c)
  <1> DEFINE k == Max(Absorbable(blocks))
             whole == [buff |-> blocks[1].buff, buff_size |-> EndOf(blocks[k]) - blocks[1].buff]
             rest == SubSeq(blocks, k + 1, Len(blocks))
             all == <<whole>> \o rest
  <1>1. k \in 1 .. Len(blocks) /\ k \in Absorbable(blocks) /\ Len(blocks) \in Nat
    BY LargestAbsorbable, LenProperties
  <1>2. Merge(blocks) = all
    BY DEF Merge
  <1> HIDE DEF k
  <1>3. /\ whole \in FitBlock
        /\ \A c \in FitBlock : (\A j \in 1 .. k : Apart(blocks[j], c)) => Apart(whole, c)
    BY <1>1, MergedBlock
  <1> HIDE DEF whole
  <1>4. /\ rest \in Seq(FitBlock) /\ Len(rest) = Len(blocks) - k
        /\ \A m \in 1 .. Len(blocks) - k : rest[m] = blocks[m + k]
    BY <1>1
  <1>5. \A m \in 1 .. Len(rest) : m + k \in 1 .. Len(blocks) /\ m + k > k
    BY <1>1, <1>4
  <1> HIDE DEF rest
  <1>6. Separate(rest)
    <2>1. \A i, j \in 1 .. Len(rest) : i # j => i + k # j + k
      BY <1>1, <1>4
    <2> QED
      BY <1>4, <1>5, <2>1 DEF Separate
  <1>7. <<whole>> \in Seq(FitBlock) /\ Len(<<whole>>) = 1 /\ <<whole>>[1] = whole /\ Separate(<<whole>>)
    BY <1>3, SingleIsSeparate
  <1>8. ASSUME NEW m \in 1 .. Len(rest) PROVE Apart(whole, rest[m])
    <2>1. \A j \in 1 .. k : j \in 1 .. Len(blocks) /\ j # m + k
      BY <1>1, <1>4
    <2>2. \A j \in 1 .. k : Apart(blocks[j], blocks[m + k])
      BY <1>5, <2>1 DEF Separate
    <2>3. rest[m] = blocks[m + k] /\ rest[m] \in FitBlock
      BY <1>4, ElementOfSeq
    <2> QED
      BY <1>3, <2>2, <2>3
  <1>9. Cross(<<whole>>, rest)
    BY <1>7, <1>8 DEF Cross
  <1>10. Separate(all)
    BY <1>4, <1>6, <1>7, <1>9, ConcatIsSeparate
  <1>11. /\ all \in Seq(FitBlock)
         /\ \A m \in 1 .. Len(all) :
              \/ m \in 1 .. 1 /\ all[m] = <<whole>>[m]
              \/ m - 1 \in 1 .. Len(rest) /\ all[m] = rest[m - 1]
    BY <1>4, <1>7, ConcatElements
  <1>12. \A m \in 1 .. 1 : <<whole>>[m] = whole
    BY <1>7
  <1> HIDE DEF all
  <1>13. ASSUME NEW c \in FitBlock, \A j \in 1 .. Len(blocks) : Apart(blocks[j], c),
                NEW m \in 1 .. Len(all)
         PROVE  Apart(all[m], c)
    <2>1. CASE all[m] = whole
      <3>1. \A j \in 1 .. k : j \in 1 .. Len(blocks)
        BY <1>1
      <3> QED
        BY <1>3, <1>13, <2>1, <3>1
    <2>2. CASE m - 1 \in 1 .. Len(rest) /\ all[m] = rest[m - 1]
      BY <1>4, <1>5, <1>13, <2>2
    <2> QED
      BY <1>11, <1>12, <2>1, <2>2
  <1> QED
    BY <1>2, <1>10, <1>11, <1>13

-----------------------------------------------------------------------------
(* One lemma per operation on one memory list.                             *)

LEMMA SmallestOfSome ==
  ASSUME NEW T \in SUBSET Nat, T # {}
  PROVE  Min(T) \in T
  BY Smallest DEF Min

LEMMA InitialisedIsSound ==
  ASSUME NEW m
  PROVE  Sound(Initialised(m).free, Initialised(m).alloc)
  <1> DEFINE whole == [buff |-> 0, buff_size |-> BuffSize]
  <1>1. whole \in FitBlock
    BY NewBlock, SizeAssumption
  <1>2. Initialised(m).alloc = << >> /\ Initialised(m).free \in {<<whole>>, << >>}
    BY DEF Initialised
  <1> HIDE DEF whole
  <1>3. \A s \in {<<whole>>, << >>} : s \in Seq(FitBlock) /\ Separate(s)
    BY <1>1, SingleIsSeparate, EmptyIsSeparate
  <1>4. \A s : Cross(s, << >>)
    BY EmptyIsSeparate DEF Cross
  <1> QED
    BY <1>2, <1>3, <1>4, EmptyIsSeparate DEF Sound

LEMMA ReservedIsSound ==
  ASSUME NEW m, NEW n \in 1 .. BuffSize, Sound(m.free, m.alloc), Fits(m, n) # {}
  PROVE  Sound(Reserved(m, n).free, Reserved(m, n).alloc)
  <1> DEFINE i == Min(Fits(m, n))
             b == m.free[i]
             taken == [b EXCEPT !.buff_size = n]
             rest == IF Splits(m, b, n) THEN <<Remainder(b, n)>> ELSE << >>
             others == RemoveAt(m.free, i)
  <1>0. n \in Nat /\ n > 0
    BY SizeAssumption
  <1>1. /\ m.free \in Seq(FitBlock) /\ Separate(m.free)
        /\ m.alloc \in Seq(FitBlock) /\ Separate(m.alloc)
        /\ Cross(m.free, m.alloc)
    BY DEF Sound
  <1>2. i \in 1 .. Len(m.free) /\ b.buff_size >= n
    <2>1. Fits(m, n) \subseteq 1 .. Len(m.free) /\ 1 .. Len(m.free) \subseteq Nat
      BY <1>1, LenProperties DEF Fits
    <2>2. i \in Fits(m, n)
      BY <2>1, SmallestOfSome
    <2> QED
      BY <2>1, <2>2 DEF Fits
  <1>3. /\ Reserved(m, n).free = others \o rest
        /\ Reserved(m, n).alloc = Append(m.alloc, taken)
    BY DEF Reserved
  <1> HIDE DEF i
  <1>4. /\ b \in FitBlock /\ b.buff \in Nat /\ b.buff_size \in Nat /\ EndOf(b) \in Nat
        /\ EndOf(b) <= BuffSize /\ EndOf(b) = b.buff + b.buff_size
    BY <1>1, <1>2, ElementOfSeq, BlockFields
  <1>5. taken \in FitBlock /\ Within(taken, b) /\ EndOf(taken) = b.buff + n
    <2>1. taken = [buff |-> b.buff, buff_size |-> n]
      BY <1>4, Resized
    <2>2. b.buff + n <= BuffSize /\ b.buff + n <= EndOf(b)
      BY <1>0, <1>2, <1>4, SizeAssumption
    <2>3. taken \in FitBlock /\ EndOf(taken) = b.buff + n /\ taken.buff = b.buff
      BY <1>0, <1>4, <2>1, <2>2, NewBlock
    <2> QED
      BY <1>4, <2>2, <2>3 DEF Within
  <1>6. ASSUME Splits(m, b, n)
        PROVE  /\ Remainder(b, n) \in FitBlock /\ Within(Remainder(b, n), b)
               /\ Apart(Remainder(b, n), taken)
    <2>1. b.buff_size > n
      BY <1>6 DEF Splits
    <2>2. /\ b.buff + n \in Nat /\ b.buff_size - n \in Nat /\ b.buff_size - n > 0
          /\ (b.buff + n) + (b.buff_size - n) = EndOf(b)
      BY <1>0, <1>4, <2>1
    <2>3. /\ Remainder(b, n) \in FitBlock /\ EndOf(Remainder(b, n)) = EndOf(b)
          /\ Remainder(b, n).buff = b.buff + n
      BY <1>4, <2>2, NewBlock DEF Remainder
    <2> QED
      BY <1>0, <1>4, <1>5, <2>3 DEF Within, Apart
  <1>7. /\ others \in Seq(FitBlock) /\ Separate(others)
        /\ \A x \in 1 .. Len(others) :
             \E j \in 1 .. Len(m.free) : j # i /\ others[x] = m.free[j]
    BY <1>1, <1>2, RemoveAtIsSeparate
  <1>8. /\ rest \in Seq(FitBlock) /\ Separate(rest)
        /\ \A x \in 1 .. Len(rest) : /\ Within(rest[x], b) /\ rest[x] \in FitBlock
                                     /\ Apart(rest[x], taken)
    <2>1. CASE Splits(m, b, n)
      <3>1. rest = <<Remainder(b, n)>>
        BY <2>1
      <3>2. /\ rest \in Seq(FitBlock) /\ Separate(rest) /\ Len(rest) = 1
            /\ rest[1] = Remainder(b, n)
        BY <1>6, <2>1, <3>1, SingleIsSeparate
      <3> QED
        BY <1>6, <2>1, <3>2
    <2>2. CASE ~ Splits(m, b, n)
      BY <2>2, EmptyIsSeparate
    <2> QED
      BY <2>1, <2>2
  <1> HIDE DEF b, taken, rest, others
  <1>9. \A j \in 1 .. Len(m.free) : j # i => Apart(b, m.free[j])
    BY <1>1, <1>2 DEF Separate, b
  <1>10. \A j \in 1 .. Len(m.alloc) : Apart(b, m.alloc[j])
    BY <1>1, <1>2 DEF Cross, b
  <1>11. \A x \in 1 .. Len(others) : others[x] \in FitBlock /\ Apart(b, others[x])
    BY <1>7, <1>9, ElementOfSeq
  <1>12. Cross(others, rest)
    <2> SUFFICES ASSUME NEW x \in 1 .. Len(others), NEW y \in 1 .. Len(rest)
                 PROVE  Apart(others[x], rest[y])
      BY DEF Cross
    <2>1. Apart(rest[y], others[x])
      BY <1>4, <1>8, <1>11, ApartWithin
    <2> QED
      BY <2>1, ApartSym
  <1> DEFINE f == others \o rest
             a == Append(m.alloc, taken)
  <1>13. f \in Seq(FitBlock) /\ Separate(f)
    BY <1>7, <1>8, <1>12, ConcatIsSeparate, ConcatElements
  <1>14. ASSUME NEW j \in 1 .. Len(m.alloc)
         PROVE  m.alloc[j] \in FitBlock /\ Apart(taken, m.alloc[j]) /\ Apart(m.alloc[j], taken)
    <2>1. m.alloc[j] \in FitBlock
      BY <1>1, ElementOfSeq
    <2>2. Apart(taken, m.alloc[j])
      BY <1>4, <1>5, <1>10, <2>1, ApartWithin
    <2> QED
      BY <2>1, <2>2, ApartSym
  <1>15. /\ a \in Seq(FitBlock) /\ Len(a) = Len(m.alloc) + 1 /\ Len(m.alloc) \in Nat
         /\ \A x \in 1 .. Len(m.alloc) : a[x] = m.alloc[x]
         /\ a[Len(m.alloc) + 1] = taken
    BY <1>1, <1>5, AppendProperties, LenProperties
  <1> HIDE DEF a
  <1>16. \A x \in 1 .. Len(a) : (x \in 1 .. Len(m.alloc) /\ a[x] = m.alloc[x])
                             \/ (x = Len(m.alloc) + 1 /\ a[x] = taken)
    BY <1>15
  <1>17. Separate(a)
    <2> SUFFICES ASSUME NEW x \in 1 .. Len(a), NEW y \in 1 .. Len(a), x # y
                 PROVE  Apart(a[x], a[y])
      BY DEF Separate
    <2> QED
      BY <1>1, <1>14, <1>16 DEF Separate
  <1>18. ASSUME NEW x \in 1 .. Len(f)
         PROVE  \/ \E j \in 1 .. Len(m.free) : j # i /\ f[x] = m.free[j]
                \/ f[x] \in FitBlock /\ Within(f[x], b) /\ Apart(f[x], taken)
    BY <1>7, <1>8, ConcatElements
  <1> HIDE DEF f
  <1>19. Cross(f, a)
    <2> SUFFICES ASSUME NEW x \in 1 .. Len(f), NEW y \in 1 .. Len(a)
                 PROVE  Apart(f[x], a[y])
      BY DEF Cross
    <2>1. CASE \E j \in 1 .. Len(m.free) : j # i /\ f[x] = m.free[j]
      <3>1. PICK j \in 1 .. Len(m.free) : j # i /\ f[x] = m.free[j]
        BY <2>1
      <3>2. \A z \in 1 .. Len(m.alloc) : Apart(f[x], m.alloc[z])
        BY <1>1, <3>1 DEF Cross
      <3>3. Apart(f[x], taken)
        <4>1. f[x] \in FitBlock /\ Apart(b, f[x])
          BY <1>1, <1>9, <3>1, ElementOfSeq
        <4>2. Apart(taken, f[x])
          BY <1>4, <1>5, <4>1, ApartWithin
        <4> QED
          BY <4>2, ApartSym
      <3> QED
        BY <1>16, <3>2, <3>3
    <2>2. CASE f[x] \in FitBlock /\ Within(f[x], b) /\ Apart(f[x], taken)
      <3>1. \A z \in 1 .. Len(m.alloc) : Apart(f[x], m.alloc[z])
        BY <1>4, <1>10, <1>14, <2>2, ApartWithin
      <3> QED
        BY <1>16, <2>2, <3>1
    <2> QED
      BY <1>18, <2>1, <2>2
  <1> QED
    BY <1>3, <1>13, <1>15, <1>17, <1>19 DEF Sound, f, a

LEMMA ReleasedIsSound ==
  ASSUME NEW m, NEW addr, Sound(m.free, m.alloc), BlocksAt(m, addr) # {}
  PROVE  Sound(Released(m, addr).free, Released(m, addr).alloc)
  <1> DEFINE i == Min(BlocksAt(m, addr))
             b == m.alloc[i]
             returned == ReturnHeaderToFreeList(m.free, b)
             f == Merge(returned)
             a == RemoveAt(m.alloc, i)
  <1>1. /\ m.free \in Seq(FitBlock) /\ Separate(m.free)
        /\ m.alloc \in Seq(FitBlock) /\ Separate(m.alloc)
        /\ Cross(m.free, m.alloc)
    BY DEF Sound
  <1>2. i \in 1 .. Len(m.alloc)
    <2>1. BlocksAt(m, addr) \subseteq 1 .. Len(m.alloc) /\ 1 .. Len(m.alloc) \subseteq Nat
      BY <1>1, LenProperties DEF BlocksAt
    <2>2. i \in BlocksAt(m, addr)
      BY <2>1, SmallestOfSome
    <2> QED
      BY <2>1, <2>2
  <1>3. Released(m, addr).free = f /\ Released(m, addr).alloc = a
    BY DEF Released
  <1> HIDE DEF i
  <1>4. b \in FitBlock /\ \A x \in 1 .. Len(m.free) : Apart(m.free[x], b)
    BY <1>1, <1>2, ElementOfSeq DEF Cross
  <1>5. /\ a \in Seq(FitBlock) /\ Separate(a)
        /\ \A x \in 1 .. Len(a) : \E j \in 1 .. Len(m.alloc) : j # i /\ a[x] = m.alloc[j]
    BY <1>1, <1>2, RemoveAtIsSeparate
  <1>6. ASSUME NEW y \in 1 .. Len(a)
        PROVE  /\ a[y] \in FitBlock /\ Apart(b, a[y])
               /\ \A x \in 1 .. Len(m.free) : Apart(m.free[x], a[y])
    <2>1. PICK j \in 1 .. Len(m.alloc) : j # i /\ a[y] = m.alloc[j]
      BY <1>5
    <2> QED
      BY <1>1, <1>2, <2>1, ElementOfSeq DEF Separate, Cross
  <1> HIDE DEF b, a
  <1>7. /\ returned \in Seq(FitBlock) /\ Len(returned) > 0 /\ Separate(returned)
        /\ \A x \in 1 .. Len(returned) :
             returned[x] = b \/ \E j \in 1 .. Len(m.free) : returned[x] = m.free[j]
    BY <1>1, <1>4, ReturnedIsSeparate
  <1> HIDE DEF returned
  <1>8. ASSUME NEW y \in 1 .. Len(a), NEW x \in 1 .. Len(returned)
        PROVE  Apart(returned[x], a[y])
    BY <1>6, <1>7
  <1>9. /\ f \in Seq(FitBlock) /\ Separate(f)
        /\ \A c \in FitBlock : (\A j \in 1 .. Len(returned) : Apart(returned[j], c))
                                => \A x \in 1 .. Len(f) : Apart(f[x], c)
    BY <1>7, MergedIsSeparate
  <1> HIDE DEF f
  <1>10. Cross(f, a)
    BY <1>6, <1>8, <1>9 DEF Cross
  <1> QED
    BY <1>3, <1>5, <1>9, <1>10 DEF Sound, f, a, returned, b

-----------------------------------------------------------------------------
LEMMA BecomesKeeps ==
  ASSUME IInv, NEW l \in MemLists, NEW m, Becomes(l, m), Sound(m.free, m.alloc)
  PROVE  IInv'
  <1>1. /\ free_list' = [free_list EXCEPT ![l] = m.free] /\ m.free \in Seq(FitBlock)
        /\ alloc_list' = [alloc_list EXCEPT ![l] = m.alloc] /\ m.alloc \in Seq(FitBlock)
    BY DEF Becomes, Sound
  <1>2. /\ free_list' \in [MemLists -> Seq(FitBlock)]
        /\ alloc_list' \in [MemLists -> Seq(FitBlock)]
    BY <1>1 DEF IInv
  <1>3. ASSUME NEW k \in MemLists PROVE Sound(free_list'[k], alloc_list'[k])
    <2>1. CASE k = l
      BY <1>1, <2>1 DEF IInv
    <2>2. CASE k # l
      <3>1. free_list'[k] = free_list[k] /\ alloc_list'[k] = alloc_list[k]
        BY <1>1, <2>2 DEF IInv
      <3> QED
        BY <3>1 DEF IInv
    <2> QED
      BY <2>1, <2>2
  <1> QED
    BY <1>2, <1>3 DEF IInv

LEMMA InitIInv == Init => IInv
  <1> SUFFICES ASSUME Init PROVE IInv
    OBVIOUS
  <1>1. Sound(<< >>, << >>)
    BY EmptyIsSeparate DEF Sound, Cross
  <1> QED
    BY <1>1, EmptyIsSeparate DEF Init, IInv

LEMMA NextIInv == IInv /\ [Next]_vars => IInv'
  <1> SUFFICES ASSUME IInv, [Next]_vars PROVE IInv'
    OBVIOUS
  <1>1. ASSUME NEW l \in MemLists PROVE Sound(Memory(l).free, Memory(l).alloc)
    BY DEF Memory, IInv
  <1>2. ASSUME NEW l \in MemLists, InitMemList(l) PROVE IInv'
    BY <1>2, InitialisedIsSound, BecomesKeeps DEF InitMemList
  <1>3. ASSUME NEW l \in MemLists, NEW n \in 1 .. BuffSize, Malloc(l, n) PROVE IInv'
    BY <1>1, <1>3, ReservedIsSound, BecomesKeeps DEF Malloc
  <1>4. ASSUME NEW l \in MemLists, NEW addr \in 0 .. BuffSize - 1, Free(l, addr) PROVE IInv'
    BY <1>1, <1>4, ReleasedIsSound, BecomesKeeps DEF Free
  <1>5. CASE UNCHANGED vars
    BY <1>5 DEF vars, IInv
  <1> QED
    BY <1>2, <1>3, <1>4, <1>5 DEF Next

(* For every buffer size and every sequence of ezStaticAlloc_Malloc and    *)
(* ezStaticAlloc_Free no two blocks, free or handed out, share a byte.     *)
THEOREM AlwaysDisjoint == Spec => []BlocksDisjoint
  <1>1. IInv => BlocksDisjoint
    <2> SUFFICES ASSUME IInv, NEW l \in MemLists PROVE
          LET blocks == free_list[l] \o alloc_list[l]
          IN  \A i, j \in DOMAIN blocks :
                i < j => \/ EndOf(blocks[i]) <= blocks[j].buff
                         \/ EndOf(blocks[j]) <= blocks[i].buff
      BY DEF BlocksDisjoint
    <2> DEFINE blocks == free_list[l] \o alloc_list[l]
    <2>1. blocks \in Seq(FitBlock) /\ Separate(blocks)
      BY ConcatIsSeparate, ConcatElements DEF IInv, Sound
    <2> HIDE DEF blocks
    <2>2. DOMAIN blocks = 1 .. Len(blocks) /\ Len(blocks) \in Nat
      BY <2>1, LenProperties
    <2>3. \A i, j \in DOMAIN blocks : i < j => i # j
      BY <2>2
    <2>4. \A i, j \in DOMAIN blocks : i < j => \/ EndOf(blocks[i]) <= blocks[j].buff
                                             \/ EndOf(blocks[j]) <= blocks[i].buff
      BY <2>1, <2>2, <2>3 DEF Separate, Apart
    <2> QED
      BY <2>4 DEF blocks
  <1> QED
    BY <1>1, InitIInv, NextIInv, PTL DEF Spec

-----------------------------------------------------------------------------
(* The refinement: what the lists hold, as sets.                           *)

LEMMA ElementsOf ==
  ASSUME NEW s \in Seq(FitBlock), NEW c
  PROVE  c \in ToSet(s) <=> \E i \in 1 .. Len(s) : c = s[i]
  BY LenProperties DEF ToSet

LEMMA NotApartFromItself ==
  ASSUME NEW b \in FitBlock
  PROVE  ~ Apart(b, b)
  BY BlockFields DEF Apart

LEMMA ToSetConcat ==
  ASSUME NEW s \in Seq(FitBlock), NEW t \in Seq(FitBlock)
  PROVE  ToSet(s \o t) = ToSet(s) \cup ToSet(t)
  <1> DEFINE both == s \o t
  <1>1. /\ both \in Seq(FitBlock)
        /\ Len(both) = Len(s) + Len(t)
        /\ \A m \in 1 .. Len(s) + Len(t) : both[m] = IF m <= Len(s) THEN s[m] ELSE t[m - Len(s)]
    BY ConcatProperties
  <1>2. Len(s) \in Nat /\ Len(t) \in Nat
    BY LenProperties
  <1>3. \A m \in 1 .. Len(both) :
          \/ m \in 1 .. Len(s) /\ both[m] = s[m]
          \/ m - Len(s) \in 1 .. Len(t) /\ both[m] = t[m - Len(s)]
    BY ConcatElements
  <1> HIDE DEF both
  <1>4. \A i \in 1 .. Len(s) : i \in 1 .. Len(both) /\ both[i] = s[i]
    BY <1>1, <1>2
  <1>5. ASSUME NEW j \in 1 .. Len(t)
        PROVE  j + Len(s) \in 1 .. Len(both) /\ both[j + Len(s)] = t[j]
    <2>1. /\ j + Len(s) \in 1 .. Len(s) + Len(t) /\ ~(j + Len(s) <= Len(s))
          /\ (j + Len(s)) - Len(s) = j
      BY <1>2
    <2> QED
      BY <1>1, <2>1
  <1>6. ASSUME NEW c
        PROVE  c \in ToSet(both) <=> c \in ToSet(s) \/ c \in ToSet(t)
    <2>1. c \in ToSet(both) <=> \E i \in 1 .. Len(both) : c = both[i]
      BY <1>1, ElementsOf
    <2>2. c \in ToSet(s) <=> \E i \in 1 .. Len(s) : c = s[i]
      BY ElementsOf
    <2>3. c \in ToSet(t) <=> \E i \in 1 .. Len(t) : c = t[i]
      BY ElementsOf
    <2>4. ASSUME c \in ToSet(both) PROVE c \in ToSet(s) \/ c \in ToSet(t)
      BY <1>3, <2>1, <2>2, <2>3, <2>4
    <2>5. ASSUME c \in ToSet(s) PROVE c \in ToSet(both)
      BY <1>4, <2>1, <2>2, <2>5
    <2>6. ASSUME c \in ToSet(t) PROVE c \in ToSet(both)
      <3>1. PICK i \in 1 .. Len(t) : c = t[i]
        BY <2>3, <2>6
      <3> QED
        BY <1>5, <2>1, <3>1
    <2> QED
      BY <2>4, <2>5, <2>6
  <1> QED
    BY <1>6 DEF both

LEMMA ToSetSmall ==
  /\ ToSet(<< >>) = {}
  /\ \A b : ToSet(<<b>>) = {b}
  /\ \A b, c : ToSet(<<b, c>>) = {b, c}
  BY DEF ToSet

LEMMA ToSetRemoveAt ==
  ASSUME NEW s \in Seq(FitBlock), NEW n \in 1 .. Len(s), Separate(s)
  PROVE  ToSet(RemoveAt(s, n)) = ToSet(s) \ {s[n]}
  <1> DEFINE rest == RemoveAt(s, n)
  <1>1. /\ rest \in Seq(FitBlock) /\ Len(rest) = Len(s) - 1 /\ Len(s) \in Nat
        /\ \A m \in 1 .. Len(s) - 1 : /\ m < n => rest[m] = s[m]
                                      /\ ~(m < n) => rest[m] = s[m + 1]
    BY RemoveAtElements, LenProperties
  <1>2. \A m \in 1 .. Len(rest) : \E i \in 1 .. Len(s) : i # n /\ rest[m] = s[i]
    BY RemoveAtIsSeparate
  <1> HIDE DEF rest
  <1>3. ASSUME NEW i \in 1 .. Len(s), i # n
        PROVE  s[i] # s[n] /\ \E m \in 1 .. Len(rest) : rest[m] = s[i]
    <2>1. s[i] # s[n]
      BY <1>3, ElementOfSeq, NotApartFromItself DEF Separate
    <2>2. CASE i < n
      <3>1. i \in 1 .. Len(s) - 1
        BY <1>1, <2>2
      <3> QED
        BY <1>1, <2>1, <2>2, <3>1
    <2>3. CASE ~(i < n)
      <3>1. i - 1 \in 1 .. Len(s) - 1 /\ ~(i - 1 < n) /\ (i - 1) + 1 = i
        BY <1>1, <1>3, <2>3
      <3>2. rest[i - 1] = s[i]
        BY <1>1, <3>1
      <3> QED
        BY <1>1, <2>1, <3>1, <3>2
    <2> QED
      BY <2>2, <2>3
  <1>4. ASSUME NEW c
        PROVE  c \in ToSet(rest) <=> c \in ToSet(s) /\ c # s[n]
    <2>1. c \in ToSet(rest) <=> \E i \in 1 .. Len(rest) : c = rest[i]
      BY <1>1, ElementsOf
    <2>2. c \in ToSet(s) <=> \E i \in 1 .. Len(s) : c = s[i]
      BY ElementsOf
    <2>3. ASSUME c \in ToSet(rest) PROVE c \in ToSet(s) /\ c # s[n]
      BY <1>2, <1>3, <2>1, <2>2, <2>3
    <2>4. ASSUME c \in ToSet(s), c # s[n] PROVE c \in ToSet(rest)
      <3>1. PICK i \in 1 .. Len(s) : c = s[i]
        BY <2>2, <2>4
      <3>2. i # n
        BY <2>4, <3>1
      <3> QED
        BY <1>3, <2>1, <3>1, <3>2
    <2> QED
      BY <2>3, <2>4
  <1> QED
    BY <1>4 DEF rest

LEMMA ToSetReturned ==
  ASSUME NEW blocks \in Seq(FitBlock), NEW b \in FitBlock
  PROVE  ToSet(ReturnHeaderToFreeList(blocks, b)) = ToSet(blocks) \cup {b}
  <1> DEFINE R == ReturnHeaderToFreeList(blocks, b)
  <1>1. CASE R = <<b>> \o blocks
    <2>1. <<b>> \in Seq(FitBlock)
      BY SingleIsSeparate
    <2>2. ToSet(<<b>> \o blocks) = {b} \cup ToSet(blocks)
      BY <2>1, ToSetConcat, ToSetSmall
    <2> QED
      BY <1>1, <2>2
  <1>2. CASE blocks # << >> /\ R = <<Head(blocks), b>> \o Tail(blocks)
    <2> DEFINE h == Head(blocks)
               t == Tail(blocks)
               two == <<h, b>>
               one == <<h>>
    <2>1. h \in FitBlock /\ t \in Seq(FitBlock)
      BY <1>2, HeadTailProperties
    <2>2. blocks = one \o t
      <3>1. Len(blocks) \in Nat /\ Len(blocks) > 0
        BY <1>2, EmptySeq, LenProperties
      <3>2. 1 \in 1 .. Len(blocks) /\ Len(blocks) \in 1 .. Len(blocks)
        BY <3>1
      <3>3. SubSeq(blocks, 1, Len(blocks)) = <<blocks[1]>> \o SubSeq(blocks, 1 + 1, Len(blocks))
        BY <3>2, SubSeqRecursiveFirst
      <3>4. t = SubSeq(blocks, 2, Len(blocks)) /\ h = blocks[1]
        BY <1>2, <3>1, TailIsSubSeq
      <3> QED
        BY <3>3, <3>4, SubSeqFull
    <2> HIDE DEF h, t
    <2>3. two \in Seq(FitBlock) /\ one \in Seq(FitBlock)
      BY <2>1
    <2>4. ToSet(two) = {h, b} /\ ToSet(one) = {h}
      BY ToSetSmall
    <2> HIDE DEF two, one
    <2>5. ToSet(two \o t) = {h, b} \cup ToSet(t) /\ ToSet(one \o t) = {h} \cup ToSet(t)
      BY <2>1, <2>3, <2>4, ToSetConcat
    <2>6. R = two \o t
      BY <1>2 DEF two, h, t
    <2> HIDE DEF R
    <2>7. ToSet(R) = ToSet(blocks) \cup {b}
      BY <2>2, <2>5, <2>6
    <2> QED
      BY <2>7 DEF R
  <1> QED
    BY <1>1, <1>2 DEF ReturnHeaderToFreeList

(* The bytes of a block are those from its start to its end.               *)
LEMMA BytesOfFitBlock ==
  ASSUME NEW b \in FitBlock
  PROVE  Heap!Bytes(b) = b.buff .. EndOf(b) - 1
  BY BlockFields DEF Heap!Bytes

(* The bytes of the merged block are those of the blocks it absorbed.      *)
LEMMA MergedBytes ==
  ASSUME NEW blocks \in Seq(FitBlock), NEW k \in 1 .. Len(blocks), k \in Absorbable(blocks),
         NEW whole, whole = [buff |-> blocks[1].buff, buff_size |-> EndOf(blocks[k]) - blocks[1].buff]
  PROVE  Heap!Bytes(whole) = UNION {Heap!Bytes(c) : c \in {blocks[j] : j \in 1 .. k}}
  <1> DEFINE buff(j) == blocks[j].buff
             end(j) == EndOf(blocks[j])
  <1>1. /\ k \in Nat /\ 1 \in 1 .. k /\ k \in 1 .. k
        /\ \A j \in 1 .. k : j \in 1 .. Len(blocks)
    BY LenProperties
  <1>2. \A j \in 1 .. k - 1 : end(j) = buff(j + 1)
    BY DEF Absorbable
  <1>3. \A j \in 1 .. k : buff(j) \in Nat /\ end(j) \in Nat /\ buff(j) < end(j)
    BY <1>1, ElementOfSeq, BlockFields
  <1>4. whole \in FitBlock
    BY MergedBlock
  <1>5. whole.buff = buff(1) /\ EndOf(whole) = end(k)
    BY <1>1, <1>3 DEF EndOf
  <1>6. ASSUME NEW c \in FitBlock, NEW x
        PROVE  x \in Heap!Bytes(c) <=> x \in Nat /\ c.buff <= x /\ x < EndOf(c)
    <2>1. c.buff \in Nat /\ EndOf(c) \in Nat
      BY BlockFields
    <2>2. Heap!Bytes(c) = c.buff .. EndOf(c) - 1
      BY BytesOfFitBlock
    <2> QED
      BY <2>1, <2>2
  <1>7. ASSUME NEW j \in 1 .. k, NEW x
        PROVE  x \in Heap!Bytes(blocks[j]) <=> x \in Nat /\ buff(j) <= x /\ x < end(j)
    BY <1>1, <1>6, ElementOfSeq
  <1>8. \A x : x \in Heap!Bytes(whole) <=> x \in Nat /\ buff(1) <= x /\ x < end(k)
    BY <1>4, <1>5, <1>6
  <1> HIDE DEF buff, end
  <1>9. ASSUME NEW x \in Nat, buff(1) <= x, x < end(k)
        PROVE  \E j \in 1 .. k : buff(j) <= x /\ x < end(j)
    <2> DEFINE T == {j \in 1 .. k : x < end(j)}
    <2>1. T \in SUBSET Nat /\ T # {}
      BY <1>1, <1>9
    <2>2. PICK j \in T : \A y \in T : j <= y
      BY <2>1, Smallest
    <2>3. CASE j = 1
      BY <1>9, <2>2, <2>3
    <2>4. CASE j # 1
      <3>1. j - 1 \in 1 .. k - 1 /\ j - 1 \in 1 .. k /\ (j - 1) + 1 = j /\ ~(j <= j - 1)
        BY <1>1, <2>2, <2>4
      <3>2. end(j - 1) = buff(j) /\ ~(x < end(j - 1))
        BY <1>2, <2>2, <3>1
      <3> QED
        BY <1>3, <2>2, <3>1, <3>2
    <2> QED
      BY <2>3, <2>4
  <1>10. ASSUME NEW i \in 1 .. k, NEW n \in i .. k
         PROVE  buff(i) <= buff(n) /\ end(i) <= end(n)
    <2> SUFFICES ASSUME ~(buff(i) <= buff(n) /\ end(i) <= end(n)) PROVE FALSE
      OBVIOUS
    <2> DEFINE T == {j \in i .. k : ~(buff(i) <= buff(j) /\ end(i) <= end(j))}
    <2>1. T \in SUBSET Nat /\ T # {}
      BY <1>1
    <2>2. PICK j \in T : \A y \in T : j <= y
      BY <2>1, Smallest
    <2>3. j # i /\ j \in i .. k
      BY <1>3, <2>2
    <2>4. /\ j - 1 \in 1 .. k - 1 /\ j - 1 \in i .. k /\ j \in 1 .. k /\ j - 1 \in 1 .. k
          /\ (j - 1) + 1 = j /\ ~(j <= j - 1)
      BY <1>1, <2>3
    <2>5. end(j - 1) = buff(j) /\ buff(i) <= buff(j - 1) /\ end(i) <= end(j - 1)
      BY <1>2, <2>2, <2>4
    <2> QED
      BY <1>3, <2>2, <2>4, <2>5
  <1>11. ASSUME NEW j \in 1 .. k, NEW x \in Nat, buff(j) <= x, x < end(j)
         PROVE  buff(1) <= x /\ x < end(k)
    <2>1. j \in 1 .. k /\ k \in j .. k
      BY <1>1
    <2>2. buff(1) <= buff(j) /\ end(j) <= end(k)
      BY <1>1, <1>10, <2>1
    <2> QED
      BY <1>1, <1>3, <1>11, <2>2
  <1>12. \A x : x \in Heap!Bytes(whole) <=> \E j \in 1 .. k : x \in Heap!Bytes(blocks[j])
    BY <1>7, <1>8, <1>9, <1>11
  <1> QED
    BY <1>12

LEMMA ToSetMerged ==
  ASSUME NEW blocks \in Seq(FitBlock), Len(blocks) > 0, Separate(blocks)
  PROVE  \E part \in SUBSET ToSet(blocks), whole \in FitBlock :
           /\ Heap!Bytes(whole) = UNION {Heap!Bytes(c) : c \in part}
           /\ ToSet(Merge(blocks)) = (ToSet(blocks) \ part) \cup {whole}
  <1> DEFINE k == Max(Absorbable(blocks))
             whole == [buff |-> blocks[1].buff, buff_size |-> EndOf(blocks[k]) - blocks[1].buff]
             rest == SubSeq(blocks, k + 1, Len(blocks))
             part == {blocks[j] : j \in 1 .. k}
  <1>1. k \in 1 .. Len(blocks) /\ k \in Absorbable(blocks) /\ Len(blocks) \in Nat
    BY LargestAbsorbable, LenProperties
  <1>2. Merge(blocks) = <<whole>> \o rest
    BY DEF Merge
  <1> HIDE DEF k
  <1>3. /\ whole \in FitBlock
        /\ Heap!Bytes(whole) = UNION {Heap!Bytes(c) : c \in part}
    BY <1>1, MergedBlock, MergedBytes
  <1> HIDE DEF whole
  <1>4. /\ rest \in Seq(FitBlock) /\ Len(rest) = Len(blocks) - k
        /\ \A m \in 1 .. Len(blocks) - k : rest[m] = blocks[m + k]
    BY <1>1
  <1> HIDE DEF rest
  <1>5. part \in SUBSET ToSet(blocks)
    BY <1>1, ElementsOf
  <1>6. \A i, j \in 1 .. Len(blocks) : i # j => blocks[i] # blocks[j]
    BY ElementOfSeq, NotApartFromItself DEF Separate
  <1>7. ASSUME NEW c
        PROVE  c \in ToSet(rest) <=> c \in ToSet(blocks) \ part
    <2>1. ASSUME c \in ToSet(rest) PROVE c \in ToSet(blocks) \ part
      <3>1. PICK m \in 1 .. Len(rest) : c = rest[m]
        BY <1>4, <2>1, ElementsOf
      <3>2. c = blocks[m + k] /\ m + k \in 1 .. Len(blocks) /\ \A j \in 1 .. k : j # m + k
        BY <1>1, <1>4, <3>1
      <3>3. \A j \in 1 .. k : j \in 1 .. Len(blocks)
        BY <1>1
      <3> QED
        BY <1>6, <3>2, <3>3, ElementsOf
    <2>2. ASSUME c \in ToSet(blocks) \ part PROVE c \in ToSet(rest)
      <3>1. PICK i \in 1 .. Len(blocks) : c = blocks[i]
        BY <2>2, ElementsOf
      <3>2. i \notin 1 .. k
        BY <2>2, <3>1
      <3>3. i - k \in 1 .. Len(blocks) - k /\ (i - k) + k = i
        BY <1>1, <3>2
      <3>4. rest[i - k] = c
        BY <1>4, <3>1, <3>3
      <3> QED
        BY <1>4, <3>3, <3>4, ElementsOf
    <2> QED
      BY <2>1, <2>2
  <1> HIDE DEF part
  <1>8. <<whole>> \in Seq(FitBlock) /\ ToSet(<<whole>>) = {whole}
    BY <1>3, SingleIsSeparate, ToSetSmall
  <1>9. ToSet(<<whole>> \o rest) = ToSet(<<whole>>) \cup ToSet(rest)
    BY <1>4, <1>8, ToSetConcat
  <1>10. ToSet(Merge(blocks)) = (ToSet(blocks) \ part) \cup {whole}
    BY <1>2, <1>7, <1>8, <1>9
  <1> QED
    BY <1>3, <1>5, <1>10

(* The sets the refinement mapping shows the abstract heap.                *)
FreeSets == [l \in MemLists |-> ToSet(free_list[l])]
AllocSets == [l \in MemLists |-> ToSet(alloc_list[l])]

(* What is left of block b of which n bytes are taken stays free.          *)
KeepsRest(l, b, n) ==
  b.buff_size > n =>
    FreeSets' = [FreeSets EXCEPT ![l] = (FreeSets[l] \ {b})
                   \cup {[buff |-> b.buff + n, buff_size |-> b.buff_size - n]}]

LEMMA MappedBecomes ==
  ASSUME IInv, NEW l \in MemLists, NEW m, Becomes(l, m)
  PROVE  /\ FreeSets' = [FreeSets EXCEPT ![l] = ToSet(m.free)]
         /\ AllocSets' = [AllocSets EXCEPT ![l] = ToSet(m.alloc)]
  BY DEF IInv, Becomes, FreeSets, AllocSets

LEMMA StartStep ==
  ASSUME IInv, NEW l \in MemLists, InitMemList(l)
  PROVE  Heap!Start(l)
  <1> DEFINE m == Initialised(Memory(l))
             whole == [buff |-> 0, buff_size |-> BuffSize]
  <1>1. /\ FreeSets' = [FreeSets EXCEPT ![l] = ToSet(m.free)]
        /\ AllocSets' = [AllocSets EXCEPT ![l] = ToSet(m.alloc)]
    BY MappedBecomes DEF InitMemList
  <1>2. m.alloc = << >> /\ m.free \in {<<whole>>, << >>}
    BY DEF Initialised
  <1> HIDE DEF m
  <1>3. ToSet(m.alloc) = {} /\ ToSet(m.free) \in {{whole}, {}}
    BY <1>2, ToSetSmall
  <1> QED
    BY <1>1, <1>3 DEF Heap!Start, Heap!Whole, FreeSets, AllocSets

LEMMA AllocateStep ==
  ASSUME IInv, NEW l \in MemLists, NEW n \in 1 .. BuffSize, Malloc(l, n)
  PROVE  \E b \in FreeSets[l] :
           /\ Heap!Allocate(l, b, n)
           /\ FreeHeader(Memory(l)) => KeepsRest(l, b, n)
  <1> DEFINE m == Memory(l)
             i == Min(Fits(m, n))
             b == m.free[i]
             taken == [b EXCEPT !.buff_size = n]
             rest == IF Splits(m, b, n) THEN <<Remainder(b, n)>> ELSE << >>
             others == RemoveAt(m.free, i)
             f == others \o rest
             a == Append(m.alloc, taken)
  <1>0. n \in Nat /\ n > 0
    BY SizeAssumption
  <1>1. /\ m.free = free_list[l] /\ m.free \in Seq(FitBlock) /\ Separate(m.free)
        /\ m.alloc = alloc_list[l] /\ m.alloc \in Seq(FitBlock)
    BY DEF Memory, IInv, Sound
  <1>2. /\ FreeSets' = [FreeSets EXCEPT ![l] = ToSet(f)]
        /\ AllocSets' = [AllocSets EXCEPT ![l] = ToSet(a)]
    <2> DEFINE R == Reserved(m, n)
    <2>1. Becomes(l, R)
      BY DEF Malloc
    <2>2. R.free = f /\ R.alloc = a
      BY DEF Reserved
    <2> HIDE DEF R, f, a
    <2> QED
      BY <2>1, <2>2, MappedBecomes
  <1>3. i \in 1 .. Len(m.free) /\ b.buff_size >= n
    <2>1. Fits(m, n) \subseteq 1 .. Len(m.free) /\ 1 .. Len(m.free) \subseteq Nat
      BY <1>1, LenProperties DEF Fits
    <2>2. i \in Fits(m, n)
      BY <2>1, SmallestOfSome DEF Malloc
    <2> QED
      BY <2>1, <2>2 DEF Fits
  <1> HIDE DEF i
  <1>4. /\ b \in FitBlock /\ b.buff \in Nat /\ b.buff_size \in Nat /\ EndOf(b) \in Nat
        /\ EndOf(b) <= BuffSize /\ EndOf(b) = b.buff + b.buff_size
    BY <1>1, <1>3, ElementOfSeq, BlockFields
  <1>5. taken = [buff |-> b.buff, buff_size |-> n] /\ taken \in FitBlock
    <2>1. taken = [buff |-> b.buff, buff_size |-> n]
      BY <1>4, Resized
    <2>2. b.buff + n <= BuffSize
      BY <1>0, <1>3, <1>4, SizeAssumption
    <2> QED
      BY <1>0, <1>4, <2>1, <2>2, NewBlock
  <1>6. others \in Seq(FitBlock) /\ ToSet(others) = ToSet(m.free) \ {b}
    BY <1>1, <1>3, RemoveAtIsSeparate, ToSetRemoveAt
  <1>7. \/ /\ ~ (b.buff_size > n /\ FreeHeader(m))
           /\ rest \in Seq(FitBlock) /\ ToSet(rest) = {}
        \/ /\ n < b.buff_size /\ rest \in Seq(FitBlock)
           /\ ToSet(rest) = {[buff |-> b.buff + n, buff_size |-> b.buff_size - n]}
    <2>1. CASE Splits(m, b, n)
      <3>0. b.buff_size > n
        BY <2>1 DEF Splits
      <3>1. rest = <<Remainder(b, n)>>
        BY <2>1
      <3>2. /\ b.buff + n \in Nat /\ b.buff_size - n \in Nat /\ b.buff_size - n > 0
            /\ (b.buff + n) + (b.buff_size - n) = EndOf(b)
        BY <1>0, <1>4, <3>0
      <3>3. Remainder(b, n) \in FitBlock
        BY <1>4, <3>2, NewBlock DEF Remainder
      <3>4. rest \in Seq(FitBlock) /\ ToSet(rest) = {Remainder(b, n)}
        BY <3>1, <3>3, SingleIsSeparate, ToSetSmall
      <3> QED
        BY <1>0, <1>4, <3>0, <3>4 DEF Remainder
    <2>2. CASE ~ Splits(m, b, n)
      BY <2>2, EmptyIsSeparate, ToSetSmall DEF Splits
    <2> QED
      BY <2>1, <2>2
  <1>8. b \in ToSet(m.free)
    BY <1>1, <1>3, ElementsOf
  <1>9. ToSet(a) = ToSet(m.alloc) \cup {taken}
    <2> DEFINE s == m.alloc
    <2> HIDE DEF taken
    <2>1. a = s \o <<taken>> /\ s \in Seq(FitBlock)
      BY <1>1, <1>5, AppendIsConcat
    <2> HIDE DEF a, s
    <2>2. <<taken>> \in Seq(FitBlock) /\ ToSet(<<taken>>) = {taken}
      BY <1>5, SingleIsSeparate, ToSetSmall
    <2>3. ToSet(a) = ToSet(s) \cup {taken}
      BY <2>1, <2>2, ToSetConcat
    <2> QED
      BY <2>3 DEF s
  <1> HIDE DEF b, taken, rest, others
  <1>10. ToSet(f) = ToSet(others) \cup ToSet(rest)
    BY <1>6, <1>7, ToSetConcat
  <1> HIDE DEF f, a
  <1>11. /\ ToSet(m.free) = FreeSets[l] /\ ToSet(m.alloc) = AllocSets[l]
    BY <1>1 DEF FreeSets, AllocSets
  <1>15. FreeHeader(m) => KeepsRest(l, b, n)
    <2> SUFFICES ASSUME FreeHeader(m), b.buff_size > n
                 PROVE  FreeSets' = [FreeSets EXCEPT ![l] = (FreeSets[l] \ {b})
                          \cup {[buff |-> b.buff + n, buff_size |-> b.buff_size - n]}]
      BY DEF KeepsRest
    <2>1. ToSet(f) = (FreeSets[l] \ {b}) \cup {[buff |-> b.buff + n, buff_size |-> b.buff_size - n]}
      BY <1>6, <1>7, <1>10, <1>11
    <2> QED
      BY <1>2, <2>1
  <1> HIDE DEF m
  <1>12. n <= b.buff_size /\ b \in FreeSets[l]
    BY <1>0, <1>3, <1>4, <1>8, <1>11
  <1>13. AllocSets' = [AllocSets EXCEPT ![l] = AllocSets[l] \cup {[buff |-> b.buff, buff_size |-> n]}]
    BY <1>2, <1>5, <1>9, <1>11
  <1>14. \/ FreeSets' = [FreeSets EXCEPT ![l] = FreeSets[l] \ {b}]
         \/ /\ n < b.buff_size
            /\ FreeSets' = [FreeSets EXCEPT ![l] = (FreeSets[l] \ {b})
                           \cup {[buff |-> b.buff + n, buff_size |-> b.buff_size - n]}]
    <2>1. CASE ToSet(rest) = {}
      <3>1. ToSet(f) = FreeSets[l] \ {b}
        BY <1>6, <1>10, <1>11, <2>1
      <3> QED
        BY <1>2, <3>1
    <2>2. CASE /\ n < b.buff_size
               /\ ToSet(rest) = {[buff |-> b.buff + n, buff_size |-> b.buff_size - n]}
      <3>1. ToSet(f) = (FreeSets[l] \ {b}) \cup {[buff |-> b.buff + n, buff_size |-> b.buff_size - n]}
        BY <1>6, <1>10, <1>11, <2>2
      <3> QED
        BY <1>2, <2>2, <3>1
    <2> QED
      BY <1>7, <2>1, <2>2
  <1> QED
    <2>1. Heap!Allocate(l, b, n)
      BY <1>12, <1>13, <1>14 DEF Heap!Allocate, FreeSets, AllocSets
    <2> QED
      BY <1>12, <1>15, <2>1 DEF m

LEMMA ReleaseStep ==
  ASSUME IInv, NEW l \in MemLists, NEW addr, Free(l, addr)
  PROVE  \E b \in AllocSets[l] : Heap!Release(l, b)
  <1> DEFINE m == Memory(l)
             i == Min(BlocksAt(m, addr))
             b == m.alloc[i]
             returned == ReturnHeaderToFreeList(m.free, b)
             f == Merge(returned)
             a == RemoveAt(m.alloc, i)
  <1>1. /\ m.free = free_list[l] /\ m.free \in Seq(FitBlock) /\ Separate(m.free)
        /\ m.alloc = alloc_list[l] /\ m.alloc \in Seq(FitBlock) /\ Separate(m.alloc)
        /\ Cross(m.free, m.alloc)
    BY DEF Memory, IInv, Sound
  <1>2. i \in 1 .. Len(m.alloc)
    <2>1. BlocksAt(m, addr) \subseteq 1 .. Len(m.alloc) /\ 1 .. Len(m.alloc) \subseteq Nat
      BY <1>1, LenProperties DEF BlocksAt
    <2>2. i \in BlocksAt(m, addr)
      BY <2>1, SmallestOfSome DEF Free
    <2> QED
      BY <2>1, <2>2
  <1>3. /\ FreeSets' = [FreeSets EXCEPT ![l] = ToSet(f)]
        /\ AllocSets' = [AllocSets EXCEPT ![l] = ToSet(a)]
    <2>1. Becomes(l, Released(m, addr))
      BY DEF Free
    <2>2. Released(m, addr).free = f /\ Released(m, addr).alloc = a
      BY DEF Released
    <2> QED
      BY <2>1, <2>2, MappedBecomes
  <1>4. ToSet(a) = ToSet(m.alloc) \ {b} /\ b \in ToSet(m.alloc)
    BY <1>1, <1>2, ToSetRemoveAt, ElementsOf
  <1> HIDE DEF i
  <1>5. b \in FitBlock /\ \A x \in 1 .. Len(m.free) : Apart(m.free[x], b)
    BY <1>1, <1>2, ElementOfSeq DEF Cross
  <1> HIDE DEF b, a
  <1>6. /\ returned \in Seq(FitBlock) /\ Len(returned) > 0 /\ Separate(returned)
        /\ ToSet(returned) = ToSet(m.free) \cup {b}
    BY <1>1, <1>5, ReturnedIsSeparate, ToSetReturned
  <1> HIDE DEF returned
  <1>7. PICK part \in SUBSET ToSet(returned), whole \in FitBlock :
          /\ Heap!Bytes(whole) = UNION {Heap!Bytes(c) : c \in part}
          /\ ToSet(f) = (ToSet(returned) \ part) \cup {whole}
    BY <1>6, ToSetMerged
  <1> HIDE DEF f
  <1>8. ToSet(m.free) = FreeSets[l] /\ ToSet(m.alloc) = AllocSets[l]
    BY <1>1 DEF FreeSets, AllocSets
  <1> HIDE DEF m
  <1>9. whole \in Heap!Block
    BY DEF FitBlock, Block, Heap!Block
  <1>10. b \in AllocSets[l] /\ AllocSets' = [AllocSets EXCEPT ![l] = AllocSets[l] \ {b}]
    BY <1>3, <1>4, <1>8
  <1>11. /\ part \in SUBSET (FreeSets[l] \cup {b})
         /\ FreeSets' = [FreeSets EXCEPT ![l] = ((FreeSets[l] \cup {b}) \ part) \cup {whole}]
    BY <1>3, <1>6, <1>7, <1>8
  <1>12. \E p \in SUBSET (FreeSets[l] \cup {b}), w \in Heap!Block :
           /\ Heap!Bytes(w) = UNION {Heap!Bytes(c) : c \in p}
           /\ FreeSets' = [FreeSets EXCEPT ![l] = ((FreeSets[l] \cup {b}) \ p) \cup {w}]
    BY <1>7, <1>9, <1>11
  <1> QED
    BY <1>10, <1>12 DEF Heap!Release, FreeSets, AllocSets

(* Every memory list refines an allocator that hands out free memory of    *)
(* its own buffer, takes it back, and merges only contiguous free blocks.  *)
THEOREM HeapRefinement == Spec => ImplementsHeap
  <1>1. Init => Heap!Init
    BY ToSetSmall DEF Init, Heap!Init
  <1>2. IInv /\ [Next]_vars => [Heap!Next]_(Heap!vars)
    <2> SUFFICES ASSUME IInv, [Next]_vars PROVE [Heap!Next]_(Heap!vars)
      OBVIOUS
    <2>1. ASSUME NEW l \in MemLists, InitMemList(l) PROVE Heap!Next
      BY <2>1, StartStep DEF Heap!Next
    <2>2. ASSUME NEW l \in MemLists, NEW n \in 1 .. BuffSize, Malloc(l, n) PROVE Heap!Next
      BY <2>2, AllocateStep DEF Heap!Next, FreeSets
    <2>3. ASSUME NEW l \in MemLists, NEW addr \in 0 .. BuffSize - 1, Free(l, addr)
          PROVE  Heap!Next
      BY <2>3, ReleaseStep DEF Heap!Next, AllocSets
    <2>4. CASE UNCHANGED vars
      BY <2>4 DEF vars, Heap!vars
    <2> QED
      BY <2>1, <2>2, <2>3, <2>4 DEF Next
  <1>3. Spec => []IInv
    BY InitIInv, NextIInv, PTL DEF Spec
  <1> QED
    BY <1>1, <1>2, <1>3, PTL DEF Spec, ImplementsHeap, Heap!Spec

-----------------------------------------------------------------------------
(* What no block covers any more.                                          *)

LEMMA CoveredBytes ==
  ASSUME IInv, NEW l \in MemLists, NEW x
  PROVE  x \in Covered(l) <=> \E b \in FreeSets[l] \cup AllocSets[l] : x \in Heap!Bytes(b)
  <1>1. Blocks(l) = FreeSets[l] \cup AllocSets[l]
    BY DEF Blocks, FreeSets, AllocSets
  <1>2. Blocks(l) \subseteq FitBlock
    BY ElementOfSeq, LenProperties DEF IInv, Blocks, ToSet
  <1>3. x \in Covered(l) <=> \E b \in Blocks(l) : x \in b.buff .. EndOf(b) - 1
    BY DEF Covered
  <1> QED
    BY <1>1, <1>2, <1>3, BytesOfFitBlock

LEMMA CoveredBytesNext ==
  ASSUME IInv', NEW l \in MemLists, NEW x
  PROVE  x \in Covered(l)' <=> \E b \in FreeSets'[l] \cup AllocSets'[l] : x \in Heap!Bytes(b)
  <1>1. Blocks(l)' = FreeSets'[l] \cup AllocSets'[l]
    BY DEF Blocks, FreeSets, AllocSets
  <1>2. Blocks(l)' \subseteq FitBlock
    BY ElementOfSeq, LenProperties DEF IInv, Blocks, ToSet
  <1>3. x \in Covered(l)' <=> \E b \in Blocks(l)' : x \in b.buff .. EndOf(b) - 1
    BY DEF Covered
  <1> QED
    BY <1>1, <1>2, <1>3, BytesOfFitBlock

LEMMA BlocksFit ==
  ASSUME IInv, NEW l \in MemLists, NEW b \in FreeSets[l] \cup AllocSets[l]
  PROVE  /\ b \in FitBlock
         /\ \A x : x \in Heap!Bytes(b) <=> x \in Nat /\ b.buff <= x /\ x < b.buff + b.buff_size
  <1>1. b \in FitBlock
    BY ElementOfSeq, LenProperties DEF IInv, FreeSets, AllocSets, ToSet
  <1> QED
    BY <1>1, BlockFields DEF Heap!Bytes

LEMMA InitCovers ==
  ASSUME IInv, IInv', NEW k \in MemLists, InitMemList(k), FreeHeader(Memory(k)),
         NEW x \in Covered(k)
  PROVE  x \in Covered(k)'
  <1> DEFINE m == Initialised(Memory(k))
             whole == [buff |-> 0, buff_size |-> BuffSize]
  <1>1. PICK b \in FreeSets[k] \cup AllocSets[k] : x \in Heap!Bytes(b)
    BY CoveredBytes
  <1>2. x \in Nat /\ x < BuffSize
    <2>1. /\ b \in FitBlock /\ x \in Nat /\ x < b.buff + b.buff_size
      BY <1>1, BlocksFit
    <2>2. /\ b.buff + b.buff_size <= BuffSize /\ b.buff \in Nat /\ b.buff_size \in Nat
      BY <2>1, BlockFields
    <2> QED
      BY <2>1, <2>2, SizeAssumption
  <1>3. FreeSets' = [FreeSets EXCEPT ![k] = ToSet(m.free)]
    BY MappedBecomes DEF InitMemList
  <1>4. m.free = <<whole>>
    BY DEF Initialised
  <1> HIDE DEF m
  <1>5. FreeSets'[k] = {whole}
    BY <1>3, <1>4, ToSetSmall DEF FreeSets
  <1>6. x \in Heap!Bytes(whole)
    BY <1>2, SizeAssumption DEF Heap!Bytes
  <1> QED
    BY <1>5, <1>6, CoveredBytesNext

LEMMA MallocCovers ==
  ASSUME IInv, IInv', NEW k \in MemLists, NEW n \in 1 .. BuffSize, Malloc(k, n),
         FreeHeader(Memory(k)), NEW x \in Covered(k)
  PROVE  x \in Covered(k)'
  <1>0. n \in Nat /\ n > 0
    BY SizeAssumption
  <1>1. PICK b \in FreeSets[k] : Heap!Allocate(k, b, n) /\ KeepsRest(k, b, n)
    BY AllocateStep
  <1> DEFINE taken == [buff |-> b.buff, buff_size |-> n]
             rest == [buff |-> b.buff + n, buff_size |-> b.buff_size - n]
  <1>2. /\ AllocSets' = [AllocSets EXCEPT ![k] = AllocSets[k] \cup {taken}]
        /\ n <= b.buff_size
        /\ \/ FreeSets' = [FreeSets EXCEPT ![k] = FreeSets[k] \ {b}]
           \/ FreeSets' = [FreeSets EXCEPT ![k] = (FreeSets[k] \ {b}) \cup {rest}]
    BY <1>1 DEF Heap!Allocate, FreeSets, AllocSets
  <1>3. b.buff_size > n => FreeSets' = [FreeSets EXCEPT ![k] = (FreeSets[k] \ {b}) \cup {rest}]
    BY <1>1 DEF KeepsRest
  <1>4. /\ AllocSets'[k] = AllocSets[k] \cup {taken}
        /\ FreeSets[k] \ {b} \subseteq FreeSets'[k]
        /\ b.buff_size > n => rest \in FreeSets'[k]
    BY <1>2, <1>3 DEF FreeSets, AllocSets
  <1>5. PICK c \in FreeSets[k] \cup AllocSets[k] : x \in Heap!Bytes(c)
    BY CoveredBytes
  <1>6. CASE c # b
    BY <1>4, <1>5, <1>6, CoveredBytesNext
  <1>7. CASE c = b
    <2>1. /\ x \in Nat /\ b.buff <= x /\ x < b.buff + b.buff_size
          /\ b.buff \in Nat /\ b.buff_size \in Nat
      BY <1>5, <1>7, BlocksFit, BlockFields
    <2>2. CASE x < b.buff + n
      <3>1. x \in Heap!Bytes(taken)
        BY <1>0, <2>1, <2>2 DEF Heap!Bytes
      <3> QED
        BY <1>4, <3>1, CoveredBytesNext
    <2>3. CASE ~ (x < b.buff + n)
      <3>1. b.buff_size > n
        BY <1>0, <2>1, <2>3
      <3>2. x \in (b.buff + n) .. (b.buff + n) + (b.buff_size - n) - 1
        BY <1>0, <2>1, <2>3
      <3>3. x \in Heap!Bytes(rest)
        BY <3>2 DEF Heap!Bytes
      <3> QED
        BY <1>4, <3>1, <3>3, CoveredBytesNext
    <2> QED
      BY <2>2, <2>3
  <1> QED
    BY <1>6, <1>7

LEMMA FreeCovers ==
  ASSUME IInv, IInv', NEW k \in MemLists, NEW addr, Free(k, addr), NEW x \in Covered(k)
  PROVE  x \in Covered(k)'
  <1>1. PICK b \in AllocSets[k] : Heap!Release(k, b)
    BY ReleaseStep
  <1>2. PICK part \in SUBSET (FreeSets[k] \cup {b}), whole \in Heap!Block :
          /\ Heap!Bytes(whole) = UNION {Heap!Bytes(c) : c \in part}
          /\ FreeSets' = [FreeSets EXCEPT ![k] = ((FreeSets[k] \cup {b}) \ part) \cup {whole}]
    BY <1>1 DEF Heap!Release, FreeSets
  <1>3. AllocSets' = [AllocSets EXCEPT ![k] = AllocSets[k] \ {b}]
    BY <1>1 DEF Heap!Release, AllocSets
  <1>4. /\ FreeSets'[k] = ((FreeSets[k] \cup {b}) \ part) \cup {whole}
        /\ AllocSets'[k] = AllocSets[k] \ {b}
    BY <1>2, <1>3 DEF FreeSets, AllocSets
  <1>5. PICK c \in FreeSets[k] \cup AllocSets[k] : x \in Heap!Bytes(c)
    BY CoveredBytes
  <1>6. CASE c \in part
    <2>1. x \in Heap!Bytes(whole)
      BY <1>2, <1>5, <1>6
    <2> QED
      BY <1>4, <2>1, CoveredBytesNext
  <1>7. CASE c \notin part
    BY <1>4, <1>5, <1>7, CoveredBytesNext
  <1> QED
    BY <1>6, <1>7

LEMMA OthersUntouched ==
  ASSUME IInv, NEW k \in MemLists, NEW m, Becomes(k, m), NEW l \in MemLists, l # k
  PROVE  Covered(l)' = Covered(l)
  BY DEF IInv, Becomes, Covered, Blocks

(* A byte leaves the blocks of a list only while the pool has no header    *)
(* for the tail of a block that is cut.                                    *)
THEOREM BytesLostOnlyThen == Spec => BytesLostOnlyWithoutHeaders
  <1> DEFINE A == \A l \in MemLists : Covered(l) \ Covered(l)' # {} => ~ FreeHeader(Memory(l))
  <1>1. IInv /\ [Next]_vars => [A]_vars
    <2> SUFFICES ASSUME IInv, IInv', Next, NEW l \in MemLists, FreeHeader(Memory(l)),
                        NEW x \in Covered(l)
                 PROVE  x \in Covered(l)'
      BY NextIInv
    <2>1. \A k \in MemLists : FreeHeader(Memory(k))
      BY DEF FreeHeader, Memory
    <2>2. ASSUME NEW k \in MemLists, NEW m, Becomes(k, m), l # k PROVE x \in Covered(l)'
      BY <2>2, OthersUntouched
    <2>3. ASSUME NEW k \in MemLists, InitMemList(k) PROVE x \in Covered(l)'
      BY <2>1, <2>2, <2>3, InitCovers DEF InitMemList
    <2>4. ASSUME NEW k \in MemLists, NEW n \in 1 .. BuffSize, Malloc(k, n)
          PROVE  x \in Covered(l)'
      BY <2>1, <2>2, <2>4, MallocCovers DEF Malloc
    <2>5. ASSUME NEW k \in MemLists, NEW addr \in 0 .. BuffSize - 1, Free(k, addr)
          PROVE  x \in Covered(l)'
      BY <2>2, <2>5, FreeCovers DEF Free
    <2> QED
      BY <2>3, <2>4, <2>5 DEF Next
  <1>2. Spec => []IInv
    BY InitIInv, NextIInv, PTL DEF Spec
  <1> QED
    BY <1>1, <1>2, PTL DEF Spec, BytesLostOnlyWithoutHeaders
-----------------------------------------------------------------------------
(* The pool of headers.  Every list entry is a header of the pool, counted *)
(* once over all lists: none is given back twice, so used never wraps.     *)

HeadersTaken ==
  /\ IsFiniteSet(OnLists)
  /\ used \in Nat /\ used <= NumOfMemBlock
  /\ Cardinality(OnLists) <= used

(* The headers on the lists of m less those taken from the pool.           *)
Surplus(m) == (Len(m.free) + Len(m.alloc)) - m.used

(* What becomes of m draws on the pool alone for the headers of its lists. *)
Drawn(new, m) ==
  new.used \in Int /\ new.used <= NumOfMemBlock /\ Surplus(new) <= Surplus(m)

LEMMA Numbered ==
  ASSUME NEW n \in Nat, NEW l, NEW w
  PROVE  IsFiniteSet(Places(l, w, n)) /\ Cardinality(Places(l, w, n)) = n
  <1> DEFINE S == Places(l, w, n)
             f == [i \in 1 .. n |-> <<l, w, i>>]
  <1>1. f \in Bijection(1 .. n, S)
    <2>1. f \in [1 .. n -> S]
      BY DEF Places
    <2>2. \A i, j \in 1 .. n : f[i] = f[j] => i = j
      BY DEF Places
    <2>3. \A y \in S : \E i \in 1 .. n : f[i] = y
      BY DEF Places
    <2> QED
      BY <2>1, <2>2, <2>3 DEF Bijection, Injection, IsInjective, Surjection
  <1> HIDE DEF f, S
  <1>2. ExistsBijection(1 .. n, S)
    BY <1>1 DEF ExistsBijection
  <1>3. IsFiniteSet(1 .. n) /\ Cardinality(1 .. n) = n
    BY FS_Interval
  <1>4. IsFiniteSet(S) /\ Cardinality(S) = n
    BY <1>2, <1>3, FS_Bijection
  <1> QED
    BY <1>4 DEF S

LEMMA DisjointUnion ==
  ASSUME NEW S, NEW T, IsFiniteSet(S), IsFiniteSet(T), S \cap T = {}
  PROVE  IsFiniteSet(S \cup T) /\ Cardinality(S \cup T) = Cardinality(S) + Cardinality(T)
  <1>1. Cardinality(S) \in Nat /\ Cardinality(T) \in Nat
    BY FS_CardinalityType
  <1>2. Cardinality(S \cap T) = 0
    BY FS_EmptySet
  <1>3. /\ IsFiniteSet(S \cup T)
        /\ Cardinality(S \cup T) = Cardinality(S) + Cardinality(T) - Cardinality(S \cap T)
    BY FS_Union
  <1> QED
    BY <1>1, <1>2, <1>3

LEMMA HeadersOfTwo ==
  ASSUME NEW f \in Nat, NEW a \in Nat, NEW l
  PROVE  /\ IsFiniteSet(Places(l, "free", f) \cup Places(l, "alloc", a))
         /\ Cardinality(Places(l, "free", f) \cup Places(l, "alloc", a)) = f + a
  <1>1. IsFiniteSet(Places(l, "free", f)) /\ Cardinality(Places(l, "free", f)) = f
    BY Numbered
  <1>2. IsFiniteSet(Places(l, "alloc", a)) /\ Cardinality(Places(l, "alloc", a)) = a
    BY Numbered
  <1>3. Places(l, "free", f) \cap Places(l, "alloc", a) = {}
    BY DEF Places
  <1>4. /\ IsFiniteSet(Places(l, "free", f) \cup Places(l, "alloc", a))
        /\ Cardinality(Places(l, "free", f) \cup Places(l, "alloc", a))
             = Cardinality(Places(l, "free", f)) + Cardinality(Places(l, "alloc", a))
    BY <1>1, <1>2, <1>3, DisjointUnion
  <1> QED
    BY <1>1, <1>2, <1>4

LEMMA HeadersCounted ==
  ASSUME IInv, NEW l \in MemLists
  PROVE  /\ IsFiniteSet(Headers(l))
         /\ Cardinality(Headers(l)) = Len(free_list[l]) + Len(alloc_list[l])
  <1>1. Len(free_list[l]) \in Nat /\ Len(alloc_list[l]) \in Nat
    BY LenProperties DEF IInv
  <1> QED
    BY <1>1, HeadersOfTwo DEF Headers

LEMMA HeadersCountedNext ==
  ASSUME IInv', NEW l \in MemLists
  PROVE  /\ IsFiniteSet(Headers(l)')
         /\ Cardinality(Headers(l)') = Len(free_list'[l]) + Len(alloc_list'[l])
  <1>1. Len(free_list'[l]) \in Nat /\ Len(alloc_list'[l]) \in Nat
    BY LenProperties DEF IInv
  <1> QED
    BY <1>1, HeadersOfTwo DEF Headers

(* The headers of the other lists stay where they are.                     *)
LEMMA OnOtherLists ==
  ASSUME IInv, IInv', IsFiniteSet(OnLists), NEW l \in MemLists,
         \A k \in MemLists \ {l} : free_list'[k] = free_list[k] /\ alloc_list'[k] = alloc_list[k]
  PROVE  \E others \in Nat :
           /\ Cardinality(OnLists) = others + Len(free_list[l]) + Len(alloc_list[l])
           /\ IsFiniteSet(OnLists')
           /\ Cardinality(OnLists') = others + Len(free_list'[l]) + Len(alloc_list'[l])
  <1> DEFINE O == UNION {Headers(k) : k \in MemLists \ {l}}
             H == Headers(l)
  <1>1. OnLists = O \cup H
    BY DEF OnLists
  <1>2. OnLists' = O \cup H'
    <2>1. \A k \in MemLists \ {l} : Headers(k)' = Headers(k)
      BY DEF Headers
    <2>2. OnLists' = UNION {Headers(k)' : k \in MemLists}
      BY DEF OnLists
    <2> QED
      BY <2>1, <2>2
  <1>3. \A x \in O : x[1] # l
    BY DEF Headers, Places
  <1>4. \A x \in H \cup H' : x[1] = l
    BY DEF Headers, Places
  <1> HIDE DEF O, H
  <1>5. O \cap H = {} /\ O \cap H' = {}
    BY <1>3, <1>4
  <1>6. IsFiniteSet(O) /\ IsFiniteSet(H) /\ IsFiniteSet(H')
    <2>1. O \in SUBSET OnLists
      BY <1>1
    <2> QED
      BY <2>1, FS_Subset, HeadersCounted, HeadersCountedNext DEF H
  <1>7. Cardinality(O) \in Nat
    BY <1>6, FS_CardinalityType
  <1>8. Cardinality(OnLists) = Cardinality(O) + Cardinality(H)
    BY <1>1, <1>5, <1>6, DisjointUnion
  <1>9. IsFiniteSet(OnLists') /\ Cardinality(OnLists') = Cardinality(O) + Cardinality(H')
    BY <1>2, <1>5, <1>6, DisjointUnion
  <1>10. /\ Cardinality(H) = Len(free_list[l]) + Len(alloc_list[l])
         /\ Cardinality(H') = Len(free_list'[l]) + Len(alloc_list'[l])
    BY HeadersCounted, HeadersCountedNext DEF H
  <1>11. /\ Len(free_list[l]) \in Nat /\ Len(alloc_list[l]) \in Nat
         /\ Len(free_list'[l]) \in Nat /\ Len(alloc_list'[l]) \in Nat
    BY LenProperties DEF IInv
  <1> DEFINE c == Cardinality(O)
             f == Len(free_list[l])
             a == Len(alloc_list[l])
             g == Len(free_list'[l])
             b == Len(alloc_list'[l])
  <1> HIDE DEF c, f, a, g, b
  <1>12. /\ c \in Nat /\ f \in Nat /\ a \in Nat /\ g \in Nat /\ b \in Nat
         /\ Cardinality(OnLists) = c + (f + a) /\ Cardinality(OnLists') = c + (g + b)
    BY <1>7, <1>8, <1>9, <1>10, <1>11 DEF c, f, a, g, b
  <1>13. Cardinality(OnLists) = c + f + a /\ Cardinality(OnLists') = c + g + b
    BY <1>12
  <1> QED
    BY <1>9, <1>12, <1>13 DEF f, a, g, b

LEMMA InitialisedIsDrawn ==
  ASSUME NEW m, Sound(m.free, m.alloc), m.used \in Nat, m.used <= NumOfMemBlock
  PROVE  Drawn(Initialised(m), m)
  <1> DEFINE new == Initialised(m)
             f == Len(m.free)
             a == Len(m.alloc)
             u == m.used
  <1>1. f \in Nat /\ a \in Nat /\ u \in Nat /\ u <= NumOfMemBlock
    BY LenProperties DEF Sound
  <1>2. \/ u < NumOfMemBlock /\ Len(new.free) = 1 /\ Len(new.alloc) = 0 /\ new.used = u + 1
        \/ Len(new.free) = 0 /\ Len(new.alloc) = 0 /\ new.used = u
    <2>1. new.alloc = << >>
      BY DEF Initialised
    <2>2. CASE FreeHeader(m)
      <3>1. new.free = <<[buff |-> 0, buff_size |-> BuffSize]>> /\ new.used = u + 1
        BY <2>2 DEF Initialised
      <3> QED
        BY <2>1, <2>2, <3>1 DEF FreeHeader
    <2>3. CASE ~ FreeHeader(m)
      <3>1. new.free = << >> /\ new.used = u
        BY <2>3 DEF Initialised
      <3> QED
        BY <2>1, <3>1
    <2> QED
      BY <2>2, <2>3
  <1>3. Surplus(new) = (Len(new.free) + Len(new.alloc)) - new.used
    BY DEF Surplus
  <1>4. Surplus(m) = (f + a) - u
    BY DEF Surplus
  <1> HIDE DEF new, f, a, u
  <1>5. NumOfMemBlock \in Nat
    BY PoolAssumption
  <1>6. (f + a) - u >= 0 - u
    BY <1>1
  <1>7. Surplus(new) = 0 - u /\ new.used \in Int /\ new.used <= NumOfMemBlock
    <2>1. CASE u < NumOfMemBlock /\ Len(new.free) = 1 /\ Len(new.alloc) = 0 /\ new.used = u + 1
      BY <1>1, <1>3, <1>5, <2>1
    <2>2. CASE Len(new.free) = 0 /\ Len(new.alloc) = 0 /\ new.used = u
      BY <1>1, <1>3, <1>5, <2>2
    <2> QED
      BY <1>2, <2>1, <2>2
  <1>8. Surplus(new) <= Surplus(m)
    BY <1>4, <1>6, <1>7
  <1> QED
    BY <1>7, <1>8 DEF Drawn, new

LEMMA ReservedIsDrawn ==
  ASSUME NEW m, NEW n \in 1 .. BuffSize, Sound(m.free, m.alloc), Fits(m, n) # {},
         m.used \in Nat, m.used <= NumOfMemBlock
  PROVE  Drawn(Reserved(m, n), m) /\ Surplus(Reserved(m, n)) = Surplus(m)
  <1> DEFINE new == Reserved(m, n)
             i == Min(Fits(m, n))
             b == m.free[i]
             taken == [b EXCEPT !.buff_size = n]
             rest == IF Splits(m, b, n) THEN <<Remainder(b, n)>> ELSE << >>
             others == RemoveAt(m.free, i)
             f == Len(m.free)
             a == Len(m.alloc)
             u == m.used
             r == Len(rest)
  <1>1. /\ m.free \in Seq(FitBlock) /\ m.alloc \in Seq(FitBlock)
        /\ Sound(new.free, new.alloc)
    BY ReservedIsSound DEF Sound
  <1>2. f \in Nat /\ a \in Nat /\ u \in Nat /\ u <= NumOfMemBlock
    BY <1>1, LenProperties
  <1>3. i \in 1 .. Len(m.free)
    <2>1. Fits(m, n) \subseteq 1 .. Len(m.free) /\ 1 .. Len(m.free) \subseteq Nat
      BY <1>1, LenProperties DEF Fits
    <2>2. i \in Fits(m, n)
      BY <2>1, SmallestOfSome
    <2> QED
      BY <2>1, <2>2
  <1>4. new.free = others \o rest /\ new.alloc = Append(m.alloc, taken) /\ new.used = u + r
    BY DEF Reserved
  <1>5. others \in Seq(FitBlock) /\ Len(others) = f - 1
    BY <1>1, <1>3, RemoveAtElements
  <1>6. \/ r = 0
        \/ r = 1 /\ u < NumOfMemBlock
    BY DEF Splits, FreeHeader
  <1> HIDE DEF i, new
  <1>7. Len(new.alloc) = a + 1
    <2> HIDE DEF taken
    <2> QED
      BY <1>1, <1>4, AppendProperties
  <1>8. Len(new.free) = (f - 1) + r
    <2>1. rest \in Seq({Remainder(b, n)})
      <3> DEFINE t == Remainder(b, n)
      <3>1. <<t>> \in Seq({t}) /\ << >> \in Seq({t})
        BY EmptySeq
      <3> QED
        BY <3>1
    <2> DEFINE T == FitBlock \cup {Remainder(b, n)}
    <2>2. others \in Seq(T) /\ rest \in Seq(T)
      BY <1>5, <2>1
    <2> HIDE DEF rest, others, T
    <2>3. Len(others \o rest) = Len(others) + Len(rest)
      BY <2>2, ConcatProperties
    <2> QED
      BY <1>4, <1>5, <2>3
  <1>9. Surplus(new) = (Len(new.free) + Len(new.alloc)) - new.used
    BY DEF Surplus
  <1>10. Surplus(m) = (f + a) - u
    BY DEF Surplus
  <1> HIDE DEF f, a, u, r
  <1>11. r \in {0, 1} /\ u + r \in Nat /\ u + r <= NumOfMemBlock
    BY <1>2, <1>6, PoolAssumption
  <1>12. (((f - 1) + r) + (a + 1)) - (u + r) = (f + a) - u
    BY <1>2, <1>11
  <1>13. Surplus(new) = Surplus(m)
    BY <1>4, <1>7, <1>8, <1>9, <1>10, <1>12
  <1>14. Surplus(m) \in Int
    BY <1>2, <1>10
  <1> QED
    BY <1>4, <1>11, <1>13, <1>14 DEF Drawn, new

LEMMA ReturnedLength ==
  ASSUME NEW blocks \in Seq(FitBlock), NEW b \in FitBlock
  PROVE  Len(ReturnHeaderToFreeList(blocks, b)) = Len(blocks) + 1
  <1>1. Len(blocks) \in Nat
    BY LenProperties
  <1>2. ASSUME ReturnHeaderToFreeList(blocks, b) = <<b>> \o blocks
        PROVE  Len(ReturnHeaderToFreeList(blocks, b)) = Len(blocks) + 1
    <2> DEFINE first == <<b>>
    <2>1. first \in Seq(FitBlock) /\ Len(first) = 1
      OBVIOUS
    <2> HIDE DEF first
    <2>2. Len(first \o blocks) = Len(first) + Len(blocks)
      BY <2>1, ConcatProperties
    <2>3. Len(<<b>> \o blocks) = 1 + Len(blocks)
      BY <2>1, <2>2 DEF first
    <2> QED
      BY <1>1, <1>2, <2>3
  <1>3. ASSUME blocks # << >>,
               ReturnHeaderToFreeList(blocks, b) = <<Head(blocks), b>> \o Tail(blocks)
        PROVE  Len(ReturnHeaderToFreeList(blocks, b)) = Len(blocks) + 1
    <2> DEFINE two == <<Head(blocks), b>>
               t == Tail(blocks)
    <2>1. Head(blocks) \in FitBlock /\ t \in Seq(FitBlock) /\ Len(t) = Len(blocks) - 1
      BY <1>3, HeadTailProperties
    <2>2. two \in Seq(FitBlock) /\ Len(two) = 2
      BY <2>1
    <2> HIDE DEF two, t
    <2>3. Len(two \o t) = Len(two) + Len(t)
      BY <2>1, <2>2, ConcatProperties
    <2>4. Len(two \o t) = Len(blocks) + 1
      BY <1>1, <2>1, <2>2, <2>3
    <2> QED
      BY <1>3, <2>4 DEF two, t
  <1> QED
    BY <1>2, <1>3 DEF ReturnHeaderToFreeList

LEMMA MergedLength ==
  ASSUME NEW blocks \in Seq(FitBlock), Len(blocks) > 0
  PROVE  /\ HeadersReleased(blocks) \in Nat
         /\ Len(Merge(blocks)) = Len(blocks) - HeadersReleased(blocks)
  <1> DEFINE k == Max(Absorbable(blocks))
             whole == [buff |-> blocks[1].buff, buff_size |-> EndOf(blocks[k]) - blocks[1].buff]
             rest == SubSeq(blocks, k + 1, Len(blocks))
             first == <<whole>>
  <1>1. k \in 1 .. Len(blocks) /\ k \in Absorbable(blocks) /\ Len(blocks) \in Nat
    BY LargestAbsorbable, LenProperties
  <1>2. Merge(blocks) = first \o rest
    BY DEF Merge
  <1>3. HeadersReleased(blocks) = k - 1
    BY DEF HeadersReleased
  <1> HIDE DEF k
  <1>4. whole \in FitBlock
    BY <1>1, MergedBlock
  <1>5. rest \in Seq(FitBlock) /\ Len(rest) = Len(blocks) - k
    BY <1>1
  <1> HIDE DEF whole, rest
  <1>6. first \in Seq(FitBlock) /\ Len(first) = 1
    BY <1>4
  <1> HIDE DEF first
  <1>7. Len(first \o rest) = Len(first) + Len(rest)
    BY <1>5, <1>6, ConcatProperties
  <1>8. Len(first \o rest) = 1 + (Len(blocks) - k)
    BY <1>5, <1>6, <1>7
  <1>9. k - 1 \in Nat /\ 1 + (Len(blocks) - k) = Len(blocks) - (k - 1)
    BY <1>1
  <1> QED
    BY <1>2, <1>3, <1>8, <1>9

LEMMA ReleasedIsDrawn ==
  ASSUME NEW m, NEW addr, Sound(m.free, m.alloc), BlocksAt(m, addr) # {},
         m.used \in Nat, m.used <= NumOfMemBlock
  PROVE  Drawn(Released(m, addr), m) /\ Surplus(Released(m, addr)) = Surplus(m)
  <1> DEFINE new == Released(m, addr)
             i == Min(BlocksAt(m, addr))
             block == m.alloc[i]
             returned == ReturnHeaderToFreeList(m.free, block)
             f == Len(m.free)
             a == Len(m.alloc)
             u == m.used
             r == HeadersReleased(returned)
  <1>1. m.free \in Seq(FitBlock) /\ Separate(m.free) /\ m.alloc \in Seq(FitBlock)
    BY DEF Sound
  <1>2. f \in Nat /\ a \in Nat /\ u \in Nat /\ u <= NumOfMemBlock
    BY <1>1, LenProperties
  <1>3. i \in 1 .. Len(m.alloc)
    <2>1. BlocksAt(m, addr) \subseteq 1 .. Len(m.alloc) /\ 1 .. Len(m.alloc) \subseteq Nat
      BY <1>1, LenProperties DEF BlocksAt
    <2>2. i \in BlocksAt(m, addr)
      BY <2>1, SmallestOfSome
    <2> QED
      BY <2>1, <2>2
  <1>4. /\ new.free = Merge(returned)
        /\ new.alloc = RemoveAt(m.alloc, i)
        /\ new.used = u - r
    BY DEF Released
  <1>5. Len(new.alloc) = a - 1
    BY <1>1, <1>3, <1>4, RemoveAtElements
  <1>6. block \in FitBlock /\ \A x \in 1 .. Len(m.free) : Apart(m.free[x], block)
    BY <1>1, <1>3, ElementOfSeq DEF Sound, Cross
  <1> HIDE DEF block
  <1>7. returned \in Seq(FitBlock) /\ Len(returned) > 0 /\ Len(returned) = f + 1
    BY <1>1, <1>6, ReturnedIsSeparate, ReturnedLength
  <1> HIDE DEF new, i, returned
  <1>8. r \in Nat /\ Len(new.free) = (f + 1) - r
    BY <1>4, <1>7, MergedLength
  <1>9. Surplus(new) = (Len(new.free) + Len(new.alloc)) - new.used
    BY DEF Surplus
  <1>10. Surplus(m) = (f + a) - u
    BY DEF Surplus
  <1> HIDE DEF f, a, u, r
  <1>11. u - r \in Int /\ u - r <= NumOfMemBlock
    BY <1>2, <1>8, PoolAssumption
  <1>12. (((f + 1) - r) + (a - 1)) - (u - r) = (f + a) - u
    BY <1>2, <1>8
  <1>13. Surplus(new) = Surplus(m)
    BY <1>4, <1>5, <1>8, <1>9, <1>10, <1>12
  <1>14. Surplus(m) \in Int
    BY <1>2, <1>10
  <1> QED
    BY <1>4, <1>11, <1>13, <1>14 DEF Drawn, new

LEMMA BecomesKeepsHeaders ==
  ASSUME IInv, IInv', HeadersTaken, NEW l \in MemLists, NEW m, Becomes(l, m),
         Drawn(m, Memory(l))
  PROVE  HeadersTaken' /\ (Surplus(m) = Surplus(Memory(l)) => Leaked' = Leaked)
  <1>1. /\ free_list' = [free_list EXCEPT ![l] = m.free]
        /\ alloc_list' = [alloc_list EXCEPT ![l] = m.alloc]
        /\ used' = m.used
    BY DEF Becomes
  <1>2. /\ free_list \in [MemLists -> Seq(FitBlock)]
        /\ alloc_list \in [MemLists -> Seq(FitBlock)]
    BY DEF IInv
  <1>3. /\ free_list'[l] = m.free /\ alloc_list'[l] = m.alloc
        /\ \A k \in MemLists \ {l} :
             free_list'[k] = free_list[k] /\ alloc_list'[k] = alloc_list[k]
    BY <1>1, <1>2
  <1>4. PICK others \in Nat :
          /\ Cardinality(OnLists) = others + Len(free_list[l]) + Len(alloc_list[l])
          /\ IsFiniteSet(OnLists')
          /\ Cardinality(OnLists') = others + Len(free_list'[l]) + Len(alloc_list'[l])
    BY <1>3, OnOtherLists DEF HeadersTaken
  <1> DEFINE f == Len(free_list[l])
             a == Len(alloc_list[l])
             g == Len(free_list'[l])
             b == Len(alloc_list'[l])
  <1>5. f \in Nat /\ a \in Nat /\ g \in Nat /\ b \in Nat
    BY LenProperties DEF IInv
  <1>6. /\ m.used \in Int /\ m.used <= NumOfMemBlock
        /\ (g + b) - m.used <= (f + a) - used
        /\ Surplus(m) = Surplus(Memory(l)) => (g + b) - m.used = (f + a) - used
    BY <1>3 DEF Drawn, Surplus, Memory
  <1>7. Cardinality(OnLists) = others + f + a /\ Cardinality(OnLists') = others + g + b
    BY <1>4
  <1>8. used \in Nat /\ Cardinality(OnLists) <= used
    BY DEF HeadersTaken
  <1> HIDE DEF f, a, g, b
  <1>9. m.used \in Nat /\ others + g + b <= m.used
    BY <1>5, <1>6, <1>7, <1>8
  <1>10. ASSUME Surplus(m) = Surplus(Memory(l))
         PROVE  used - (others + f + a) = m.used - (others + g + b)
    BY <1>5, <1>6, <1>8, <1>10
  <1> QED
    BY <1>1, <1>4, <1>6, <1>7, <1>9, <1>10 DEF HeadersTaken, Leaked

PoolInv == IInv /\ HeadersTaken /\ ready \subseteq MemLists

LEMMA InitPoolInv == Init => PoolInv
  <1> SUFFICES ASSUME Init PROVE PoolInv
    OBVIOUS
  <1>1. OnLists = {}
    <2>1. \A l \in MemLists : Headers(l) = {}
      BY DEF Init, Headers, Places
    <2> QED
      BY <2>1 DEF OnLists
  <1>2. IsFiniteSet(OnLists) /\ Cardinality(OnLists) = 0
    BY <1>1, FS_EmptySet
  <1>3. HeadersTaken
    BY <1>2, PoolAssumption DEF Init, HeadersTaken
  <1> QED
    BY <1>3, InitIInv DEF Init, PoolInv

LEMMA NextPoolInv == PoolInv /\ [Next]_vars => PoolInv'
  <1> SUFFICES ASSUME PoolInv, [Next]_vars PROVE PoolInv'
    OBVIOUS
  <1>1. IInv /\ IInv' /\ HeadersTaken
    BY NextIInv DEF PoolInv
  <1>2. ASSUME NEW l \in MemLists
        PROVE  /\ Sound(Memory(l).free, Memory(l).alloc)
               /\ Memory(l).used \in Nat /\ Memory(l).used <= NumOfMemBlock
    BY <1>1 DEF Memory, IInv, HeadersTaken
  <1>3. ASSUME NEW l \in MemLists, InitMemList(l) PROVE HeadersTaken'
    BY <1>1, <1>2, <1>3, InitialisedIsDrawn, BecomesKeepsHeaders DEF InitMemList
  <1>4. ASSUME NEW l \in MemLists, NEW n \in 1 .. BuffSize, Malloc(l, n) PROVE HeadersTaken'
    BY <1>1, <1>2, <1>4, ReservedIsDrawn, BecomesKeepsHeaders DEF Malloc
  <1>5. ASSUME NEW l \in MemLists, NEW addr \in 0 .. BuffSize - 1, Free(l, addr)
        PROVE  HeadersTaken'
    BY <1>1, <1>2, <1>5, ReleasedIsDrawn, BecomesKeepsHeaders DEF Free
  <1>6. ASSUME UNCHANGED vars PROVE HeadersTaken'
    <2>1. OnLists' = OnLists /\ used' = used
      BY <1>6 DEF vars, OnLists, Headers
    <2> QED
      BY <1>1, <2>1 DEF HeadersTaken
  <1>7. HeadersTaken'
    BY <1>3, <1>4, <1>5, <1>6 DEF Next
  <1>8. ready' \subseteq MemLists
    BY DEF PoolInv, Next, InitMemList, Malloc, Free, vars
  <1> QED
    BY <1>1, <1>7, <1>8 DEF PoolInv

-----------------------------------------------------------------------------
(* The memory of one list through a chain of operations, as a queue makes  *)
(* them: its blocks are sound, and their headers are taken from the pool.  *)
Accounted(m) ==
  /\ Sound(m.free, m.alloc)
  /\ m.used \in Nat /\ m.used <= NumOfMemBlock
  /\ Surplus(m) <= 0

LEMMA MemoryIsAccounted ==
  ASSUME PoolInv, NEW l \in MemLists
  PROVE  Accounted(Memory(l))
  <1>1. IInv /\ HeadersTaken
    BY DEF PoolInv
  <1>2. Headers(l) \in SUBSET OnLists
    BY DEF OnLists
  <1>3. /\ Cardinality(Headers(l)) \in Nat /\ Cardinality(OnLists) \in Nat
        /\ Cardinality(Headers(l)) <= Cardinality(OnLists)
    BY <1>1, <1>2, FS_Subset, FS_CardinalityType DEF HeadersTaken
  <1>4. Len(free_list[l]) \in Nat /\ Len(alloc_list[l]) \in Nat
    BY <1>1, LenProperties DEF IInv
  <1>5. Surplus(Memory(l)) = (Len(free_list[l]) + Len(alloc_list[l])) - used
    BY DEF Surplus, Memory
  <1> DEFINE h == Len(free_list[l]) + Len(alloc_list[l])
  <1>6. h \in Nat /\ h <= used /\ used \in Nat
    <2>1. Cardinality(Headers(l)) = h
      BY <1>1, HeadersCounted
    <2>2. Cardinality(OnLists) <= used /\ used \in Nat
      BY <1>1 DEF HeadersTaken
    <2> HIDE DEF h
    <2> QED
      BY <1>3, <2>1, <2>2
  <1> HIDE DEF h
  <1>7. h - used <= 0
    BY <1>6
  <1>8. Surplus(Memory(l)) <= 0
    BY <1>5, <1>7 DEF h
  <1> QED
    BY <1>1, <1>8 DEF Accounted, Memory, IInv, HeadersTaken

LEMMA DrawnIsAccounted ==
  ASSUME NEW new, NEW m, Accounted(m), Sound(new.free, new.alloc), Drawn(new, m),
         Surplus(new) = Surplus(m)
  PROVE  Accounted(new)
  <1> DEFINE f == Len(new.free)
             a == Len(new.alloc)
             u == new.used
  <1>1. f \in Nat /\ a \in Nat
    BY LenProperties DEF Sound
  <1>2. u \in Int /\ u <= NumOfMemBlock /\ Surplus(new) <= 0 /\ Surplus(new) = (f + a) - u
    BY DEF Drawn, Surplus, Accounted
  <1> HIDE DEF f, a, u
  <1>3. u \in Nat
    BY <1>1, <1>2
  <1> QED
    BY <1>2, <1>3 DEF Accounted, u

(* The block reserved goes to the end of the allocated list.               *)
LEMMA ReservedBlock ==
  ASSUME NEW m, NEW n \in Nat \ {0}, Accounted(m), Fits(m, n) # {}
  PROVE  /\ Accounted(Reserved(m, n)) /\ Surplus(Reserved(m, n)) = Surplus(m)
         /\ \E x \in Nat : /\ x + n <= BuffSize
                           /\ Reserved(m, n).alloc = Append(m.alloc, [buff |-> x, buff_size |-> n])
  <1> DEFINE i == Min(Fits(m, n))
             b == m.free[i]
  <1>1. Sound(m.free, m.alloc) /\ m.free \in Seq(FitBlock)
    BY DEF Accounted, Sound
  <1>2. i \in 1 .. Len(m.free) /\ b.buff_size >= n
    <2>1. Fits(m, n) \subseteq 1 .. Len(m.free) /\ 1 .. Len(m.free) \subseteq Nat
      BY <1>1, LenProperties DEF Fits
    <2>2. i \in Fits(m, n)
      BY <2>1, SmallestOfSome
    <2> QED
      BY <2>1, <2>2 DEF Fits
  <1>3. Reserved(m, n).alloc = Append(m.alloc, [b EXCEPT !.buff_size = n])
    BY DEF Reserved
  <1> HIDE DEF i
  <1>4. /\ b \in FitBlock /\ b.buff \in Nat /\ b.buff_size \in Nat
        /\ b.buff + b.buff_size <= BuffSize
    <2>1. b \in FitBlock
      BY <1>1, <1>2, ElementOfSeq
    <2> HIDE DEF b
    <2> QED
      BY <2>1, BlockFields
  <1>5. [b EXCEPT !.buff_size = n] = [buff |-> b.buff, buff_size |-> n]
    BY <1>4, Resized
  <1> DEFINE x == b.buff
             z == b.buff_size
  <1>6. x \in Nat /\ z \in Nat /\ x + z <= BuffSize /\ n <= z
    BY <1>2, <1>4
  <1> HIDE DEF b, x, z
  <1>7. x + n <= BuffSize /\ n \in 1 .. BuffSize
    BY <1>6, SizeAssumption
  <1>8. Drawn(Reserved(m, n), m) /\ Surplus(Reserved(m, n)) = Surplus(m)
    BY <1>7, ReservedIsDrawn DEF Accounted
  <1>9. Accounted(Reserved(m, n))
    BY <1>1, <1>7, <1>8, ReservedIsSound, DrawnIsAccounted
  <1> QED
    BY <1>3, <1>5, <1>6, <1>7, <1>8, <1>9 DEF x

(* Different blocks handed out start at different addresses.               *)
LEMMA BlocksAreApart ==
  ASSUME NEW m, Accounted(m), NEW b \in ToSet(m.alloc), NEW c \in ToSet(m.alloc), b # c
  PROVE  /\ b \in FitBlock /\ c \in FitBlock /\ b.buff # c.buff
         /\ b.buff + b.buff_size <= c.buff \/ c.buff + c.buff_size <= b.buff
  <1>1. m.alloc \in Seq(FitBlock) /\ Separate(m.alloc)
    BY DEF Accounted, Sound
  <1>2. PICK i \in 1 .. Len(m.alloc) : b = m.alloc[i]
    BY <1>1, ElementsOf
  <1>3. PICK j \in 1 .. Len(m.alloc) : c = m.alloc[j]
    BY <1>1, ElementsOf
  <1>4. b \in FitBlock /\ c \in FitBlock
    BY <1>1, <1>2, <1>3, ElementOfSeq
  <1>5. Apart(b, c)
    BY <1>1, <1>2, <1>3 DEF Separate
  <1>6. /\ b.buff \in Nat /\ b.buff < EndOf(b) /\ EndOf(b) = b.buff + b.buff_size
        /\ c.buff \in Nat /\ c.buff < EndOf(c) /\ EndOf(c) = c.buff + c.buff_size
        /\ EndOf(b) \in Nat /\ EndOf(c) \in Nat
    BY <1>4, BlockFields
  <1> QED
    BY <1>4, <1>5, <1>6 DEF Apart

LEMMA ReservedAccounted ==
  ASSUME NEW m, NEW n \in Nat \ {0}, Accounted(m), Fits(m, n) # {}
  PROVE  LET new == Reserved(m, n)
         IN  /\ Accounted(new) /\ Surplus(new) = Surplus(m)
             /\ \E x \in Nat :
                  /\ x + n <= BuffSize
                  /\ new.alloc[Len(new.alloc)] = [buff |-> x, buff_size |-> n]
                  /\ [buff |-> x, buff_size |-> n] \notin ToSet(m.alloc)
                  /\ ToSet(new.alloc) = ToSet(m.alloc) \cup {[buff |-> x, buff_size |-> n]}
                  /\ Len(new.alloc) = Len(m.alloc) + 1
  <1> DEFINE new == Reserved(m, n)
  <1>1. Accounted(new) /\ Surplus(new) = Surplus(m)
    BY ReservedBlock
  <1>2. PICK x \in Nat :
          /\ x + n <= BuffSize
          /\ new.alloc = Append(m.alloc, [buff |-> x, buff_size |-> n])
    BY ReservedBlock
  <1> DEFINE b == [buff |-> x, buff_size |-> n]
  <1>3. b \in FitBlock
    BY <1>2, NewBlock
  <1>4. new.alloc = Append(m.alloc, b)
    BY <1>2
  <1>5. /\ m.alloc \in Seq(FitBlock) /\ new.alloc \in Seq(FitBlock) /\ Separate(new.alloc)
    BY <1>1 DEF Accounted, Sound
  <1> HIDE DEF new, b
  <1>6. /\ Len(m.alloc) \in Nat /\ Len(new.alloc) = Len(m.alloc) + 1
        /\ \A i \in 1 .. Len(m.alloc) : new.alloc[i] = m.alloc[i]
        /\ new.alloc[Len(m.alloc) + 1] = b
    BY <1>3, <1>4, <1>5, AppendProperties, LenProperties
  <1>7. b \notin ToSet(m.alloc)
    <2>1. ASSUME NEW i \in 1 .. Len(m.alloc)
          PROVE  m.alloc[i] # b
      <3>1. Apart(new.alloc[i], new.alloc[Len(m.alloc) + 1])
        <4>1. /\ i \in 1 .. Len(new.alloc) /\ Len(m.alloc) + 1 \in 1 .. Len(new.alloc)
              /\ i # Len(m.alloc) + 1
          BY <1>6
        <4> QED
          BY <1>5, <4>1 DEF Separate
      <3> QED
        BY <1>3, <1>6, <3>1, NotApartFromItself
    <2> QED
      BY <1>5, <2>1, ElementsOf
  <1>8. ToSet(new.alloc) = ToSet(m.alloc) \cup {b}
    <2>1. ASSUME NEW c
          PROVE  c \in ToSet(new.alloc) <=> c \in ToSet(m.alloc) \/ c = b
      <3>1. c \in ToSet(new.alloc) <=> \E i \in 1 .. Len(new.alloc) : c = new.alloc[i]
        BY <1>5, ElementsOf
      <3>2. c \in ToSet(m.alloc) <=> \E i \in 1 .. Len(m.alloc) : c = m.alloc[i]
        BY <1>5, ElementsOf
      <3>3. \A i \in 1 .. Len(new.alloc) : i \in 1 .. Len(m.alloc) \/ i = Len(m.alloc) + 1
        BY <1>6
      <3>4. 1 .. Len(m.alloc) \subseteq 1 .. Len(new.alloc) /\ Len(m.alloc) + 1 \in 1 .. Len(new.alloc)
        BY <1>6
      <3> QED
        BY <1>6, <3>1, <3>2, <3>3, <3>4
    <2> QED
      BY <2>1
  <1> QED
    BY <1>1, <1>2, <1>6, <1>7, <1>8 DEF new, b

(* No two blocks handed out start at the same address.                     *)
LEMMA OneBlockAt ==
  ASSUME NEW m, Sound(m.free, m.alloc), NEW i \in 1 .. Len(m.alloc)
  PROVE  BlocksAt(m, m.alloc[i].buff) = {i}
  <1>1. m.alloc \in Seq(FitBlock) /\ Separate(m.alloc) /\ DOMAIN m.alloc = 1 .. Len(m.alloc)
    BY LenProperties DEF Sound
  <1>2. ASSUME NEW j \in 1 .. Len(m.alloc), j # i
        PROVE  m.alloc[j].buff # m.alloc[i].buff
    <2>1. /\ m.alloc[i].buff \in Nat /\ m.alloc[i].buff < EndOf(m.alloc[i])
          /\ m.alloc[j].buff \in Nat /\ m.alloc[j].buff < EndOf(m.alloc[j])
          /\ EndOf(m.alloc[i]) \in Nat /\ EndOf(m.alloc[j]) \in Nat
      BY <1>1, ElementOfSeq, BlockFields
    <2>2. Apart(m.alloc[j], m.alloc[i])
      BY <1>1, <1>2 DEF Separate
    <2> QED
      BY <2>1, <2>2 DEF Apart
  <1> QED
    BY <1>1, <1>2 DEF BlocksAt

LEMMA ReleasedAccounted ==
  ASSUME NEW m, NEW b \in ToSet(m.alloc), Accounted(m)
  PROVE  LET new == Released(m, b.buff)
         IN  /\ Accounted(new) /\ Surplus(new) = Surplus(m)
             /\ ToSet(new.alloc) = ToSet(m.alloc) \ {b}
             /\ Len(new.alloc) = Len(m.alloc) - 1
  <1> DEFINE addr == b.buff
             new == Released(m, addr)
  <1>1. /\ Sound(m.free, m.alloc) /\ 1 .. Len(m.alloc) \subseteq Nat
        /\ m.alloc \in Seq(FitBlock) /\ Separate(m.alloc)
    BY LenProperties DEF Accounted, Sound
  <1>2. PICK i \in 1 .. Len(m.alloc) : b = m.alloc[i]
    BY <1>1, ElementsOf
  <1>3. BlocksAt(m, addr) = {i}
    BY <1>1, <1>2, OneBlockAt
  <1>4. Min(BlocksAt(m, addr)) = i
    BY <1>1, <1>3, SmallestOfSome
  <1>5. new.alloc = RemoveAt(m.alloc, i)
    BY <1>4 DEF Released
  <1>6. ToSet(new.alloc) = ToSet(m.alloc) \ {b} /\ Len(new.alloc) = Len(m.alloc) - 1
    BY <1>1, <1>2, <1>5, ToSetRemoveAt, RemoveAtElements
  <1> HIDE DEF addr
  <1>7. Drawn(new, m) /\ Surplus(new) = Surplus(m)
    BY <1>1, <1>3, ReleasedIsDrawn DEF Accounted
  <1>8. Sound(new.free, new.alloc)
    BY <1>1, <1>3, ReleasedIsSound
  <1> HIDE DEF new
  <1> QED
    BY <1>6, <1>7, <1>8, DrawnIsAccounted DEF new, addr

LEMMA BecomesKeepsPool ==
  ASSUME PoolInv, NEW l \in MemLists, NEW m, Becomes(l, m), Accounted(m),
         Surplus(m) = Surplus(Memory(l)), ready' = ready
  PROVE  PoolInv'
  <1>1. IInv /\ HeadersTaken
    BY DEF PoolInv
  <1>2. IInv'
    BY <1>1, BecomesKeeps DEF Accounted
  <1>3. Drawn(m, Memory(l))
    <2>1. IInv /\ used \in Nat
      BY <1>1 DEF HeadersTaken
    <2>2. Len(free_list[l]) \in Nat /\ Len(alloc_list[l]) \in Nat
      BY <2>1, LenProperties DEF IInv
    <2>3. Surplus(Memory(l)) \in Int
      BY <2>1, <2>2 DEF Surplus, Memory
    <2> QED
      BY <2>3 DEF Drawn, Accounted
  <1> QED
    BY <1>1, <1>2, <1>3, BecomesKeepsHeaders DEF PoolInv

LEMMA InitMemListKeepsPool ==
  ASSUME PoolInv, NEW l \in MemLists, InitMemList(l)
  PROVE  PoolInv'
  BY NextPoolInv DEF Next

LEMMA PoolIsTyped == PoolInv => TypeOK
  <1> SUFFICES ASSUME PoolInv PROVE TypeOK
    OBVIOUS
  <1>1. FitBlock \subseteq Block
    BY DEF FitBlock
  <1>2. Seq(FitBlock) \subseteq Seq(Block)
    BY <1>1
  <1>3. free_list \in [MemLists -> Seq(Block)] /\ alloc_list \in [MemLists -> Seq(Block)]
    BY <1>2 DEF PoolInv, IInv
  <1>4. used \in 0 .. NumOfMemBlock
    BY PoolAssumption DEF PoolInv, HeadersTaken
  <1> QED
    BY <1>3, <1>4 DEF PoolInv, TypeOK

-----------------------------------------------------------------------------
(* For any number of lists that share the pool the lists hold blocks of    *)
(* their buffers, and the pool's count stays between nothing and all: no   *)
(* merge gives back more headers than were taken.                          *)
THEOREM AlwaysTyped == Spec => []TypeOK
  BY PoolIsTyped, InitPoolInv, NextPoolInv, PTL DEF Spec

(* Malloc and Free keep every header they take on a list, whichever lists  *)
(* share the pool: only initialising a list changes how many are lost.     *)
THEOREM HeadersLeakOnlyAtInit == Spec => OnlyInitLeaksHeaders
  <1> DEFINE A == Leaked' # Leaked => \E l \in MemLists : InitMemList(l)
  <1>1. PoolInv /\ [Next]_vars => [A]_vars
    <2> SUFFICES ASSUME PoolInv, Next, ~ \E l \in MemLists : InitMemList(l)
                 PROVE  Leaked' = Leaked
      OBVIOUS
    <2>1. IInv /\ IInv' /\ HeadersTaken
      BY NextIInv DEF PoolInv
    <2>2. ASSUME NEW l \in MemLists
          PROVE  /\ Sound(Memory(l).free, Memory(l).alloc)
                 /\ Memory(l).used \in Nat /\ Memory(l).used <= NumOfMemBlock
      BY <2>1 DEF Memory, IInv, HeadersTaken
    <2>3. ASSUME NEW l \in MemLists, NEW n \in 1 .. BuffSize, Malloc(l, n)
          PROVE  Leaked' = Leaked
      BY <2>1, <2>2, <2>3, ReservedIsDrawn, BecomesKeepsHeaders DEF Malloc
    <2>4. ASSUME NEW l \in MemLists, NEW addr \in 0 .. BuffSize - 1, Free(l, addr)
          PROVE  Leaked' = Leaked
      BY <2>1, <2>2, <2>4, ReleasedIsDrawn, BecomesKeepsHeaders DEF Free
    <2> QED
      BY <2>3, <2>4 DEF Next
  <1>2. Spec => []PoolInv
    BY InitPoolInv, NextPoolInv, PTL DEF Spec
  <1> QED
    BY <1>1, <1>2, PTL DEF Spec, OnlyInitLeaksHeaders
=============================================================================
