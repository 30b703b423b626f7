----------------------------- MODULE DataModel -----------------------------
(***************************************************************************)
(* service/data_model: a table of data points whose bytes lie one behind    *)
(* the other in a buffer.  A setter marks a point dirty; a reader asks for  *)
(* the first dirty one, reads it and clears the mark, in three calls.       *)
(***************************************************************************)
EXTENDS Naturals, Sequences

CONSTANTS
  PointTables,     \* the tables an application defines: sequences of [index, size]
  ModelBuffSize,   \* bytes of the buffer
  PointBytes,      \* values of a byte
  IndexWidth       \* bits of an index: 32

DATA_POINT_INVALID == 2^IndexWidth - 1

ASSUME DmAssumption ==
  /\ ModelBuffSize \in Nat \ {0} /\ 0 \in PointBytes /\ IndexWidth \in Nat
  /\ \A t \in PointTables :
       t # << >> /\ t \in Seq([index : 0 .. DATA_POINT_INVALID - 1, size : Nat])

VARIABLES
  data_points,     \* the table
  offsets,         \* where the bytes of each point start in the buffer
  data_model_buff,
  dirty,           \* the points with isDirty set
  dm_reader,       \* the index GetFirstDirty has given the reader, and whether
                   \* it has been read
  dm_copy,         \* the reader's copy of the buffer
  overwritten      \* history: points set between being read and cleared, or
                   \* cleared with all others without being read

dmVars == <<data_points, offsets, data_model_buff, dirty, dm_reader, dm_copy, overwritten>>
dmTable == <<data_points, offsets>>

Points == 1 .. Len(data_points)

-----------------------------------------------------------------------------
(* Faulty variants of the definitions below, one plausible slip each.      *)

\* Every point is given its offset before the size of the one before is added.
OffsetOneShort(t) == [i \in 1 .. Len(t) |-> IF i < 3 THEN 0 ELSE t[i - 2].size]

\* The middle is excluded on both sides of an interval that is half open.
HalvedTooFar(t, index, left, right) ==
  LET mid == left + (right - left) \div 2 IN
  IF index < t[mid + 1].index THEN <<left, IF mid = left THEN left ELSE mid - 1>>
  ELSE <<mid + 1, right>>

-----------------------------------------------------------------------------
(* A table whose indices do not increase, that has an empty point or that   *)
(* does not fit the buffer fails an assertion.                              *)
DmOffsets(t) ==
  LET at[i \in 1 .. Len(t)] == IF i = 1 THEN 0 ELSE at[i - 1] + t[i - 1].size IN at

ezDataModel_AllocateDataPoints(t) ==
  \A i \in 1 .. Len(t) : /\ i > 1 => t[i - 1].index < t[i].index
                         /\ t[i].size > 0
                         /\ DmOffsets(t)[i] + t[i].size <= ModelBuffSize

ezDataModel_Initialize ==
  /\ data_points \in {t \in PointTables : ezDataModel_AllocateDataPoints(t)}
  /\ offsets = DmOffsets(data_points)
  /\ data_model_buff = [b \in 0 .. ModelBuffSize - 1 |-> 0]
  /\ dirty = {}
  /\ dm_reader = [index |-> DATA_POINT_INVALID, read |-> FALSE]
  /\ dm_copy = data_model_buff /\ overwritten = {}

\* The halves of the interval left .. right - 1 of table positions (from 0).
Halved(t, index, left, right) ==
  LET mid == left + (right - left) \div 2 IN
  IF index < t[mid + 1].index THEN <<left, mid>> ELSE <<mid + 1, right>>

\* The position of a point in the table (from 1), or 0.
ezDataModel_FindDataPointByIndex(t, index) ==
  LET mid(h) == h[1] + (h[2] - h[1]) \div 2
      found(h) == h[1] < h[2] /\ t[mid(h) + 1].index = index
      \* the interval after k rounds
      after[k \in 0 .. Len(t)] ==
        IF k = 0 THEN <<0, Len(t)>>
        ELSE LET h == after[k - 1] IN
             IF h[1] >= h[2] \/ found(h) THEN h ELSE Halved(t, index, h[1], h[2])
  IN IF found(after[Len(t)]) THEN mid(after[Len(t)]) + 1 ELSE 0

BytesOf(p) == offsets[p] .. offsets[p] + data_points[p].size - 1

ezDataModel_SetDataPoint(index, data) ==
  LET p == ezDataModel_FindDataPointByIndex(data_points, index) IN
  /\ p # 0
  /\ data_model_buff' = [b \in DOMAIN data_model_buff |->
                           IF b \in BytesOf(p) THEN data[b - offsets[p]] ELSE data_model_buff[b]]
  /\ dirty' = dirty \cup {p}
  /\ overwritten' = IF dm_reader = [index |-> index, read |-> TRUE]
                    THEN overwritten \cup {p} ELSE overwritten
  /\ UNCHANGED <<dmTable, dm_reader, dm_copy>>

ezDataModel_GetFirstDirty ==
  IF dirty = {} THEN DATA_POINT_INVALID
  ELSE data_points[CHOOSE p \in dirty : \A q \in dirty : p <= q].index

ReaderFindsDirty ==
  /\ dm_reader.index = DATA_POINT_INVALID /\ dirty # {}
  /\ dm_reader' = [index |-> ezDataModel_GetFirstDirty, read |-> FALSE]
  /\ UNCHANGED <<dmTable, data_model_buff, dirty, dm_copy, overwritten>>

ezDataModel_GetDataPoint ==
  LET p == ezDataModel_FindDataPointByIndex(data_points, dm_reader.index) IN
  /\ dm_reader.index # DATA_POINT_INVALID /\ ~dm_reader.read
  /\ dm_copy' = [b \in DOMAIN dm_copy |-> IF p # 0 /\ b \in BytesOf(p) THEN data_model_buff[b]
                                          ELSE dm_copy[b]]
  /\ overwritten' = overwritten \ {p}
  /\ dm_reader' = [dm_reader EXCEPT !.read = TRUE]
  /\ UNCHANGED <<dmTable, data_model_buff, dirty>>

ezDataModel_ClearDirtyFlags ==
  /\ dm_reader.read
  /\ dirty' = dirty \ {ezDataModel_FindDataPointByIndex(data_points, dm_reader.index)}
  /\ dm_reader' = [index |-> DATA_POINT_INVALID, read |-> FALSE]
  /\ UNCHANGED <<dmTable, data_model_buff, dm_copy, overwritten>>

ezDataModel_ClearAllDirtyFlags ==
  /\ dirty # {}
  /\ dirty' = {} /\ overwritten' = overwritten \cup dirty
  /\ UNCHANGED <<dmTable, data_model_buff, dm_reader, dm_copy>>

PointIndices == {data_points[p].index : p \in Points}

DmNext ==
  \/ \E p \in Points : \E data \in [0 .. data_points[p].size - 1 -> PointBytes] :
       ezDataModel_SetDataPoint(data_points[p].index, data)
  \/ ReaderFindsDirty
  \/ ezDataModel_GetDataPoint
  \/ ezDataModel_ClearDirtyFlags
  \/ ezDataModel_ClearAllDirtyFlags

DmSpec == ezDataModel_Initialize /\ [][DmNext]_dmVars

-----------------------------------------------------------------------------
(* Type invariant. *)
DmTypeOK ==
  /\ data_points \in PointTables
  /\ offsets \in [Points -> 0 .. ModelBuffSize - 1]
  /\ data_model_buff \in [0 .. ModelBuffSize - 1 -> PointBytes]
  /\ dm_copy \in [0 .. ModelBuffSize - 1 -> PointBytes]
  /\ dirty \subseteq Points /\ overwritten \subseteq Points
  /\ dm_reader.index \in PointIndices \cup {DATA_POINT_INVALID}

\* The binary search finds the point of every index that is in the table,
\* wherever it stands, and none for any other index.
DmFindsEvery ==
  \A index \in 0 .. DATA_POINT_INVALID :
    LET p == ezDataModel_FindDataPointByIndex(data_points, index) IN
    IF index \in PointIndices THEN p \in Points /\ data_points[p].index = index ELSE p = 0

\* A reader that follows the dirty marks has the value of every point that is
\* not marked: setting a point disturbs no other one, and a mark is cleared
\* only for a value the reader has.  It is not so for a point set between the
\* reader's call of GetDataPoint and that of ClearDirtyFlags.
DmCleanMeansSeen ==
  \A p \in Points \ (dirty \cup overwritten) :
    (dm_reader = [index |-> DATA_POINT_INVALID, read |-> FALSE]) =>
      \A b \in BytesOf(p) : dm_copy[b] = data_model_buff[b]
=============================================================================
