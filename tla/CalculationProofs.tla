-------------------------- MODULE CalculationProofs --------------------------
(***************************************************************************)
(* Theorems about Calculations, for any rows, any number of them, any keys *)
(* and decisions, and any size of the blocks.                              *)
(***************************************************************************)
EXTENDS Calculations, FoldLemmas, SequenceTheorems

-----------------------------------------------------------------------------
(* Rows and blocks.                                                        *)

(* The lesser of two numbers.                                              *)
LEMMA MinOfTwo ==
  ASSUME NEW a \in Int, NEW b \in Int
  PROVE  Min({a, b}) = IF a <= b THEN a ELSE b
<1> DEFINE m == IF a <= b THEN a ELSE b
<1>1. m \in {a, b} /\ \A y \in {a, b} : m =< y
  OBVIOUS
<1>2. \A x \in {a, b} : (\A y \in {a, b} : x =< y) => x = m
  OBVIOUS
<1> HIDE DEF m
<1>3. Min({a, b}) = m
  BY <1>1, <1>2 DEF Min
<1> QED
  BY <1>3 DEF m

(* The rows of a dataset are those at its indexes.                         *)
LEMMA RowsOfDataset ==
  ASSUME NEW R, NEW data \in Seq(R)
  PROVE  /\ Len(data) \in Nat
         /\ RowIndexes(data) \subseteq Nat
         /\ \A i \in Nat : i \in RowIndexes(data) <=> i < Len(data)
         /\ \A i \in RowIndexes(data) : RowAt(data, i) \in R
BY DEF RowIndexes, RowAt

(* A dataset has finitely many rows.                                       *)
LEMMA FinitelyManyRows ==
  ASSUME NEW R, NEW data \in Seq(R)
  PROVE  IsFiniteSet(RowIndexes(data)) /\ Cardinality(RowIndexes(data)) = Len(data)
<1>1. Len(data) \in Nat
  OBVIOUS
<1>2. IsFiniteSet(0 .. Len(data) - 1)
      /\ Cardinality(0 .. Len(data) - 1)
           = IF 0 > Len(data) - 1 THEN 0 ELSE (Len(data) - 1) - 0 + 1
  <2>1. 0 \in Int /\ Len(data) - 1 \in Int
    BY <1>1
  <2> QED
    BY <2>1, FS_Interval
<1> QED
  BY <1>1, <1>2 DEF RowIndexes

(* The quotient and the remainder of a division.                           *)
LEMMA QuotientIsNat ==
  ASSUME NEW i \in Nat, NEW B \in Nat \ {0}
  PROVE  i \div B \in Nat
OBVIOUS

(* The remainder is less than the divisor.                                 *)
LEMMA RemainderIsLess ==
  ASSUME NEW i \in Nat, NEW B \in Nat \ {0}
  PROVE  i % B \in 0 .. B - 1
OBVIOUS

(* It is what the quotient leaves.                                         *)
LEMMA RemainderIsRest ==
  ASSUME NEW i \in Nat, NEW B \in Nat \ {0}
  PROVE  i % B = i - B * (i \div B)
OBVIOUS

(* A product may be taken in either order.                                 *)
LEMMA ProductCommutes ==
  ASSUME NEW q \in Nat, NEW B \in Nat
  PROVE  q * B = B * q /\ q * B \in Nat
OBVIOUS

(* No other quotient and remainder give the number back.                   *)
LEMMA QuotientIsUnique ==
  ASSUME NEW i \in Nat, NEW B \in Nat \ {0}, NEW q \in Nat, NEW r \in 0 .. B - 1,
         i = q * B + r
  PROVE  i \div B = q
OBVIOUS

(* The start of the block of a row, and its place in the block.            *)
StartOf(i) == (i \div BlockRows) * BlockRows
PlaceOf(i) == i % BlockRows

(* The place of a row is its block and its place there.                    *)
LEMMA PlaceInBlock ==
  ASSUME NEW i \in Nat
  PROVE  /\ StartOf(i) \in Nat /\ PlaceOf(i) \in 0 .. BlockRows - 1
         /\ i = StartOf(i) + PlaceOf(i)
         /\ PlaceOf(StartOf(i)) = 0
<1>1. BlockRows \in Nat \ {0}
  BY ComparisonAssumption DEF ComparisonAssumption
<1>2. i \div BlockRows \in Nat
  BY <1>1, QuotientIsNat, Zenon
<1>3. StartOf(i) \in Nat
  BY <1>1, <1>2, ProductCommutes, Zenon DEF StartOf
<1>4. PlaceOf(i) \in 0 .. BlockRows - 1
  BY <1>1, RemainderIsLess, Zenon DEF PlaceOf
<1>5. i = StartOf(i) + PlaceOf(i)
  <2>1. PlaceOf(i) = i - BlockRows * (i \div BlockRows)
    BY <1>1, RemainderIsRest, Zenon DEF PlaceOf
  <2>2. StartOf(i) = BlockRows * (i \div BlockRows)
    <3>1. BlockRows \in Nat
      BY <1>1
    <3> QED
      BY <1>2, <3>1, ProductCommutes, Zenon DEF StartOf
  <2>3. PlaceOf(i) = i - StartOf(i)
    BY <2>1, <2>2, Zenon
  <2> QED
    BY <1>3, <2>3
<1>6. PlaceOf(StartOf(i)) = 0
  <2> DEFINE q == i \div BlockRows
             s == q * BlockRows
  <2>1. s \in Nat
    BY <1>3, Zenon DEF StartOf
  <2>2. s = q * BlockRows + 0 /\ 0 \in 0 .. BlockRows - 1
    <3> HIDE DEF q
    <3> QED
      BY <1>1, <2>1
  <2>3. s \div BlockRows = q
    <3> HIDE DEF q, s
    <3>1. q \in Nat
      BY <1>2 DEF q
    <3> QED
      BY <1>1, <2>1, <2>2, <3>1, QuotientIsUnique, Zenon
  <2>4. s % BlockRows = s - BlockRows * (s \div BlockRows)
    <3> HIDE DEF s
    <3> QED
      BY <1>1, <2>1, RemainderIsRest, Zenon
  <2>5. BlockRows * q = s
    <3>1. q \in Nat /\ BlockRows \in Nat
      BY <1>1, <1>2
    <3> QED
      BY <3>1, ProductCommutes, Zenon
  <2>6. s - BlockRows * (s \div BlockRows) = s - s
    BY <2>3, <2>5, Zenon
  <2>7. s - s = 0
    <3> HIDE DEF s
    <3> QED
      BY <2>1
  <2> QED
    BY <2>4, <2>6, <2>7, Zenon DEF StartOf, PlaceOf
<1> QED
  BY <1>3, <1>4, <1>5, <1>6, Zenon

(* A block has the rows of the dataset from its start on.                  *)
LEMMA RowsOfBlock ==
  ASSUME NEW R, NEW data \in Seq(R), NEW start \in BlockStarts(data)
  PROVE  /\ start \in Nat /\ BlockAt(data, start) \in Seq(R)
         /\ \A d \in Nat : d \in RowIndexes(BlockAt(data, start))
                <=> d < BlockRows /\ start + d < Len(data)
         /\ \A d \in RowIndexes(BlockAt(data, start)) :
                /\ start + d \in RowIndexes(data)
                /\ RowAt(BlockAt(data, start), d) = RowAt(data, start + d)
<1>1. /\ Len(data) \in Nat /\ DOMAIN data = 1 .. Len(data)
      /\ \A n \in 1 .. Len(data) : data[n] \in R
  OBVIOUS
<1>2. start \in Nat /\ start < Len(data)
  BY <1>1 DEF BlockStarts, RowIndexes
<1>3. BlockRows \in Nat /\ BlockRows > 0
  BY ComparisonAssumption DEF ComparisonAssumption
<1> DEFINE stop == Min({start + BlockRows, Len(data)})
           block == SubSeq(data, start + 1, stop)
<1>4. stop = IF start + BlockRows <= Len(data) THEN start + BlockRows ELSE Len(data)
  BY <1>1, <1>2, <1>3, MinOfTwo
<1>5. stop \in Nat /\ start < stop /\ stop <= Len(data) /\ stop <= start + BlockRows
  BY <1>1, <1>2, <1>3, <1>4
<1> HIDE DEF stop
<1>6. \A n \in start + 1 .. stop : data[n] \in R
  BY <1>1, <1>2, <1>5
<1>7. /\ block \in Seq(R) /\ Len(block) = stop - start
      /\ \A n \in 1 .. stop - start : block[n] = data[start + n]
  <2>1. start + 1 \in Int /\ stop \in Int
    BY <1>2, <1>5
  <2>2. /\ block \in Seq(R)
        /\ Len(block) = IF start + 1 <= stop THEN stop - (start + 1) + 1 ELSE 0
        /\ \A n \in 1 .. stop - (start + 1) + 1 : block[n] = data[start + 1 + n - 1]
    BY <1>6, <2>1, SubSeqProperties
  <2> HIDE DEF block
  <2> QED
    BY <1>2, <1>5, <2>2
<1>8. BlockAt(data, start) = block
  BY DEF BlockAt, stop
<1> HIDE DEF block
<1>9. \A d \in Nat : d \in RowIndexes(block) <=> d < stop - start
  BY <1>2, <1>5, <1>7 DEF RowIndexes
<1>10. ASSUME NEW d \in RowIndexes(block)
       PROVE  start + d \in RowIndexes(data) /\ RowAt(block, d) = RowAt(data, start + d)
  <2>1. d \in Nat /\ d < stop - start
    BY <1>2, <1>5, <1>7 DEF RowIndexes
  <2>2. block[d + 1] = data[start + (d + 1)]
    BY <1>2, <1>5, <1>7, <2>1
  <2>3. start + d + 1 = start + (d + 1)
    BY <1>2, <2>1
  <2> QED
    BY <1>1, <1>2, <1>5, <2>1, <2>2, <2>3 DEF RowIndexes, RowAt
<1>11. \A d \in Nat : d < stop - start <=> d < BlockRows /\ start + d < Len(data)
  <2>1. CASE start + BlockRows <= Len(data)
    <3>1. stop = start + BlockRows
      BY <1>4, <2>1
    <3> HIDE DEF stop
    <3> QED
      BY <1>1, <1>2, <1>3, <2>1, <3>1
  <2>2. CASE ~ (start + BlockRows <= Len(data))
    <3>1. stop = Len(data)
      BY <1>4, <2>2
    <3> HIDE DEF stop
    <3> QED
      BY <1>1, <1>2, <1>3, <2>2, <3>1
  <2> QED
    BY <2>1, <2>2
<1> QED
  BY <1>2, <1>7, <1>8, <1>9, <1>10, <1>11

(* Every row is in one block.                                              *)
LEMMA BlockOfRow ==
  ASSUME NEW R, NEW data \in Seq(R), NEW i \in RowIndexes(data)
  PROVE  /\ StartOf(i) \in BlockStarts(data)
         /\ PlaceOf(i) \in RowIndexes(BlockAt(data, StartOf(i)))
         /\ RowAt(BlockAt(data, StartOf(i)), PlaceOf(i)) = RowAt(data, i)
         /\ i = StartOf(i) + PlaceOf(i)
<1>1. i \in Nat /\ i < Len(data) /\ Len(data) \in Nat
  BY RowsOfDataset
<1>2. BlockRows \in Nat /\ BlockRows > 0
  BY ComparisonAssumption DEF ComparisonAssumption
<1>3. /\ StartOf(i) \in Nat /\ PlaceOf(i) \in Nat /\ PlaceOf(i) < BlockRows
      /\ i = StartOf(i) + PlaceOf(i) /\ PlaceOf(StartOf(i)) = 0
  BY <1>1, <1>2, PlaceInBlock
<1>4. StartOf(i) \in BlockStarts(data)
  <2>1. StartOf(i) < Len(data)
    BY <1>1, <1>3
  <2>2. StartOf(i) \in RowIndexes(data)
    BY <1>3, <2>1, RowsOfDataset
  <2> QED
    BY <1>3, <2>2, Zenon DEF BlockStarts, PlaceOf
<1>5. PlaceOf(i) \in RowIndexes(BlockAt(data, StartOf(i)))
  BY <1>1, <1>3, <1>4, RowsOfBlock
<1>6. RowAt(BlockAt(data, StartOf(i)), PlaceOf(i)) = RowAt(data, i)
  BY <1>3, <1>4, <1>5, RowsOfBlock
<1> QED
  BY <1>3, <1>4, <1>5, <1>6

(* The second pass of the two, which reads a row from its block, reads it. *)
LEMMA RowReadFromItsBlock ==
  ASSUME NEW R, NEW data \in Seq(R), NEW i \in RowIndexes(data)
  PROVE  ComparedRowInBlock(data, i) = RowAt(data, i)
<1>1. i \in Nat
  BY RowsOfDataset
<1>2. i - StartOf(i) = PlaceOf(i)
  <2>1. StartOf(i) \in Nat /\ PlaceOf(i) \in Nat /\ i = StartOf(i) + PlaceOf(i)
    BY <1>1, PlaceInBlock
  <2> QED
    BY <2>1
<1>3. ComparedRowInBlock(data, i) = RowAt(BlockAt(data, StartOf(i)), i - StartOf(i))
  BY Zenon DEF ComparedRowInBlock, StartOf
<1> QED
  BY <1>2, <1>3, BlockOfRow, Zenon

-----------------------------------------------------------------------------
(* The temporary indexes, by what they say of the rows.                    *)

(* The rows that have a key, and the keys of a bucket.                     *)
RowsWith(data, cols, k) == {i \in RowIndexes(data) : Signature(RowAt(data, i), cols) = k}
KeysOf(data, cols) == {Signature(RowAt(data, i), cols) : i \in RowIndexes(data)}

(* The groups of a bucket, from the rows.                                  *)
Groups(data, cols, b) ==
    [k \in {q \in KeysOf(data, cols) : BucketOf(q) = b} |->
        [first |-> Min(RowsWith(data, cols, k)),
         count |-> Cardinality(RowsWith(data, cols, k))]]

(* An index has a record of every row, and none but of a row.              *)
Indexes(spill, data, cols) ==
    /\ \A r \in spill :
            /\ r.row \in RowIndexes(data)
            /\ r.key = Signature(RowAt(data, r.row), cols)
            /\ r.bucket = BucketOf(r.key)
    /\ \A i \in RowIndexes(data) : \E r \in spill : r.row = i

(* The groups read from an index are those of the rows.                    *)
LEMMA GroupsOfIndex ==
  ASSUME NEW data, NEW cols, NEW spill, Indexes(spill, data, cols), NEW b
  PROVE  KeyGroups(spill, b) = Groups(data, cols, b)
<1> DEFINE records == {r \in spill : r.bucket = b}
<1>1. {r.key : r \in records} = {q \in KeysOf(data, cols) : BucketOf(q) = b}
  <2>1. ASSUME NEW k, k \in {r.key : r \in records}
        PROVE  k \in KeysOf(data, cols) /\ BucketOf(k) = b
    BY <2>1 DEF Indexes, KeysOf
  <2>2. ASSUME NEW k, k \in KeysOf(data, cols), BucketOf(k) = b
        PROVE  k \in {r.key : r \in records}
    <3>1. PICK i \in RowIndexes(data) : k = Signature(RowAt(data, i), cols)
      BY <2>2 DEF KeysOf
    <3>2. PICK r \in spill : r.row = i
      BY DEF Indexes
    <3>3. r.key = k /\ r.bucket = b
      BY <2>2, <3>1, <3>2 DEF Indexes
    <3> QED
      BY <3>3
  <2> HIDE DEF records
  <2> QED
    BY <2>1, <2>2
<1>2. ASSUME NEW k, BucketOf(k) = b
      PROVE  {r.row : r \in {q \in records : q.key = k}} = RowsWith(data, cols, k)
  <2>1. ASSUME NEW i, i \in {r.row : r \in {q \in records : q.key = k}}
        PROVE  i \in RowsWith(data, cols, k)
    BY <2>1 DEF Indexes, RowsWith
  <2>2. ASSUME NEW i, i \in RowsWith(data, cols, k)
        PROVE  i \in {r.row : r \in {q \in records : q.key = k}}
    <3>1. i \in RowIndexes(data) /\ k = Signature(RowAt(data, i), cols)
      BY <2>2 DEF RowsWith
    <3>2. PICK r \in spill : r.row = i
      BY <3>1 DEF Indexes
    <3>3. r.key = k /\ r.bucket = b
      BY <1>2, <3>1, <3>2 DEF Indexes
    <3> QED
      BY <3>2, <3>3
  <2> HIDE DEF records
  <2> QED
    BY <2>1, <2>2
<1>3. KeyGroups(spill, b) =
        [k \in {r.key : r \in records} |->
            [first |-> Min({r.row : r \in {q \in records : q.key = k}}),
             count |-> Cardinality({r.row : r \in {q \in records : q.key = k}})]]
  BY DEF KeyGroups
<1> HIDE DEF records
<1> QED
  BY <1>1, <1>2, <1>3 DEF Groups

(* spill_key_rows makes an index,                                          *)
LEMMA FrameIsIndexed ==
  ASSUME NEW data, NEW cols
  PROVE  Indexes(SpillKeyRows(data, cols), data, cols)
<1>1. ASSUME NEW r \in SpillKeyRows(data, cols)
      PROVE  /\ r.row \in RowIndexes(data)
             /\ r.key = Signature(RowAt(data, r.row), cols)
             /\ r.bucket = BucketOf(r.key)
  BY DEF SpillKeyRows
<1>2. ASSUME NEW i \in RowIndexes(data)
      PROVE  \E r \in SpillKeyRows(data, cols) : r.row = i
  <2> DEFINE r == [bucket |-> BucketOf(Signature(RowAt(data, i), cols)),
                   key    |-> Signature(RowAt(data, i), cols),
                   row    |-> i]
  <2>1. r \in SpillKeyRows(data, cols)
    BY DEF SpillKeyRows
  <2>2. r.row = i
    OBVIOUS
  <2> HIDE DEF r
  <2> QED
    BY <2>1, <2>2
<1> QED
  BY <1>1, <1>2 DEF Indexes

(* and so does spill_parquet_rows, block by block.                         *)
LEMMA FileIsIndexed ==
  ASSUME NEW R, NEW data \in Seq(R), NEW cols
  PROVE  Indexes(SpillParquetRows(data, cols), data, cols)
<1>1. ASSUME NEW r \in SpillParquetRows(data, cols)
      PROVE  /\ r.row \in RowIndexes(data)
             /\ r.key = Signature(RowAt(data, r.row), cols)
             /\ r.bucket = BucketOf(r.key)
  <2>0. PICK start \in BlockStarts(data) :
            \E s \in SpillKeyRows(BlockAt(data, start), cols) :
                r = [s EXCEPT !.row = start + s.row]
    BY DEF SpillParquetRows
  <2>1. PICK s \in SpillKeyRows(BlockAt(data, start), cols) :
            r = [s EXCEPT !.row = start + s.row]
    BY <2>0
  <2>2. PICK d \in RowIndexes(BlockAt(data, start)) :
            s = [bucket |-> BucketOf(Signature(RowAt(BlockAt(data, start), d), cols)),
                 key    |-> Signature(RowAt(BlockAt(data, start), d), cols),
                 row    |-> d]
    BY DEF SpillKeyRows
  <2>3. start + d \in RowIndexes(data) /\ RowAt(BlockAt(data, start), d) = RowAt(data, start + d)
    BY RowsOfBlock
  <2>4. r.row = start + d /\ r.key = s.key /\ r.bucket = s.bucket
    BY <2>1, <2>2
  <2> QED
    BY <2>2, <2>3, <2>4
<1>2. ASSUME NEW i \in RowIndexes(data)
      PROVE  \E r \in SpillParquetRows(data, cols) : r.row = i
  <2> DEFINE start == StartOf(i)
             block == BlockAt(data, start)
             s == [bucket |-> BucketOf(Signature(RowAt(block, PlaceOf(i)), cols)),
                   key    |-> Signature(RowAt(block, PlaceOf(i)), cols),
                   row    |-> PlaceOf(i)]
  <2>1. start \in BlockStarts(data) /\ PlaceOf(i) \in RowIndexes(block) /\ i = start + PlaceOf(i)
    BY BlockOfRow
  <2>2. s \in SpillKeyRows(block, cols)
    BY <2>1 DEF SpillKeyRows
  <2>3. [s EXCEPT !.row = start + s.row].row = i
    BY <2>1
  <2> HIDE DEF s, start, block
  <2>4. [s EXCEPT !.row = start + s.row] \in SpillParquetRows(data, cols)
    BY <2>1, <2>2 DEF SpillParquetRows, block
  <2> QED
    BY <2>3, <2>4
<1> QED
  BY <1>1, <1>2 DEF Indexes

(* and the index that carries the payload is one as well.                  *)
LEMMA PayloadIsIndexed ==
  ASSUME NEW R, NEW data \in Seq(R), NEW keys
  PROVE  /\ Indexes(SpillKeyPayloadRows(data, keys), data, keys)
         /\ \A r \in SpillKeyPayloadRows(data, keys) :
                r.payload = Signature(RowAt(data, r.row), Payload(keys))
<1>1. Indexes(SpillParquetRows(data, keys), data, keys)
  BY FileIsIndexed
<1>2. ASSUME NEW r \in SpillKeyPayloadRows(data, keys)
      PROVE  /\ r.row \in RowIndexes(data)
             /\ r.key = Signature(RowAt(data, r.row), keys)
             /\ r.bucket = BucketOf(r.key)
             /\ r.payload = Signature(RowAt(data, r.row), Payload(keys))
  <2>1. PICK s \in SpillParquetRows(data, keys) :
            r = [bucket |-> s.bucket, key |-> s.key, row |-> s.row,
                 payload |-> Signature(RowAt(data, s.row), Payload(keys))]
    BY DEF SpillKeyPayloadRows
  <2> QED
    BY <1>1, <2>1 DEF Indexes
<1>3. ASSUME NEW i \in RowIndexes(data)
      PROVE  \E r \in SpillKeyPayloadRows(data, keys) : r.row = i
  <2>1. PICK s \in SpillParquetRows(data, keys) : s.row = i
    BY <1>1 DEF Indexes
  <2> DEFINE r == [bucket |-> s.bucket, key |-> s.key, row |-> s.row,
                   payload |-> Signature(RowAt(data, s.row), Payload(keys))]
  <2>2. r \in SpillKeyPayloadRows(data, keys)
    BY DEF SpillKeyPayloadRows
  <2>3. r.row = i
    BY <2>1
  <2> HIDE DEF r
  <2> QED
    BY <2>2, <2>3
<1> QED
  BY <1>2, <1>3 DEF Indexes

(* A key is that of some rows; the group counts them and has the first.    *)
LEMMA RowsOfKeys ==
  ASSUME NEW R, NEW data \in Seq(R), NEW cols, NEW k \in KeysOf(data, cols)
  PROVE  /\ RowsWith(data, cols, k) # {}
         /\ Min(RowsWith(data, cols, k)) \in RowsWith(data, cols, k)
         /\ \A i \in RowsWith(data, cols, k) : Min(RowsWith(data, cols, k)) <= i
         /\ IsFiniteSet(RowsWith(data, cols, k))
         /\ Cardinality(RowsWith(data, cols, k)) \in Nat \ {0}
<1> DEFINE S == RowsWith(data, cols, k)
<1>1. S # {} /\ S \subseteq RowIndexes(data)
  BY DEF RowsWith, KeysOf
<1>2. S \in SUBSET Nat
  BY <1>1, RowsOfDataset
<1> HIDE DEF S
<1>3. \E i \in S : \A j \in S : i <= j
  BY <1>1, <1>2, LeastElement
<1>4. Min(S) \in S /\ \A i \in S : Min(S) <= i
  BY <1>3 DEF Min
<1>5. IsFiniteSet(S)
  BY <1>1, FinitelyManyRows, FS_Subset
<1>6. Cardinality(S) \in Nat /\ Cardinality(S) # 0
  BY <1>1, <1>5, FS_CardinalityType, FS_EmptySet
<1> QED
  BY <1>1, <1>4, <1>5, <1>6 DEF S

(* A group that counts one row is the group of that row.                   *)
LEMMA GroupsOfOne ==
  ASSUME NEW R, NEW data \in Seq(R), NEW cols, NEW k \in KeysOf(data, cols)
  PROVE  /\ Cardinality(RowsWith(data, cols, k)) = 1
                <=> \A i, j \in RowsWith(data, cols, k) : i = j
         /\ ~ (Cardinality(RowsWith(data, cols, k)) > 1)
                <=> Cardinality(RowsWith(data, cols, k)) = 1
<1> DEFINE S == RowsWith(data, cols, k)
<1>1. IsFiniteSet(S) /\ Cardinality(S) \in Nat \ {0} /\ S # {}
  BY RowsOfKeys
<1> HIDE DEF S
<1>2. Cardinality(S) = 1 <=> \E i : S = {i}
  BY <1>1, FS_Singleton
<1>3. (\E i : S = {i}) <=> \A i, j \in S : i = j
  <2>1. ASSUME \A i, j \in S : i = j PROVE \E i : S = {i}
    <3>1. PICK i : i \in S
      BY <1>1
    <3>2. S = {i}
      BY <2>1, <3>1
    <3> QED
      BY <3>2
  <2> QED
    BY <2>1
<1>4. ~ (Cardinality(S) > 1) <=> Cardinality(S) = 1
  BY <1>1
<1> QED
  BY <1>2, <1>3, <1>4 DEF S

-----------------------------------------------------------------------------
(* The conflicts, by what they are: rows whose key no other row of their   *)
(* side has, and whose payloads differ.                                    *)

(* The rows of an index fall into its buckets.                             *)
KeysFall(data, keys) == \A k \in KeysOf(data, keys) : BucketOf(k) \in Buckets

UniqueKeys(data, keys) == {k \in KeysOf(data, keys) : Cardinality(RowsWith(data, keys, k)) = 1}

ConflictKeys(current_, compared_, keys) ==
    {k \in UniqueKeys(current_, keys) \cap UniqueKeys(compared_, keys) :
        Signature(RowAt(current_, Min(RowsWith(current_, keys, k))), Payload(keys))
          # Signature(RowAt(compared_, Min(RowsWith(compared_, keys, k))), Payload(keys))}

ConflictPairs(current_, compared_, keys) ==
    {<<Min(RowsWith(current_, keys, k)), Min(RowsWith(compared_, keys, k))>> :
        k \in ConflictKeys(current_, compared_, keys)}

(* What the groups of two sides say of a key that is unique in both.       *)
LEMMA UniqueInGroups ==
  ASSUME NEW left, NEW right, NEW keys, NEW b, NEW k
  PROVE  UniqueInBoth(Groups(left, keys, b), Groups(right, keys, b), k)
            <=> /\ k \in UniqueKeys(left, keys) \cap UniqueKeys(right, keys)
                /\ BucketOf(k) = b
BY DEF UniqueInBoth, Groups, UniqueKeys

(* The first pass over the frames marks the conflicts.                     *)
LEMMA FramePairsAreConflicts ==
  ASSUME NEW left, NEW right, NEW keys, KeysFall(left, keys)
  PROVE  FramePairs(left, right, keys) = ConflictPairs(left, right, keys)
<1> DEFINE l(b) == Groups(left, keys, b)
           r(b) == Groups(right, keys, b)
           Differ(b, k) == Signature(RowAt(left, l(b)[k].first), Payload(keys))
                             # Signature(RowAt(right, r(b)[k].first), Payload(keys))
           Marked(b) == {<<l(b)[k].first, r(b)[k].first>> : k \in
                            {q \in DOMAIN l(b) \cap DOMAIN r(b) :
                                UniqueInBoth(l(b), r(b), q) /\ Differ(b, q)}}
<1>1. \A b : KeyGroups(SpillKeyRows(left, keys), b) = l(b)
             /\ KeyGroups(SpillKeyRows(right, keys), b) = r(b)
  BY GroupsOfIndex, FrameIsIndexed
<1>2. FramePairs(left, right, keys) = UNION {Marked(b) : b \in Buckets}
  BY <1>1 DEF FramePairs
<1>3. ASSUME NEW b, NEW k \in UniqueKeys(left, keys) \cap UniqueKeys(right, keys), BucketOf(k) = b
      PROVE  /\ k \in DOMAIN l(b) \cap DOMAIN r(b)
             /\ l(b)[k].first = Min(RowsWith(left, keys, k))
             /\ r(b)[k].first = Min(RowsWith(right, keys, k))
  BY <1>3 DEF Groups, UniqueKeys
<1>4. ASSUME NEW p, p \in UNION {Marked(b) : b \in Buckets}
      PROVE  p \in ConflictPairs(left, right, keys)
  <2>1. PICK b \in Buckets : p \in Marked(b)
    BY <1>4
  <2>2. PICK k : /\ UniqueInBoth(l(b), r(b), k) /\ Differ(b, k)
                 /\ p = <<l(b)[k].first, r(b)[k].first>>
    BY <2>1
  <2>3. k \in UniqueKeys(left, keys) \cap UniqueKeys(right, keys) /\ BucketOf(k) = b
    BY <2>2, UniqueInGroups
  <2> QED
    BY <1>3, <2>2, <2>3 DEF ConflictPairs, ConflictKeys
<1>5. ASSUME NEW p, p \in ConflictPairs(left, right, keys)
      PROVE  p \in UNION {Marked(b) : b \in Buckets}
  <2>1. PICK k \in ConflictKeys(left, right, keys) :
            p = <<Min(RowsWith(left, keys, k)), Min(RowsWith(right, keys, k))>>
    BY <1>5 DEF ConflictPairs
  <2>2. k \in UniqueKeys(left, keys) \cap UniqueKeys(right, keys)
    BY <2>1 DEF ConflictKeys
  <2>3. BucketOf(k) \in Buckets
    BY <2>2 DEF KeysFall, UniqueKeys
  <2> DEFINE b == BucketOf(k)
  <2>4. UniqueInBoth(l(b), r(b), k)
    BY <2>2, UniqueInGroups
  <2>5. /\ k \in DOMAIN l(b) \cap DOMAIN r(b)
        /\ l(b)[k].first = Min(RowsWith(left, keys, k))
        /\ r(b)[k].first = Min(RowsWith(right, keys, k))
    BY <1>3, <2>2
  <2>6. Differ(b, k)
    BY <2>1, <2>5 DEF ConflictKeys
  <2>7. p \in Marked(b)
    <3> HIDE DEF l, r, Differ
    <3> QED
      BY <2>1, <2>4, <2>5, <2>6
  <2> HIDE DEF Marked, b
  <2> QED
    BY <2>3, <2>7 DEF b
<1> HIDE DEF Marked
<1> QED
  BY <1>2, <1>4, <1>5

(* The groups that carry the payload have the one of the row of a unique   *)
(* key.                                                                    *)
LEMMA PayloadOfGroup ==
  ASSUME NEW R, NEW data \in Seq(R), NEW keys, NEW b,
         NEW k \in UniqueKeys(data, keys), BucketOf(k) = b
  PROVE  LET g == KeyPayloadGroups(SpillKeyPayloadRows(data, keys), b)
         IN  /\ k \in DOMAIN g
             /\ g[k].first = Min(RowsWith(data, keys, k))
             /\ g[k].payload = Signature(RowAt(data, Min(RowsWith(data, keys, k))), Payload(keys))
<1> DEFINE spill == SpillKeyPayloadRows(data, keys)
           groups == Groups(data, keys, b)
           i == Min(RowsWith(data, keys, k))
<1>1. KeyGroups(spill, b) = groups
  BY GroupsOfIndex, PayloadIsIndexed
<1>2. k \in DOMAIN groups /\ groups[k].first = i /\ groups[k].count = 1
  BY DEF Groups, UniqueKeys
<1>3. \A j \in RowsWith(data, keys, k) : j = i
  BY RowsOfKeys, GroupsOfOne DEF UniqueKeys
<1>4. i \in RowIndexes(data) /\ Signature(RowAt(data, i), keys) = k
  BY RowsOfKeys DEF UniqueKeys, RowsWith
<1>5. PICK r \in spill : r.row = i
  BY <1>4, PayloadIsIndexed DEF Indexes
<1>6. r.key = k
  BY <1>4, <1>5, PayloadIsIndexed DEF Indexes
<1> DEFINE c == CHOOSE q \in spill : q.key = k
<1>7. c \in spill /\ c.key = k
  BY <1>5, <1>6
<1>8. c.row = i
  BY <1>3, <1>7, PayloadIsIndexed DEF Indexes, RowsWith
<1>9. c.payload = Signature(RowAt(data, i), Payload(keys))
  BY <1>7, <1>8, PayloadIsIndexed
<1>10. KeyPayloadGroups(spill, b) =
         [q \in DOMAIN groups |->
            [first   |-> groups[q].first,
             count   |-> groups[q].count,
             payload |-> IF groups[q].count > 1 THEN Null
                         ELSE (CHOOSE x \in spill : x.key = q).payload]]
  BY <1>1 DEF KeyPayloadGroups
<1>11. KeyPayloadGroups(spill, b)[k] =
            [first |-> i, count |-> 1, payload |-> c.payload]
  <2> HIDE DEF spill, groups, i
  <2>1. ~ (1 > 1)
    OBVIOUS
  <2> QED
    BY <1>2, <1>10, <2>1 DEF c
<1> HIDE DEF c, i, spill, groups
<1> QED
  BY <1>2, <1>9, <1>10, <1>11 DEF spill, i

(* The groups with payloads have the keys and the counts of the others.    *)
LEMMA CountsOfPayloadGroups ==
  ASSUME NEW R, NEW data \in Seq(R), NEW keys, NEW b, NEW g,
         g = KeyPayloadGroups(SpillKeyPayloadRows(data, keys), b)
  PROVE  /\ DOMAIN g = DOMAIN Groups(data, keys, b)
         /\ \A q \in DOMAIN g : g[q].count = Groups(data, keys, b)[q].count
<1> DEFINE groups == Groups(data, keys, b)
<1>1. KeyGroups(SpillKeyPayloadRows(data, keys), b) = groups
  BY GroupsOfIndex, PayloadIsIndexed
<1> HIDE DEF groups
<1>2. DOMAIN g = DOMAIN groups /\ \A q \in DOMAIN g : g[q].count = groups[q].count
  BY <1>1 DEF KeyPayloadGroups
<1> QED
  BY <1>2 DEF groups

(* What the groups with payloads say of a unique key.                      *)
LEMMA UniqueInPayloadGroups ==
  ASSUME NEW R, NEW left \in Seq(R), NEW S, NEW right \in Seq(S), NEW keys, NEW b, NEW k
  PROVE  UniqueInBoth(KeyPayloadGroups(SpillKeyPayloadRows(left, keys), b),
                      KeyPayloadGroups(SpillKeyPayloadRows(right, keys), b), k)
            <=> /\ k \in UniqueKeys(left, keys) \cap UniqueKeys(right, keys)
                /\ BucketOf(k) = b
<1> DEFINE l == KeyPayloadGroups(SpillKeyPayloadRows(left, keys), b)
           r == KeyPayloadGroups(SpillKeyPayloadRows(right, keys), b)
           lg == Groups(left, keys, b)
           rg == Groups(right, keys, b)
<1>1. DOMAIN l = DOMAIN lg /\ \A q \in DOMAIN l : l[q].count = lg[q].count
  BY CountsOfPayloadGroups
<1>2. DOMAIN r = DOMAIN rg /\ \A q \in DOMAIN r : r[q].count = rg[q].count
  BY CountsOfPayloadGroups
<1>3. UniqueInBoth(l, r, k) <=> UniqueInBoth(lg, rg, k)
  <2> HIDE DEF l, r, lg, rg
  <2> QED
    BY <1>1, <1>2 DEF UniqueInBoth
<1> QED
  BY <1>3, UniqueInGroups

(* The first pass over two files marks the conflicts.                      *)
LEMMA FilePairsAreConflicts ==
  ASSUME NEW R, NEW left \in Seq(R), NEW S, NEW right \in Seq(S), NEW keys,
         KeysFall(left, keys)
  PROVE  PairsBetweenParquet(left, right, keys) = ConflictPairs(left, right, keys)
<1> DEFINE l(b) == KeyPayloadGroups(SpillKeyPayloadRows(left, keys), b)
           r(b) == KeyPayloadGroups(SpillKeyPayloadRows(right, keys), b)
           Marked(b) == {<<l(b)[k].first, r(b)[k].first>> : k \in
                            {q \in DOMAIN l(b) \cap DOMAIN r(b) :
                                UniqueInBoth(l(b), r(b), q) /\ l(b)[q].payload # r(b)[q].payload}}
<1>1. PairsBetweenParquet(left, right, keys) = UNION {Marked(b) : b \in Buckets}
  BY DEF PairsBetweenParquet
<1>2. \A b, k : UniqueInBoth(l(b), r(b), k)
                    <=> /\ k \in UniqueKeys(left, keys) \cap UniqueKeys(right, keys)
                        /\ BucketOf(k) = b
  BY UniqueInPayloadGroups
<1>3. ASSUME NEW b, NEW k \in UniqueKeys(left, keys) \cap UniqueKeys(right, keys), BucketOf(k) = b
      PROVE  /\ k \in DOMAIN l(b) \cap DOMAIN r(b)
             /\ l(b)[k].first = Min(RowsWith(left, keys, k))
             /\ r(b)[k].first = Min(RowsWith(right, keys, k))
             /\ l(b)[k].payload = Signature(RowAt(left, Min(RowsWith(left, keys, k))), Payload(keys))
             /\ r(b)[k].payload = Signature(RowAt(right, Min(RowsWith(right, keys, k))), Payload(keys))
  BY <1>3, PayloadOfGroup
<1> HIDE DEF l, r
<1>4. ASSUME NEW p, p \in UNION {Marked(b) : b \in Buckets}
      PROVE  p \in ConflictPairs(left, right, keys)
  <2>1. PICK b \in Buckets : p \in Marked(b)
    BY <1>4
  <2>2. PICK k : /\ UniqueInBoth(l(b), r(b), k) /\ l(b)[k].payload # r(b)[k].payload
                 /\ p = <<l(b)[k].first, r(b)[k].first>>
    BY <2>1
  <2> QED
    BY <1>2, <1>3, <2>2 DEF ConflictPairs, ConflictKeys
<1>5. ASSUME NEW p, p \in ConflictPairs(left, right, keys)
      PROVE  p \in UNION {Marked(b) : b \in Buckets}
  <2>1. PICK k \in ConflictKeys(left, right, keys) :
            p = <<Min(RowsWith(left, keys, k)), Min(RowsWith(right, keys, k))>>
    BY <1>5 DEF ConflictPairs
  <2>2. k \in UniqueKeys(left, keys) \cap UniqueKeys(right, keys)
    BY <2>1 DEF ConflictKeys
  <2>3. BucketOf(k) \in Buckets
    BY <2>2 DEF KeysFall, UniqueKeys
  <2> DEFINE b == BucketOf(k)
  <2>4. UniqueInBoth(l(b), r(b), k)
    BY <1>2, <2>2
  <2>5. k \in DOMAIN l(b) \cap DOMAIN r(b) /\ l(b)[k].payload # r(b)[k].payload
        /\ p = <<l(b)[k].first, r(b)[k].first>>
    BY <1>3, <2>1, <2>2 DEF ConflictKeys
  <2>7. p \in Marked(b)
    BY <2>4, <2>5
  <2> HIDE DEF Marked, b
  <2> QED
    BY <2>3, <2>7 DEF b
<1> HIDE DEF Marked
<1> QED
  BY <1>1, <1>4, <1>5

(* A key that is unique in a file is that of one row of one block.         *)
LEMMA UniqueInBlocks ==
  ASSUME NEW R, NEW data \in Seq(R), NEW keys, NEW k \in UniqueKeys(data, keys)
  PROVE  LET j == Min(RowsWith(data, keys, k))
             block == BlockAt(data, StartOf(j))
         IN  /\ StartOf(j) \in BlockStarts(data)
             /\ RowsWith(block, keys, k) = {PlaceOf(j)}
             /\ StartOf(j) + PlaceOf(j) = j
             /\ RowAt(block, PlaceOf(j)) = RowAt(data, j)
<1> DEFINE j == Min(RowsWith(data, keys, k))
           start == StartOf(j)
           block == BlockAt(data, start)
<1>1. j \in RowIndexes(data) /\ Signature(RowAt(data, j), keys) = k
  BY RowsOfKeys DEF UniqueKeys, RowsWith
<1>2. \A i \in RowsWith(data, keys, k) : i = j
  BY RowsOfKeys, GroupsOfOne DEF UniqueKeys
<1> HIDE DEF j
<1>3. /\ start \in BlockStarts(data) /\ PlaceOf(j) \in RowIndexes(block)
      /\ RowAt(block, PlaceOf(j)) = RowAt(data, j) /\ j = start + PlaceOf(j)
  BY <1>1, BlockOfRow
<1>4. start \in Nat /\ PlaceOf(j) \in Nat
  <2>1. j \in Nat
    BY <1>1, RowsOfDataset
  <2>2. BlockRows \in Nat
    BY ComparisonAssumption DEF ComparisonAssumption
  <2>3. StartOf(j) \in Nat /\ PlaceOf(j) \in 0 .. BlockRows - 1
    BY <2>1, PlaceInBlock, Zenon
  <2> QED
    BY <2>2, <2>3
<1> HIDE DEF start
<1>5. ASSUME NEW d \in RowsWith(block, keys, k)
      PROVE  d = PlaceOf(j)
  <2>1. d \in RowIndexes(block) /\ Signature(RowAt(block, d), keys) = k
    BY DEF RowsWith
  <2>2. start + d \in RowIndexes(data) /\ RowAt(block, d) = RowAt(data, start + d)
    BY <1>3, <2>1, RowsOfBlock
  <2>3. start + d = j
    BY <1>2, <2>1, <2>2 DEF RowsWith
  <2>4. d \in Nat
    <3>1. block \in Seq(R)
      BY <1>3, RowsOfBlock
    <3> QED
      BY <2>1, <3>1, RowsOfDataset
  <2> QED
    BY <1>3, <1>4, <2>3, <2>4
<1>6. PlaceOf(j) \in RowsWith(block, keys, k)
  BY <1>1, <1>3 DEF RowsWith
<1>7. RowsWith(block, keys, k) = {PlaceOf(j)}
  BY <1>5, <1>6
<1> QED
  BY <1>3, <1>7 DEF j, start

(* The least element of a set of one.                                      *)
LEMMA LeastOfOne ==
  ASSUME NEW i \in Nat
  PROVE  Min({i}) = i
<1>1. \E x \in {i} : \A y \in {i} : x =< y
  OBVIOUS
<1> QED
  BY <1>1 DEF Min

(* The first pass over a file and the frame, which has an index of its own *)
(* for each block of the file, marks the conflicts.                        *)
LEMMA BlockPairsAreConflicts ==
  ASSUME NEW R, NEW left \in Seq(R), NEW S, NEW right \in Seq(S), NEW keys,
         KeysFall(left, keys)
  PROVE  ParquetPairs(left, right, keys) = ConflictPairs(left, right, keys)
<1> DEFINE l(b) == Groups(left, keys, b)
           r(b) == Groups(right, keys, b)
           block(start) == BlockAt(right, start)
           own(start, b) == Groups(block(start), keys, b)
           Differ(start, b, k) ==
                Signature(RowAt(left, l(b)[k].first), Payload(keys))
                  # Signature(RowAt(block(start), own(start, b)[k].first), Payload(keys))
           Marked(start, b) ==
                {<<l(b)[k].first, start + own(start, b)[k].first>> : k \in
                    {q \in DOMAIN own(start, b) \cap DOMAIN l(b) :
                        /\ UniqueInBoth(l(b), r(b), q)
                        /\ own(start, b)[q].count = 1
                        /\ Differ(start, b, q)}}
<1>1. /\ \A b : KeyGroups(SpillKeyRows(left, keys), b) = l(b)
      /\ \A b : KeyGroups(SpillParquetRows(right, keys), b) = r(b)
      /\ \A start, b : KeyGroups(SpillKeyRows(block(start), keys), b) = own(start, b)
  BY GroupsOfIndex, FrameIsIndexed, FileIsIndexed
<1>2. ParquetPairs(left, right, keys)
        = UNION {Marked(start, b) : start \in BlockStarts(right), b \in Buckets}
  <2> DEFINE lk(b) == KeyGroups(SpillKeyRows(left, keys), b)
             rk(b) == KeyGroups(SpillParquetRows(right, keys), b)
             ok(start, b) == KeyGroups(SpillKeyRows(block(start), keys), b)
             Read(start, b) ==
                {<<lk(b)[k].first, start + ok(start, b)[k].first>> : k \in
                    {q \in DOMAIN ok(start, b) \cap DOMAIN lk(b) :
                        /\ UniqueInBoth(lk(b), rk(b), q)
                        /\ ok(start, b)[q].count = 1
                        /\ Signature(RowAt(left, lk(b)[q].first), Payload(keys))
                             # Signature(RowAt(block(start), ok(start, b)[q].first), Payload(keys))}}
  <2>1. ParquetPairs(left, right, keys)
            = UNION {Read(start, b) : start \in BlockStarts(right), b \in Buckets}
    BY DEF ParquetPairs
  <2>2. ASSUME NEW start, NEW b
        PROVE  Read(start, b) = Marked(start, b)
    <3>1. lk(b) = l(b) /\ rk(b) = r(b) /\ ok(start, b) = own(start, b)
      BY <1>1
    <3> HIDE DEF lk, rk, ok, l, r, own, block
    <3> QED
      BY <3>1
  <2> HIDE DEF Read, Marked
  <2> QED
    BY <2>1, <2>2
<1>3. ASSUME NEW b, NEW k \in UniqueKeys(left, keys) \cap UniqueKeys(right, keys), BucketOf(k) = b
      PROVE  k \in DOMAIN l(b) /\ l(b)[k].first = Min(RowsWith(left, keys, k))
  BY <1>3 DEF Groups, UniqueKeys
<1>4. ASSUME NEW b, NEW k \in UniqueKeys(right, keys), BucketOf(k) = b,
             NEW start \in BlockStarts(right), k \in DOMAIN own(start, b)
      PROVE  /\ own(start, b)[k].first = Min(RowsWith(block(start), keys, k))
             /\ start + Min(RowsWith(block(start), keys, k)) = Min(RowsWith(right, keys, k))
             /\ RowAt(block(start), Min(RowsWith(block(start), keys, k)))
                    = RowAt(right, Min(RowsWith(right, keys, k)))
  <2> DEFINE d == Min(RowsWith(block(start), keys, k))
  <2>1. k \in KeysOf(block(start), keys) /\ own(start, b)[k].first = d
    BY <1>4 DEF Groups
  <2>2. block(start) \in Seq(S)
    BY RowsOfBlock
  <2>3. d \in RowsWith(block(start), keys, k)
    BY <2>1, <2>2, RowsOfKeys
  <2>4. d \in RowIndexes(block(start)) /\ Signature(RowAt(block(start), d), keys) = k
    BY <2>3 DEF RowsWith
  <2> HIDE DEF d
  <2>5. start + d \in RowIndexes(right) /\ RowAt(block(start), d) = RowAt(right, start + d)
    BY <2>4, RowsOfBlock
  <2>6. start + d \in RowsWith(right, keys, k)
    BY <2>4, <2>5 DEF RowsWith
  <2>7. start + d = Min(RowsWith(right, keys, k))
    BY <2>6, RowsOfKeys, GroupsOfOne DEF UniqueKeys
  <2> QED
    BY <2>1, <2>5, <2>7 DEF d
<1>5. ASSUME NEW p, NEW start \in BlockStarts(right), NEW b \in Buckets, p \in Marked(start, b)
      PROVE  p \in ConflictPairs(left, right, keys)
  <2>1. PICK k : /\ k \in DOMAIN own(start, b)
                 /\ UniqueInBoth(l(b), r(b), k) /\ Differ(start, b, k)
                 /\ p = <<l(b)[k].first, start + own(start, b)[k].first>>
    BY <1>5
  <2>2. k \in UniqueKeys(left, keys) \cap UniqueKeys(right, keys) /\ BucketOf(k) = b
    BY <2>1, UniqueInGroups
  <2>3. /\ l(b)[k].first = Min(RowsWith(left, keys, k))
        /\ start + own(start, b)[k].first = Min(RowsWith(right, keys, k))
        /\ RowAt(block(start), own(start, b)[k].first) = RowAt(right, Min(RowsWith(right, keys, k)))
    BY <1>3, <1>4, <2>1, <2>2
  <2> HIDE DEF l, r, own, block
  <2>4. k \in ConflictKeys(left, right, keys)
    BY <2>1, <2>2, <2>3 DEF ConflictKeys
  <2> QED
    BY <2>1, <2>3, <2>4 DEF ConflictPairs
<1>6. ASSUME NEW p, p \in ConflictPairs(left, right, keys)
      PROVE  \E start \in BlockStarts(right), b \in Buckets : p \in Marked(start, b)
  <2>1. PICK k \in ConflictKeys(left, right, keys) :
            p = <<Min(RowsWith(left, keys, k)), Min(RowsWith(right, keys, k))>>
    BY <1>6 DEF ConflictPairs
  <2>2. k \in UniqueKeys(left, keys) \cap UniqueKeys(right, keys)
    BY <2>1 DEF ConflictKeys
  <2>3. BucketOf(k) \in Buckets
    BY <2>2 DEF KeysFall, UniqueKeys
  <2> DEFINE b == BucketOf(k)
             j == Min(RowsWith(right, keys, k))
             start == StartOf(j)
  <2>4. UniqueInBoth(l(b), r(b), k)
    BY <2>2, UniqueInGroups
  <2>5. /\ start \in BlockStarts(right)
        /\ RowsWith(block(start), keys, k) = {PlaceOf(j)}
    BY <2>2, UniqueInBlocks
  <2>6. k \in KeysOf(block(start), keys)
    BY <2>5 DEF KeysOf, RowsWith
  <2>7. k \in DOMAIN own(start, b) /\ own(start, b)[k].count = Cardinality({PlaceOf(j)})
    BY <2>5, <2>6 DEF Groups
  <2>8. own(start, b)[k].count = 1
    BY <2>7, FS_Singleton
  <2>9. /\ k \in DOMAIN l(b) /\ l(b)[k].first = Min(RowsWith(left, keys, k))
        /\ start + own(start, b)[k].first = j
        /\ RowAt(block(start), own(start, b)[k].first) = RowAt(right, j)
    BY <1>3, <1>4, <2>2, <2>5, <2>7
  <2>10. Differ(start, b, k) /\ p = <<l(b)[k].first, start + own(start, b)[k].first>>
    <3> HIDE DEF l, own, block
    <3> QED
      BY <2>1, <2>9 DEF ConflictKeys
  <2>11. p \in Marked(start, b)
    <3> HIDE DEF l, r, own, block, Differ, start, b
    <3> QED
      BY <2>4, <2>7, <2>8, <2>9, <2>10
  <2> HIDE DEF Marked, start, b
  <2> QED
    BY <2>3, <2>5, <2>11 DEF b
<1> HIDE DEF Marked
<1>7. ASSUME NEW p, p \in UNION {Marked(start, b) : start \in BlockStarts(right), b \in Buckets}
      PROVE  p \in ConflictPairs(left, right, keys)
  BY <1>5, <1>7
<1>8. ASSUME NEW p, p \in ConflictPairs(left, right, keys)
      PROVE  p \in UNION {Marked(start, b) : start \in BlockStarts(right), b \in Buckets}
  BY <1>6, <1>8
<1> QED
  BY <1>2, <1>7, <1>8

-----------------------------------------------------------------------------
(* The list of the marked rows.                                            *)

(* A list that grows by one element.                                       *)
LEMMA OneMore ==
  ASSUME NEW k \in Nat, NEW g
  PROVE  /\ [r \in 1 .. k |-> g[r]] \o <<g[k + 1]>> = [r \in 1 .. k + 1 |-> g[r]]
         /\ [r \in 1 .. k |-> g[r]] \o <<>> = [r \in 1 .. k |-> g[r]]
<1> DEFINE E == {g[r] : r \in 1 .. k + 1}
           s == [r \in 1 .. k |-> g[r]]
           t == [r \in 1 .. k + 1 |-> g[r]]
<1>1. s \in Seq(E) /\ Len(s) = k /\ t \in Seq(E) /\ Len(t) = k + 1
  <2>1. s \in [1 .. k -> E] /\ t \in [1 .. k + 1 -> E]
    OBVIOUS
  <2> HIDE DEF s, t, E
  <2> QED
    BY <2>1
<1>2. g[k + 1] \in E
  OBVIOUS
<1>3. /\ s \o <<g[k + 1]>> \in Seq(E) /\ Len(s \o <<g[k + 1]>>) = k + 1
      /\ \A r \in 1 .. k + 1 : (s \o <<g[k + 1]>>)[r] = IF r <= k THEN s[r] ELSE g[k + 1]
  <2> HIDE DEF s, E
  <2> QED
    BY <1>1, <1>2
<1>4. \A r \in 1 .. k + 1 : (s \o <<g[k + 1]>>)[r] = t[r]
  <2>1. \A r \in 1 .. k + 1 : r <= k => s[r] = g[r]
    OBVIOUS
  <2>2. \A r \in 1 .. k + 1 : ~ (r <= k) => r = k + 1
    OBVIOUS
  <2>3. \A r \in 1 .. k + 1 : t[r] = g[r]
    OBVIOUS
  <2> HIDE DEF s, t
  <2> QED
    BY <1>3, <2>1, <2>2, <2>3
<1>5. s \o <<g[k + 1]>> = t
  <2> HIDE DEF s, t, E
  <2> QED
    BY <1>1, <1>3, <1>4, SeqEqual
<1>6. s \o <<>> = s
  <2> HIDE DEF s, E
  <2> QED
    BY <1>1, ConcatEmptySeq
<1> QED
  BY <1>5, <1>6

(* One after the other, the lists of one or none are the list of those     *)
(* that there are.                                                         *)
LEMMA FlattenMarks ==
  ASSUME NEW N \in Nat, NEW P \in SUBSET (0 .. N - 1), NEW e
  PROVE  FlattenSeq([n \in 1 .. N |-> IF n - 1 \in P THEN <<e[n - 1]>> ELSE <<>>])
            = [r \in 1 .. Cardinality(P) |-> e[NthOf(P, r)]]
<1> DEFINE t == [n \in 1 .. N |-> IF n - 1 \in P THEN <<e[n - 1]>> ELSE <<>>]
           E == {<<>>} \cup {<<e[i]>> : i \in P}
           g == [r \in 1 .. Cardinality(P) |-> e[NthOf(P, r)]]
           f == [i \in 1 .. N |-> [r \in 1 .. RankIn(P, i) |-> g[r]]]
<1>1. Len(t) = N
  <2>1. t \in [1 .. N -> E]
    OBVIOUS
  <2> HIDE DEF t, E
  <2> QED
    BY <2>1
<1>2. IsFiniteSet(P) /\ P \in SUBSET Nat
  <2>1. 0 \in Int /\ N - 1 \in Int
    OBVIOUS
  <2>2. IsFiniteSet(0 .. N - 1)
    BY <2>1, FS_Interval
  <2>3. IsFiniteSet(P)
    BY <2>2, FS_Subset, Zenon
  <2>4. P \in SUBSET Nat
    OBVIOUS
  <2> QED
    BY <2>3, <2>4
<1>3. /\ RankIn(P, 0) = 0 /\ RankIn(P, N) = Cardinality(P)
      /\ \A i \in 0 .. N : RankIn(P, i) \in Nat /\ RankIn(P, i) <= Cardinality(P)
      /\ \A i \in 0 .. N - 1 : RankIn(P, i + 1) = IF i \in P THEN RankIn(P, i) + 1 ELSE RankIn(P, i)
      /\ \A i \in P : RankIn(P, i) + 1 \in 1 .. Cardinality(P) /\ NthOf(P, RankIn(P, i) + 1) = i
  <2>0. \A j \in P : ~ (j < 0) /\ j < N
    OBVIOUS
  <2>1. {j \in P : j < 0} = {} /\ {j \in P : j < N} = P
    BY <2>0, Zenon
  <2>2. RankIn(P, 0) = 0 /\ RankIn(P, N) = Cardinality(P)
    BY <2>1, FS_EmptySet DEF RankIn
  <2>3. \A i \in 0 .. N : i \in Nat
    OBVIOUS
  <2>4. \A i \in 0 .. N - 1 : i \in Nat
    OBVIOUS
  <2> QED
    BY <1>2, <2>2, <2>3, <2>4, RankGrows, NthElement
<1>4. CASE N = 0
  <2>0. \A j \in P : j \in Int /\ 0 <= j /\ j <= N - 1
    OBVIOUS
  <2>1. P = {} /\ Cardinality(P) = 0
    <3>1. ASSUME NEW j \in P PROVE FALSE
      <4>1. 0 <= j /\ j <= N - 1 /\ j \in Int
        BY <2>0
      <4> QED
        BY <1>4, <4>1
    <3> QED
      BY <3>1, FS_EmptySet
  <2>2. FlattenSeq(t) = t
    BY <1>1, <1>4 DEF FlattenSeq
  <2>3. t = g
    BY <1>4, <2>1
  <2> QED
    BY <2>2, <2>3
<1>5. CASE N # 0
  <2> DEFINE F(h) == h = [i \in 1 .. Len(t) |-> IF i = 1 THEN t[i] ELSE h[i - 1] \o t[i]]
  <2>1. \A i \in 1 .. N : t[i] = IF i - 1 \in P THEN <<e[i - 1]>> ELSE <<>>
    OBVIOUS
  <2>2. \A i \in P : g[RankIn(P, i) + 1] = e[i]
    BY <1>3
  <2>3. \A i \in 1 .. N : f[i] = [r \in 1 .. RankIn(P, i) |-> g[r]]
    OBVIOUS
  <2> HIDE DEF t, g
  <2>4. ASSUME NEW i \in 1 .. N
        PROVE  f[i] = [r \in 1 .. RankIn(P, i - 1) |-> g[r]] \o t[i]
    <3>1. i - 1 \in 0 .. N - 1 /\ i - 1 \in 0 .. N /\ (i - 1) + 1 = i
      OBVIOUS
    <3> DEFINE k == RankIn(P, i - 1)
    <3>2. k \in Nat
      BY <1>3, <3>1
    <3>3. CASE i - 1 \in P
      <4>1. RankIn(P, i) = k + 1 /\ g[k + 1] = e[i - 1] /\ t[i] = <<g[k + 1]>>
        BY <1>3, <2>1, <2>2, <3>1, <3>3
      <4> HIDE DEF k, f
      <4>2. f[i] = [r \in 1 .. k + 1 |-> g[r]]
        BY <2>3, <4>1
      <4>3. [r \in 1 .. k |-> g[r]] \o <<g[k + 1]>> = [r \in 1 .. k + 1 |-> g[r]]
        BY <3>2, OneMore
      <4> QED
        BY <4>1, <4>2, <4>3 DEF k
    <3>4. CASE i - 1 \notin P
      <4>1. RankIn(P, i) = k /\ t[i] = <<>>
        BY <1>3, <2>1, <3>1, <3>4
      <4> HIDE DEF k, f
      <4> QED
        BY <2>3, <3>2, <4>1, OneMore DEF k
    <3> QED
      BY <3>3, <3>4
  <2>5. f[1] = t[1]
    <3>1. 1 \in 1 .. N /\ 1 - 1 = 0
      BY <1>5
    <3>2. f[1] = [r \in 1 .. 0 |-> g[r]] \o t[1]
      BY <1>3, <2>4, <3>1
    <3>3. [r \in 1 .. 0 |-> g[r]] = <<>>
      OBVIOUS
    <3>4. <<>> \o t[1] = t[1]
      <4>1. t[1] = IF 0 \in P THEN <<e[0]>> ELSE <<>>
        BY <2>1, <3>1
      <4>2. <<e[0]>> \in Seq({e[0]}) /\ <<>> \in Seq({e[0]})
        OBVIOUS
      <4> QED
        BY <4>1, <4>2, ConcatEmptySeq
    <3> QED
      BY <3>2, <3>3, <3>4
  <2>6. F(f)
    <3>1. \A i \in 1 .. N : i # 1 => f[i] = f[i - 1] \o t[i]
      <4> TAKE i \in 1 .. N
      <4> HAVE i # 1
      <4>1. i - 1 \in 1 .. N
        OBVIOUS
      <4> QED
        BY <2>3, <2>4, <4>1
    <3>2. f = [i \in 1 .. N |-> f[i]]
      OBVIOUS
    <3> HIDE DEF f
    <3> QED
      BY <1>1, <2>5, <3>1, <3>2
  <2>7. ASSUME NEW h, F(h)
        PROVE  h[N] = f[N]
    <3> DEFINE Wrong == {i \in 1 .. N : h[i] # f[i]}
    <3> HIDE DEF f
    <3> SUFFICES ASSUME Wrong # {} PROVE FALSE
      <4>1. N \in 1 .. N
        BY <1>5
      <4> QED
        BY <4>1
    <3> USE DEF f
    <3>1. Wrong \in SUBSET Nat
      OBVIOUS
    <3> HIDE DEF Wrong
    <3>2. PICK i \in Wrong : \A j \in Wrong : i <= j
      BY <3>1, LeastElement
    <3>3. i \in 1 .. N /\ h[i] # f[i]
      BY <3>2 DEF Wrong
    <3>4. h[i] = IF i = 1 THEN t[i] ELSE h[i - 1] \o t[i]
      BY <1>1, <2>7, <3>3
    <3>5. f[i] = IF i = 1 THEN t[i] ELSE f[i - 1] \o t[i]
      <4> HIDE DEF f
      <4> QED
        BY <1>1, <2>6, <3>3
    <3>6. i # 1
      BY <2>5, <3>3, <3>4
    <3>7. i - 1 \in 1 .. N /\ i - 1 < i
      BY <3>3, <3>6
    <3>8. i - 1 \notin Wrong
      BY <3>2, <3>3, <3>7
    <3> HIDE DEF f
    <3>9. h[i - 1] = f[i - 1]
      BY <3>7, <3>8 DEF Wrong
    <3> QED
      BY <3>3, <3>4, <3>5, <3>6, <3>9
  <2>8. FlattenSeq(t) = (CHOOSE h : F(h))[N]
    BY <1>1, <1>5 DEF FlattenSeq
  <2>9. F(CHOOSE h : F(h))
    <3> HIDE DEF F
    <3> QED
      BY <2>6
  <2>10. (CHOOSE h : F(h))[N] = f[N]
    <3> HIDE DEF F, f
    <3> QED
      BY <2>7, <2>9
  <2>11. f[N] = [r \in 1 .. Cardinality(P) |-> g[r]]
    <3>1. N \in 1 .. N
      BY <1>5
    <3> QED
      BY <1>3, <2>3, <3>1
  <2>12. g = [r \in 1 .. Cardinality(P) |-> g[r]]
    BY DEF g
  <2> HIDE DEF f, F
  <2> QED
    BY <2>8, <2>10, <2>11, <2>12 DEF t, g
<1> QED
  BY <1>4, <1>5

(* Two rows have one signature exactly when their cells are equal.         *)
LEMMA SignaturesTell ==
  ASSUME NEW x, NEW y, NEW C
  PROVE  /\ Signature(x, C) = Signature(y, C) <=> \A c \in C : x[c] = y[c]
         /\ NotDistinct(x, y, C) <=> Signature(x, C) = Signature(y, C)
<1>1. ASSUME Signature(x, C) = Signature(y, C), NEW c \in C
      PROVE  x[c] = y[c]
  <2>1. Signature(x, C)[c] = x[c] /\ Signature(y, C)[c] = y[c]
    BY DEF Signature
  <2> QED
    BY <1>1, <2>1
<1>2. ASSUME \A c \in C : x[c] = y[c]
      PROVE  Signature(x, C) = Signature(y, C)
  BY <1>2 DEF Signature
<1> QED
  BY <1>1, <1>2 DEF NotDistinct

(* The conflicts are the pairs of the only rows of a key whose payloads    *)
(* differ.                                                                 *)
LEMMA ConflictsTell ==
  ASSUME NEW R, NEW left \in Seq(R), NEW S, NEW right \in Seq(S), NEW keys
  PROVE  /\ \A p \in ConflictPairs(left, right, keys) : p = <<p[1], p[2]>>
         /\ \A i, j : <<i, j>> \in ConflictPairs(left, right, keys)
                <=> /\ i \in RowIndexes(left) /\ j \in RowIndexes(right)
                    /\ RowsWith(left, keys, Signature(RowAt(left, i), keys)) = {i}
                    /\ RowsWith(right, keys, Signature(RowAt(left, i), keys)) = {j}
                    /\ ConflictColumns(RowAt(left, i), RowAt(right, j), keys) # {}
<1>1. \A p \in ConflictPairs(left, right, keys) : p = <<p[1], p[2]>>
  BY DEF ConflictPairs
<1>2. \A x, y : Signature(x, Payload(keys)) # Signature(y, Payload(keys))
                    <=> ConflictColumns(x, y, keys) # {}
  <2> TAKE x, y
  <2>1. ASSUME Signature(x, Payload(keys)) = Signature(y, Payload(keys)), NEW c \in Payload(keys)
        PROVE  x[c] = y[c]
    <3>1. Signature(x, Payload(keys))[c] = x[c] /\ Signature(y, Payload(keys))[c] = y[c]
      BY DEF Signature
    <3> QED
      BY <2>1, <3>1
  <2>2. ASSUME \A c \in Payload(keys) : x[c] = y[c]
        PROVE  Signature(x, Payload(keys)) = Signature(y, Payload(keys))
    BY <2>2 DEF Signature
  <2> QED
    BY <2>1, <2>2 DEF ConflictColumns
<1>3. ASSUME NEW D, NEW data \in Seq(D), NEW k \in UniqueKeys(data, keys)
      PROVE  /\ RowsWith(data, keys, k) = {Min(RowsWith(data, keys, k))}
             /\ Min(RowsWith(data, keys, k)) \in RowIndexes(data)
             /\ Signature(RowAt(data, Min(RowsWith(data, keys, k))), keys) = k
  <2> DEFINE i == Min(RowsWith(data, keys, k))
  <2>1. i \in RowsWith(data, keys, k) /\ \A j \in RowsWith(data, keys, k) : j = i
    BY RowsOfKeys, GroupsOfOne DEF UniqueKeys
  <2> HIDE DEF i
  <2>2. RowsWith(data, keys, k) = {i}
    BY <2>1
  <2>3. i \in RowIndexes(data) /\ Signature(RowAt(data, i), keys) = k
    BY <2>1 DEF RowsWith
  <2> QED
    BY <2>2, <2>3 DEF i
<1>4. ASSUME NEW i, NEW j, <<i, j>> \in ConflictPairs(left, right, keys)
      PROVE  /\ i \in RowIndexes(left) /\ j \in RowIndexes(right)
             /\ RowsWith(left, keys, Signature(RowAt(left, i), keys)) = {i}
             /\ RowsWith(right, keys, Signature(RowAt(left, i), keys)) = {j}
             /\ ConflictColumns(RowAt(left, i), RowAt(right, j), keys) # {}
  <2>1. PICK k \in ConflictKeys(left, right, keys) :
            i = Min(RowsWith(left, keys, k)) /\ j = Min(RowsWith(right, keys, k))
    BY <1>4 DEF ConflictPairs
  <2>2. k \in UniqueKeys(left, keys) /\ k \in UniqueKeys(right, keys)
    BY <2>1 DEF ConflictKeys
  <2>3. /\ RowsWith(left, keys, k) = {i} /\ i \in RowIndexes(left)
        /\ Signature(RowAt(left, i), keys) = k
        /\ RowsWith(right, keys, k) = {j} /\ j \in RowIndexes(right)
    BY <1>3, <2>1, <2>2
  <2>4. ConflictColumns(RowAt(left, i), RowAt(right, j), keys) # {}
    BY <1>2, <2>1 DEF ConflictKeys
  <2> QED
    BY <2>3, <2>4
<1>5. ASSUME NEW i \in RowIndexes(left), NEW j \in RowIndexes(right),
             RowsWith(left, keys, Signature(RowAt(left, i), keys)) = {i},
             RowsWith(right, keys, Signature(RowAt(left, i), keys)) = {j},
             ConflictColumns(RowAt(left, i), RowAt(right, j), keys) # {}
      PROVE  <<i, j>> \in ConflictPairs(left, right, keys)
  <2> DEFINE k == Signature(RowAt(left, i), keys)
  <2>1. RowsWith(left, keys, k) = {i} /\ RowsWith(right, keys, k) = {j}
    BY <1>5
  <2>2. k \in KeysOf(left, keys)
    BY DEF KeysOf
  <2>3. k \in KeysOf(right, keys)
    BY <2>1 DEF RowsWith, KeysOf
  <2> HIDE DEF k
  <2>4. k \in UniqueKeys(left, keys) /\ k \in UniqueKeys(right, keys)
    BY <2>1, <2>2, <2>3, FS_Singleton DEF UniqueKeys
  <2>5. Min(RowsWith(left, keys, k)) = i /\ Min(RowsWith(right, keys, k)) = j
    BY <2>1, RowsOfDataset, LeastOfOne
  <2>6. k \in ConflictKeys(left, right, keys)
    BY <1>2, <1>5, <2>4, <2>5 DEF ConflictKeys
  <2> QED
    BY <2>5, <2>6 DEF ConflictPairs
<1> QED
  BY <1>1, <1>4, <1>5

(* The rows in conflict, and the row each is in conflict with.             *)
ConflictRows(left, right, keys) == {p[1] : p \in ConflictPairs(left, right, keys)}
Partner(left, right, keys, i) == Marks(ConflictPairs(left, right, keys))[i]

(* Every row in conflict has one partner.                                  *)
LEMMA PartnersTell ==
  ASSUME NEW R, NEW left \in Seq(R), NEW S, NEW right \in Seq(S), NEW keys
  PROVE  /\ DOMAIN Marks(ConflictPairs(left, right, keys)) = ConflictRows(left, right, keys)
         /\ ConflictRows(left, right, keys) \in SUBSET RowIndexes(left)
         /\ \A i \in ConflictRows(left, right, keys) :
                /\ Partner(left, right, keys, i) \in RowIndexes(right)
                /\ <<i, Partner(left, right, keys, i)>> \in ConflictPairs(left, right, keys)
         /\ \A i, j : <<i, j>> \in ConflictPairs(left, right, keys)
                => i \in ConflictRows(left, right, keys) /\ Partner(left, right, keys, i) = j
<1> DEFINE pairs == ConflictPairs(left, right, keys)
           rows == ConflictRows(left, right, keys)
<1>1. DOMAIN Marks(pairs) = rows
  BY DEF Marks, ConflictRows
<1>2. \A p \in pairs : /\ p = <<p[1], p[2]>> /\ p[1] \in RowIndexes(left) /\ p[2] \in RowIndexes(right)
                       /\ RowsWith(right, keys, Signature(RowAt(left, p[1]), keys)) = {p[2]}
  BY ConflictsTell
<1>3. ASSUME NEW i \in rows
      PROVE  <<i, Partner(left, right, keys, i)>> \in pairs
  <2> DEFINE c == CHOOSE p \in pairs : p[1] = i
  <2>1. c \in pairs /\ c[1] = i
    BY DEF ConflictRows
  <2>2. Partner(left, right, keys, i) = c[2]
    BY DEF Partner, Marks, ConflictRows
  <2> HIDE DEF c, pairs
  <2>3. c = <<i, c[2]>>
    BY <1>2, <2>1
  <2> QED
    BY <2>1, <2>2, <2>3
<1>4. rows \in SUBSET RowIndexes(left)
  BY <1>2 DEF ConflictRows
<1>5. ASSUME NEW i \in rows
      PROVE  Partner(left, right, keys, i) \in RowIndexes(right)
  BY <1>3, ConflictsTell
<1>6. ASSUME NEW i, NEW j, <<i, j>> \in pairs
      PROVE  i \in rows /\ Partner(left, right, keys, i) = j
  <2>1. i \in rows
    BY <1>6 DEF ConflictRows
  <2>2. <<i, Partner(left, right, keys, i)>> \in pairs
    BY <1>3, <2>1
  <2>3. /\ RowsWith(right, keys, Signature(RowAt(left, i), keys)) = {j}
        /\ RowsWith(right, keys, Signature(RowAt(left, i), keys)) = {Partner(left, right, keys, i)}
    BY <1>6, <2>2, ConflictsTell
  <2> QED
    BY <2>1, <2>3
<1> QED
  BY <1>1, <1>3, <1>4, <1>5, <1>6

(* It is the only row of that key on the other side.                       *)
LEMMA OnlyPartner ==
  ASSUME NEW R, NEW left \in Seq(R), NEW S, NEW right \in Seq(S), NEW keys,
         NEW i \in ConflictRows(left, right, keys), NEW j, j = Partner(left, right, keys, i)
  PROVE  /\ RowsWith(left, keys, Signature(RowAt(left, i), keys)) = {i}
         /\ RowsWith(right, keys, Signature(RowAt(left, i), keys)) = {j}
         /\ j \in RowIndexes(right)
         /\ ConflictColumns(RowAt(left, i), RowAt(right, j), keys) # {}
<1>1. <<i, j>> \in ConflictPairs(left, right, keys)
  BY PartnersTell
<1> QED
  BY <1>1, ConflictsTell

(* The conflict of a row, and the list of the conflicts.                   *)
ConflictOf(left, right, keys, i) ==
    LET j == Partner(left, right, keys, i)
    IN [currentRow  |-> i,
        comparedRow |-> j,
        key         |-> Signature(RowAt(left, i), keys),
        cells       |-> [c \in ConflictColumns(RowAt(left, i), RowAt(right, j), keys) |->
                            <<RowAt(left, i)[c], RowAt(right, j)[c]>>]]

ConflictList(left, right, keys) ==
    [n \in 1 .. Cardinality(ConflictRows(left, right, keys)) |->
        ConflictOf(left, right, keys, NthOf(ConflictRows(left, right, keys), n))]

(* The second pass writes the list, whatever it reads the two rows from.   *)
LEMMA ListFromMarks ==
  ASSUME NEW R, NEW left \in Seq(R), NEW S, NEW right \in Seq(S), NEW keys
  PROVE  FlattenSeq([n \in 1 .. Len(left) |->
                        IF n - 1 \in ConflictRows(left, right, keys)
                        THEN <<ConflictOf(left, right, keys, n - 1)>> ELSE <<>>])
            = ConflictList(left, right, keys)
<1> DEFINE P == ConflictRows(left, right, keys)
           e == [i \in P |-> ConflictOf(left, right, keys, i)]
           N == Len(left)
           t == [n \in 1 .. N |-> IF n - 1 \in P
                                   THEN <<ConflictOf(left, right, keys, n - 1)>> ELSE <<>>]
           u == [n \in 1 .. N |-> IF n - 1 \in P THEN <<e[n - 1]>> ELSE <<>>]
<1>1. N \in Nat /\ P \in SUBSET (0 .. N - 1)
  BY PartnersTell DEF RowIndexes
<1>2. \A i \in P : e[i] = ConflictOf(left, right, keys, i)
  OBVIOUS
<1> HIDE DEF e, P
<1>3. t = u
  BY <1>2
<1>4. FlattenSeq(u) = [n \in 1 .. Cardinality(P) |-> e[NthOf(P, n)]]
  <2> HIDE DEF N
  <2> QED
    BY <1>1, FlattenMarks
<1>5. \A n \in 1 .. Cardinality(P) : e[NthOf(P, n)] = ConflictOf(left, right, keys, NthOf(P, n))
  <2>1. IsFiniteSet(P) /\ P \in SUBSET Nat
    <3>1. P \in SUBSET RowIndexes(left)
      BY PartnersTell DEF P
    <3> QED
      BY <3>1, FinitelyManyRows, RowsOfDataset, FS_Subset
  <2> QED
    BY <1>2, <2>1, NthElement
<1>6. FlattenSeq(t) = [n \in 1 .. Cardinality(P) |-> ConflictOf(left, right, keys, NthOf(P, n))]
  <2> HIDE DEF t, u
  <2> QED
    BY <1>3, <1>4, <1>5
<1> QED
  BY <1>6 DEF ConflictList, P

(* The conflict that a route builds from the two rows is the one of the    *)
(* row.                                                                    *)
LEMMA BuiltConflict ==
  ASSUME NEW R, NEW left \in Seq(R), NEW S, NEW right \in Seq(S), NEW keys,
         NEW i \in ConflictRows(left, right, keys),
         NEW x, NEW y, x = RowAt(left, i), y = RowAt(right, Partner(left, right, keys, i))
  PROVE  BuildConflict(x, y, i, Partner(left, right, keys, i), keys)
            = <<ConflictOf(left, right, keys, i)>>
<1>1. ConflictColumns(x, y, keys) # {}
  BY PartnersTell, ConflictsTell
<1> QED
  BY <1>1 DEF BuildConflict, ConflictOf

(* The three lists of conflicts are the list of the conflicts.             *)
LEMMA ListsAreConflicts ==
  ASSUME NEW R, NEW left \in Seq(R), NEW S, NEW right \in Seq(S), NEW keys, KeysFall(left, keys)
  PROVE  /\ FrameConflicts(left, right, keys) = ConflictList(left, right, keys)
         /\ ParquetConflicts(left, right, keys) = ConflictList(left, right, keys)
         /\ ConflictsBetweenParquet(left, right, keys) = ConflictList(left, right, keys)
<1> DEFINE N == Len(left)
           marks == Marks(ConflictPairs(left, right, keys))
           P == ConflictRows(left, right, keys)
           t == [n \in 1 .. N |-> IF n - 1 \in P
                                   THEN <<ConflictOf(left, right, keys, n - 1)>> ELSE <<>>]
<1>1. FlattenSeq(t) = ConflictList(left, right, keys)
  BY ListFromMarks
<1>2. DOMAIN marks = P /\ \A i \in P : marks[i] = Partner(left, right, keys, i)
  BY PartnersTell, Zenon DEF Partner
<1>3. \A i \in P : i \in RowIndexes(left) /\ marks[i] \in RowIndexes(right)
  <2>1. \A i \in P : i \in RowIndexes(left) /\ Partner(left, right, keys, i) \in RowIndexes(right)
    BY PartnersTell
  <2> QED
    BY <1>2, <2>1, Zenon
<1>4. FrameConflicts(left, right, keys) = ConflictList(left, right, keys)
  <2> DEFINE u == [n \in 1 .. N |-> IF n - 1 \in DOMAIN marks
                    THEN BuildConflict(RowAt(left, n - 1), RowAt(right, marks[n - 1]),
                                       n - 1, marks[n - 1], keys) ELSE <<>>]
  <2>1. FrameConflicts(left, right, keys) = FlattenSeq(u)
    BY FramePairsAreConflicts DEF FrameConflicts, ReadMarks
  <2>2. \A i \in P : BuildConflict(RowAt(left, i), RowAt(right, marks[i]), i, marks[i], keys)
                        = <<ConflictOf(left, right, keys, i)>>
    BY <1>2, BuiltConflict
  <2>3. u = t
    <3> HIDE DEF marks, P
    <3> QED
      BY <1>2, <2>2
  <2> QED
    BY <1>1, <2>1, <2>3
<1>5. ParquetConflicts(left, right, keys) = ConflictList(left, right, keys)
  <2> DEFINE u == [n \in 1 .. N |-> IF n - 1 \in DOMAIN marks
                    THEN BuildConflict(RowAt(left, n - 1), ComparedRowInBlock(right, marks[n - 1]),
                                       n - 1, marks[n - 1], keys) ELSE <<>>]
  <2>1. ParquetConflicts(left, right, keys) = FlattenSeq(u)
    BY BlockPairsAreConflicts DEF ParquetConflicts, ReadMarks
  <2>2. \A i \in P : BuildConflict(RowAt(left, i), ComparedRowInBlock(right, marks[i]),
                                   i, marks[i], keys)
                        = <<ConflictOf(left, right, keys, i)>>
    BY <1>2, <1>3, BuiltConflict, RowReadFromItsBlock
  <2>3. u = t
    <3> HIDE DEF marks, P
    <3> QED
      BY <1>2, <2>2
  <2> QED
    BY <1>1, <2>1, <2>3
<1>6. CASE Payload(keys) # {}
  <2> DEFINE u == [n \in 1 .. N |-> IF n - 1 \in DOMAIN marks
                    THEN BuildConflict(ComparedRowInBlock(left, n - 1),
                                       ComparedRowInBlock(right, marks[n - 1]),
                                       n - 1, marks[n - 1], keys) ELSE <<>>]
  <2>1. ConflictsBetweenParquet(left, right, keys) = FlattenSeq(u)
    BY <1>6, FilePairsAreConflicts DEF ConflictsBetweenParquet, ReadMarks
  <2>2. \A i \in P : BuildConflict(ComparedRowInBlock(left, i), ComparedRowInBlock(right, marks[i]),
                                   i, marks[i], keys)
                        = <<ConflictOf(left, right, keys, i)>>
    BY <1>2, <1>3, BuiltConflict, RowReadFromItsBlock
  <2>3. u = t
    <3> HIDE DEF marks, P
    <3> QED
      BY <1>2, <2>2
  <2> QED
    BY <1>1, <1>4, <1>5, <2>1, <2>3
<1>7. CASE Payload(keys) = {}
  <2>1. ConflictsBetweenParquet(left, right, keys) = <<>>
    BY <1>7 DEF ConflictsBetweenParquet
  <2>2. ASSUME NEW i \in P PROVE FALSE
    <3> DEFINE j == Partner(left, right, keys, i)
    <3>1. <<i, j>> \in ConflictPairs(left, right, keys)
      BY PartnersTell
    <3>2. ConflictColumns(RowAt(left, i), RowAt(right, j), keys) # {}
      BY <3>1, ConflictsTell
    <3> QED
      BY <1>7, <3>2, Zenon DEF ConflictColumns
  <2>3. Cardinality(P) = 0
    BY <2>2, FS_EmptySet
  <2>4. ConflictList(left, right, keys) = <<>>
    BY <2>3 DEF ConflictList
  <2> QED
    BY <1>4, <1>5, <2>1, <2>4
<1> QED
  BY <1>6, <1>7

-----------------------------------------------------------------------------
(* The review.                                                             *)

(* The two ways of writing an index write the same one.                    *)
LEMMA SpilledAlike ==
  ASSUME NEW R, NEW data \in Seq(R), NEW cols
  PROVE  SpillParquetRows(data, cols) = SpillKeyRows(data, cols)
<1>1. ASSUME NEW r \in SpillParquetRows(data, cols)
      PROVE  r = [bucket |-> r.bucket, key |-> r.key, row |-> r.row]
  <2>1. PICK start \in BlockStarts(data) :
            \E s \in SpillKeyRows(BlockAt(data, start), cols) :
                r = [s EXCEPT !.row = start + s.row]
    BY DEF SpillParquetRows
  <2>2. PICK s \in SpillKeyRows(BlockAt(data, start), cols) :
            r = [s EXCEPT !.row = start + s.row]
    BY <2>1
  <2>3. s = [bucket |-> s.bucket, key |-> s.key, row |-> s.row]
    BY DEF SpillKeyRows
  <2>4. r = [bucket |-> s.bucket, key |-> s.key, row |-> start + s.row]
    BY <2>2, <2>3
  <2> QED
    BY <2>4
<1>2. \A r \in SpillParquetRows(data, cols) :
        /\ r.row \in RowIndexes(data) /\ r.key = Signature(RowAt(data, r.row), cols)
        /\ r.bucket = BucketOf(r.key)
  BY FileIsIndexed DEF Indexes
<1>3. ASSUME NEW r \in SpillParquetRows(data, cols)
      PROVE  r \in SpillKeyRows(data, cols)
  <2>1. r = [bucket |-> BucketOf(Signature(RowAt(data, r.row), cols)),
             key |-> Signature(RowAt(data, r.row), cols), row |-> r.row]
    BY <1>1, <1>2
  <2> QED
    BY <1>2, <2>1 DEF SpillKeyRows
<1>4. ASSUME NEW r \in SpillKeyRows(data, cols)
      PROVE  r \in SpillParquetRows(data, cols)
  <2>1. PICK i \in RowIndexes(data) :
            r = [bucket |-> BucketOf(Signature(RowAt(data, i), cols)),
                 key |-> Signature(RowAt(data, i), cols), row |-> i]
    BY DEF SpillKeyRows
  <2>2. PICK s \in SpillParquetRows(data, cols) : s.row = i
    BY FileIsIndexed DEF Indexes
  <2>3. s = r
    BY <1>1, <1>2, <2>1, <2>2
  <2> QED
    BY <2>2, <2>3
<1> QED
  BY <1>3, <1>4

(* What a summary counts in a bucket.                                      *)
KeysMatched(l, r) == {k \in DOMAIN l \cup DOMAIN r : k \in DOMAIN l \cap DOMAIN r}
KeysOnlyIn(l, r) == {k \in DOMAIN l \cup DOMAIN r : k \notin DOMAIN r}
KeysRepeated(l, r) ==
    {k \in DOMAIN l \cup DOMAIN r :
        \/ k \in DOMAIN l /\ l[k].count > 1
        \/ k \in DOMAIN r /\ r[k].count > 1 /\ (k \in DOMAIN l => l[k].count <= 1)}

(* The summaries of two sides, from their groups.                          *)
SummaryOf(left, right, keys) ==
    LET l(b) == Groups(left, keys, b)
        r(b) == Groups(right, keys, b)
    IN [matched      |-> SumFunction([b \in Buckets |-> Cardinality(KeysMatched(l(b), r(b)))]),
        currentOnly  |-> SumFunction([b \in Buckets |-> Cardinality(KeysOnlyIn(l(b), r(b)))]),
        comparedOnly |-> SumFunction([b \in Buckets |-> Cardinality(KeysOnlyIn(r(b), l(b)))]),
        conflicting  |-> SumFunction([b \in Buckets |->
                            Cardinality({k \in ConflictKeys(left, right, keys) : BucketOf(k) = b})]),
        duplicate    |-> SumFunction([b \in Buckets |-> Cardinality(KeysRepeated(l(b), r(b)))])]

(* The summary of the frames is the one of the groups,                     *)
LEMMA FrameSummary ==
  ASSUME NEW left, NEW right, NEW keys
  PROVE  CompareKeyedFrames(left, right, keys) = SummaryOf(left, right, keys)
<1> DEFINE l(b) == Groups(left, keys, b)
           r(b) == Groups(right, keys, b)
           lk(b) == KeyGroups(SpillKeyRows(left, keys), b)
           rk(b) == KeyGroups(SpillKeyRows(right, keys), b)
           Conflicting(b) ==
                {k \in DOMAIN lk(b) \cup DOMAIN rk(b) :
                    /\ UniqueInBoth(lk(b), rk(b), k)
                    /\ Signature(RowAt(left, lk(b)[k].first), Payload(keys))
                         # Signature(RowAt(right, rk(b)[k].first), Payload(keys))}
           OnlyRight(b) == {k \in DOMAIN lk(b) \cup DOMAIN rk(b) : k \notin DOMAIN lk(b)}
<1>1. CompareKeyedFrames(left, right, keys) =
        [matched      |-> SumFunction([b \in Buckets |-> Cardinality(KeysMatched(lk(b), rk(b)))]),
         currentOnly  |-> SumFunction([b \in Buckets |-> Cardinality(KeysOnlyIn(lk(b), rk(b)))]),
         comparedOnly |-> SumFunction([b \in Buckets |-> Cardinality(OnlyRight(b))]),
         conflicting  |-> SumFunction([b \in Buckets |-> Cardinality(Conflicting(b))]),
         duplicate    |-> SumFunction([b \in Buckets |-> Cardinality(KeysRepeated(lk(b), rk(b)))])]
  BY DEF CompareKeyedFrames, Summary, KeysMatched, KeysOnlyIn, KeysRepeated
<1>2. \A b : lk(b) = l(b) /\ rk(b) = r(b)
  BY GroupsOfIndex, FrameIsIndexed
<1>3. \A b : OnlyRight(b) = KeysOnlyIn(r(b), l(b))
  <2> HIDE DEF lk, rk, l, r
  <2> QED
    BY <1>2 DEF KeysOnlyIn
<1>4. ASSUME NEW b
      PROVE  Conflicting(b) = {k \in ConflictKeys(left, right, keys) : BucketOf(k) = b}
  <2>1. ASSUME NEW k, UniqueInBoth(lk(b), rk(b), k)
        PROVE  /\ k \in UniqueKeys(left, keys) \cap UniqueKeys(right, keys) /\ BucketOf(k) = b
               /\ lk(b)[k].first = Min(RowsWith(left, keys, k))
               /\ rk(b)[k].first = Min(RowsWith(right, keys, k))
               /\ k \in DOMAIN lk(b)
    <3>1. UniqueInBoth(l(b), r(b), k)
      BY <1>2, <2>1
    <3>2. k \in UniqueKeys(left, keys) \cap UniqueKeys(right, keys) /\ BucketOf(k) = b
      BY <3>1, UniqueInGroups
    <3>3. /\ l(b)[k].first = Min(RowsWith(left, keys, k))
          /\ r(b)[k].first = Min(RowsWith(right, keys, k)) /\ k \in DOMAIN l(b)
      BY <3>2 DEF Groups, UniqueKeys
    <3> HIDE DEF l, r, lk, rk
    <3> QED
      BY <1>2, <3>2, <3>3
  <2>2. ASSUME NEW k \in ConflictKeys(left, right, keys), BucketOf(k) = b
        PROVE  UniqueInBoth(lk(b), rk(b), k)
    <3>1. UniqueInBoth(l(b), r(b), k)
      BY <2>2, UniqueInGroups DEF ConflictKeys
    <3> HIDE DEF l, r, lk, rk
    <3> QED
      BY <1>2, <3>1
  <2> HIDE DEF l, r, lk, rk
  <2>3. ASSUME NEW k \in Conflicting(b)
        PROVE  k \in ConflictKeys(left, right, keys) /\ BucketOf(k) = b
    BY <2>1 DEF ConflictKeys
  <2>4. ASSUME NEW k \in ConflictKeys(left, right, keys), BucketOf(k) = b
        PROVE  k \in Conflicting(b)
    BY <2>1, <2>2, <2>4 DEF ConflictKeys
  <2> HIDE DEF Conflicting
  <2> QED
    BY <2>3, <2>4
<1> HIDE DEF l, r, lk, rk, Conflicting, OnlyRight
<1>5. CompareKeyedFrames(left, right, keys) =
        [matched      |-> SumFunction([b \in Buckets |-> Cardinality(KeysMatched(l(b), r(b)))]),
         currentOnly  |-> SumFunction([b \in Buckets |-> Cardinality(KeysOnlyIn(l(b), r(b)))]),
         comparedOnly |-> SumFunction([b \in Buckets |-> Cardinality(KeysOnlyIn(r(b), l(b)))]),
         conflicting  |-> SumFunction([b \in Buckets |->
                            Cardinality({k \in ConflictKeys(left, right, keys) : BucketOf(k) = b})]),
         duplicate    |-> SumFunction([b \in Buckets |-> Cardinality(KeysRepeated(l(b), r(b)))])]
  BY <1>1, <1>2, <1>3, <1>4, Zenon
<1> QED
  BY <1>5 DEF SummaryOf, l, r

(* and so is the summary of the files.                                     *)
LEMMA FileSummary ==
  ASSUME NEW R, NEW left \in Seq(R), NEW S, NEW right \in Seq(S), NEW keys
  PROVE  CompareKeyedSources(left, right, keys) = SummaryOf(left, right, keys)
<1> DEFINE l(b) == Groups(left, keys, b)
           r(b) == Groups(right, keys, b)
           lp(b) == KeyPayloadGroups(SpillKeyPayloadRows(left, keys), b)
           rp(b) == KeyPayloadGroups(SpillKeyPayloadRows(right, keys), b)
           Conflicting(b) == {k \in DOMAIN lp(b) \cup DOMAIN rp(b) :
                                UniqueInBoth(lp(b), rp(b), k) /\ lp(b)[k].payload # rp(b)[k].payload}
           OnlyRight(b) == {k \in DOMAIN lp(b) \cup DOMAIN rp(b) : k \notin DOMAIN lp(b)}
<1>1. CompareKeyedSources(left, right, keys) =
        [matched      |-> SumFunction([b \in Buckets |-> Cardinality(KeysMatched(lp(b), rp(b)))]),
         currentOnly  |-> SumFunction([b \in Buckets |-> Cardinality(KeysOnlyIn(lp(b), rp(b)))]),
         comparedOnly |-> SumFunction([b \in Buckets |-> Cardinality(OnlyRight(b))]),
         conflicting  |-> SumFunction([b \in Buckets |-> Cardinality(Conflicting(b))]),
         duplicate    |-> SumFunction([b \in Buckets |-> Cardinality(KeysRepeated(lp(b), rp(b)))])]
  BY DEF CompareKeyedSources, Summary, KeysMatched, KeysOnlyIn, KeysRepeated
<1>2. \A b, k : /\ DOMAIN lp(b) = DOMAIN l(b) /\ DOMAIN rp(b) = DOMAIN r(b)
                /\ \A q \in DOMAIN lp(b) : lp(b)[q].count = l(b)[q].count
                /\ \A q \in DOMAIN rp(b) : rp(b)[q].count = r(b)[q].count
                /\ UniqueInBoth(lp(b), rp(b), k)
                    <=> /\ k \in UniqueKeys(left, keys) \cap UniqueKeys(right, keys)
                        /\ BucketOf(k) = b
  <2> TAKE b, k
  <2>1. DOMAIN lp(b) = DOMAIN l(b) /\ \A q \in DOMAIN lp(b) : lp(b)[q].count = l(b)[q].count
    BY CountsOfPayloadGroups
  <2>2. DOMAIN rp(b) = DOMAIN r(b) /\ \A q \in DOMAIN rp(b) : rp(b)[q].count = r(b)[q].count
    BY CountsOfPayloadGroups
  <2>3. UniqueInBoth(lp(b), rp(b), k)
            <=> k \in UniqueKeys(left, keys) \cap UniqueKeys(right, keys) /\ BucketOf(k) = b
    BY UniqueInPayloadGroups
  <2> HIDE DEF l, r, lp, rp
  <2> QED
    BY <2>1, <2>2, <2>3
<1>3. ASSUME NEW b, NEW k \in UniqueKeys(left, keys) \cap UniqueKeys(right, keys), BucketOf(k) = b
      PROVE  /\ k \in DOMAIN lp(b)
             /\ lp(b)[k].payload = Signature(RowAt(left, Min(RowsWith(left, keys, k))), Payload(keys))
             /\ rp(b)[k].payload = Signature(RowAt(right, Min(RowsWith(right, keys, k))), Payload(keys))
  BY <1>3, PayloadOfGroup
<1> HIDE DEF l, r, lp, rp
<1>4. ASSUME NEW b
      PROVE  /\ KeysMatched(lp(b), rp(b)) = KeysMatched(l(b), r(b))
             /\ KeysOnlyIn(lp(b), rp(b)) = KeysOnlyIn(l(b), r(b))
             /\ OnlyRight(b) = KeysOnlyIn(r(b), l(b))
             /\ KeysRepeated(lp(b), rp(b)) = KeysRepeated(l(b), r(b))
  <2>1. DOMAIN lp(b) = DOMAIN l(b) /\ DOMAIN rp(b) = DOMAIN r(b)
    BY <1>2
  <2>2. /\ \A q \in DOMAIN lp(b) : lp(b)[q].count = l(b)[q].count
        /\ \A q \in DOMAIN rp(b) : rp(b)[q].count = r(b)[q].count
    BY <1>2
  <2>3. /\ KeysMatched(lp(b), rp(b)) = KeysMatched(l(b), r(b))
        /\ KeysOnlyIn(lp(b), rp(b)) = KeysOnlyIn(l(b), r(b))
        /\ OnlyRight(b) = KeysOnlyIn(r(b), l(b))
    BY <2>1 DEF KeysMatched, KeysOnlyIn
  <2>4. KeysRepeated(lp(b), rp(b)) = KeysRepeated(l(b), r(b))
    BY <2>1, <2>2 DEF KeysRepeated
  <2> QED
    BY <2>3, <2>4
<1>5. ASSUME NEW b
      PROVE  Conflicting(b) = {k \in ConflictKeys(left, right, keys) : BucketOf(k) = b}
  <2>1. ASSUME NEW k \in Conflicting(b)
        PROVE  k \in ConflictKeys(left, right, keys) /\ BucketOf(k) = b
    BY <1>2, <1>3 DEF ConflictKeys
  <2>2. ASSUME NEW k \in ConflictKeys(left, right, keys), BucketOf(k) = b
        PROVE  k \in Conflicting(b)
    <3>1. k \in UniqueKeys(left, keys) \cap UniqueKeys(right, keys)
      BY DEF ConflictKeys
    <3>2. UniqueInBoth(lp(b), rp(b), k)
      BY <1>2, <2>2, <3>1
    <3>3. lp(b)[k].payload # rp(b)[k].payload /\ k \in DOMAIN lp(b)
      BY <1>3, <2>2, <3>1 DEF ConflictKeys
    <3> QED
      BY <3>2, <3>3
  <2> HIDE DEF Conflicting
  <2> QED
    BY <2>1, <2>2
<1> HIDE DEF Conflicting, OnlyRight
<1>6. CompareKeyedSources(left, right, keys) =
        [matched      |-> SumFunction([b \in Buckets |-> Cardinality(KeysMatched(l(b), r(b)))]),
         currentOnly  |-> SumFunction([b \in Buckets |-> Cardinality(KeysOnlyIn(l(b), r(b)))]),
         comparedOnly |-> SumFunction([b \in Buckets |-> Cardinality(KeysOnlyIn(r(b), l(b)))]),
         conflicting  |-> SumFunction([b \in Buckets |->
                            Cardinality({k \in ConflictKeys(left, right, keys) : BucketOf(k) = b})]),
         duplicate    |-> SumFunction([b \in Buckets |-> Cardinality(KeysRepeated(l(b), r(b)))])]
  BY <1>1, <1>4, <1>5, Zenon
<1> QED
  BY <1>6 DEF SummaryOf, l, r

(* Whichever rows and keys are compared, the files report what the frames  *)
(* report.                                                                 *)
LEMMA ReportsAgree ==
  ASSUME NEW R, NEW left \in Seq(R), NEW S, NEW right \in Seq(S), NEW keys,
         KeysFall(left, keys), NEW preview
  PROVE  CompareFrames(left, right, keys, preview) = CompareParquetSources(left, right, keys, preview)
<1>1. CommonRowsBetweenParquet(left, right)
        = CommonRowCount(SpillKeyRows(left, Columns), SpillKeyRows(right, Columns))
  BY SpilledAlike DEF CommonRowsBetweenParquet
<1>2. CompareKeyedFrames(left, right, keys) = CompareKeyedSources(left, right, keys)
  BY FrameSummary, FileSummary
<1>3. FrameConflicts(left, right, keys) = ConflictsBetweenParquet(left, right, keys)
  BY ListsAreConflicts
<1> QED
  BY <1>1, <1>2, <1>3 DEF CompareFrames, CompareParquetSources

-----------------------------------------------------------------------------
(* The consolidation.                                                      *)

(* A sum adds the numbers up in some order.                                *)
LEMMA SumAdds ==
  ASSUME NEW T, IsFiniteSet(T), NEW b \in [T -> Nat]
  PROVE  \E f : Adds(f, b, T) /\ SumFunction(b) = f[T]
<1> DEFINE Iter(g) == g = [s \in SUBSET T |->
                             IF s = {} THEN 0
                             ELSE LET x == CHOOSE y \in s : TRUE
                                  IN  b[x] + g[s \ {x}]]
<1>1. \A g : Iter(g) <=> Folds(g, b, T)
  BY DEF Folds
<1>2. SumFunction(b) = (CHOOSE g : Iter(g))[T]
  <2>1. DOMAIN b = T
    OBVIOUS
  <2> QED
    BY <2>1 DEF SumFunction, SumFunctionOnSet, FoldFunctionOnSet, MapThenFoldSet
<1> HIDE DEF Iter
<1>3. PICK f : Adds(f, b, T)
  BY SumExists
<1>4. Iter(f)
  BY <1>1, <1>3, SumFolds
<1>5. Folds(CHOOSE g : Iter(g), b, T)
  BY <1>1, <1>4
<1>6. SumFunction(b) = f[T]
  BY <1>2, <1>3, <1>5, FoldIsSum
<1> QED
  BY <1>3, <1>6

(* A sum over the buckets is positive exactly when a bucket counts.        *)
LEMMA SumOverBuckets ==
  ASSUME NEW b \in [Buckets -> Nat]
  PROVE  SumFunction(b) \in Nat /\ (SumFunction(b) > 0 <=> \E x \in Buckets : b[x] > 0)
<1>1. IsFiniteSet(Buckets)
  BY ComparisonAssumption DEF ComparisonAssumption
<1>2. PICK f : Adds(f, b, Buckets) /\ SumFunction(b) = f[Buckets]
  BY <1>1, SumAdds
<1> QED
  BY <1>1, <1>2, SumIsPositive

(* A dataset has finitely many keys.                                       *)
LEMMA FinitelyManyKeys ==
  ASSUME NEW R, NEW data \in Seq(R), NEW cols
  PROVE  IsFiniteSet(KeysOf(data, cols))
<1> DEFINE f == [i \in RowIndexes(data) |-> Signature(RowAt(data, i), cols)]
<1>1. f \in Surjection(RowIndexes(data), KeysOf(data, cols))
  BY DEF KeysOf, Surjection
<1> HIDE DEF f
<1> QED
  BY <1>1, FinitelyManyRows, FS_Surjection

(* The keys counted in the buckets are some when a bucket has one of them. *)
LEMMA CountOverBuckets ==
  ASSUME NEW K, IsFiniteSet(K), NEW s \in [Buckets -> SUBSET K]
  PROVE  /\ SumFunction([b \in Buckets |-> Cardinality(s[b])]) \in Nat
         /\ SumFunction([b \in Buckets |-> Cardinality(s[b])]) > 0
                <=> \E b \in Buckets : s[b] # {}
<1> DEFINE c == [b \in Buckets |-> Cardinality(s[b])]
<1>1. ASSUME NEW b \in Buckets
      PROVE  /\ Cardinality(s[b]) \in Nat
             /\ Cardinality(s[b]) > 0 <=> s[b] # {}
  <2>1. IsFiniteSet(s[b])
    BY FS_Subset
  <2>2. Cardinality(s[b]) \in Nat /\ (Cardinality(s[b]) = 0 <=> s[b] = {})
    BY <2>1, FS_CardinalityType, FS_EmptySet
  <2> QED
    BY <2>2
<1>2. c \in [Buckets -> Nat] /\ \A b \in Buckets : c[b] > 0 <=> s[b] # {}
  BY <1>1
<1> HIDE DEF c
<1>3. SumFunction(c) \in Nat /\ (SumFunction(c) > 0 <=> \E b \in Buckets : s[b] # {})
  BY <1>2, SumOverBuckets
<1> QED
  BY <1>3 DEF c

(* Some key is that of several rows.                                       *)
Repeats(data, keys) == KeysOf(data, keys) # UniqueKeys(data, keys)

(* The repeated keys of a bucket are those that are not unique on a side.  *)
LEMMA RepeatedKeys ==
  ASSUME NEW R, NEW left \in Seq(R), NEW S, NEW right \in Seq(S), NEW keys, NEW b
  PROVE  /\ KeysRepeated(Groups(left, keys, b), Groups(right, keys, b))
                \subseteq KeysOf(left, keys) \cup KeysOf(right, keys)
         /\ KeysRepeated(Groups(left, keys, b), Groups(right, keys, b)) # {}
                <=> \E k : /\ BucketOf(k) = b
                           /\ \/ k \in KeysOf(left, keys) \ UniqueKeys(left, keys)
                              \/ k \in KeysOf(right, keys) \ UniqueKeys(right, keys)
<1> DEFINE l == Groups(left, keys, b)
           r == Groups(right, keys, b)
<1>1. /\ \A k : k \in DOMAIN l <=> k \in KeysOf(left, keys) /\ BucketOf(k) = b
      /\ \A k : k \in DOMAIN r <=> k \in KeysOf(right, keys) /\ BucketOf(k) = b
  BY DEF Groups
<1>2. ASSUME NEW k \in DOMAIN l
      PROVE  l[k].count \in Nat /\ (l[k].count > 1 <=> k \notin UniqueKeys(left, keys))
  <2>1. k \in KeysOf(left, keys) /\ l[k].count = Cardinality(RowsWith(left, keys, k))
    BY DEF Groups
  <2> QED
    BY <2>1, RowsOfKeys, GroupsOfOne DEF UniqueKeys
<1>3. ASSUME NEW k \in DOMAIN r
      PROVE  r[k].count \in Nat /\ (r[k].count > 1 <=> k \notin UniqueKeys(right, keys))
  <2>1. k \in KeysOf(right, keys) /\ r[k].count = Cardinality(RowsWith(right, keys, k))
    BY DEF Groups
  <2> QED
    BY <2>1, RowsOfKeys, GroupsOfOne DEF UniqueKeys
<1> HIDE DEF l, r
<1>4. ASSUME NEW k
      PROVE  k \in KeysRepeated(l, r)
                <=> /\ BucketOf(k) = b
                    /\ \/ k \in KeysOf(left, keys) \ UniqueKeys(left, keys)
                       \/ k \in KeysOf(right, keys) \ UniqueKeys(right, keys)
  <2>1. CASE k \in DOMAIN l /\ l[k].count > 1
    BY <1>1, <1>2, <2>1 DEF KeysRepeated
  <2>2. CASE k \in DOMAIN l /\ ~ (l[k].count > 1)
    <3>1. l[k].count <= 1
      BY <1>2, <2>2
    <3> QED
      BY <1>1, <1>2, <1>3, <2>2, <3>1 DEF KeysRepeated
  <2>3. CASE k \notin DOMAIN l
    BY <1>1, <1>3, <2>3 DEF KeysRepeated, UniqueKeys
  <2> QED
    BY <2>1, <2>2, <2>3
<1>5. KeysRepeated(l, r) \subseteq DOMAIN l \cup DOMAIN r
  BY DEF KeysRepeated
<1> QED
  BY <1>1, <1>4, <1>5 DEF l, r

(* A summary counts duplicates when a side has some, and conflicts when    *)
(* there are some.                                                         *)
LEMMA SummaryTells ==
  ASSUME NEW R, NEW left \in Seq(R), NEW S, NEW right \in Seq(S), NEW keys,
         KeysFall(left, keys), KeysFall(right, keys)
  PROVE  /\ SummaryOf(left, right, keys).duplicate > 0
                <=> Repeats(left, keys) \/ Repeats(right, keys)
         /\ SummaryOf(left, right, keys).conflicting > 0
                <=> ConflictKeys(left, right, keys) # {}
<1> DEFINE K == KeysOf(left, keys) \cup KeysOf(right, keys)
           Again(b) == KeysRepeated(Groups(left, keys, b), Groups(right, keys, b))
           Differing(b) == {k \in ConflictKeys(left, right, keys) : BucketOf(k) = b}
           again == [b \in Buckets |-> Again(b)]
           differing == [b \in Buckets |-> Differing(b)]
<1>1. IsFiniteSet(K)
  BY FinitelyManyKeys, FS_Union
<1>2. again \in [Buckets -> SUBSET K]
  <2>1. \A b \in Buckets : Again(b) \subseteq K
    BY RepeatedKeys
  <2> HIDE DEF Again, K
  <2> QED
    BY <2>1
<1>3. differing \in [Buckets -> SUBSET K]
  BY DEF ConflictKeys, UniqueKeys
<1>4. SummaryOf(left, right, keys).duplicate = SumFunction([b \in Buckets |-> Cardinality(again[b])])
  <2>1. [b \in Buckets |-> Cardinality(Again(b))] = [b \in Buckets |-> Cardinality(again[b])]
    OBVIOUS
  <2> HIDE DEF again
  <2> QED
    BY <2>1 DEF SummaryOf
<1>5. SummaryOf(left, right, keys).conflicting
        = SumFunction([b \in Buckets |-> Cardinality(differing[b])])
  <2>1. [b \in Buckets |-> Cardinality(Differing(b))] = [b \in Buckets |-> Cardinality(differing[b])]
    OBVIOUS
  <2> HIDE DEF differing
  <2> QED
    BY <2>1 DEF SummaryOf
<1>6. (\E b \in Buckets : again[b] # {}) <=> Repeats(left, keys) \/ Repeats(right, keys)
  <2>1. \A b \in Buckets : again[b] # {}
            <=> \E k : /\ BucketOf(k) = b
                       /\ \/ k \in KeysOf(left, keys) \ UniqueKeys(left, keys)
                          \/ k \in KeysOf(right, keys) \ UniqueKeys(right, keys)
    <3> TAKE b \in Buckets
    <3>1. again[b] = Again(b)
      OBVIOUS
    <3> HIDE DEF again
    <3> QED
      BY <3>1, RepeatedKeys
  <2>2. /\ UniqueKeys(left, keys) \subseteq KeysOf(left, keys)
        /\ UniqueKeys(right, keys) \subseteq KeysOf(right, keys)
    BY DEF UniqueKeys
  <2>3. /\ \A k \in KeysOf(left, keys) : BucketOf(k) \in Buckets
        /\ \A k \in KeysOf(right, keys) : BucketOf(k) \in Buckets
    BY DEF KeysFall
  <2> HIDE DEF again
  <2> QED
    BY <2>1, <2>2, <2>3 DEF Repeats
<1>7. (\E b \in Buckets : differing[b] # {}) <=> ConflictKeys(left, right, keys) # {}
  <2>1. \A k \in ConflictKeys(left, right, keys) : BucketOf(k) \in Buckets
    BY DEF ConflictKeys, UniqueKeys, KeysFall
  <2>2. \A b \in Buckets : differing[b] = Differing(b)
    OBVIOUS
  <2> HIDE DEF differing
  <2> QED
    BY <2>1, <2>2
<1> HIDE DEF K, again, differing
<1>8. /\ SumFunction([b \in Buckets |-> Cardinality(again[b])]) > 0 <=> \E b \in Buckets : again[b] # {}
      /\ SumFunction([b \in Buckets |-> Cardinality(differing[b])]) > 0
            <=> \E b \in Buckets : differing[b] # {}
  BY <1>1, <1>2, <1>3, CountOverBuckets
<1> QED
  BY <1>4, <1>5, <1>6, <1>7, <1>8

(* Rows are not distinct exactly when they have one signature.             *)
LEMMA RowsNotDistinct ==
  ASSUME NEW x, NEW y, NEW C
  PROVE  NotDistinct(x, y, C) <=> Signature(x, C) = Signature(y, C)
BY SignaturesTell

(* The query for duplicates finds some when a key is that of several rows. *)
LEMMA DuplicatesTell ==
  ASSUME NEW R, NEW data \in Seq(R), NEW keys
  PROVE  DuplicateGroups(data, keys) # {} <=> Repeats(data, keys)
<1>1. ASSUME DuplicateGroups(data, keys) # {}
      PROVE  Repeats(data, keys)
  <2>1. PICK i \in RowIndexes(data) : \E j \in RowIndexes(data) \ {i} :
            NotDistinct(RowAt(data, i), RowAt(data, j), keys)
    BY <1>1 DEF DuplicateGroups
  <2>2. PICK j \in RowIndexes(data) \ {i} : NotDistinct(RowAt(data, i), RowAt(data, j), keys)
    BY <2>1
  <2> DEFINE k == Signature(RowAt(data, i), keys)
  <2>3. Signature(RowAt(data, j), keys) = k
    BY <2>2, RowsNotDistinct
  <2>4. k \in KeysOf(data, keys) /\ i \in RowsWith(data, keys, k) /\ j \in RowsWith(data, keys, k)
    BY <2>3 DEF KeysOf, RowsWith
  <2> HIDE DEF k
  <2>5. k \notin UniqueKeys(data, keys)
    BY <2>2, <2>4, GroupsOfOne DEF UniqueKeys
  <2> QED
    BY <2>4, <2>5 DEF Repeats
<1>2. ASSUME Repeats(data, keys)
      PROVE  DuplicateGroups(data, keys) # {}
  <2>1. PICK k \in KeysOf(data, keys) : Cardinality(RowsWith(data, keys, k)) # 1
    BY <1>2 DEF Repeats, UniqueKeys
  <2>2. PICK i \in RowsWith(data, keys, k), j \in RowsWith(data, keys, k) : i # j
    BY <2>1, GroupsOfOne
  <2>3. /\ i \in RowIndexes(data) /\ j \in RowIndexes(data)
        /\ Signature(RowAt(data, i), keys) = Signature(RowAt(data, j), keys)
    BY DEF RowsWith
  <2>4. NotDistinct(RowAt(data, i), RowAt(data, j), keys)
    BY <2>3, RowsNotDistinct
  <2> QED
    BY <2>2, <2>3, <2>4 DEF DuplicateGroups
<1> QED
  BY <1>1, <1>2

(* Without duplicates, the query for conflicts finds some when there are.  *)
LEMMA ConflictsCounted ==
  ASSUME NEW R, NEW left \in Seq(R), NEW S, NEW right \in Seq(S), NEW keys,
         ~ Repeats(left, keys), ~ Repeats(right, keys)
  PROVE  Payload(keys) # {} /\ ConsolidationConflicts(left, right, keys) # {}
            <=> ConflictKeys(left, right, keys) # {}
<1>1. ASSUME ConflictKeys(left, right, keys) # {}
      PROVE  Payload(keys) # {} /\ ConsolidationConflicts(left, right, keys) # {}
  <2>1. PICK p : p \in ConflictPairs(left, right, keys)
    BY <1>1 DEF ConflictPairs
  <2>2. /\ p[1] \in RowIndexes(left) /\ p[2] \in RowIndexes(right) /\ p = <<p[1], p[2]>>
        /\ RowsWith(right, keys, Signature(RowAt(left, p[1]), keys)) = {p[2]}
        /\ ConflictColumns(RowAt(left, p[1]), RowAt(right, p[2]), keys) # {}
    BY <2>1, ConflictsTell
  <2>3. Signature(RowAt(left, p[1]), keys) = Signature(RowAt(right, p[2]), keys)
    BY <2>2 DEF RowsWith
  <2>4. NotDistinct(RowAt(left, p[1]), RowAt(right, p[2]), keys)
    BY <2>3, RowsNotDistinct
  <2>5. ~ NotDistinct(RowAt(left, p[1]), RowAt(right, p[2]), Payload(keys)) /\ Payload(keys) # {}
    BY <2>2 DEF NotDistinct, ConflictColumns
  <2>6. p \in RowIndexes(left) \X RowIndexes(right)
    BY <2>2
  <2> QED
    BY <2>4, <2>5, <2>6 DEF ConsolidationConflicts
<1>2. ASSUME ConsolidationConflicts(left, right, keys) # {}
      PROVE  ConflictKeys(left, right, keys) # {}
  <2>1. PICK p \in RowIndexes(left) \X RowIndexes(right) :
            /\ NotDistinct(RowAt(left, p[1]), RowAt(right, p[2]), keys)
            /\ ~ NotDistinct(RowAt(left, p[1]), RowAt(right, p[2]), Payload(keys))
    BY <1>2 DEF ConsolidationConflicts
  <2> DEFINE i == p[1]
             j == p[2]
             k == Signature(RowAt(left, i), keys)
  <2>2. i \in RowIndexes(left) /\ j \in RowIndexes(right)
    BY <2>1
  <2>3. Signature(RowAt(right, j), keys) = k
    BY <2>1, RowsNotDistinct
  <2>4. k \in KeysOf(left, keys) /\ k \in KeysOf(right, keys)
    BY <2>2, <2>3 DEF KeysOf
  <2>5. Cardinality(RowsWith(left, keys, k)) = 1 /\ Cardinality(RowsWith(right, keys, k)) = 1
    BY <2>4 DEF Repeats, UniqueKeys
  <2>6. i \in RowsWith(left, keys, k) /\ j \in RowsWith(right, keys, k)
    BY <2>2, <2>3 DEF RowsWith
  <2> HIDE DEF k, i, j
  <2>7. RowsWith(left, keys, k) = {i} /\ RowsWith(right, keys, k) = {j}
    <3>1. \A h \in RowsWith(left, keys, k) : h = i
      BY <2>4, <2>5, <2>6, GroupsOfOne
    <3>2. \A h \in RowsWith(right, keys, k) : h = j
      BY <2>4, <2>5, <2>6, GroupsOfOne
    <3> QED
      BY <2>6, <3>1, <3>2
  <2>8. ConflictColumns(RowAt(left, i), RowAt(right, j), keys) # {}
    BY <2>1 DEF NotDistinct, ConflictColumns, i, j
  <2>9. <<i, j>> \in ConflictPairs(left, right, keys)
    BY <2>2, <2>7, <2>8, ConflictsTell DEF k
  <2> QED
    BY <2>9 DEF ConflictPairs
<1> QED
  BY <1>1, <1>2

(* Both consolidations are refused for the same datasets.                  *)
LEMMA RefusalsAgree ==
  ASSUME NEW R, NEW left \in Seq(R), NEW S, NEW right \in Seq(S), NEW keys, keys # {},
         KeysFall(left, keys), KeysFall(right, keys)
  PROVE  ( \/ CompareKeyedFrames(left, right, keys).conflicting > 0
           \/ CompareKeyedFrames(left, right, keys).duplicate > 0)
            <=> ConsolidationIsRefused(left, right, keys)
<1>1. /\ CompareKeyedFrames(left, right, keys).duplicate > 0
            <=> Repeats(left, keys) \/ Repeats(right, keys)
      /\ CompareKeyedFrames(left, right, keys).conflicting > 0
            <=> ConflictKeys(left, right, keys) # {}
  BY FrameSummary, SummaryTells
<1>2. /\ DuplicateGroups(left, keys) # {} <=> Repeats(left, keys)
      /\ DuplicateGroups(right, keys) # {} <=> Repeats(right, keys)
  BY DuplicatesTell
<1>3. CASE Repeats(left, keys) \/ Repeats(right, keys)
  BY <1>1, <1>2, <1>3 DEF ConsolidationIsRefused
<1>4. CASE ~ Repeats(left, keys) /\ ~ Repeats(right, keys)
  <2>1. Payload(keys) # {} /\ ConsolidationConflicts(left, right, keys) # {}
            <=> ConflictKeys(left, right, keys) # {}
    BY <1>4, ConflictsCounted
  <2> QED
    BY <1>1, <1>2, <1>4, <2>1 DEF ConsolidationIsRefused
<1> QED
  BY <1>3, <1>4

(* The rows that are kept are finitely many and numbered in their order.   *)
LEMMA KeptRows ==
  ASSUME NEW R, NEW data \in Seq(R), NEW kept \in SUBSET RowIndexes(data)
  PROVE  /\ IsFiniteSet(kept) /\ kept \in SUBSET Nat /\ Cardinality(kept) \in Nat
         /\ \A n \in 1 .. Cardinality(kept) : NthOf(kept, n) \in kept
<1>1. IsFiniteSet(kept) /\ kept \in SUBSET Nat
  BY FinitelyManyRows, RowsOfDataset, FS_Subset
<1>2. Cardinality(kept) \in Nat
  BY <1>1, FS_CardinalityType
<1> QED
  BY <1>1, <1>2, NthElement

(* No row is kept twice.                                                   *)
LEMMA KeptOnce ==
  ASSUME NEW R, NEW data \in Seq(R), NEW kept \in SUBSET RowIndexes(data),
         NEW m \in 1 .. Cardinality(kept), NEW n \in 1 .. Cardinality(kept),
         NthOf(kept, m) = NthOf(kept, n)
  PROVE  m = n
<1>1. IsFiniteSet(kept) /\ kept \in SUBSET Nat /\ Cardinality(kept) \in Nat
  BY KeptRows
<1>2. RankIn(kept, NthOf(kept, m)) = m - 1 /\ RankIn(kept, NthOf(kept, n)) = n - 1
  BY <1>1, NthElement
<1>3. m - 1 = n - 1
  BY <1>2
<1> QED
  BY <1>1, <1>3

(* The n-th of the rows that are kept.                                     *)
LEMMA RowKept ==
  ASSUME NEW data, NEW kept, NEW n \in 1 .. Cardinality(kept)
  PROVE  RowsAt(data, kept)[n] = RowAt(data, NthOf(kept, n))
BY DEF RowsAt, NthOf

(* They are a dataset.                                                     *)
LEMMA KeptAreDataset ==
  ASSUME NEW R, NEW data \in Seq(R), NEW kept \in SUBSET RowIndexes(data)
  PROVE  RowsAt(data, kept) \in Seq(R) /\ Len(RowsAt(data, kept)) = Cardinality(kept)
<1> DEFINE K == Cardinality(kept)
<1>1. RowsAt(data, kept) = [n \in 1 .. K |-> RowAt(data, NthOf(kept, n))]
  BY DEF RowsAt, NthOf
<1>2. \A n \in 1 .. K : RowAt(data, NthOf(kept, n)) \in R
  BY KeptRows, RowsOfDataset
<1>3. RowsAt(data, kept) \in [1 .. K -> R]
  BY <1>1, <1>2
<1>4. K \in Nat
  BY KeptRows
<1> HIDE DEF K
<1>5. RowsAt(data, kept) \in Seq(R) /\ Len(RowsAt(data, kept)) = K
  BY <1>3, <1>4
<1> QED
  BY <1>5 DEF K

(* Keeping every row keeps the dataset.                                    *)
LEMMA AllRowsKept ==
  ASSUME NEW R, NEW data \in Seq(R)
  PROVE  RowsAt(data, RowIndexes(data)) = data
<1> DEFINE I == RowIndexes(data)
           N == Len(data)
<1>1. N \in Nat /\ I = 0 .. N - 1 /\ Cardinality(I) = N /\ IsFiniteSet(I) /\ I \in SUBSET Nat
  BY FinitelyManyRows, RowsOfDataset DEF RowIndexes
<1>2. /\ RowsAt(data, I) \in Seq(R) /\ Len(RowsAt(data, I)) = N
      /\ \A n \in 1 .. N : RowsAt(data, I)[n] = RowAt(data, NthOf(I, n))
  <2>1. I \in SUBSET RowIndexes(data)
    OBVIOUS
  <2> HIDE DEF I
  <2>2. /\ RowsAt(data, I) \in Seq(R) /\ Len(RowsAt(data, I)) = Cardinality(I)
        /\ \A n \in 1 .. Cardinality(I) : RowsAt(data, I)[n] = RowAt(data, NthOf(I, n))
    <3>1. RowsAt(data, I) \in Seq(R) /\ Len(RowsAt(data, I)) = Cardinality(I)
      BY <2>1, KeptAreDataset
    <3> QED
      BY <3>1, RowKept
  <2> QED
    BY <1>1, <2>2, Zenon
<1> HIDE DEF I, N
<1>3. ASSUME NEW i \in I
      PROVE  RankIn(I, i) = i
  <2>1. i \in Nat /\ i < N
    BY <1>1
  <2>2. \A j : j \in I /\ j < i <=> j \in 0 .. i - 1
    BY <1>1, <2>1
  <2>3. {j \in I : j < i} = 0 .. i - 1
    BY <2>2
  <2>4. Cardinality(0 .. i - 1) = i
    <3>1. 0 \in Int /\ i - 1 \in Int
      BY <2>1
    <3>2. Cardinality(0 .. i - 1) = IF 0 > i - 1 THEN 0 ELSE (i - 1) - 0 + 1
      BY <3>1, FS_Interval
    <3> QED
      BY <2>1, <3>2
  <2> QED
    BY <2>3, <2>4 DEF RankIn
<1>4. ASSUME NEW n \in 1 .. N
      PROVE  NthOf(I, n) = n - 1
  <2>1. n - 1 \in I /\ (n - 1) + 1 = n
    BY <1>1
  <2>2. NthOf(I, RankIn(I, n - 1) + 1) = n - 1
    BY <1>1, <2>1, NthElement
  <2> QED
    BY <1>3, <2>1, <2>2
<1>5. ASSUME NEW n \in 1 .. N
      PROVE  RowsAt(data, I)[n] = data[n]
  <2>1. (n - 1) + 1 = n
    BY <1>1
  <2> QED
    BY <1>2, <1>4, <2>1 DEF RowAt
<1>6. Len(RowsAt(data, I)) = Len(data)
  BY <1>2 DEF N
<1> QED
  BY <1>2, <1>5, <1>6, SeqEqual DEF I, N

(* The compared rows whose key is new, found from the index of the active  *)
(* rows or by the query.                                                   *)
NewRows(left, right, keys) ==
    {j \in RowIndexes(right) : Signature(RowAt(right, j), keys) \notin KeysOf(left, keys)}

(* Both routes append them in their order.                                 *)
LEMMA NewRowsAgree ==
  ASSUME NEW left, NEW right, NEW keys, KeysFall(right, keys)
  PROVE  /\ RowsWithNewKeys(left, right, keys) = RowsAt(right, NewRows(left, right, keys))
         /\ keys # {} => ConsolidationRows(left, right, keys)
                            = left \o RowsAt(right, NewRows(left, right, keys))
<1> DEFINE own == SpillKeyRows(left, keys)
           New(b) == {r.row : r \in {q \in SpillKeyRows(right, keys) :
                        q.bucket = b /\ q.key \notin DOMAIN KeyGroups(own, b)}}
           new == UNION {New(b) : b \in Buckets}
<1>1. \A b, k : BucketOf(k) = b => (k \in DOMAIN KeyGroups(own, b) <=> k \in KeysOf(left, keys))
  <2> TAKE b, k
  <2>1. KeyGroups(own, b) = Groups(left, keys, b)
    BY GroupsOfIndex, FrameIsIndexed
  <2> QED
    BY <2>1 DEF Groups
<1>2. ASSUME NEW j \in new
      PROVE  j \in NewRows(left, right, keys)
  <2>1. PICK b \in Buckets : j \in New(b)
    OBVIOUS
  <2>2. PICK r \in SpillKeyRows(right, keys) :
            r.bucket = b /\ r.key \notin DOMAIN KeyGroups(own, b) /\ r.row = j
    BY <2>1
  <2>3. /\ j \in RowIndexes(right) /\ r.key = Signature(RowAt(right, j), keys)
        /\ BucketOf(r.key) = b
    BY <2>2, FrameIsIndexed DEF Indexes
  <2> QED
    BY <1>1, <2>2, <2>3 DEF NewRows
<1>3. ASSUME NEW j \in NewRows(left, right, keys)
      PROVE  j \in new
  <2>1. j \in RowIndexes(right) /\ Signature(RowAt(right, j), keys) \notin KeysOf(left, keys)
    BY DEF NewRows
  <2>2. PICK r \in SpillKeyRows(right, keys) : r.row = j
    BY <2>1, FrameIsIndexed DEF Indexes
  <2>3. r.key = Signature(RowAt(right, j), keys) /\ r.bucket = BucketOf(r.key)
    BY <2>2, FrameIsIndexed DEF Indexes
  <2>4. r.bucket \in Buckets
    BY <2>1, <2>3 DEF KeysFall, KeysOf
  <2>5. j \in New(r.bucket)
    BY <1>1, <2>1, <2>2, <2>3
  <2> HIDE DEF New
  <2> QED
    BY <2>4, <2>5
<1>4. new = NewRows(left, right, keys)
  <2> HIDE DEF new
  <2> QED
    BY <1>2, <1>3 DEF NewRows
<1>5. RowsWithNewKeys(left, right, keys) = RowsAt(right, new)
  BY DEF RowsWithNewKeys
<1>6. ASSUME keys # {}
      PROVE  ConsolidationRows(left, right, keys)
                = left \o RowsAt(right, NewRows(left, right, keys))
  <2> DEFINE passing == {j \in RowIndexes(right) :
                \/ keys = {}
                \/ ~ \E i \in RowIndexes(left) : NotDistinct(RowAt(left, i), RowAt(right, j), keys)}
  <2>1. \A i, j : NotDistinct(RowAt(left, i), RowAt(right, j), keys)
            <=> Signature(RowAt(left, i), keys) = Signature(RowAt(right, j), keys)
    BY RowsNotDistinct
  <2>2. passing = NewRows(left, right, keys)
    BY <1>6, <2>1 DEF NewRows, KeysOf
  <2>3. ConsolidationRows(left, right, keys) = left \o RowsAt(right, passing)
    BY DEF ConsolidationRows
  <2> QED
    BY <2>2, <2>3
<1> HIDE DEF new
<1> QED
  BY <1>4, <1>5, <1>6

(* The rows after one another.                                             *)
LEMMA RowsJoined ==
  ASSUME NEW R, NEW left \in Seq(R), NEW more \in Seq(R)
  PROVE  /\ left \o more \in Seq(R) /\ Len(left \o more) = Len(left) + Len(more)
         /\ \A i \in RowIndexes(left) : RowAt(left \o more, i) = RowAt(left, i)
         /\ \A i \in RowIndexes(left \o more) :
                \/ i \in RowIndexes(left) /\ RowAt(left \o more, i) = RowAt(left, i)
                \/ /\ i \notin RowIndexes(left) /\ i - Len(left) + 1 \in 1 .. Len(more)
                   /\ RowAt(left \o more, i) = more[i - Len(left) + 1]
         /\ IsPrefix(left, left \o more)
<1> DEFINE M == Len(left)
           N == Len(more)
           both == left \o more
<1>1. /\ M \in Nat /\ N \in Nat /\ both \in Seq(R) /\ Len(both) = M + N
      /\ \A n \in 1 .. M + N : both[n] = IF n <= M THEN left[n] ELSE more[n - M]
  BY ConcatProperties, LenProperties
<1> HIDE DEF M, N, both
<1>2. ASSUME NEW i \in 0 .. M - 1
      PROVE  both[i + 1] = left[i + 1]
  BY <1>1
<1>3. ASSUME NEW i \in 0 .. M + N - 1
      PROVE  \/ i \in 0 .. M - 1 /\ both[i + 1] = left[i + 1]
             \/ /\ i \notin 0 .. M - 1 /\ i - M + 1 \in 1 .. N
                /\ both[i + 1] = more[i - M + 1]
  <2>1. CASE i < M
    BY <1>1, <2>1
  <2>2. CASE ~ (i < M)
    <3>1. (i + 1) - M = i - M + 1
      BY <1>1
    <3>2. both[i + 1] = more[(i + 1) - M]
      BY <1>1, <2>2
    <3> QED
      BY <1>1, <2>2, <3>1, <3>2
  <2> QED
    BY <2>1, <2>2
<1>4. IsPrefix(left, both)
  <2>1. M <= Len(both)
    BY <1>1
  <2>2. SubSeq(left, 1, M) = SubSeq(both, 1, M)
    <3>1. \A n \in 1 .. M : left[n] \in R /\ both[n] = left[n]
      BY <1>1 DEF M
    <3> DEFINE s == SubSeq(left, 1, M)
               t == SubSeq(both, 1, M)
    <3>2. /\ s \in Seq(R) /\ Len(s) = M /\ \A n \in 1 .. M : s[n] = left[n]
      <4>1. left \in Seq(R) /\ M = Len(left) /\ M \in Nat
        BY <1>1 DEF M
      <4> QED
        BY <4>1
    <3>3. /\ t \in Seq(R) /\ Len(t) = M /\ \A n \in 1 .. M : t[n] = both[n]
      <4>1. both \in Seq(R) /\ M <= Len(both) /\ M \in Nat
        BY <1>1
      <4> QED
        BY <4>1
    <3> HIDE DEF s, t
    <3>4. s = t
      BY <3>1, <3>2, <3>3, SeqEqual
    <3> QED
      BY <3>4 DEF s, t
  <2> QED
    BY <2>1, <2>2 DEF IsPrefix, M
<1>5. RowIndexes(left) = 0 .. M - 1 /\ RowIndexes(both) = 0 .. M + N - 1
  BY <1>1 DEF RowIndexes, M
<1>6. \A i \in RowIndexes(left) : RowAt(both, i) = RowAt(left, i)
  BY <1>2, <1>5 DEF RowAt
<1>7. \A i \in RowIndexes(both) :
          \/ i \in RowIndexes(left) /\ RowAt(both, i) = RowAt(left, i)
          \/ /\ i \notin RowIndexes(left) /\ i - M + 1 \in 1 .. N
             /\ RowAt(both, i) = more[i - M + 1]
  BY <1>3, <1>5 DEF RowAt
<1> QED
  BY <1>1, <1>4, <1>6, <1>7 DEF M, N, both

(* The compared row that a row after the active ones is.                   *)
LEMMA RowAppended ==
  ASSUME NEW R, NEW left \in Seq(R), NEW right \in Seq(R), NEW keys,
         NEW i \in RowIndexes(left \o RowsAt(right, NewRows(left, right, keys)))
  PROVE  LET kept == NewRows(left, right, keys)
             all == left \o RowsAt(right, kept)
             h == NthOf(kept, i - Len(left) + 1)
         IN \/ i \in RowIndexes(left) /\ RowAt(all, i) = RowAt(left, i)
            \/ /\ i - Len(left) + 1 \in 1 .. Cardinality(kept)
               /\ h \in kept /\ RowAt(all, i) = RowAt(right, h)
<1> DEFINE kept == NewRows(left, right, keys)
           more == RowsAt(right, kept)
           n == i - Len(left) + 1
<1>1. kept \in SUBSET RowIndexes(right)
  BY DEF NewRows
<1> HIDE DEF kept
<1>2. more \in Seq(R) /\ Len(more) = Cardinality(kept)
  BY <1>1, KeptAreDataset
<1>3. \A m \in 1 .. Cardinality(kept) : NthOf(kept, m) \in kept /\ more[m] = RowAt(right, NthOf(kept, m))
  BY <1>1, KeptRows, RowKept
<1> HIDE DEF more
<1>4. i \in RowIndexes(left \o more)
  BY DEF more, kept
<1>5. \/ i \in RowIndexes(left) /\ RowAt(left \o more, i) = RowAt(left, i)
      \/ n \in 1 .. Len(more) /\ RowAt(left \o more, i) = more[n]
  BY <1>2, <1>4, RowsJoined
<1> HIDE DEF n
<1>6. \/ i \in RowIndexes(left) /\ RowAt(left \o more, i) = RowAt(left, i)
      \/ /\ n \in 1 .. Cardinality(kept)
         /\ NthOf(kept, n) \in kept /\ RowAt(left \o more, i) = RowAt(right, NthOf(kept, n))
  BY <1>2, <1>3, <1>5
<1> QED
  BY <1>6 DEF n, more, kept

(* The keys of a consolidation without repeated keys stay unique.          *)
LEMMA KeysStayUnique ==
  ASSUME NEW R, NEW left \in Seq(R), NEW right \in Seq(R), NEW keys,
         ~ Repeats(left, keys), ~ Repeats(right, keys)
  PROVE  DuplicateGroups(left \o RowsAt(right, NewRows(left, right, keys)), keys) = {}
<1> DEFINE kept == NewRows(left, right, keys)
           all == left \o RowsAt(right, kept)
           Place(i) == i - Len(left) + 1
           InLeft(i) == i \in RowIndexes(left) /\ RowAt(all, i) = RowAt(left, i)
           InRight(i) == /\ Place(i) \in 1 .. Cardinality(kept)
                         /\ NthOf(kept, Place(i)) \in kept
                         /\ RowAt(all, i) = RowAt(right, NthOf(kept, Place(i)))
<1>1. \A i \in RowIndexes(all) : InLeft(i) \/ InRight(i)
  BY RowAppended
<1>2. \A h \in kept : /\ h \in RowIndexes(right)
                      /\ Signature(RowAt(right, h), keys) \notin KeysOf(left, keys)
  BY DEF NewRows
<1>3. /\ DuplicateGroups(left, keys) = {} /\ DuplicateGroups(right, keys) = {}
  BY DuplicatesTell
<1>4. kept \in SUBSET RowIndexes(right)
  BY <1>2
<1>5. \A i \in RowIndexes(all) : i \in Int
  BY DEF RowIndexes
<1>6. Len(left) \in Nat
  OBVIOUS
<1> HIDE DEF kept, all
<1>7. ASSUME NEW i \in RowIndexes(all), NEW j \in RowIndexes(all), i # j,
             Signature(RowAt(all, i), keys) = Signature(RowAt(all, j), keys)
      PROVE  FALSE
  <2>1. ASSUME InLeft(i), InLeft(j)
        PROVE  FALSE
    <3>1. NotDistinct(RowAt(left, i), RowAt(left, j), keys)
      BY <1>7, <2>1, RowsNotDistinct
    <3> QED
      BY <1>3, <1>7, <2>1, <3>1 DEF DuplicateGroups
  <2>2. ASSUME NEW x, NEW y, InLeft(x), InRight(y),
               Signature(RowAt(all, x), keys) = Signature(RowAt(all, y), keys)
        PROVE  FALSE
    <3>1. Signature(RowAt(left, x), keys) \in KeysOf(left, keys)
      BY <2>2 DEF KeysOf
    <3> QED
      BY <1>2, <2>2, <3>1
  <2>3. ASSUME InRight(i), InRight(j)
        PROVE  FALSE
    <3> DEFINE g == NthOf(kept, Place(i))
               h == NthOf(kept, Place(j))
    <3>1. g \in RowIndexes(right) /\ h \in RowIndexes(right)
      BY <1>2, <2>3
    <3>2. NotDistinct(RowAt(right, g), RowAt(right, h), keys)
      BY <1>7, <2>3, RowsNotDistinct
    <3>3. g = h
      <4> HIDE DEF g, h
      <4> QED
        BY <1>3, <3>1, <3>2 DEF DuplicateGroups
    <3>4. Place(i) = Place(j)
      <4>1. Place(i) \in 1 .. Cardinality(kept) /\ Place(j) \in 1 .. Cardinality(kept)
        BY <2>3
      <4> HIDE DEF Place
      <4> QED
        BY <1>4, <3>3, <4>1, KeptOnce
    <3> QED
      BY <1>5, <1>6, <1>7, <3>4
  <2> HIDE DEF InLeft, InRight
  <2> QED
    BY <1>1, <1>7, <2>1, <2>2, <2>3
<1>8. DuplicateGroups(all, keys) = {}
  <2> SUFFICES ASSUME NEW i \in DuplicateGroups(all, keys) PROVE FALSE
    OBVIOUS
  <2>1. i \in RowIndexes(all) /\ \E j \in RowIndexes(all) \ {i} : NotDistinct(RowAt(all, i), RowAt(all, j), keys)
    BY DEF DuplicateGroups
  <2>2. PICK j \in RowIndexes(all) \ {i} : NotDistinct(RowAt(all, i), RowAt(all, j), keys)
    BY <2>1
  <2>3. Signature(RowAt(all, i), keys) = Signature(RowAt(all, j), keys)
    BY <2>2, RowsNotDistinct
  <2> QED
    BY <1>7, <2>1, <2>2, <2>3
<1> QED
  BY <1>8 DEF all, kept

(* The consolidation in memory and the one DuckDB writes.                  *)
LEMMA ConsolidationsAgree ==
  ASSUME NEW R, NEW left \in Seq(R), NEW right \in Seq(R), NEW keys,
         KeysFall(left, keys), KeysFall(right, keys)
  PROVE  LET result == ConsolidateFrames(left, right, keys)
         IN /\ ConsolidateSources(left, right, keys) = result
            /\ ~result.refused => IsPrefix(left, result.rows)
            /\ ~result.refused /\ keys # {} => DuplicateGroups(result.rows, keys) = {}
<1> DEFINE refused == \/ CompareKeyedFrames(left, right, keys).conflicting > 0
                      \/ CompareKeyedFrames(left, right, keys).duplicate > 0
           kept == NewRows(left, right, keys)
<1>1. CASE keys = {}
  <2>1. ConsolidateFrames(left, right, keys) = Table(left \o right)
    BY <1>1 DEF ConsolidateFrames
  <2>2. ~ ConsolidationIsRefused(left, right, keys)
    BY <1>1 DEF ConsolidationIsRefused
  <2> DEFINE passing == {j \in RowIndexes(right) :
                \/ keys = {}
                \/ ~ \E i \in RowIndexes(left) : NotDistinct(RowAt(left, i), RowAt(right, j), keys)}
  <2>3. passing = RowIndexes(right)
    BY <1>1
  <2>4. ConsolidationRows(left, right, keys) = left \o RowsAt(right, passing)
    BY DEF ConsolidationRows
  <2> HIDE DEF passing
  <2>5. ConsolidationRows(left, right, keys) = left \o right
    BY <2>3, <2>4, AllRowsKept
  <2>6. ConsolidateSources(left, right, keys) = Table(left \o right)
    BY <2>2, <2>5 DEF ConsolidateSources
  <2>7. Table(left \o right).rows = left \o right
    BY DEF Table
  <2>8. IsPrefix(left, left \o right)
    BY RowsJoined
  <2> QED
    BY <1>1, <2>1, <2>6, <2>7, <2>8
<1>2. CASE keys # {} /\ refused
  <2>1. ConsolidationIsRefused(left, right, keys)
    BY <1>2, RefusalsAgree
  <2>2. ConsolidateFrames(left, right, keys) = Refused /\ ConsolidateSources(left, right, keys) = Refused
    BY <1>2, <2>1 DEF ConsolidateFrames, ConsolidateSources
  <2>3. Refused.refused
    BY DEF Refused
  <2> QED
    BY <2>2, <2>3
<1>3. CASE keys # {} /\ ~ refused
  <2> DEFINE rows == left \o RowsAt(right, kept)
  <2>1. ~ ConsolidationIsRefused(left, right, keys)
    BY <1>3, RefusalsAgree
  <2>2. RowsWithNewKeys(left, right, keys) = RowsAt(right, kept) /\ ConsolidationRows(left, right, keys) = rows
    BY <1>3, NewRowsAgree
  <2>3. ConsolidateFrames(left, right, keys) = Table(rows)
    BY <1>3, <2>2 DEF ConsolidateFrames
  <2>4. ConsolidateSources(left, right, keys) = Table(rows)
    BY <2>1, <2>2 DEF ConsolidateSources
  <2>5. Table(rows).rows = rows
    BY DEF Table
  <2>6. RowsAt(right, kept) \in Seq(R)
    <3>1. kept \in SUBSET RowIndexes(right)
      BY DEF NewRows
    <3> HIDE DEF kept
    <3> QED
      BY <3>1, KeptAreDataset
  <2>7. IsPrefix(left, rows)
    BY <2>6, RowsJoined
  <2>8. ~ Repeats(left, keys) /\ ~ Repeats(right, keys)
    BY <1>3, <2>1, DuplicatesTell DEF ConsolidationIsRefused
  <2>9. DuplicateGroups(rows, keys) = {}
    BY <2>8, KeysStayUnique
  <2> HIDE DEF rows
  <2> QED
    BY <2>3, <2>4, <2>5, <2>7, <2>9
<1> QED
  BY <1>1, <1>2, <1>3

-----------------------------------------------------------------------------
(* The resolution of the conflicts.                                        *)

(* The joined row of the query is the only row of the key of an only row.  *)
LEMMA JoinedTells ==
  ASSUME NEW R, NEW left \in Seq(R), NEW S, NEW right \in Seq(S), NEW keys,
         NEW i \in RowIndexes(left), NEW j
  PROVE  j \in JoinedRow(left, right, keys, i)
            <=> /\ RowsWith(left, keys, Signature(RowAt(left, i), keys)) = {i}
                /\ RowsWith(right, keys, Signature(RowAt(left, i), keys)) = {j}
<1> DEFINE k == Signature(RowAt(left, i), keys)
           L == RowsWith(left, keys, k)
           Q == RowsWith(right, keys, k)
<1>1. \A data, row : RowsOfKey(data, row, keys) = RowsWith(data, keys, Signature(row, keys))
  BY RowsNotDistinct DEF RowsOfKey, RowsWith
<1>2. i \in L /\ k \in KeysOf(left, keys)
  BY DEF RowsWith, KeysOf
<1>3. \A h \in Q : Signature(RowAt(right, h), keys) = k /\ k \in KeysOf(right, keys)
  BY DEF RowsWith, KeysOf
<1>4. JoinedRow(left, right, keys, i) = {h \in Q : /\ Cardinality(L) = 1
            /\ Cardinality(RowsWith(right, keys, Signature(RowAt(right, h), keys))) = 1}
  BY <1>1 DEF JoinedRow
<1>5. JoinedRow(left, right, keys, i) = {h \in Q : Cardinality(L) = 1 /\ Cardinality(Q) = 1}
  <2> HIDE DEF L, Q, k
  <2>1. \A h \in Q : RowsWith(right, keys, Signature(RowAt(right, h), keys)) = Q
    BY <1>3 DEF Q
  <2> QED
    BY <1>4, <2>1
<1>6. Cardinality(L) = 1 <=> L = {i}
  <2>1. Cardinality(L) = 1 <=> \A g, h \in L : g = h
    BY <1>2, GroupsOfOne
  <2> HIDE DEF L
  <2> QED
    BY <1>2, <2>1
<1>7. ASSUME j \in Q
      PROVE  Cardinality(Q) = 1 <=> Q = {j}
  <2>1. Cardinality(Q) = 1 <=> \A g, h \in Q : g = h
    BY <1>3, <1>7, GroupsOfOne
  <2> HIDE DEF Q
  <2> QED
    BY <1>7, <2>1
<1> HIDE DEF L, Q
<1>8. j \in JoinedRow(left, right, keys, i) <=> L = {i} /\ Q = {j}
  BY <1>5, <1>6, <1>7
<1> QED
  BY <1>8 DEF L, Q

(* So the query finds the rows in conflict, and the partner of each.       *)
LEMMA QueryFindsConflicts ==
  ASSUME NEW R, NEW left \in Seq(R), NEW S, NEW right \in Seq(S), NEW keys
  PROVE  /\ {i \in RowIndexes(left) :
                \E j \in JoinedRow(left, right, keys, i) :
                    ~NotDistinct(RowAt(left, i), RowAt(right, j), Payload(keys))}
                = ConflictRows(left, right, keys)
         /\ \A i \in ConflictRows(left, right, keys) :
                JoinedRow(left, right, keys, i) = {Partner(left, right, keys, i)}
<1> DEFINE P == ConflictRows(left, right, keys)
           found == {i \in RowIndexes(left) :
                \E j \in JoinedRow(left, right, keys, i) :
                    ~NotDistinct(RowAt(left, i), RowAt(right, j), Payload(keys))}
<1>1. \A x, y : ~ NotDistinct(x, y, Payload(keys)) <=> ConflictColumns(x, y, keys) # {}
  BY DEF NotDistinct, ConflictColumns
<1>2. ASSUME NEW i \in found
      PROVE  i \in P
  <2>1. i \in RowIndexes(left)
    OBVIOUS
  <2>2. PICK j \in JoinedRow(left, right, keys, i) :
            ConflictColumns(RowAt(left, i), RowAt(right, j), keys) # {}
    BY <1>1
  <2>3. /\ RowsWith(left, keys, Signature(RowAt(left, i), keys)) = {i}
        /\ RowsWith(right, keys, Signature(RowAt(left, i), keys)) = {j}
    BY <2>1, <2>2, JoinedTells
  <2>4. j \in RowIndexes(right)
    BY <2>3 DEF RowsWith
  <2>5. <<i, j>> \in ConflictPairs(left, right, keys)
    BY <2>1, <2>2, <2>3, <2>4, ConflictsTell
  <2> QED
    BY <2>5, PartnersTell
<1>3. ASSUME NEW i \in P
      PROVE  i \in found /\ JoinedRow(left, right, keys, i) = {Partner(left, right, keys, i)}
  <2> DEFINE j == Partner(left, right, keys, i)
  <2>1. i \in RowIndexes(left) /\ <<i, j>> \in ConflictPairs(left, right, keys)
    BY PartnersTell
  <2> HIDE DEF j
  <2>2. /\ RowsWith(left, keys, Signature(RowAt(left, i), keys)) = {i}
        /\ RowsWith(right, keys, Signature(RowAt(left, i), keys)) = {j}
        /\ ConflictColumns(RowAt(left, i), RowAt(right, j), keys) # {}
    BY <2>1, ConflictsTell
  <2>3. ASSUME NEW h
        PROVE  h \in JoinedRow(left, right, keys, i) <=> h = j
    <3>1. h \in JoinedRow(left, right, keys, i)
            <=> /\ RowsWith(left, keys, Signature(RowAt(left, i), keys)) = {i}
                /\ RowsWith(right, keys, Signature(RowAt(left, i), keys)) = {h}
      BY <2>1, JoinedTells
    <3> QED
      BY <2>2, <3>1
  <2>4. JoinedRow(left, right, keys, i) = {j}
    BY <2>3
  <2> QED
    BY <1>1, <2>1, <2>2, <2>4 DEF j
<1>4. found = P
  <2>1. \A i : i \in found <=> i \in P
    BY <1>2, <1>3
  <2> HIDE DEF found, P
  <2> QED
    BY <2>1
<1> QED
  BY <1>3, <1>4

(* The n-th conflict is the one of the n-th row in conflict.               *)
LEMMA ConflictsListed ==
  ASSUME NEW R, NEW left \in Seq(R), NEW S, NEW right \in Seq(S), NEW keys
  PROVE  LET P == ConflictRows(left, right, keys)
             list == ConflictList(left, right, keys)
         IN /\ Len(list) = Cardinality(P) /\ Cardinality(P) \in Nat
            /\ \A n \in 1 .. Cardinality(P) :
                   NthOf(P, n) \in P /\ list[n] = ConflictOf(left, right, keys, NthOf(P, n))
            /\ \A i \in P :
                   /\ RankIn(P, i) + 1 \in 1 .. Cardinality(P) /\ RankIn(P, i) \in Nat
                   /\ list[RankIn(P, i) + 1] = ConflictOf(left, right, keys, i)
<1> DEFINE P == ConflictRows(left, right, keys)
           list == ConflictList(left, right, keys)
           K == Cardinality(P)
<1>1. IsFiniteSet(P) /\ P \in SUBSET Nat /\ K \in Nat
  <2>1. P \in SUBSET RowIndexes(left)
    BY PartnersTell
  <2> HIDE DEF P
  <2> QED
    BY <2>1, KeptRows
<1>2. list = [n \in 1 .. K |-> ConflictOf(left, right, keys, NthOf(P, n))]
  BY DEF ConflictList
<1> HIDE DEF P, list
<1>3. \A n \in 1 .. K : NthOf(P, n) \in P /\ list[n] = ConflictOf(left, right, keys, NthOf(P, n))
  <2>1. \A n \in 1 .. K : NthOf(P, n) \in P
    BY <1>1, NthElement
  <2> QED
    BY <1>2, <2>1
<1>4. Len(list) = K
  <2> HIDE DEF K
  <2> QED
    BY <1>1, <1>2
<1>5. ASSUME NEW i \in P
      PROVE  /\ RankIn(P, i) + 1 \in 1 .. K /\ RankIn(P, i) \in Nat
             /\ list[RankIn(P, i) + 1] = ConflictOf(left, right, keys, i)
  <2>1. RankIn(P, i) + 1 \in 1 .. K /\ NthOf(P, RankIn(P, i) + 1) = i
    BY <1>1, NthElement
  <2>2. RankIn(P, i) \in Nat
    <3>1. i \in Nat
      BY <1>1
    <3> QED
      BY <1>1, <3>1, RankGrows
  <2> QED
    BY <1>3, <2>1, <2>2
<1> QED
  BY <1>1, <1>3, <1>4, <1>5 DEF P, list

(* The place in the list of the conflict of a row.                         *)
LEMMA PlaceInList ==
  ASSUME NEW R, NEW left \in Seq(R), NEW S, NEW right \in Seq(S), NEW keys, NEW i
  PROVE  LET P == ConflictRows(left, right, keys)
             list == ConflictList(left, right, keys)
         IN /\ (\E n \in 1 .. Len(list) : list[n].currentRow = i) <=> i \in P
            /\ i \in P =>
                   /\ (CHOOSE n \in 1 .. Len(list) : list[n].currentRow = i) = RankIn(P, i) + 1
                   /\ list[RankIn(P, i) + 1].comparedRow = Partner(left, right, keys, i)
<1> DEFINE P == ConflictRows(left, right, keys)
           list == ConflictList(left, right, keys)
           K == Cardinality(P)
<1>1. \A h : /\ ConflictOf(left, right, keys, h).currentRow = h
             /\ ConflictOf(left, right, keys, h).comparedRow = Partner(left, right, keys, h)
  BY DEF ConflictOf
<1>2. /\ Len(list) = K /\ K \in Nat
      /\ \A n \in 1 .. K : NthOf(P, n) \in P /\ list[n] = ConflictOf(left, right, keys, NthOf(P, n))
      /\ \A h \in P : /\ RankIn(P, h) + 1 \in 1 .. K /\ RankIn(P, h) \in Nat
                      /\ list[RankIn(P, h) + 1] = ConflictOf(left, right, keys, h)
  BY ConflictsListed
<1>3. P \in SUBSET RowIndexes(left)
  BY PartnersTell
<1> HIDE DEF P, list
<1>4. \A n \in 1 .. K : list[n].currentRow = NthOf(P, n) /\ NthOf(P, n) \in P
  BY <1>1, <1>2
<1>5. ASSUME i \in P
      PROVE  /\ RankIn(P, i) + 1 \in 1 .. K /\ list[RankIn(P, i) + 1].currentRow = i
             /\ list[RankIn(P, i) + 1].comparedRow = Partner(left, right, keys, i)
  BY <1>1, <1>2, <1>5
<1>6. (\E n \in 1 .. Len(list) : list[n].currentRow = i) <=> i \in P
  <2> HIDE DEF K
  <2> QED
    BY <1>2, <1>4, <1>5
<1>7. ASSUME i \in P
      PROVE  (CHOOSE n \in 1 .. Len(list) : list[n].currentRow = i) = RankIn(P, i) + 1
  <2>1. ASSUME NEW n \in 1 .. K, list[n].currentRow = i
        PROVE  n = RankIn(P, i) + 1
    <3> DEFINE m == RankIn(P, i) + 1
    <3>1. m \in 1 .. K /\ NthOf(P, m) = i /\ NthOf(P, n) = i
      BY <1>4, <1>5, <1>7, <2>1
    <3> HIDE DEF m
    <3>2. n = m
      BY <1>3, <3>1, KeptOnce
    <3> QED
      BY <3>2 DEF m
  <2> HIDE DEF K
  <2> QED
    BY <1>2, <1>5, <1>7, <2>1
<1>8. ASSUME i \in P
      PROVE  list[RankIn(P, i) + 1].comparedRow = Partner(left, right, keys, i)
  BY <1>5, <1>8
<1> QED
  BY <1>6, <1>7, <1>8 DEF P, list

(* What the decisions make of a row: the choice about its conflict for     *)
(* each of its cells; and the rows they keep.                              *)
SettledRow(left, right, keys, decisions, i) ==
    LET P == ConflictRows(left, right, keys)
    IN [c \in Columns |->
            IF i \in P /\ Chosen(decisions, RankIn(P, i), c) = "compared"
            THEN RowAt(right, Partner(left, right, keys, i))[c]
            ELSE RowAt(left, i)[c]]

SettledRows(left, right, keys, decisions) ==
    [n \in 1 .. Len(left) |-> SettledRow(left, right, keys, decisions, n - 1)]

SettledKept(left, right, keys, decisions) ==
    LET P == ConflictRows(left, right, keys)
    IN {i \in RowIndexes(left) : ~ (i \in P /\ Excludes(decisions, RankIn(P, i)))}

ConflictsSettled(left, right, keys, decisions) ==
    RowsAt(SettledRows(left, right, keys, decisions), SettledKept(left, right, keys, decisions))

(* Resolving in memory settles the rows, by their places in the list.      *)
LEMMA FramesSettle ==
  ASSUME NEW R, NEW left \in Seq(R), NEW S, NEW right \in Seq(S), NEW keys, NEW decisions,
         KeysFall(left, keys)
  PROVE  ResolveFrames(left, right, keys, decisions)
            = IF keys = {} \/ ~ DecisionsAreValid(ConflictList(left, right, keys), decisions)
              THEN Refused ELSE Table(ConflictsSettled(left, right, keys, decisions))
<1> DEFINE P == ConflictRows(left, right, keys)
           list == ConflictList(left, right, keys)
           Of(i) == CHOOSE n \in 1 .. Len(list) : list[n].currentRow = i
           InConflict(i) == \E n \in 1 .. Len(list) : list[n].currentRow = i
           active == {i \in RowIndexes(left) : ~ (InConflict(i) /\ Excludes(decisions, Of(i) - 1))}
           Resolved(i) ==
                [c \in Columns |->
                    IF InConflict(i) /\ Chosen(decisions, Of(i) - 1, c) = "compared"
                    THEN RowAt(right, list[Of(i)].comparedRow)[c]
                    ELSE RowAt(left, i)[c]]
           resolved == [n \in 1 .. Len(left) |-> Resolved(n - 1)]
<1>1. FrameConflicts(left, right, keys) = list
  BY ListsAreConflicts
<1>2. \A i : /\ InConflict(i) <=> i \in P
             /\ i \in P => /\ Of(i) = RankIn(P, i) + 1
                           /\ list[Of(i)].comparedRow = Partner(left, right, keys, i)
  <2> TAKE i
  <2>1. /\ InConflict(i) <=> i \in P
        /\ i \in P => /\ Of(i) = RankIn(P, i) + 1
                      /\ list[RankIn(P, i) + 1].comparedRow = Partner(left, right, keys, i)
    BY PlaceInList
  <2> HIDE DEF InConflict, Of, P, list
  <2> QED
    BY <2>1
<1>3. \A i \in P : (RankIn(P, i) + 1) - 1 = RankIn(P, i)
  <2>1. \A i \in P : RankIn(P, i) \in Nat
    BY ConflictsListed
  <2> HIDE DEF P
  <2> QED
    BY <2>1
<1>4. ResolveFrames(left, right, keys, decisions)
        = IF keys = {} \/ ~ DecisionsAreValid(list, decisions)
          THEN Refused ELSE Table(RowsAt(resolved, active))
  BY <1>1 DEF ResolveFrames
<1> HIDE DEF InConflict, Of, list
<1>5. \A i \in P : Of(i) - 1 = RankIn(P, i)
  <2> HIDE DEF P
  <2> QED
    BY <1>2, <1>3
<1>6. active = SettledKept(left, right, keys, decisions)
  BY <1>2, <1>5 DEF SettledKept
<1>7. \A i : Resolved(i) = SettledRow(left, right, keys, decisions, i)
  BY <1>2, <1>5 DEF SettledRow
<1>8. resolved = SettledRows(left, right, keys, decisions)
  <2> HIDE DEF Resolved
  <2> QED
    BY <1>7 DEF SettledRows
<1> HIDE DEF active, resolved
<1> QED
  BY <1>4, <1>6, <1>8 DEF ConflictsSettled, list

(* The query settles them too, by the numbers it gives the conflicts.      *)
LEMMA QuerySettles ==
  ASSUME NEW R, NEW left \in Seq(R), NEW S, NEW right \in Seq(S), NEW keys, NEW decisions
  PROVE  ResolutionPlan(left, right, keys, decisions) = ConflictsSettled(left, right, keys, decisions)
<1> DEFINE P == ConflictRows(left, right, keys)
           inConflict == {i \in RowIndexes(left) :
                \E j \in JoinedRow(left, right, keys, i) :
                    ~NotDistinct(RowAt(left, i), RowAt(right, j), Payload(keys))}
           Number(i) == ConflictNumber(inConflict, i)
           kept == {i \in RowIndexes(left) : ~ (i \in inConflict /\ Excludes(decisions, Number(i)))}
           Projected(i) ==
                [c \in Columns |->
                    IF i \in inConflict /\ Chosen(decisions, Number(i), c) = "compared"
                    THEN RowAt(right, CHOOSE j \in JoinedRow(left, right, keys, i) : TRUE)[c]
                    ELSE RowAt(left, i)[c]]
           projected == [n \in 1 .. Len(left) |-> Projected(n - 1)]
<1>1. inConflict = P
  BY QueryFindsConflicts
<1>2. \A i \in P : (CHOOSE j \in JoinedRow(left, right, keys, i) : TRUE) = Partner(left, right, keys, i)
  <2>1. \A i \in P : JoinedRow(left, right, keys, i) = {Partner(left, right, keys, i)}
    BY QueryFindsConflicts
  <2> HIDE DEF P
  <2> QED
    BY <2>1
<1>3. ResolutionPlan(left, right, keys, decisions) = RowsAt(projected, kept)
  BY DEF ResolutionPlan
<1> HIDE DEF inConflict
<1>4. \A i : Number(i) = RankIn(P, i)
  BY <1>1 DEF ConflictNumber, RankIn
<1> HIDE DEF Number
<1>5. kept = SettledKept(left, right, keys, decisions)
  BY <1>1, <1>4 DEF SettledKept
<1>6. \A i : Projected(i) = SettledRow(left, right, keys, decisions, i)
  <2> TAKE i
  <2> DEFINE j == CHOOSE h \in JoinedRow(left, right, keys, i) : TRUE
  <2>1. i \in P => j = Partner(left, right, keys, i)
    BY <1>2
  <2> HIDE DEF j
  <2>2. Projected(i) = [c \in Columns |->
            IF i \in P /\ Chosen(decisions, RankIn(P, i), c) = "compared"
            THEN RowAt(right, j)[c] ELSE RowAt(left, i)[c]]
    BY <1>1, <1>4 DEF j
  <2> HIDE DEF Projected, P
  <2>3. \A c \in Columns :
            (IF i \in P /\ Chosen(decisions, RankIn(P, i), c) = "compared"
             THEN RowAt(right, j)[c] ELSE RowAt(left, i)[c])
            = IF i \in P /\ Chosen(decisions, RankIn(P, i), c) = "compared"
              THEN RowAt(right, Partner(left, right, keys, i))[c] ELSE RowAt(left, i)[c]
    BY <2>1
  <2> QED
    BY <2>2, <2>3 DEF SettledRow, P
<1>7. projected = SettledRows(left, right, keys, decisions)
  <2> HIDE DEF Projected
  <2> QED
    BY <1>6 DEF SettledRows
<1> HIDE DEF kept, projected
<1> QED
  BY <1>3, <1>5, <1>7 DEF ConflictsSettled

(* A decision is one of those that can be expressed.                       *)
Decides(decisions) ==
    /\ IsFiniteSet(DOMAIN decisions)
    /\ DOMAIN decisions \subseteq Nat \X (Columns \cup {WholeRow})
    /\ \A d \in DOMAIN decisions :
            /\ decisions[d] \in {"current", "compared", "exclude"}
            /\ decisions[d] = "exclude" => d[2] = WholeRow

(* A column is decided about when the decision is there.                   *)
LEMMA DecidedTells ==
  ASSUME NEW decisions, Decides(decisions), NEW n, NEW c
  PROVE  /\ c \in DecidedColumns(decisions, n) <=> <<n, c>> \in DOMAIN decisions
         /\ Excludes(decisions, n) <=> /\ WholeRow \in DecidedColumns(decisions, n)
                                       /\ decisions[<<n, WholeRow>>] = "exclude"
<1>1. \A d \in DOMAIN decisions : d = <<d[1], d[2]>>
  BY DEF Decides
<1>2. \A x : x \in DecidedColumns(decisions, n) <=> <<n, x>> \in DOMAIN decisions
  <2> TAKE x
  <2>1. ASSUME x \in DecidedColumns(decisions, n)
        PROVE  <<n, x>> \in DOMAIN decisions
    <3>1. PICK d \in DOMAIN decisions : d[1] = n /\ d[2] = x
      BY <2>1 DEF DecidedColumns
    <3>2. d = <<n, x>>
      BY <1>1, <3>1
    <3> QED
      BY <3>2
  <2>2. ASSUME <<n, x>> \in DOMAIN decisions
        PROVE  x \in DecidedColumns(decisions, n)
    <3> DEFINE d == <<n, x>>
    <3>1. d \in DOMAIN decisions /\ d[1] = n /\ d[2] = x
      BY <2>2
    <3> HIDE DEF d
    <3> QED
      BY <3>1 DEF DecidedColumns
  <2> QED
    BY <2>1, <2>2
<1>3. ASSUME Excludes(decisions, n)
      PROVE  WholeRow \in DecidedColumns(decisions, n) /\ decisions[<<n, WholeRow>>] = "exclude"
  <2>1. PICK x \in DecidedColumns(decisions, n) : decisions[<<n, x>>] = "exclude"
    BY <1>3 DEF Excludes
  <2>2. x = WholeRow
    BY <1>2, <2>1 DEF Decides
  <2> QED
    BY <2>1, <2>2
<1>4. ASSUME WholeRow \in DecidedColumns(decisions, n), decisions[<<n, WholeRow>>] = "exclude"
      PROVE  Excludes(decisions, n)
  BY <1>4 DEF Excludes
<1> QED
  BY <1>2, <1>3, <1>4

(* Validating while the conflicts go by refuses only what is not valid,    *)
(* and accepts only what is.                                               *)
LEMMA VerdictTells ==
  ASSUME NEW list, Len(list) \in Nat, NEW decisions, Decides(decisions)
  PROVE  /\ SourceValidation(list, decisions) = "refused" => ~ DecisionsAreValid(list, decisions)
         /\ SourceValidation(list, decisions) = "valid" => DecisionsAreValid(list, decisions)
<1> DEFINE M == Len(list)
           seen == Min({Len(list), MaxDecisions})
           after == {d \in DOMAIN decisions : d[1] >= Len(list)}
           Unsettled(n) == ~ IsSettled(decisions, n - 1, DOMAIN list[n].cells)
           verdict == SourceValidation(list, decisions)
<1>1. MaxDecisions \in Nat /\ WholeRow \notin Columns
  BY ComparisonAssumption DEF ComparisonAssumption
<1>2. seen \in Nat /\ seen <= M /\ (M <= MaxDecisions => seen = M)
  BY <1>1, MinOfTwo
<1>3. verdict = IF Cardinality(DOMAIN decisions) > MaxDecisions THEN "fallback"
                ELSE IF \E n \in 1 .. seen : Unsettled(n) THEN "refused"
                ELSE IF M > MaxDecisions THEN "fallback"
                ELSE IF after # {} THEN "refused" ELSE "valid"
  BY DEF SourceValidation
<1> HIDE DEF verdict, seen
<1>4. ASSUME NEW n \in 1 .. M, Unsettled(n)
      PROVE  ~ DecisionsAreValid(list, decisions)
  BY <1>4 DEF DecisionsAreValid
<1>5. ASSUME NEW d \in DOMAIN decisions
      PROVE  d[1] \in Nat
  BY DEF Decides
<1>6. ASSUME verdict = "refused"
      PROVE  ~ DecisionsAreValid(list, decisions)
  <2>1. (\E n \in 1 .. seen : Unsettled(n)) \/ after # {}
    BY <1>3, <1>6
  <2>2. CASE \E n \in 1 .. seen : Unsettled(n)
    <3>1. PICK n \in 1 .. seen : Unsettled(n)
      BY <2>2
    <3>2. n \in 1 .. M
      BY <1>2
    <3> QED
      BY <1>4, <3>1, <3>2
  <2>3. CASE after # {}
    <3>1. PICK d \in DOMAIN decisions : d[1] >= M
      BY <2>3
    <3>2. ~ (d[1] < M)
      BY <1>5, <3>1
    <3> QED
      BY <3>2 DEF DecisionsAreValid
  <2> QED
    BY <2>1, <2>2, <2>3
<1>7. ASSUME verdict = "valid"
      PROVE  DecisionsAreValid(list, decisions)
  <2>1. /\ ~ \E n \in 1 .. seen : Unsettled(n)
        /\ ~ (M > MaxDecisions) /\ after = {}
    BY <1>3, <1>7
  <2>2. seen = M
    BY <1>1, <1>2, <2>1
  <2>3. \A n \in 1 .. M : IsSettled(decisions, n - 1, DOMAIN list[n].cells)
    BY <2>1, <2>2
  <2>4. ASSUME NEW d \in DOMAIN decisions
        PROVE  /\ d[1] < M
               /\ d[2] # WholeRow => d[2] \in DOMAIN list[d[1] + 1].cells
    <3> DEFINE n == d[1]
               columns == DOMAIN list[d[1] + 1].cells
               decided == DecidedColumns(decisions, n)
    <3>1. n \in Nat /\ n < M
      BY <1>5, <2>1
    <3>2. n + 1 \in 1 .. M /\ (n + 1) - 1 = n
      BY <3>1
    <3> HIDE DEF n
    <3>3. IsSettled(decisions, n, columns)
      BY <2>3, <3>2 DEF n
    <3>4. d[2] \in decided
      BY DEF n, DecidedColumns
    <3> HIDE DEF columns
    <3>5. ASSUME d[2] # WholeRow
          PROVE  d[2] \in columns
      <4>1. ~ Excludes(decisions, n)
        <5> SUFFICES ASSUME Excludes(decisions, n) PROVE FALSE
          OBVIOUS
        <5>1. WholeRow \in decided
          BY DecidedTells
        <5>2. Cardinality(decided) = 1
          BY <3>3 DEF IsSettled
        <5>3. IsFiniteSet(decided)
          <6> DEFINE D == {x \in DOMAIN decisions : x[1] = n}
                     s == [x \in D |-> x[2]]
          <6>1. IsFiniteSet(D)
            BY FS_Subset DEF Decides
          <6>2. s \in Surjection(D, decided)
            BY DEF Surjection, DecidedColumns
          <6> HIDE DEF s, D
          <6> QED
            BY <6>1, <6>2, FS_Surjection
        <5> HIDE DEF decided
        <5>4. PICK x : decided = {x}
          BY <5>2, <5>3, FS_Singleton
        <5> QED
          BY <3>4, <3>5, <5>1, <5>4
      <4>2. decided = {WholeRow} \/ decided = columns
        BY <3>3, <4>1 DEF IsSettled
      <4> QED
        BY <3>4, <3>5, <4>2
    <3> QED
      BY <3>1, <3>5 DEF n, columns
  <2> QED
    BY <2>3, <2>4 DEF DecisionsAreValid
<1> QED
  BY <1>6, <1>7 DEF verdict

(* Resolving in the files and resolving in memory.                         *)
LEMMA ResolutionsAgree ==
  ASSUME NEW R, NEW left \in Seq(R), NEW S, NEW right \in Seq(S), NEW keys, NEW decisions,
         KeysFall(left, keys), Decides(decisions)
  PROVE  ResolveSources(left, right, keys, decisions) = ResolveFrames(left, right, keys, decisions)
<1> DEFINE list == ConflictList(left, right, keys)
           verdict == SourceValidation(list, decisions)
           frames == ResolveFrames(left, right, keys, decisions)
           settled == ConflictsSettled(left, right, keys, decisions)
<1>1. ConflictsBetweenParquet(left, right, keys) = list
  BY ListsAreConflicts
<1>2. ResolutionPlan(left, right, keys, decisions) = settled
  BY QuerySettles
<1>3. frames = IF keys = {} \/ ~ DecisionsAreValid(list, decisions) THEN Refused ELSE Table(settled)
  BY FramesSettle
<1>4. ResolveSources(left, right, keys, decisions)
        = IF keys = {} \/ verdict = "refused" THEN Refused
          ELSE IF verdict = "valid" THEN Table(settled) ELSE frames
  BY <1>1, <1>2 DEF ResolveSources
<1>5. Len(list) \in Nat
  BY ConflictsListed
<1> HIDE DEF list, frames, settled
<1>6. /\ verdict = "refused" => ~ DecisionsAreValid(list, decisions)
      /\ verdict = "valid" => DecisionsAreValid(list, decisions)
  BY <1>5, VerdictTells
<1> HIDE DEF verdict
<1>7. ResolveSources(left, right, keys, decisions) = frames
  BY <1>3, <1>4, <1>6
<1> QED
  BY <1>7 DEF frames

(* Rows of one signature have the same cells.                              *)
LEMMA CellsOfSignature ==
  ASSUME NEW x, NEW y, NEW C, Signature(x, C) = Signature(y, C), NEW c \in C
  PROVE  x[c] = y[c]
<1>1. Signature(x, C)[c] = x[c] /\ Signature(y, C)[c] = y[c]
  BY DEF Signature
<1> QED
  BY <1>1

(* The same cells make the same signature.                                 *)
LEMMA SignatureOfCells ==
  ASSUME NEW x, NEW y, NEW C, \A c \in C : x[c] = y[c]
  PROVE  Signature(x, C) = Signature(y, C)
BY DEF Signature

(* Settling a row leaves its key as it is.                                 *)
LEMMA SettledKey ==
  ASSUME NEW R, NEW left \in Seq(R), NEW S, NEW right \in Seq(S), NEW keys \in SUBSET Columns,
         NEW decisions, NEW i
  PROVE  Signature(SettledRow(left, right, keys, decisions, i), keys) = Signature(RowAt(left, i), keys)
<1> DEFINE P == ConflictRows(left, right, keys)
           j == Partner(left, right, keys, i)
           row == SettledRow(left, right, keys, decisions, i)
<1>1. ASSUME i \in P, NEW c \in keys
      PROVE  RowAt(right, j)[c] = RowAt(left, i)[c]
  <2>1. <<i, j>> \in ConflictPairs(left, right, keys)
    BY <1>1, PartnersTell
  <2> HIDE DEF j
  <2>2. RowsWith(right, keys, Signature(RowAt(left, i), keys)) = {j}
    BY <2>1, ConflictsTell
  <2>3. Signature(RowAt(right, j), keys) = Signature(RowAt(left, i), keys)
    BY <2>2 DEF RowsWith
  <2> QED
    BY <2>3, CellsOfSignature
<1>2. ASSUME NEW c \in keys
      PROVE  row[c] = RowAt(left, i)[c]
  <2>1. row[c] = IF i \in P /\ Chosen(decisions, RankIn(P, i), c) = "compared"
                 THEN RowAt(right, j)[c] ELSE RowAt(left, i)[c]
    BY DEF SettledRow
  <2> HIDE DEF row, P, j
  <2> QED
    BY <1>1, <2>1
<1> HIDE DEF row
<1>3. Signature(row, keys) = Signature(RowAt(left, i), keys)
  BY <1>2, SignatureOfCells
<1> QED
  BY <1>3 DEF row

(* A row that is kept is left with no difference from the only row of its  *)
(* key, when nothing is decided for the active side.                       *)
LEMMA SettledLikePartner ==
  ASSUME NEW R, NEW left \in Seq(R), NEW S, NEW right \in Seq(S), NEW keys \in SUBSET Columns,
         NEW decisions, Decides(decisions),
         \A d \in DOMAIN decisions : decisions[d] # "current",
         DecisionsAreValid(ConflictList(left, right, keys), decisions),
         NEW i \in SettledKept(left, right, keys, decisions), NEW j \in RowIndexes(right),
         RowsWith(left, keys, Signature(RowAt(left, i), keys)) = {i},
         RowsWith(right, keys, Signature(RowAt(left, i), keys)) = {j}
  PROVE  ConflictColumns(SettledRow(left, right, keys, decisions, i), RowAt(right, j), keys) = {}
<1> DEFINE P == ConflictRows(left, right, keys)
           row == SettledRow(left, right, keys, decisions, i)
           x == RowAt(left, i)
           y == RowAt(right, j)
           n == RankIn(P, i)
<1>1. i \in RowIndexes(left) /\ ~ (i \in P /\ Excludes(decisions, n))
  BY DEF SettledKept
<1>2. <<i, j>> \in ConflictPairs(left, right, keys) <=> ConflictColumns(x, y, keys) # {}
  BY <1>1, ConflictsTell
<1>3. \A c \in Columns :
        row[c] = IF i \in P /\ Chosen(decisions, n, c) = "compared"
                 THEN RowAt(right, Partner(left, right, keys, i))[c] ELSE x[c]
  BY DEF SettledRow
<1>4. Payload(keys) \subseteq Columns /\ WholeRow \notin Columns
  BY ComparisonAssumption DEF Payload, ComparisonAssumption
<1>5. CASE ConflictColumns(x, y, keys) = {}
  <2>1. i \notin P
    <3> SUFFICES ASSUME i \in P PROVE FALSE
      OBVIOUS
    <3> DEFINE h == Partner(left, right, keys, i)
    <3>1. /\ RowsWith(right, keys, Signature(RowAt(left, i), keys)) = {h}
          /\ ConflictColumns(RowAt(left, i), RowAt(right, h), keys) # {}
      BY OnlyPartner
    <3> HIDE DEF h, P
    <3>2. h = j
      BY <3>1
    <3> QED
      BY <1>5, <3>1, <3>2
  <2>2. \A c \in Payload(keys) : row[c] = x[c]
    BY <1>3, <1>4, <2>1
  <2> HIDE DEF row, x, y
  <2>3. \A c \in Payload(keys) : x[c] = y[c]
    BY <1>5 DEF ConflictColumns
  <2> QED
    BY <2>2, <2>3 DEF ConflictColumns, row, x, y
<1>6. CASE ConflictColumns(x, y, keys) # {}
  <2> DEFINE columns == ConflictColumns(x, y, keys)
             decided == DecidedColumns(decisions, n)
             list == ConflictList(left, right, keys)
  <2>1. i \in P /\ Partner(left, right, keys, i) = j
    BY <1>2, <1>6, PartnersTell
  <2>2. ~ Excludes(decisions, n)
    BY <1>1, <2>1
  <2>3. n + 1 \in 1 .. Len(list) /\ n \in Nat /\ list[n + 1] = ConflictOf(left, right, keys, i)
    BY <2>1, ConflictsListed
  <2>4. DOMAIN list[n + 1].cells = columns
    <3>1. DOMAIN ConflictOf(left, right, keys, i).cells = columns
      BY <2>1 DEF ConflictOf
    <3> HIDE DEF list, n, columns
    <3> QED
      BY <2>3, <3>1
  <2>5. (n + 1) - 1 = n
    BY <2>3
  <2>6. IsSettled(decisions, n, columns)
    <3> HIDE DEF list, columns, n
    <3>1. IsSettled(decisions, (n + 1) - 1, DOMAIN list[n + 1].cells)
      BY <2>3 DEF DecisionsAreValid, list
    <3> QED
      BY <2>4, <2>5, <3>1
  <2> HIDE DEF n, list
  <2>7. decided = {WholeRow} \/ decided = columns
    BY <2>2, <2>6 DEF IsSettled
  <2>8. columns \subseteq Payload(keys)
    BY DEF ConflictColumns
  <2>9. ASSUME NEW c, <<n, c>> \in DOMAIN decisions
        PROVE  decisions[<<n, c>>] = "compared"
    <3>1. decisions[<<n, c>>] \in {"current", "compared", "exclude"} /\ decisions[<<n, c>>] # "current"
      BY <2>9 DEF Decides
    <3>2. decisions[<<n, c>>] # "exclude"
      <4> SUFFICES ASSUME decisions[<<n, c>>] = "exclude" PROVE FALSE
        OBVIOUS
      <4>1. c \in decided
        BY <2>9, DecidedTells
      <4> QED
        BY <2>2, <4>1 DEF Excludes
    <3> QED
      BY <3>1, <3>2
  <2>10. \A c : c \in decided <=> <<n, c>> \in DOMAIN decisions
    BY DecidedTells
  <2> HIDE DEF decided
  <2>11. ASSUME NEW c \in Payload(keys), Chosen(decisions, n, c) # "compared"
         PROVE  x[c] = y[c]
    <3>1. <<n, c>> \notin DOMAIN decisions /\ <<n, WholeRow>> \notin DOMAIN decisions
      BY <2>9, <2>11 DEF Chosen
    <3>2. c \notin columns
      BY <2>7, <2>10, <3>1
    <3> QED
      BY <3>2 DEF ConflictColumns
  <2>12. ASSUME NEW c \in Payload(keys)
         PROVE  row[c] = y[c]
    <3>1. row[c] = IF Chosen(decisions, n, c) = "compared" THEN y[c] ELSE x[c]
      <4>1. c \in Columns
        BY <1>4
      <4> HIDE DEF P, row, x
      <4>2. row[c] = IF i \in P /\ Chosen(decisions, n, c) = "compared"
                     THEN RowAt(right, Partner(left, right, keys, i))[c] ELSE x[c]
        BY <1>3, <4>1 DEF n
      <4> QED
        BY <2>1, <4>2
    <3> HIDE DEF row, x, y
    <3> QED
      BY <2>11, <3>1
  <2> HIDE DEF row
  <2>13. ConflictColumns(row, y, keys) = {}
    BY <2>12 DEF ConflictColumns
  <2> QED
    BY <2>13 DEF row
<1> QED
  BY <1>5, <1>6

(* A list of no conflicts.                                                 *)
LEMMA NoConflictsListed ==
  ASSUME NEW left, NEW right, NEW keys, ConflictPairs(left, right, keys) = {}
  PROVE  ConflictList(left, right, keys) = <<>>
<1> DEFINE P == ConflictRows(left, right, keys)
           list == ConflictList(left, right, keys)
<1>1. P = {} /\ Cardinality(P) = 0
  BY FS_EmptySet DEF ConflictRows
<1>2. list = [n \in 1 .. Cardinality(P) |-> ConflictOf(left, right, keys, NthOf(P, n))]
  BY DEF ConflictList
<1> HIDE DEF list, P
<1>3. list \in [1 .. 0 -> {}]
  BY <1>1, <1>2
<1>4. list \in Seq({}) /\ Len(list) = 0
  BY <1>3
<1>5. list = <<>>
  BY <1>4, EmptySeq
<1> QED
  BY <1>5 DEF list

(* The rows of the resolution are a dataset, each from the row it settles. *)
SettledUniverse(left, right, keys, decisions) ==
    {SettledRow(left, right, keys, decisions, i) : i \in RowIndexes(left)}

(* Settling the rows one by one.                                           *)
LEMMA RowsSettled ==
  ASSUME NEW R, NEW left \in Seq(R), NEW right, NEW keys, NEW decisions, NEW data,
         data = SettledRows(left, right, keys, decisions)
  PROVE  /\ data \in Seq(SettledUniverse(left, right, keys, decisions))
         /\ RowIndexes(data) = RowIndexes(left)
         /\ \A i \in RowIndexes(left) :
                RowAt(data, i) = SettledRow(left, right, keys, decisions, i)
<1> DEFINE Row(i) == SettledRow(left, right, keys, decisions, i)
           T == SettledUniverse(left, right, keys, decisions)
<1>1. data = [n \in 1 .. Len(left) |-> Row(n - 1)] /\ Len(left) \in Nat
  BY DEF SettledRows
<1>2. \A n \in 1 .. Len(left) : Row(n - 1) \in T
  <2>1. \A n \in 1 .. Len(left) : n - 1 \in RowIndexes(left)
    BY <1>1 DEF RowIndexes
  <2> HIDE DEF Row
  <2> QED
    BY <2>1 DEF SettledUniverse, Row
<1> HIDE DEF Row, T
<1>3. data \in Seq(T) /\ Len(data) = Len(left)
  <2>1. data \in [1 .. Len(left) -> T]
    BY <1>1, <1>2
  <2> QED
    BY <1>1, <2>1
<1>4. RowIndexes(data) = RowIndexes(left)
  BY <1>3 DEF RowIndexes
<1>5. \A i \in RowIndexes(left) : RowAt(data, i) = Row(i)
  <2> TAKE i \in RowIndexes(left)
  <2>1. i + 1 \in 1 .. Len(left) /\ (i + 1) - 1 = i
    BY <1>1 DEF RowIndexes
  <2> QED
    BY <1>1, <2>1 DEF RowAt
<1> QED
  BY <1>3, <1>4, <1>5 DEF T, Row

(* Keeping those that are not excluded.                                    *)
LEMMA ResolutionIsDataset ==
  ASSUME NEW R, NEW left \in Seq(R), NEW right, NEW keys, NEW decisions,
         NEW kept, kept = SettledKept(left, right, keys, decisions),
         NEW out, out = ConflictsSettled(left, right, keys, decisions)
  PROVE  /\ out \in Seq(SettledUniverse(left, right, keys, decisions))
         /\ kept \in SUBSET RowIndexes(left) /\ kept \in SUBSET Nat /\ IsFiniteSet(kept)
         /\ Cardinality(kept) \in Nat /\ RowIndexes(out) = 0 .. Cardinality(kept) - 1
<1> DEFINE T == SettledUniverse(left, right, keys, decisions)
           data == SettledRows(left, right, keys, decisions)
           K == Cardinality(kept)
<1>1. kept \in SUBSET RowIndexes(left)
  BY DEF SettledKept
<1>2. out = RowsAt(data, kept)
  BY DEF ConflictsSettled
<1>3. data \in Seq(T) /\ RowIndexes(data) = RowIndexes(left)
  BY RowsSettled
<1> HIDE DEF T, data
<1>4. out \in Seq(T) /\ Len(out) = K
  BY <1>1, <1>2, <1>3, KeptAreDataset
<1>5. IsFiniteSet(kept) /\ kept \in SUBSET Nat /\ K \in Nat
  BY <1>1, KeptRows
<1>6. RowIndexes(out) = 0 .. K - 1
  BY <1>4 DEF RowIndexes
<1> QED
  BY <1>1, <1>4, <1>5, <1>6 DEF T

(* The row that a row of the resolution comes from, and its key.           *)
LEMMA RowOfResolution ==
  ASSUME NEW R, NEW left \in Seq(R), NEW S, NEW right \in Seq(S), NEW keys \in SUBSET Columns,
         NEW decisions,
         NEW kept, kept = SettledKept(left, right, keys, decisions),
         NEW out, out = ConflictsSettled(left, right, keys, decisions),
         NEW a \in RowIndexes(out), NEW i, i = NthOf(kept, a + 1)
  PROVE  /\ i \in kept
         /\ RowAt(out, a) = SettledRow(left, right, keys, decisions, i)
         /\ Signature(RowAt(out, a), keys) = Signature(RowAt(left, i), keys)
<1> DEFINE data == SettledRows(left, right, keys, decisions)
           K == Cardinality(kept)
<1>1. /\ kept \in SUBSET RowIndexes(left) /\ K \in Nat /\ RowIndexes(out) = 0 .. K - 1
  BY ResolutionIsDataset
<1>2. out = RowsAt(data, kept)
  BY DEF ConflictsSettled
<1>3. \A h \in RowIndexes(left) : RowAt(data, h) = SettledRow(left, right, keys, decisions, h)
  BY RowsSettled
<1>4. a + 1 \in 1 .. K
  <2> HIDE DEF K
  <2> QED
    BY <1>1
<1>5. i \in kept
  BY <1>1, <1>4, KeptRows
<1> HIDE DEF data
<1>6. out[a + 1] = RowAt(data, i)
  BY <1>2, <1>4, RowKept
<1>7. RowAt(out, a) = SettledRow(left, right, keys, decisions, i)
  BY <1>1, <1>3, <1>5, <1>6 DEF RowAt
<1>8. Signature(SettledRow(left, right, keys, decisions, i), keys) = Signature(RowAt(left, i), keys)
  BY SettledKey
<1> QED
  BY <1>5, <1>7, <1>8

(* Every row that is kept is in the resolution.                            *)
LEMMA RowStays ==
  ASSUME NEW R, NEW left \in Seq(R), NEW right, NEW keys, NEW decisions,
         NEW kept, kept = SettledKept(left, right, keys, decisions),
         NEW out, out = ConflictsSettled(left, right, keys, decisions),
         NEW h \in kept
  PROVE  \E a \in RowIndexes(out) : NthOf(kept, a + 1) = h
<1> DEFINE a == RankIn(kept, h)
<1>1. /\ kept \in SUBSET Nat /\ IsFiniteSet(kept)
      /\ Cardinality(kept) \in Nat /\ RowIndexes(out) = 0 .. Cardinality(kept) - 1
  BY ResolutionIsDataset
<1>2. a + 1 \in 1 .. Cardinality(kept) /\ NthOf(kept, a + 1) = h
  BY <1>1, NthElement
<1>3. a \in Nat
  <2>1. h \in Nat
    BY <1>1
  <2> QED
    BY <1>1, <2>1, RankGrows
<1> HIDE DEF a
<1>4. a \in RowIndexes(out)
  BY <1>1, <1>2, <1>3
<1> QED
  BY <1>2, <1>4

(* Settling every conflict for the compared side, or excluding its row,    *)
(* leaves no conflict.                                                     *)
LEMMA NothingLeft ==
  ASSUME NEW R, NEW left \in Seq(R), NEW S, NEW right \in Seq(S), NEW keys \in SUBSET Columns,
         KeysFall(left, keys), NEW decisions, Decides(decisions),
         \A d \in DOMAIN decisions : decisions[d] # "current",
         DecisionsAreValid(ConflictList(left, right, keys), decisions)
  PROVE  FrameConflicts(ConflictsSettled(left, right, keys, decisions), right, keys) = <<>>
<1> DEFINE P == ConflictRows(left, right, keys)
           T == SettledUniverse(left, right, keys, decisions)
           kept == SettledKept(left, right, keys, decisions)
           out == ConflictsSettled(left, right, keys, decisions)
           From(a) == NthOf(kept, a + 1)
           Key(i) == Signature(RowAt(left, i), keys)
<1>1. /\ out \in Seq(T) /\ kept \in SUBSET RowIndexes(left)
      /\ \A a \in RowIndexes(out) :
            /\ From(a) \in kept
            /\ RowAt(out, a) = SettledRow(left, right, keys, decisions, From(a))
            /\ Signature(RowAt(out, a), keys) = Key(From(a))
      /\ \A h \in kept : \E a \in RowIndexes(out) : From(a) = h
  <2>1. out \in Seq(T) /\ kept \in SUBSET RowIndexes(left)
    BY ResolutionIsDataset
  <2>2. ASSUME NEW a \in RowIndexes(out)
        PROVE  /\ From(a) \in kept
               /\ RowAt(out, a) = SettledRow(left, right, keys, decisions, From(a))
               /\ Signature(RowAt(out, a), keys) = Key(From(a))
    BY RowOfResolution
  <2>3. ASSUME NEW h \in kept
        PROVE  \E a \in RowIndexes(out) : From(a) = h
    BY RowStays
  <2> QED
    BY <2>1, <2>2, <2>3
<1>2. \A h \in RowIndexes(left) : h \notin kept => h \in P
  BY DEF SettledKept
<1> HIDE DEF T, out, From
<1>3. KeysFall(out, keys)
  <2>1. \A k \in KeysOf(left, keys) : BucketOf(k) \in Buckets
    BY DEF KeysFall
  <2>2. ASSUME NEW k \in KeysOf(out, keys)
        PROVE  k \in KeysOf(left, keys)
    <3>1. PICK a \in RowIndexes(out) : k = Signature(RowAt(out, a), keys)
      BY DEF KeysOf
    <3>2. k = Key(From(a)) /\ From(a) \in RowIndexes(left)
      BY <1>1, <3>1
    <3> QED
      BY <3>2 DEF KeysOf
  <2> QED
    BY <2>1, <2>2 DEF KeysFall
<1> HIDE DEF kept, P
<1>4. ASSUME NEW a, NEW j, <<a, j>> \in ConflictPairs(out, right, keys)
      PROVE  FALSE
  <2> DEFINE i == From(a)
             k == Key(i)
  <2>1. /\ a \in RowIndexes(out) /\ j \in RowIndexes(right)
        /\ RowsWith(out, keys, Signature(RowAt(out, a), keys)) = {a}
        /\ RowsWith(right, keys, Signature(RowAt(out, a), keys)) = {j}
        /\ ConflictColumns(RowAt(out, a), RowAt(right, j), keys) # {}
    BY <1>1, <1>4, ConflictsTell
  <2>2. /\ i \in kept /\ i \in RowIndexes(left) /\ Signature(RowAt(out, a), keys) = k
        /\ RowAt(out, a) = SettledRow(left, right, keys, decisions, i)
    BY <1>1, <2>1
  <2>3. i \in RowsWith(left, keys, k)
    BY <2>2 DEF RowsWith
  <2>4. ASSUME NEW h \in RowsWith(left, keys, k), h \notin kept
        PROVE  h = i
    <3>1. h \in RowIndexes(left) /\ Key(h) = k
      BY DEF RowsWith
    <3>2. h \in P
      BY <1>2, <2>4, <3>1
    <3>3. RowsWith(left, keys, Key(h)) = {h}
      BY <3>2, OnlyPartner DEF P
    <3> HIDE DEF k, i, Key
    <3> QED
      BY <2>3, <3>1, <3>3
  <2>5. ASSUME NEW h \in RowsWith(left, keys, k), h \in kept
        PROVE  h = i
    <3>1. Key(h) = k
      BY DEF RowsWith
    <3>2. PICK b \in RowIndexes(out) : From(b) = h
      BY <1>1, <2>5
    <3>3. Signature(RowAt(out, b), keys) = k
      BY <1>1, <3>1, <3>2
    <3>4. b \in RowsWith(out, keys, k)
      BY <3>3 DEF RowsWith
    <3>5. b = a
      BY <2>1, <2>2, <3>4
    <3> QED
      BY <3>2, <3>5
  <2>6. RowsWith(left, keys, k) = {i}
    BY <2>3, <2>4, <2>5
  <2>7. RowsWith(right, keys, k) = {j}
    BY <2>1, <2>2
  <2> HIDE DEF i
  <2>8. ConflictColumns(SettledRow(left, right, keys, decisions, i), RowAt(right, j), keys) = {}
    BY <2>1, <2>2, <2>6, <2>7, SettledLikePartner DEF kept
  <2> QED
    BY <2>1, <2>2, <2>8
<1>5. ConflictPairs(out, right, keys) = {}
  <2>1. \A p \in ConflictPairs(out, right, keys) : p = <<p[1], p[2]>>
    BY <1>1, ConflictsTell
  <2> QED
    BY <1>4, <2>1
<1>6. FrameConflicts(out, right, keys) = ConflictList(out, right, keys)
  BY <1>1, <1>3, ListsAreConflicts
<1>7. FrameConflicts(out, right, keys) = <<>>
  BY <1>5, <1>6, NoConflictsListed
<1> QED
  BY <1>7 DEF out

-----------------------------------------------------------------------------
(* Lists put one after the other.                                          *)

(* A prefix of a sequence is a shorter one and what follows it.            *)
LEMMA LongerPrefix ==
  ASSUME NEW E, NEW t \in Seq(E), NEW c \in Seq(E), NEW k \in Nat, k + Len(c) <= Len(t),
         \A m \in 1 .. Len(c) : c[m] = t[k + m]
  PROVE  [r \in 1 .. k + Len(c) |-> t[r]] = [r \in 1 .. k |-> t[r]] \o c
<1> DEFINE n == Len(c)
           a == [r \in 1 .. k |-> t[r]]
           b == [r \in 1 .. k + n |-> t[r]]
<1>1. n \in Nat /\ k + n <= Len(t) /\ Len(t) \in Nat
  OBVIOUS
<1>2. \A r \in 1 .. k + n : t[r] \in E
  BY <1>1
<1> HIDE DEF n
<1>3. a \in [1 .. k -> E] /\ b \in [1 .. k + n -> E]
  BY <1>1, <1>2
<1>4. \A r \in 1 .. k : a[r] = t[r]
  OBVIOUS
<1>5. \A r \in 1 .. k + n : b[r] = t[r]
  OBVIOUS
<1>6. a \in Seq(E) /\ Len(a) = k /\ b \in Seq(E) /\ Len(b) = k + n
  <2> HIDE DEF a, b
  <2> QED
    BY <1>1, <1>3
<1> HIDE DEF a, b
<1>7. /\ a \o c \in Seq(E) /\ Len(a \o c) = k + n
      /\ \A r \in 1 .. k + n : (a \o c)[r] = IF r <= k THEN a[r] ELSE c[r - k]
  <2>1. c \in Seq(E) /\ Len(c) = n
    BY DEF n
  <2>2. /\ a \o c \in Seq(E) /\ Len(a \o c) = Len(a) + Len(c)
        /\ \A r \in 1 .. Len(a) + Len(c) :
              (a \o c)[r] = IF r <= Len(a) THEN a[r] ELSE c[r - Len(a)]
    BY <1>6, <2>1
  <2> QED
    BY <1>6, <2>1, <2>2
<1>8. ASSUME NEW r \in 1 .. k + n
      PROVE  b[r] = (a \o c)[r]
  <2>1. CASE r <= k
    BY <1>1, <1>4, <1>5, <1>7, <2>1
  <2>2. CASE ~ (r <= k)
    <3>1. r - k \in 1 .. n /\ k + (r - k) = r
      BY <1>1, <2>2
    <3>2. c[r - k] = t[r]
      BY <3>1 DEF n
    <3> QED
      BY <1>5, <1>7, <2>2, <3>2
  <2> QED
    BY <2>1, <2>2
<1>9. b = a \o c
  BY <1>6, <1>7, <1>8, SeqEqual
<1> QED
  BY <1>9 DEF a, b, n

(* The n-th of the N pieces of t starts after off[n].                      *)
Pieces(q, N, t, off) ==
    /\ \A n \in 1 .. N + 1 : off[n] \in 0 .. Len(t)
    /\ off[1] = 0 /\ off[N + 1] = Len(t)
    /\ \A n \in 1 .. N : off[n + 1] = off[n] + Len(q[n])
    /\ \A n \in 1 .. N : \A m \in 1 .. Len(q[n]) : q[n][m] = t[off[n] + m]

(* One after the other, they are it.                                       *)
LEMMA FlattenPieces ==
  ASSUME NEW N \in Nat, NEW E, NEW q \in [1 .. N -> Seq(E)], NEW t \in Seq(E), NEW off,
         Pieces(q, N, t, off)
  PROVE  FlattenSeq(q) = t
<1> USE DEF Pieces
<1> DEFINE f == [i \in 1 .. N |-> [r \in 1 .. off[i + 1] |-> t[r]]]
           F(h) == h = [i \in 1 .. Len(q) |-> IF i = 1 THEN q[i] ELSE h[i - 1] \o q[i]]
<1>1. Len(q) = N
  OBVIOUS
<1>2. CASE N = 0
  <2>1. FlattenSeq(q) = q /\ q = <<>>
    BY <1>1, <1>2 DEF FlattenSeq
  <2>2. Len(t) = 0
    BY <1>2
  <2>3. t = <<>>
    BY <2>2
  <2> QED
    BY <2>1, <2>3
<1>3. CASE N # 0
  <2>1. ASSUME NEW i \in 1 .. N + 1
        PROVE  /\ [r \in 1 .. off[i] |-> t[r]] \in Seq(E)
               /\ Len([r \in 1 .. off[i] |-> t[r]]) = off[i]
    <3>1. off[i] \in Nat /\ off[i] <= Len(t)
      OBVIOUS
    <3>2. \A r \in 1 .. off[i] : t[r] \in E
      BY <3>1
    <3> DEFINE k == off[i]
               a == [r \in 1 .. k |-> t[r]]
    <3>3. a \in [1 .. k -> E]
      BY <3>2
    <3>4. k \in Nat
      BY <3>1
    <3> HIDE DEF a, k
    <3>5. a \in Seq(E) /\ Len(a) = k
      BY <3>3, <3>4
    <3> QED
      BY <3>5 DEF a, k
  <2>2. ASSUME NEW i \in 1 .. N
        PROVE  f[i] = [r \in 1 .. off[i] |-> t[r]] \o q[i]
    <3>1. i \in 1 .. N + 1 /\ i + 1 \in 1 .. N + 1
      OBVIOUS
    <3>2. q[i] \in Seq(E) /\ off[i] \in Nat /\ off[i + 1] = off[i] + Len(q[i])
      BY <3>1
    <3>3. off[i] + Len(q[i]) <= Len(t)
      BY <3>1, <3>2
    <3>4. \A m \in 1 .. Len(q[i]) : q[i][m] = t[off[i] + m]
      OBVIOUS
    <3> DEFINE k == off[i]
               c == q[i]
    <3> HIDE DEF k, c
    <3>5. [r \in 1 .. k + Len(c) |-> t[r]] = [r \in 1 .. k |-> t[r]] \o c
      <4>1. c \in Seq(E) /\ k \in Nat /\ k + Len(c) <= Len(t)
        BY <3>2, <3>3 DEF k, c
      <4>2. \A m \in 1 .. Len(c) : c[m] = t[k + m]
        BY <3>4 DEF k, c
      <4> QED
        BY <4>1, <4>2, LongerPrefix
    <3> QED
      BY <3>2, <3>5 DEF k, c
  <2>3. f[1] = q[1]
    <3>1. 1 \in 1 .. N
      BY <1>3
    <3>2. [r \in 1 .. off[1] |-> t[r]] = <<>>
      OBVIOUS
    <3>3. <<>> \o q[1] = q[1]
      BY <3>1, ConcatEmptySeq
    <3> HIDE DEF f
    <3> QED
      BY <2>2, <3>1, <3>2, <3>3
  <2>4. F(f)
    <3>1. \A i \in 1 .. N : i # 1 => f[i] = f[i - 1] \o q[i]
      <4> TAKE i \in 1 .. N
      <4> HAVE i # 1
      <4>1. i - 1 \in 1 .. N /\ (i - 1) + 1 = i
        OBVIOUS
      <4>2. f[i - 1] = [r \in 1 .. off[i] |-> t[r]]
        BY <4>1
      <4> HIDE DEF f
      <4> QED
        BY <2>2, <4>2
    <3>2. f = [i \in 1 .. N |-> f[i]]
      OBVIOUS
    <3> HIDE DEF f
    <3> QED
      BY <1>1, <2>3, <3>1, <3>2
  <2>5. ASSUME NEW h, F(h)
        PROVE  h[N] = f[N]
    <3> DEFINE Wrong == {i \in 1 .. N : h[i] # f[i]}
    <3> HIDE DEF f
    <3> SUFFICES ASSUME Wrong # {} PROVE FALSE
      <4>1. N \in 1 .. N
        BY <1>3
      <4> QED
        BY <4>1
    <3>1. Wrong \in SUBSET Nat
      OBVIOUS
    <3> HIDE DEF Wrong
    <3>2. PICK i \in Wrong : \A j \in Wrong : i <= j
      BY <3>1, LeastElement
    <3>3. i \in 1 .. N /\ h[i] # f[i]
      BY <3>2 DEF Wrong
    <3>4. h[i] = IF i = 1 THEN q[i] ELSE h[i - 1] \o q[i]
      BY <1>1, <2>5, <3>3
    <3>5. f[i] = IF i = 1 THEN q[i] ELSE f[i - 1] \o q[i]
      BY <1>1, <2>4, <3>3
    <3>6. i # 1
      BY <2>3, <3>3, <3>4
    <3>7. i - 1 \in 1 .. N /\ i - 1 < i
      BY <3>3, <3>6
    <3>8. i - 1 \notin Wrong
      BY <3>2, <3>3, <3>7
    <3>9. h[i - 1] = f[i - 1]
      BY <3>7, <3>8 DEF Wrong
    <3> QED
      BY <3>3, <3>4, <3>5, <3>6, <3>9
  <2>6. FlattenSeq(q) = (CHOOSE h : F(h))[N]
    BY <1>1, <1>3 DEF FlattenSeq
  <2>7. F(CHOOSE h : F(h))
    <3> HIDE DEF F
    <3> QED
      BY <2>4
  <2>8. (CHOOSE h : F(h))[N] = f[N]
    <3> HIDE DEF F, f
    <3> QED
      BY <2>5, <2>7
  <2>9. f[N] = [r \in 1 .. Len(t) |-> t[r]]
    <3>1. N \in 1 .. N
      BY <1>3
    <3> QED
      BY <3>1
  <2>10. t = [r \in 1 .. Len(t) |-> t[r]]
    OBVIOUS
  <2> HIDE DEF f, F
  <2> QED
    BY <2>6, <2>8, <2>9, <2>10
<1> QED
  BY <1>2, <1>3

(* The elements of a set in their order, each with what it stands for.     *)
Listing(S, L, v) == [m \in 1 .. Cardinality(S) |-> v[InList(S, L, m)]]

(* v has its values in E.                                                  *)
Valued(S, v, E) == \A x \in S : v[x] \in E

(* It is a sequence, with every element at its rank.                       *)
LEMMA ListingOf ==
  ASSUME NEW S, IsFiniteSet(S), NEW L, Orders(S, L), NEW E, NEW v, Valued(S, v, E)
  PROVE  /\ Listing(S, L, v) \in Seq(E)
         /\ Len(Listing(S, L, v)) = Cardinality(S)
         /\ Cardinality(S) \in Nat
         /\ \A x \in S : Listing(S, L, v)[OrderRank(S, L, x) + 1] = v[x]
         /\ \A m \in 1 .. Cardinality(S) : Listing(S, L, v)[m] = v[InList(S, L, m)]
<1>1. Cardinality(S) \in Nat
  BY FS_CardinalityType
<1>2. \A m \in 1 .. Cardinality(S) : InList(S, L, m) \in S
  BY ListElement
<1>3. Listing(S, L, v) \in [1 .. Cardinality(S) -> E]
  BY <1>2 DEF Listing, Valued
<1>4. Listing(S, L, v) \in Seq(E) /\ Len(Listing(S, L, v)) = Cardinality(S)
  BY <1>1, <1>3
<1>5. \A m \in 1 .. Cardinality(S) : Listing(S, L, v)[m] = v[InList(S, L, m)]
  BY DEF Listing
<1>6. \A x \in S : /\ OrderRank(S, L, x) + 1 \in 1 .. Cardinality(S)
                   /\ InList(S, L, OrderRank(S, L, x) + 1) = x
  BY ListElement
<1> QED
  BY <1>1, <1>4, <1>5, <1>6

(* The listings of the parts, one after the other, are that of the set.    *)
LEMMA ListingOfParts ==
  ASSUME NEW S, IsFiniteSet(S), NEW L, Orders(S, L), NEW v, NEW N \in Nat,
         NEW g \in [S -> 1 .. N], \A x, y \in S : g[x] < g[y] => <<x, y>> \in L
  PROVE  FlattenSeq([n \in 1 .. N |-> Listing(Numbered(S, g, n), L, v)]) = Listing(S, L, v)
<1> DEFINE E == {v[x] : x \in S}
           A(n) == Numbered(S, g, n)
           off == [n \in 1 .. N + 1 |-> Cardinality(NumberedBelow(S, g, n))]
           q == [n \in 1 .. N |-> Listing(A(n), L, v)]
           t == Listing(S, L, v)
<1>1. g \in [S -> Nat]
  OBVIOUS
<1>2. \A n \in Nat :
         /\ Cardinality(NumberedBelow(S, g, n)) \in Nat
         /\ Orders(A(n), L) /\ IsFiniteSet(A(n))
         /\ Cardinality(NumberedBelow(S, g, n + 1))
              = Cardinality(NumberedBelow(S, g, n)) + Cardinality(A(n))
         /\ \A x \in A(n) :
              OrderRank(S, L, x) = Cardinality(NumberedBelow(S, g, n)) + OrderRank(A(n), L, x)
  BY <1>1, RankInParts
<1>3. Valued(S, v, E)
  BY DEF Valued
<1>4. \A n : Valued(A(n), v, E) /\ A(n) \in SUBSET S
  BY DEF Numbered, Valued
<1> HIDE DEF E, A
<1>5. t \in Seq(E) /\ Len(t) = Cardinality(S) /\ Cardinality(S) \in Nat
  BY <1>3, ListingOf
<1>6. ASSUME NEW n \in 1 .. N
      PROVE  /\ q[n] \in Seq(E) /\ Len(q[n]) = Cardinality(A(n))
             /\ \A m \in 1 .. Len(q[n]) : q[n][m] = t[off[n] + m]
  <2>1. n \in Nat /\ n \in 1 .. N + 1
    OBVIOUS
  <2>2. IsFiniteSet(A(n)) /\ Orders(A(n), L) /\ Valued(A(n), v, E)
    BY <1>2, <1>4, <2>1
  <2>3. /\ Listing(A(n), L, v) \in Seq(E) /\ Len(Listing(A(n), L, v)) = Cardinality(A(n))
        /\ \A m \in 1 .. Cardinality(A(n)) : Listing(A(n), L, v)[m] = v[InList(A(n), L, m)]
    BY <2>2, ListingOf
  <2>4. q[n] = Listing(A(n), L, v)
    OBVIOUS
  <2>5. off[n] = Cardinality(NumberedBelow(S, g, n))
    BY <2>1
  <2>6. ASSUME NEW m \in 1 .. Cardinality(A(n))
        PROVE  v[InList(A(n), L, m)] = t[off[n] + m]
    <3> DEFINE x == InList(A(n), L, m)
    <3>1. x \in A(n) /\ OrderRank(A(n), L, x) = m - 1
      BY <2>2, ListElement
    <3> HIDE DEF x, off
    <3>2. x \in S /\ OrderRank(S, L, x) = off[n] + (m - 1)
      BY <1>2, <1>4, <2>1, <2>5, <3>1
    <3>3. off[n] \in Nat /\ m \in Nat
      <4>1. Cardinality(A(n)) \in Nat
        BY <2>2, FS_CardinalityType
      <4> QED
        BY <1>2, <2>1, <2>5, <4>1
    <3>4. OrderRank(S, L, x) + 1 = off[n] + m
      BY <3>2, <3>3
    <3>5. t[OrderRank(S, L, x) + 1] = v[x]
      BY <1>3, <3>2, ListingOf
    <3> QED
      BY <3>4, <3>5 DEF x
  <2> HIDE DEF q, t, off
  <2> QED
    BY <2>3, <2>4, <2>6
<1>7. q \in [1 .. N -> Seq(E)]
  <2>1. \A n \in 1 .. N : Listing(A(n), L, v) \in Seq(E)
    BY <1>6
  <2> QED
    BY <2>1
<1>8. \A n \in 1 .. N : off[n + 1] = off[n] + Len(q[n])
  <2> TAKE n \in 1 .. N
  <2>1. n \in Nat /\ n \in 1 .. N + 1 /\ n + 1 \in 1 .. N + 1
    OBVIOUS
  <2>2. off[n] = Cardinality(NumberedBelow(S, g, n)) /\ off[n + 1] = Cardinality(NumberedBelow(S, g, n + 1))
    BY <2>1
  <2> HIDE DEF off, q
  <2> QED
    BY <1>2, <1>6, <2>1, <2>2
<1>9. \A n \in 1 .. N + 1 : off[n] \in 0 .. Len(t)
  <2> TAKE n \in 1 .. N + 1
  <2>1. NumberedBelow(S, g, n) \in SUBSET S
    BY DEF NumberedBelow
  <2>2. Cardinality(NumberedBelow(S, g, n)) \in Nat /\ Cardinality(NumberedBelow(S, g, n)) <= Cardinality(S)
    BY <2>1, SmallerSet
  <2>3. off[n] = Cardinality(NumberedBelow(S, g, n))
    OBVIOUS
  <2> HIDE DEF off, t
  <2> QED
    BY <1>5, <2>2, <2>3
<1>10. off[1] = 0
  <2>1. NumberedBelow(S, g, 1) = {}
    BY DEF NumberedBelow
  <2>2. 1 \in 1 .. N + 1
    OBVIOUS
  <2> QED
    BY <2>1, <2>2, FS_EmptySet
<1>11. off[N + 1] = Len(t)
  <2>1. \A x \in S : g[x] < N + 1
    OBVIOUS
  <2>2. NumberedBelow(S, g, N + 1) = S
    BY <2>1 DEF NumberedBelow
  <2>3. off[N + 1] = Cardinality(NumberedBelow(S, g, N + 1))
    OBVIOUS
  <2> HIDE DEF off, t
  <2> QED
    BY <1>5, <2>2, <2>3
<1> HIDE DEF q, t, off
<1>12. \A n \in 1 .. N : \A m \in 1 .. Len(q[n]) : q[n][m] = t[off[n] + m]
  BY <1>6
<1>13. Pieces(q, N, t, off)
  BY <1>8, <1>9, <1>10, <1>11, <1>12 DEF Pieces
<1>14. FlattenSeq(q) = t
  BY <1>5, <1>7, <1>13, FlattenPieces
<1> QED
  BY <1>14 DEF q, t, A

(* A listing is carried along with its set.                                *)
LEMMA ListingIsCarried ==
  ASSUME NEW S, IsFiniteSet(S), NEW L, Orders(S, L), NEW T, NEW M, Orders(T, M), NEW h,
         Carries(h, S, L, T, M), NEW v, NEW w, \A x \in S : v[x] = w[h[x]]
  PROVE  Listing(S, L, v) = Listing(T, M, w)
<1>1. /\ IsFiniteSet(T) /\ Cardinality(T) = Cardinality(S)
      /\ \A x \in S : OrderRank(T, M, h[x]) = OrderRank(S, L, x)
  BY RankIsCarried
<1>2. ASSUME NEW m \in 1 .. Cardinality(S)
      PROVE  v[InList(S, L, m)] = w[InList(T, M, m)]
  <2> DEFINE x == InList(S, L, m)
  <2>1. x \in S /\ OrderRank(S, L, x) = m - 1
    BY ListElement
  <2> HIDE DEF x
  <2>2. h[x] \in T /\ OrderRank(T, M, h[x]) = m - 1
    BY <1>1, <2>1 DEF Carries
  <2>3. InList(T, M, OrderRank(T, M, h[x]) + 1) = h[x]
    BY <1>1, <2>2, ListElement
  <2>4. OrderRank(T, M, h[x]) + 1 = m
    <3>1. Cardinality(S) \in Nat
      BY FS_CardinalityType
    <3> QED
      BY <2>2, <3>1
  <2>5. InList(T, M, m) = h[x]
    BY <2>3, <2>4
  <2> QED
    BY <2>1, <2>5 DEF x
<1> QED
  BY <1>1, <1>2 DEF Listing

-----------------------------------------------------------------------------
(* The rows of a join.                                                     *)

(* No row of the other side meets the key of this one.                     *)
LeftAlone(c, d, on, i) == \A j \in RowIndexes(d) : ~ Matches(RowAt(c, i), RowAt(d, j), on)
RightAlone(c, d, on, j) == \A i \in RowIndexes(c) : ~ Matches(RowAt(c, i), RowAt(d, j), on)

(* The pairs of rows that a join has, one by one.                          *)
LEMMA PairsTell ==
  ASSUME NEW c, NEW d, NEW on, NEW type, NEW i, NEW j
  PROVE  <<i, j>> \in JoinPairs(c, d, on, type)
            <=> \/ /\ i \in RowIndexes(c) /\ j \in RowIndexes(d)
                   /\ Matches(RowAt(c, i), RowAt(d, j), on)
                \/ /\ type # "inner" /\ i \in RowIndexes(c) /\ j = NoRow
                   /\ LeftAlone(c, d, on, i)
                \/ /\ type = "full" /\ i = NoRow /\ j \in RowIndexes(d)
                   /\ RightAlone(c, d, on, j)
<1> DEFINE matched == {p \in RowIndexes(c) \X RowIndexes(d) :
                          Matches(RowAt(c, p[1]), RowAt(d, p[2]), on)}
           leftOnly == {<<x, NoRow>> : x \in RowIndexes(c) \ {p[1] : p \in matched}}
           rightOnly == {<<NoRow, x>> : x \in RowIndexes(d) \ {p[2] : p \in matched}}
<1>1. <<i, j>> \in matched <=> /\ i \in RowIndexes(c) /\ j \in RowIndexes(d)
                               /\ Matches(RowAt(c, i), RowAt(d, j), on)
  OBVIOUS
<1>2. \A x \in RowIndexes(c) : x \in {p[1] : p \in matched} <=> ~ LeftAlone(c, d, on, x)
  <2> TAKE x \in RowIndexes(c)
  <2>1. ASSUME x \in {p[1] : p \in matched} PROVE ~ LeftAlone(c, d, on, x)
    BY <2>1 DEF LeftAlone
  <2>2. ASSUME ~ LeftAlone(c, d, on, x) PROVE x \in {p[1] : p \in matched}
    <3>1. PICK y \in RowIndexes(d) : Matches(RowAt(c, x), RowAt(d, y), on)
      BY <2>2 DEF LeftAlone
    <3>2. <<x, y>> \in matched /\ <<x, y>>[1] = x
      BY <3>1
    <3> HIDE DEF matched
    <3> QED
      BY <3>2
  <2> QED
    BY <2>1, <2>2
<1>3. \A x \in RowIndexes(d) : x \in {p[2] : p \in matched} <=> ~ RightAlone(c, d, on, x)
  <2> TAKE x \in RowIndexes(d)
  <2>1. ASSUME x \in {p[2] : p \in matched} PROVE ~ RightAlone(c, d, on, x)
    BY <2>1 DEF RightAlone
  <2>2. ASSUME ~ RightAlone(c, d, on, x) PROVE x \in {p[2] : p \in matched}
    <3>1. PICK y \in RowIndexes(c) : Matches(RowAt(c, y), RowAt(d, x), on)
      BY <2>2 DEF RightAlone
    <3>2. <<y, x>> \in matched /\ <<y, x>>[2] = x
      BY <3>1
    <3> HIDE DEF matched
    <3> QED
      BY <3>2
  <2> QED
    BY <2>1, <2>2
<1>4. <<i, j>> \in leftOnly <=> i \in RowIndexes(c) /\ j = NoRow /\ LeftAlone(c, d, on, i)
  <2> HIDE DEF matched
  <2> QED
    BY <1>2
<1>5. <<i, j>> \in rightOnly <=> i = NoRow /\ j \in RowIndexes(d) /\ RightAlone(c, d, on, j)
  <2> HIDE DEF matched
  <2> QED
    BY <1>3
<1>6. JoinPairs(c, d, on, type)
        = matched \cup (IF type = "inner" THEN {} ELSE leftOnly)
                  \cup (IF type = "full" THEN rightOnly ELSE {})
  BY DEF JoinPairs
<1>7. type = "full" => type # "inner"
  OBVIOUS
<1> HIDE DEF matched, leftOnly, rightOnly
<1> QED
  BY <1>1, <1>4, <1>5, <1>6, <1>7

(* The places a pair may have, and the order of the join among them.       *)
Places(c, d) == (RowIndexes(c) \cup {NoRow}) \X (RowIndexes(d) \cup {NoRow})
OuterPlace(i, count, last) == IF i # NoRow THEN i + 1 ELSE IF last THEN count + 1 ELSE 0
InnerPlace(j) == IF j = NoRow THEN 0 ELSE j + 1
ComesBefore(p, q, count, last) ==
    \/ OuterPlace(p[1], count, last) < OuterPlace(q[1], count, last)
    \/ /\ OuterPlace(p[1], count, last) = OuterPlace(q[1], count, last)
       /\ InnerPlace(p[2]) < InnerPlace(q[2])
JoinOrder(c, d, last) ==
    {r \in Places(c, d) \X Places(c, d) : ComesBefore(r[1], r[2], Len(c), last)}

(* That order, of two places.                                              *)
LEMMA OrderTells ==
  ASSUME NEW c, NEW d, NEW last, NEW p \in Places(c, d), NEW q \in Places(c, d)
  PROVE  <<p, q>> \in JoinOrder(c, d, last) <=> ComesBefore(p, q, Len(c), last)
BY DEF JoinOrder

(* The pairs of a join are finitely many places.                           *)
LEMMA PairsArePlaces ==
  ASSUME NEW R, NEW c \in Seq(R), NEW S, NEW d \in Seq(S), NEW on, NEW type
  PROVE  /\ JoinPairs(c, d, on, type) \in SUBSET Places(c, d)
         /\ IsFiniteSet(JoinPairs(c, d, on, type))
<1>1. ASSUME NEW p \in JoinPairs(c, d, on, type)
      PROVE  p \in Places(c, d)
  BY DEF JoinPairs, Places
<1>2. IsFiniteSet(Places(c, d))
  <2>1. IsFiniteSet(RowIndexes(c) \cup {NoRow}) /\ IsFiniteSet(RowIndexes(d) \cup {NoRow})
    BY FinitelyManyRows, FS_AddElement
  <2> QED
    BY <2>1, FS_Product DEF Places
<1>3. JoinPairs(c, d, on, type) \in SUBSET Places(c, d)
  BY <1>1
<1> QED
  BY <1>2, <1>3, FS_Subset

(* Places are numbers, different ones for different rows.                  *)
LEMMA PlacesDiffer ==
  ASSUME NEW R, NEW c \in Seq(R), NEW S, NEW d \in Seq(S), NEW last
  PROVE  /\ \A i \in RowIndexes(c) \cup {NoRow} : OuterPlace(i, Len(c), last) \in Nat
         /\ \A j \in RowIndexes(d) \cup {NoRow} : InnerPlace(j) \in Nat
         /\ \A i, k \in RowIndexes(c) \cup {NoRow} :
                OuterPlace(i, Len(c), last) = OuterPlace(k, Len(c), last) => i = k
         /\ \A j, k \in RowIndexes(d) \cup {NoRow} : InnerPlace(j) = InnerPlace(k) => j = k
<1>1. /\ Len(c) \in Nat /\ \A i \in RowIndexes(c) : i \in Nat /\ i < Len(c) /\ i # NoRow
      /\ Len(d) \in Nat /\ \A j \in RowIndexes(d) : j \in Nat /\ j < Len(d) /\ j # NoRow
  BY RowsOfDataset, JoinsAssumption DEF JoinsAssumption
<1>2. \A i \in RowIndexes(c) : OuterPlace(i, Len(c), last) = i + 1
  BY <1>1 DEF OuterPlace
<1>3. OuterPlace(NoRow, Len(c), last) \in {0, Len(c) + 1}
  BY DEF OuterPlace
<1>4. (\A j \in RowIndexes(d) : InnerPlace(j) = j + 1) /\ InnerPlace(NoRow) = 0
  BY <1>1 DEF InnerPlace
<1> QED
  BY <1>1, <1>2, <1>3, <1>4

(* The order of the join orders the places.                                *)
LEMMA PlacesOrdered ==
  ASSUME NEW R, NEW c \in Seq(R), NEW S, NEW d \in Seq(S), NEW last,
         NEW P \in SUBSET Places(c, d)
  PROVE  Orders(P, JoinOrder(c, d, last))
<1> DEFINE L == JoinOrder(c, d, last)
           O(p) == OuterPlace(p[1], Len(c), last)
           I(p) == InnerPlace(p[2])
<1>1. \A p, q \in P : <<p, q>> \in L <=> O(p) < O(q) \/ (O(p) = O(q) /\ I(p) < I(q))
  BY OrderTells DEF ComesBefore
<1>2. \A p \in P : O(p) \in Nat /\ I(p) \in Nat
  <2> TAKE p \in P
  <2>1. p[1] \in RowIndexes(c) \cup {NoRow} /\ p[2] \in RowIndexes(d) \cup {NoRow}
    BY DEF Places
  <2> QED
    BY <2>1, PlacesDiffer
<1>3. \A p, q \in P : O(p) = O(q) /\ I(p) = I(q) => p = q
  <2> TAKE p \in P, q \in P
  <2> HAVE O(p) = O(q) /\ I(p) = I(q)
  <2>1. /\ p = <<p[1], p[2]>> /\ q = <<q[1], q[2]>>
        /\ p[1] \in RowIndexes(c) \cup {NoRow} /\ q[1] \in RowIndexes(c) \cup {NoRow}
        /\ p[2] \in RowIndexes(d) \cup {NoRow} /\ q[2] \in RowIndexes(d) \cup {NoRow}
    BY DEF Places
  <2>2. p[1] = q[1] /\ p[2] = q[2]
    BY <2>1, PlacesDiffer
  <2> QED
    BY <2>1, <2>2
<1> HIDE DEF L, O, I
<1>4. \A x, y \in P : x # y => <<x, y>> \in L \/ <<y, x>> \in L
  BY <1>1, <1>2, <1>3
<1>5. \A x, y \in P : x # y => ~ (<<x, y>> \in L /\ <<y, x>> \in L)
  BY <1>1, <1>2
<1>6. \A x, y, z \in P : <<x, y>> \in L /\ <<y, z>> \in L => <<x, z>> \in L
  BY <1>1, <1>2
<1> QED
  BY <1>4, <1>5, <1>6 DEF Orders, L

(* The rows of the pairs.                                                  *)
JoinedRows(c, d, on) == [p \in Places(c, d) |-> JoinedAs(c, d, on, p[1], p[2])]

(* The n-th element is the only one with its rank.                         *)
LEMMA OnlyNth ==
  ASSUME NEW S, IsFiniteSet(S), NEW L, Orders(S, L), NEW m \in 1 .. Cardinality(S),
         NEW x \in S, OrderRank(S, L, x) = m - 1
  PROVE  InList(S, L, m) = x
<1>1. Cardinality(S) \in Nat /\ m \in Nat
  BY RanksDiffer
<1>2. OrderRank(S, L, x) + 1 = m
  BY <1>1
<1>3. InList(S, L, OrderRank(S, L, x) + 1) = x
  BY ListElement
<1> QED
  BY <1>2, <1>3

(* A join that is collected lists its pairs in their order.                *)
LEMMA CollectIsListing ==
  ASSUME NEW R, NEW c \in Seq(R), NEW S, NEW d \in Seq(S), NEW on, NEW type, NEW last
  PROVE  CollectJoin(c, d, on, type, last)
           = Listing(JoinPairs(c, d, on, type), JoinOrder(c, d, last), JoinedRows(c, d, on))
<1> DEFINE P == JoinPairs(c, d, on, type)
           L == JoinOrder(c, d, last)
           v == JoinedRows(c, d, on)
           Nth(m) == CHOOSE x \in P :
                        Cardinality({y \in P \ {x} : ComesBefore(y, x, Len(c), last)}) = m - 1
<1>1. P \in SUBSET Places(c, d) /\ IsFiniteSet(P) /\ Orders(P, L)
  BY PairsArePlaces, PlacesOrdered
<1>2. \A x \in P : {y \in P \ {x} : ComesBefore(y, x, Len(c), last)} = Earlier(P, L, x)
  <2> TAKE x \in P
  <2>1. \A y \in P : <<y, x>> \in L <=> ComesBefore(y, x, Len(c), last)
    BY <1>1, OrderTells
  <2> HIDE DEF P, L
  <2> QED
    BY <2>1 DEF Earlier
<1>3. CollectJoin(c, d, on, type, last)
        = [m \in 1 .. Cardinality(P) |-> JoinedAs(c, d, on, Nth(m)[1], Nth(m)[2])]
  BY DEF CollectJoin, InOrder, ComesBefore, OuterPlace, InnerPlace
<1>4. \A p \in P : v[p] = JoinedAs(c, d, on, p[1], p[2])
  BY <1>1 DEF JoinedRows
<1> HIDE DEF P, L, v
<1>5. ASSUME NEW m \in 1 .. Cardinality(P)
      PROVE  JoinedAs(c, d, on, Nth(m)[1], Nth(m)[2]) = v[InList(P, L, m)]
  <2>1. InList(P, L, m) \in P /\ OrderRank(P, L, InList(P, L, m)) = m - 1
    BY <1>1, ListElement
  <2>2. \E x \in P : Cardinality({y \in P \ {x} : ComesBefore(y, x, Len(c), last)}) = m - 1
    BY <1>2, <2>1 DEF OrderRank
  <2>3. /\ Nth(m) \in P
        /\ Cardinality({y \in P \ {Nth(m)} : ComesBefore(y, Nth(m), Len(c), last)}) = m - 1
    BY <2>2
  <2> HIDE DEF Nth
  <2>4. OrderRank(P, L, Nth(m)) = m - 1
    BY <1>2, <2>3 DEF OrderRank
  <2>5. InList(P, L, m) = Nth(m)
    BY <1>1, <2>3, <2>4, OnlyNth
  <2> QED
    BY <1>4, <2>3, <2>5
<1> HIDE DEF Nth
<1> QED
  BY <1>3, <1>5 DEF Listing, P, L, v

(* A row of a block starts where the block does.                           *)
LEMMA RowInBlock ==
  ASSUME NEW R, NEW data \in Seq(R), NEW start \in BlockStarts(data),
         NEW e \in Nat, e < BlockRows
  PROVE  StartOf(start + e) = start /\ PlaceOf(start + e) = e
<1>1. start \in Nat /\ PlaceOf(start) = 0
  BY RowsOfBlock DEF BlockStarts, PlaceOf
<1>2. BlockRows \in Nat \ {0}
  BY ComparisonAssumption DEF ComparisonAssumption
<1> DEFINE s == start \div BlockRows
           i == start + e
<1>3. start = StartOf(start) /\ StartOf(start) \in Nat
  BY <1>1, PlaceInBlock
<1>4. start = s * BlockRows
  BY <1>3 DEF StartOf
<1>5. s \in Nat
  BY <1>1, <1>2, QuotientIsNat, Zenon
<1>6. i \in Nat /\ e \in 0 .. BlockRows - 1
  BY <1>1, <1>2
<1>7. i = s * BlockRows + e
  BY <1>4, Zenon
<1> HIDE DEF s, i
<1>8. i \div BlockRows = s
  BY <1>2, <1>5, <1>6, <1>7, QuotientIsUnique, Zenon
<1>9. StartOf(i) = start
  BY <1>4, <1>8, Zenon DEF StartOf
<1>10. PlaceOf(i) = e
  <2>1. i \in Nat
    BY <1>6
  <2>2. PlaceOf(i) \in 0 .. BlockRows - 1 /\ i = StartOf(i) + PlaceOf(i)
    BY <2>1, PlaceInBlock, Zenon
  <2>3. i = start + PlaceOf(i)
    BY <1>9, <2>2, Zenon
  <2>4. PlaceOf(i) \in Nat
    BY <1>2, <2>2
  <2> QED
    BY <1>1, <2>3, <2>4 DEF i
<1> QED
  BY <1>9, <1>10 DEF i

(* The row of a later block is a later row.                                *)
LEMMA StartsGrow ==
  ASSUME NEW R, NEW data \in Seq(R), NEW i \in RowIndexes(data), NEW j \in RowIndexes(data),
         StartOf(i) < StartOf(j)
  PROVE  i < j
<1> DEFINE s == StartOf(i)
           z == StartOf(j)
           e == z - s
<1>1. i \in Nat /\ j \in Nat
  BY RowsOfDataset
<1>2. BlockRows \in Nat
  BY ComparisonAssumption DEF ComparisonAssumption
<1>3. /\ s \in Nat /\ PlaceOf(i) \in Nat /\ PlaceOf(i) < BlockRows /\ i = s + PlaceOf(i)
      /\ z \in Nat /\ PlaceOf(j) \in Nat /\ j = z + PlaceOf(j)
  BY <1>1, <1>2, PlaceInBlock
<1>4. s \in BlockStarts(data) /\ z \in BlockStarts(data)
  BY BlockOfRow
<1>5. StartOf(z + 0) = z
  <2>1. 0 \in Nat /\ 0 < BlockRows
    BY <1>3, <1>2
  <2> QED
    BY <1>4, <2>1, RowInBlock
<1> HIDE DEF s, z
<1>6. z + 0 = z /\ s < z
  BY <1>3 DEF s, z
<1> SUFFICES ASSUME ~ (i < j) PROVE FALSE
  OBVIOUS
<1>7. e \in Nat /\ e < BlockRows /\ s + e = z
  BY <1>1, <1>2, <1>3, <1>6
<1>8. StartOf(s + e) = s
  BY <1>4, <1>7, RowInBlock
<1> QED
  BY <1>3, <1>5, <1>6, <1>7, <1>8

(* The pairs whose active row is of a block, and those without an active   *)
(* row whose compared row is.                                              *)
PairsOfBlock(P, start) == {p \in P : p[1] # NoRow /\ StartOf(p[1]) = start}
RestOfBlock(P, start) == {p \in P : p[1] = NoRow /\ StartOf(p[2]) = start}

(* A block of active rows is joined to a part of the join.                 *)
LEMMA BlockOfPairs ==
  ASSUME NEW R, NEW c \in Seq(R), NEW S, NEW d \in Seq(S), NEW on, NEW type \in JoinTypes,
         NEW last, NEW start \in BlockStarts(c)
  PROVE  CollectJoin(BlockAt(c, start), d, on, IF type = "full" THEN "left" ELSE type, FALSE)
           = Listing(PairsOfBlock(JoinPairs(c, d, on, type), start),
                     JoinOrder(c, d, last), JoinedRows(c, d, on))
<1> DEFINE block == BlockAt(c, start)
           kind == IF type = "full" THEN "left" ELSE type
           Q == JoinPairs(block, d, on, kind)
           P == JoinPairs(c, d, on, type)
           A == PairsOfBlock(P, start)
           L == JoinOrder(block, d, FALSE)
           M == JoinOrder(c, d, last)
           v == JoinedRows(block, d, on)
           w == JoinedRows(c, d, on)
           h == [q \in Q |-> <<start + q[1], q[2]>>]
<1>1. /\ start \in Nat /\ block \in Seq(R)
      /\ \A i \in Nat : i \in RowIndexes(block) <=> i < BlockRows /\ start + i < Len(c)
      /\ \A i \in RowIndexes(block) : /\ start + i \in RowIndexes(c)
                                      /\ RowAt(block, i) = RowAt(c, start + i)
  BY RowsOfBlock
<1>2. kind # "full" /\ (kind # "inner" <=> type # "inner")
  BY DEF JoinTypes
<1>3. /\ RowIndexes(block) \subseteq Nat /\ RowIndexes(c) \subseteq Nat
      /\ NoRow \notin RowIndexes(block) /\ NoRow \notin RowIndexes(c)
  BY <1>1, RowsOfDataset, JoinsAssumption DEF JoinsAssumption
<1> HIDE DEF block, kind
<1>4. ASSUME NEW i \in RowIndexes(block), NEW j
      PROVE  <<i, j>> \in Q <=> <<start + i, j>> \in A
  <2>1. RowAt(block, i) = RowAt(c, start + i) /\ start + i \in RowIndexes(c) /\ start + i # NoRow /\ i # NoRow
    BY <1>1, <1>3
  <2>2. StartOf(start + i) = start
    <3>1. i \in Nat /\ i < BlockRows
      BY <1>1, <1>3
    <3> QED
      BY <3>1, RowInBlock
  <2>3. LeftAlone(block, d, on, i) <=> LeftAlone(c, d, on, start + i)
    BY <2>1 DEF LeftAlone
  <2>4. <<i, j>> \in Q <=> \/ /\ j \in RowIndexes(d)
                              /\ Matches(RowAt(block, i), RowAt(d, j), on)
                           \/ type # "inner" /\ j = NoRow /\ LeftAlone(block, d, on, i)
    BY <1>2, <2>1, PairsTell
  <2>5. <<start + i, j>> \in P <=> \/ /\ j \in RowIndexes(d)
                                      /\ Matches(RowAt(c, start + i), RowAt(d, j), on)
                                   \/ type # "inner" /\ j = NoRow /\ LeftAlone(c, d, on, start + i)
    BY <2>1, PairsTell
  <2>6. <<start + i, j>> \in A <=> <<start + i, j>> \in P
    <3> HIDE DEF P
    <3> QED
      BY <2>1, <2>2 DEF PairsOfBlock
  <2> QED
    BY <2>1, <2>3, <2>4, <2>5, <2>6
<1>5. ASSUME NEW q \in Q
      PROVE  q = <<q[1], q[2]>> /\ q[1] \in RowIndexes(block) /\ q[2] \in RowIndexes(d) \cup {NoRow}
  <2>1. q \in Places(block, d)
    BY <1>1, PairsArePlaces
  <2>2. q = <<q[1], q[2]>>
    BY <2>1 DEF Places
  <2>3. <<q[1], q[2]>> \in Q
    BY <2>2
  <2> QED
    BY <1>2, <2>2, <2>3, PairsTell
<1>6. ASSUME NEW p \in A
      PROVE  \E q \in Q : h[q] = p
  <2>1. p \in P /\ p[1] # NoRow /\ StartOf(p[1]) = start
    BY DEF PairsOfBlock
  <2>2. p = <<p[1], p[2]>> /\ p[1] \in RowIndexes(c)
    BY <2>1, PairsArePlaces DEF Places
  <2> DEFINE i == PlaceOf(p[1])
  <2>3. i \in RowIndexes(block) /\ p[1] = start + i
    BY <2>1, <2>2, BlockOfRow DEF block
  <2> HIDE DEF i
  <2>4. <<i, p[2]>> \in Q
    <3>1. <<start + i, p[2]>> \in A
      BY <2>2, <2>3
    <3> HIDE DEF A, Q
    <3> QED
      BY <1>4, <2>3, <3>1
  <2>5. h[<<i, p[2]>>] = <<start + i, p[2]>>
    <3> HIDE DEF Q
    <3> QED
      BY <2>4
  <2> HIDE DEF h, Q
  <2> QED
    BY <2>2, <2>3, <2>4, <2>5
<1> HIDE DEF Q, A
<1>7. \A q \in Q : h[q] = <<start + q[1], q[2]>> /\ h[q] \in A
  <2> TAKE q \in Q
  <2>1. q = <<q[1], q[2]>> /\ q[1] \in RowIndexes(block)
    BY <1>5
  <2>2. <<start + q[1], q[2]>> \in A
    BY <1>4, <2>1
  <2> QED
    BY <2>2
<1>8. h \in [Q -> A]
  <2>1. h = [q \in Q |-> h[q]]
    OBVIOUS
  <2> HIDE DEF h
  <2> QED
    BY <1>7, <2>1
<1> HIDE DEF h
<1>9. \A x, y \in Q : h[x] = h[y] => x = y
  <2> TAKE x \in Q, y \in Q
  <2> HAVE h[x] = h[y]
  <2>1. start + x[1] = start + y[1] /\ x[2] = y[2]
    BY <1>7
  <2>2. x[1] \in Nat /\ y[1] \in Nat /\ x = <<x[1], x[2]>> /\ y = <<y[1], y[2]>>
    BY <1>3, <1>5
  <2>3. x[1] = y[1]
    BY <1>1, <2>1, <2>2
  <2> QED
    BY <2>1, <2>2, <2>3
<1>10. Q \in SUBSET Places(block, d) /\ IsFiniteSet(Q) /\ Orders(Q, L)
  <2>1. Q \in SUBSET Places(block, d) /\ IsFiniteSet(Q)
    BY <1>1, PairsArePlaces DEF Q
  <2> QED
    BY <1>1, <2>1, PlacesOrdered
<1>11. A \in SUBSET Places(c, d) /\ Orders(A, M)
  <2>1. A \in SUBSET Places(c, d)
    BY PairsArePlaces DEF A, PairsOfBlock
  <2> QED
    BY <2>1, PlacesOrdered
<1>12. \A x, y \in Q : x # y => (<<x, y>> \in L <=> <<h[x], h[y]>> \in M)
  <2> TAKE x \in Q, y \in Q
  <2>1. <<x, y>> \in L <=> ComesBefore(x, y, Len(block), FALSE)
    BY <1>10, OrderTells
  <2>2. <<h[x], h[y]>> \in M <=> ComesBefore(h[x], h[y], Len(c), last)
    BY <1>7, <1>11, OrderTells
  <2>3. /\ x[1] \in Nat /\ y[1] \in Nat /\ x[1] # NoRow /\ y[1] # NoRow
        /\ h[x][1] = start + x[1] /\ h[x][2] = x[2] /\ h[y][1] = start + y[1] /\ h[y][2] = y[2]
        /\ h[x][1] # NoRow /\ h[y][1] # NoRow
    BY <1>1, <1>3, <1>5, <1>7
  <2>4. /\ OuterPlace(x[1], Len(block), FALSE) = x[1] + 1
        /\ OuterPlace(y[1], Len(block), FALSE) = y[1] + 1
        /\ OuterPlace(h[x][1], Len(c), last) = start + x[1] + 1
        /\ OuterPlace(h[y][1], Len(c), last) = start + y[1] + 1
    BY <2>3 DEF OuterPlace
  <2>5. InnerPlace(h[x][2]) = InnerPlace(x[2]) /\ InnerPlace(h[y][2]) = InnerPlace(y[2])
    BY <2>3
  <2>6. ComesBefore(x, y, Len(block), FALSE)
          <=> \/ x[1] + 1 < y[1] + 1
              \/ x[1] + 1 = y[1] + 1 /\ InnerPlace(x[2]) < InnerPlace(y[2])
    BY <2>4 DEF ComesBefore
  <2>7. ComesBefore(h[x], h[y], Len(c), last)
          <=> \/ start + x[1] + 1 < start + y[1] + 1
              \/ start + x[1] + 1 = start + y[1] + 1 /\ InnerPlace(x[2]) < InnerPlace(y[2])
    BY <2>4, <2>5 DEF ComesBefore
  <2>8. /\ x[1] + 1 < y[1] + 1 <=> start + x[1] + 1 < start + y[1] + 1
        /\ x[1] + 1 = y[1] + 1 <=> start + x[1] + 1 = start + y[1] + 1
    <3>1. \A a, b \in Nat : /\ a + 1 < b + 1 <=> start + a + 1 < start + b + 1
                            /\ a + 1 = b + 1 <=> start + a + 1 = start + b + 1
      BY <1>1
    <3>2. x[1] \in Nat /\ y[1] \in Nat
      BY <2>3
    <3> QED
      BY <3>1, <3>2, Zenon
  <2> QED
    BY <2>1, <2>2, <2>6, <2>7, <2>8, Zenon
<1>13. Carries(h, Q, L, A, M)
  BY <1>6, <1>8, <1>9, <1>12 DEF Carries
<1>14. \A x \in Q : v[x] = w[h[x]]
  <2> TAKE x \in Q
  <2>1. v[x] = JoinedAs(block, d, on, x[1], x[2])
    BY <1>10 DEF JoinedRows
  <2>2. w[h[x]] = JoinedAs(c, d, on, start + x[1], x[2])
    <3>1. h[x] \in Places(c, d) /\ h[x] = <<start + x[1], x[2]>>
      BY <1>7, <1>11
    <3> QED
      BY <3>1 DEF JoinedRows
  <2>3. x[1] # NoRow /\ start + x[1] # NoRow /\ RowAt(block, x[1]) = RowAt(c, start + x[1])
    BY <1>1, <1>3, <1>5
  <2> QED
    BY <2>1, <2>2, <2>3 DEF JoinedAs
<1> HIDE DEF L, M, v, w
<1>15. Listing(Q, L, v) = Listing(A, M, w)
  BY <1>10, <1>11, <1>13, <1>14, ListingIsCarried
<1>16. CollectJoin(block, d, on, kind, FALSE) = Listing(Q, L, v)
  BY <1>1, CollectIsListing DEF Q, L, v
<1> QED
  BY <1>15, <1>16 DEF block, kind, A, P, M, w

(* A compared row is unmatched exactly when it has a null key or a key     *)
(* that is not in the index.                                               *)
LEMMA UnmatchedTells ==
  ASSUME NEW c, NEW d, NEW on, NEW j,
         NEW g, g = KeyGroups(SpillKeyRows(c, CurrentKeys(on)), BucketOf(KeyOf(RowAt(d, j), on)))
  PROVE  RightAlone(c, d, on, j)
           <=> \/ ~ \A k \in DOMAIN on : RowAt(d, j)[on[k]] # Null
               \/ KeyOf(RowAt(d, j), on) \notin DOMAIN g
<1> DEFINE row == RowAt(d, j)
           key == KeyOf(row, on)
<1>1. DOMAIN g = {q \in KeysOf(c, DOMAIN on) : BucketOf(q) = BucketOf(key)}
  <2>1. g = Groups(c, DOMAIN on, BucketOf(key))
    BY FrameIsIndexed, GroupsOfIndex DEF CurrentKeys
  <2> QED
    BY <2>1 DEF Groups
<1>2. key \in DOMAIN g <=> \E i \in RowIndexes(c) : Signature(RowAt(c, i), DOMAIN on) = key
  BY <1>1 DEF KeysOf
<1>3. ASSUME NEW i \in RowIndexes(c)
      PROVE  Signature(RowAt(c, i), DOMAIN on) = key
                <=> \A k \in DOMAIN on : RowAt(c, i)[k] = row[on[k]]
  BY DEF Signature, KeyOf
<1>4. ASSUME NEW i \in RowIndexes(c)
      PROVE  Matches(RowAt(c, i), row, on)
                <=> /\ \A k \in DOMAIN on : row[on[k]] # Null
                    /\ Signature(RowAt(c, i), DOMAIN on) = key
  BY <1>3 DEF Matches
<1> HIDE DEF key, row
<1> QED
  BY <1>2, <1>4 DEF RightAlone, row, key

(* The rows of a block that meet no row of the active dataset.             *)
AloneIn(c, d, on, start) ==
    {e \in RowIndexes(BlockAt(d, start)) : RightAlone(c, d, on, start + e)}

(* They are what the visit of the block finds.                             *)
LEMMA UnmatchedBlock ==
  ASSUME NEW c, NEW S, NEW d \in Seq(S), NEW on, NEW start \in BlockStarts(d)
  PROVE  UnmatchedRight(c, d, on, start) = RowsAt(BlockAt(d, start), AloneIn(c, d, on, start))
<1> DEFINE block == BlockAt(d, start)
           G(row) == KeyGroups(SpillKeyRows(c, CurrentKeys(on)), BucketOf(KeyOf(row, on)))
           U(row) == \/ ~ \A k \in DOMAIN on : row[on[k]] # Null
                     \/ KeyOf(row, on) \notin DOMAIN G(row)
<1>1. UnmatchedRight(c, d, on, start)
        = RowsAt(block, {e \in RowIndexes(block) : U(RowAt(block, e))})
  BY DEF UnmatchedRight
<1>2. \A e \in RowIndexes(block) : RowAt(block, e) = RowAt(d, start + e)
  BY RowsOfBlock
<1>3. \A e \in RowIndexes(block) : U(RowAt(block, e)) <=> RightAlone(c, d, on, start + e)
  <2> TAKE e \in RowIndexes(block)
  <2> DEFINE row == RowAt(d, start + e)
             g == G(row)
  <2>1. RightAlone(c, d, on, start + e) <=> \/ ~ \A k \in DOMAIN on : row[on[k]] # Null
                                            \/ KeyOf(row, on) \notin DOMAIN g
    BY UnmatchedTells, Zenon
  <2>2. RowAt(block, e) = row
    BY <1>2
  <2> HIDE DEF row
  <2> QED
    BY <2>1, <2>2
<1> HIDE DEF U
<1>4. {e \in RowIndexes(block) : U(RowAt(block, e))} = AloneIn(c, d, on, start)
  BY <1>3 DEF AloneIn
<1> QED
  BY <1>1, <1>4

(* The pairs of a join with no active row.                                 *)
LEMMA JoinOfNothing ==
  ASSUME NEW S, NEW d \in Seq(S), NEW on, NEW p
  PROVE  p \in JoinPairs(<<>>, d, on, "full") <=> \E j \in RowIndexes(d) : p = <<NoRow, j>>
<1>1. RowIndexes(<<>>) = {}
  BY DEF RowIndexes
<1>2. \A i, j : <<i, j>> \in JoinPairs(<<>>, d, on, "full") <=> i = NoRow /\ j \in RowIndexes(d)
  <2> TAKE i, j
  <2>1. RightAlone(<<>>, d, on, j)
    BY <1>1 DEF RightAlone
  <2>2. i \notin RowIndexes(<<>>)
    BY <1>1
  <2>3. <<i, j>> \in JoinPairs(<<>>, d, on, "full")
          <=> \/ /\ i \in RowIndexes(<<>>) /\ j \in RowIndexes(d)
                 /\ Matches(RowAt(<<>>, i), RowAt(d, j), on)
              \/ /\ "full" # "inner" /\ i \in RowIndexes(<<>>) /\ j = NoRow
                 /\ LeftAlone(<<>>, d, on, i)
              \/ /\ "full" = "full" /\ i = NoRow /\ j \in RowIndexes(d)
                 /\ RightAlone(<<>>, d, on, j)
    BY PairsTell, Zenon
  <2> QED
    BY <2>1, <2>2, <2>3
<1>3. p \in JoinPairs(<<>>, d, on, "full") => \E i, j : p = <<i, j>>
  <2>1. <<>> \in Seq(S)
    OBVIOUS
  <2>2. p \in JoinPairs(<<>>, d, on, "full") => p \in Places(<<>>, d)
    BY <2>1, PairsArePlaces
  <2> QED
    BY <2>2 DEF Places
<1> QED
  BY <1>2, <1>3

(* The compared rows that no active row meets are a part of the join.      *)
LEMMA BlockOfRest ==
  ASSUME NEW R, NEW c \in Seq(R), NEW S, NEW d \in Seq(S), NEW on, NEW last,
         NEW start \in BlockStarts(d)
  PROVE  /\ CollectJoin(<<>>, UnmatchedRight(c, d, on, start), on, "full", FALSE)
              = Listing(RestOfBlock(JoinPairs(c, d, on, "full"), start),
                        JoinOrder(c, d, last), JoinedRows(c, d, on))
         /\ Cardinality(RestOfBlock(JoinPairs(c, d, on, "full"), start))
              = Cardinality(AloneIn(c, d, on, start))
<1> DEFINE block == BlockAt(d, start)
           U == AloneIn(c, d, on, start)
           u == RowsAt(block, U)
           Q == JoinPairs(<<>>, u, on, "full")
           P == JoinPairs(c, d, on, "full")
           A == RestOfBlock(P, start)
           L == JoinOrder(<<>>, u, FALSE)
           M == JoinOrder(c, d, last)
           v == JoinedRows(<<>>, u, on)
           w == JoinedRows(c, d, on)
           h == [q \in Q |-> <<NoRow, start + NthOf(U, q[2] + 1)>>]
<1>1. /\ start \in Nat /\ block \in Seq(S)
      /\ \A e \in Nat : e \in RowIndexes(block) <=> e < BlockRows /\ start + e < Len(d)
      /\ \A e \in RowIndexes(block) : /\ start + e \in RowIndexes(d)
                                      /\ RowAt(block, e) = RowAt(d, start + e)
  BY RowsOfBlock
<1>2. U \in SUBSET RowIndexes(block)
  BY DEF AloneIn
<1>3. /\ RowIndexes(block) \subseteq Nat /\ RowIndexes(d) \subseteq Nat
      /\ NoRow \notin RowIndexes(c) /\ NoRow \notin RowIndexes(d) /\ NoRow \notin Nat
  BY <1>1, RowsOfDataset, JoinsAssumption DEF JoinsAssumption
<1>4. \A e \in U : /\ e \in Nat /\ start + e \in RowIndexes(d) /\ RightAlone(c, d, on, start + e)
                   /\ StartOf(start + e) = start
  <2> TAKE e \in U
  <2>1. e \in RowIndexes(block) /\ RightAlone(c, d, on, start + e)
    BY DEF AloneIn
  <2>2. e \in Nat /\ e < BlockRows /\ start + e \in RowIndexes(d)
    BY <1>1, <1>3, <2>1
  <2> QED
    BY <2>1, <2>2, RowInBlock
<1>5. \A j \in RowIndexes(d) : StartOf(j) = start /\ RightAlone(c, d, on, j)
                                => \E e \in U : j = start + e
  <2> TAKE j \in RowIndexes(d)
  <2> HAVE StartOf(j) = start /\ RightAlone(c, d, on, j)
  <2> DEFINE e == PlaceOf(j)
  <2>1. e \in RowIndexes(block) /\ j = start + e
    BY BlockOfRow
  <2> HIDE DEF e
  <2>2. e \in U
    BY <2>1 DEF AloneIn
  <2> QED
    BY <2>1, <2>2
<1> HIDE DEF block
<1>6. /\ IsFiniteSet(U) /\ U \in SUBSET Nat /\ Cardinality(U) \in Nat
      /\ u \in Seq(S) /\ Len(u) = Cardinality(U)
  BY <1>1, <1>2, KeptRows, KeptAreDataset
<1>7. \A n \in 1 .. Cardinality(U) : u[n] = RowAt(block, NthOf(U, n)) /\ NthOf(U, n) \in U
  BY <1>6, NthElement, RowKept
<1>8. /\ \A n \in 1 .. Cardinality(U) : RankIn(U, NthOf(U, n)) = n - 1
      /\ \A e \in U : RankIn(U, e) + 1 \in 1 .. Cardinality(U) /\ NthOf(U, RankIn(U, e) + 1) = e
      /\ \A m, n \in 1 .. Cardinality(U) : m < n => NthOf(U, m) < NthOf(U, n)
  BY <1>6, NthElement
<1> HIDE DEF U, u
<1>9. \A p : p \in Q <=> \E m \in RowIndexes(u) : p = <<NoRow, m>>
  BY <1>6, JoinOfNothing
<1>10. \A m : m \in RowIndexes(u) <=> m \in Nat /\ m + 1 \in 1 .. Cardinality(U)
  <2>1. RowIndexes(u) = 0 .. Cardinality(U) - 1
    BY <1>6 DEF RowIndexes
  <2> QED
    BY <1>6, <2>1
<1>11. ASSUME NEW p
       PROVE  p \in A <=> \E e \in U : p = <<NoRow, start + e>>
  <2>1. ASSUME p \in A
        PROVE  \E e \in U : p = <<NoRow, start + e>>
    <3>1. p \in P /\ p[1] = NoRow /\ StartOf(p[2]) = start
      BY <2>1 DEF RestOfBlock
    <3>2. p = <<p[1], p[2]>>
      BY <3>1, PairsArePlaces DEF Places
    <3>3. <<NoRow, p[2]>> \in P
      BY <3>1, <3>2
    <3>4. p[2] \in RowIndexes(d) /\ RightAlone(c, d, on, p[2])
      BY <1>3, <3>3, PairsTell
    <3> QED
      BY <1>5, <3>1, <3>2, <3>4
  <2>2. ASSUME NEW e \in U
        PROVE  <<NoRow, start + e>> \in A
    <3>1. start + e \in RowIndexes(d) /\ RightAlone(c, d, on, start + e) /\ StartOf(start + e) = start
      BY <1>4
    <3>2. <<NoRow, start + e>> \in P
      BY <3>1, PairsTell
    <3> HIDE DEF P
    <3> QED
      BY <3>1, <3>2 DEF RestOfBlock
  <2> QED
    BY <2>1, <2>2
<1>12. Q \in SUBSET Places(<<>>, u) /\ IsFiniteSet(Q) /\ Orders(Q, L)
  <2>1. <<>> \in Seq(R)
    OBVIOUS
  <2>2. Q \in SUBSET Places(<<>>, u) /\ IsFiniteSet(Q)
    BY <1>6, <2>1, PairsArePlaces DEF Q
  <2> QED
    BY <1>6, <2>1, <2>2, PlacesOrdered
<1>13. A \in SUBSET Places(c, d) /\ Orders(A, M)
  <2>1. A \in SUBSET Places(c, d)
    BY PairsArePlaces DEF A, RestOfBlock
  <2> QED
    BY <2>1, PlacesOrdered
<1> HIDE DEF Q, A
<1>14. \A q \in Q : /\ q = <<NoRow, q[2]>> /\ q[1] = NoRow /\ q[2] \in RowIndexes(u)
                    /\ NthOf(U, q[2] + 1) \in U
                    /\ h[q] = <<NoRow, start + NthOf(U, q[2] + 1)>> /\ h[q] \in A
  <2> TAKE q \in Q
  <2>1. PICK m \in RowIndexes(u) : q = <<NoRow, m>>
    BY <1>9
  <2>2. q[2] = m /\ q[1] = NoRow
    BY <2>1
  <2>3. NthOf(U, m + 1) \in U
    BY <1>7, <1>10
  <2>4. h[q] = <<NoRow, start + NthOf(U, m + 1)>>
    BY <2>2
  <2> HIDE DEF h
  <2> QED
    BY <1>11, <2>1, <2>2, <2>3, <2>4
<1>15. h \in [Q -> A]
  <2>1. h = [q \in Q |-> h[q]]
    OBVIOUS
  <2> HIDE DEF h
  <2> QED
    BY <1>14, <2>1
<1> HIDE DEF h
<1>16. \A x, y \in Q : x[2] < y[2] => h[x][2] < h[y][2] /\ h[x][2] \in Nat /\ h[y][2] \in Nat
  <2> TAKE x \in Q, y \in Q
  <2> HAVE x[2] < y[2]
  <2>1. /\ x[2] + 1 \in 1 .. Cardinality(U) /\ y[2] + 1 \in 1 .. Cardinality(U)
        /\ x[2] \in Nat /\ y[2] \in Nat
    BY <1>10, <1>14
  <2>2. x[2] + 1 < y[2] + 1
    BY <2>1
  <2>3. NthOf(U, x[2] + 1) < NthOf(U, y[2] + 1)
    BY <1>8, <2>1, <2>2
  <2>4. NthOf(U, x[2] + 1) \in Nat /\ NthOf(U, y[2] + 1) \in Nat
    BY <1>6, <1>14
  <2>5. h[x][2] = start + NthOf(U, x[2] + 1) /\ h[y][2] = start + NthOf(U, y[2] + 1)
    BY <1>14
  <2> QED
    BY <1>1, <2>3, <2>4, <2>5
<1>17. \A x \in Q : x[2] \in Nat
  BY <1>10, <1>14
<1>18. \A x, y \in Q : x # y => x[2] < y[2] \/ y[2] < x[2]
  <2> TAKE x \in Q, y \in Q
  <2> HAVE x # y
  <2>1. x = <<NoRow, x[2]>> /\ y = <<NoRow, y[2]>>
    BY <1>14
  <2>2. x[2] # y[2]
    BY <2>1
  <2> QED
    BY <1>17, <2>2
<1>19. \A x, y \in Q : h[x] = h[y] => x = y
  <2> TAKE x \in Q, y \in Q
  <2>1. x[2] < y[2] => h[x][2] # h[y][2]
    BY <1>16
  <2>2. y[2] < x[2] => h[x][2] # h[y][2]
    BY <1>16
  <2> QED
    BY <1>18, <2>1, <2>2
<1>20. \A z \in A : \E x \in Q : h[x] = z
  <2> TAKE z \in A
  <2>1. PICK e \in U : z = <<NoRow, start + e>>
    BY <1>11
  <2> DEFINE m == RankIn(U, e)
  <2>2. m + 1 \in 1 .. Cardinality(U) /\ NthOf(U, m + 1) = e /\ m \in Nat
    BY <1>6, <1>8, RankGrows
  <2> HIDE DEF m
  <2>3. <<NoRow, m>> \in Q
    BY <1>9, <1>10, <2>2
  <2>4. h[<<NoRow, m>>] = <<NoRow, start + NthOf(U, m + 1)>>
    BY <1>14, <2>3
  <2> QED
    BY <2>1, <2>2, <2>3, <2>4
<1>21. \A x, y \in Q : <<x, y>> \in L <=> x[2] < y[2]
  <2> TAKE x \in Q, y \in Q
  <2>1. <<x, y>> \in L <=> ComesBefore(x, y, 0, FALSE)
    <3>1. Len(<<>>) = 0
      OBVIOUS
    <3> QED
      BY <1>12, <3>1, OrderTells
  <2>2. x[1] = NoRow /\ y[1] = NoRow
    BY <1>14
  <2>3. x[2] \in Nat /\ y[2] \in Nat /\ x[2] # NoRow /\ y[2] # NoRow
    BY <1>3, <1>17
  <2>4. InnerPlace(x[2]) = x[2] + 1 /\ InnerPlace(y[2]) = y[2] + 1
    BY <2>3 DEF InnerPlace
  <2>5. OuterPlace(x[1], 0, FALSE) = 0 /\ OuterPlace(y[1], 0, FALSE) = 0
    BY <2>2 DEF OuterPlace
  <2>6. ComesBefore(x, y, 0, FALSE) <=> InnerPlace(x[2]) < InnerPlace(y[2])
    <3>1. ComesBefore(x, y, 0, FALSE)
            <=> \/ OuterPlace(x[1], 0, FALSE) < OuterPlace(y[1], 0, FALSE)
                \/ /\ OuterPlace(x[1], 0, FALSE) = OuterPlace(y[1], 0, FALSE)
                   /\ InnerPlace(x[2]) < InnerPlace(y[2])
      BY Zenon DEF ComesBefore
    <3>2. ~ (0 < 0)
      OBVIOUS
    <3>3. ~ (OuterPlace(x[1], 0, FALSE) < OuterPlace(y[1], 0, FALSE))
      BY <2>5, <3>2, Zenon
    <3> QED
      BY <2>5, <3>1, <3>3, Zenon
  <2>7. \A a, b \in Nat : a + 1 < b + 1 <=> a < b
    OBVIOUS
  <2>8. x[2] + 1 < y[2] + 1 <=> x[2] < y[2]
    BY <2>3, <2>7, Zenon
  <2> QED
    BY <2>1, <2>4, <2>6, <2>8, Zenon
<1>22. \A x, y \in Q : <<h[x], h[y]>> \in M <=> h[x][2] < h[y][2]
  <2> TAKE x \in Q, y \in Q
  <2>1. <<h[x], h[y]>> \in M <=> ComesBefore(h[x], h[y], Len(c), last)
    BY <1>13, <1>14, OrderTells
  <2>2. h[x][1] = NoRow /\ h[y][1] = NoRow
    BY <1>14
  <2>3. h[x][2] \in Nat /\ h[y][2] \in Nat /\ h[x][2] # NoRow /\ h[y][2] # NoRow
    <3>1. h[x][2] = start + NthOf(U, x[2] + 1) /\ h[y][2] = start + NthOf(U, y[2] + 1)
      BY <1>14
    <3>2. NthOf(U, x[2] + 1) \in Nat /\ NthOf(U, y[2] + 1) \in Nat
      BY <1>6, <1>14
    <3> QED
      BY <1>1, <1>3, <3>1, <3>2
  <2>4. InnerPlace(h[x][2]) = h[x][2] + 1 /\ InnerPlace(h[y][2]) = h[y][2] + 1
    BY <2>3 DEF InnerPlace
  <2>5. ComesBefore(h[x], h[y], Len(c), last) <=> h[x][2] + 1 < h[y][2] + 1
    <3>1. OuterPlace(NoRow, Len(c), last) \in Int
      <4>1. Len(c) \in Nat
        OBVIOUS
      <4> QED
        BY <4>1 DEF OuterPlace
    <3> QED
      BY <2>2, <2>4, <3>1 DEF ComesBefore
  <2> QED
    BY <2>1, <2>3, <2>5
<1>23. Carries(h, Q, L, A, M)
  <2>1. \A x, y \in Q : x # y => (<<x, y>> \in L <=> <<h[x], h[y]>> \in M)
    <3> TAKE x \in Q, y \in Q
    <3> HAVE x # y
    <3>1. CASE x[2] < y[2]
      BY <1>16, <1>21, <1>22, <3>1
    <3>2. CASE y[2] < x[2]
      <4>1. h[y][2] < h[x][2] /\ h[x][2] \in Nat /\ h[y][2] \in Nat
        BY <1>16, <3>2
      <4>2. ~ (x[2] < y[2]) /\ ~ (h[x][2] < h[y][2])
        BY <1>17, <3>2, <4>1
      <4> QED
        BY <1>21, <1>22, <4>2
    <3> QED
      BY <1>18, <3>1, <3>2
  <2> QED
    BY <1>15, <1>19, <1>20, <2>1 DEF Carries
<1>24. \A x \in Q : v[x] = w[h[x]]
  <2> TAKE x \in Q
  <2> DEFINE e == NthOf(U, x[2] + 1)
  <2>1. x[1] = NoRow /\ x[2] # NoRow /\ x[2] + 1 \in 1 .. Cardinality(U)
    BY <1>3, <1>10, <1>14, <1>17
  <2>2. e \in U /\ RowAt(u, x[2]) = RowAt(block, e)
    BY <1>7, <2>1 DEF RowAt
  <2>3. h[x] = <<NoRow, start + e>>
    BY <1>14
  <2> HIDE DEF e
  <2>4. RowAt(block, e) = RowAt(d, start + e) /\ start + e # NoRow
    BY <1>1, <1>2, <1>3, <1>4, <2>2
  <2>5. v[x] = JoinedAs(<<>>, u, on, NoRow, x[2])
    BY <1>12, <2>1 DEF JoinedRows
  <2>6. w[h[x]] = JoinedAs(c, d, on, NoRow, start + e)
    <3>1. h[x] \in Places(c, d)
      BY <1>13, <1>14
    <3> QED
      BY <2>3, <3>1 DEF JoinedRows
  <2> QED
    BY <2>1, <2>2, <2>4, <2>5, <2>6 DEF JoinedAs
<1> HIDE DEF L, M, v, w
<1>25. Listing(Q, L, v) = Listing(A, M, w)
  BY <1>12, <1>13, <1>23, <1>24, ListingIsCarried
<1>26. CollectJoin(<<>>, u, on, "full", FALSE) = Listing(Q, L, v)
  <2>1. <<>> \in Seq(R)
    OBVIOUS
  <2> QED
    BY <1>6, <2>1, CollectIsListing DEF Q, L, v
<1>27. UnmatchedRight(c, d, on, start) = u
  BY UnmatchedBlock DEF u, U, block
<1>28. Cardinality(A) = Cardinality(U)
  <2> DEFINE k == [e \in U |-> <<NoRow, start + e>>]
  <2>1. \A e \in U : k[e] = <<NoRow, start + e>> /\ k[e] \in A
    BY <1>11
  <2>2. k \in [U -> A]
    BY <2>1
  <2> HIDE DEF k
  <2>3. \A x, y \in U : k[x] = k[y] => x = y
    <3> TAKE x \in U, y \in U
    <3> HAVE k[x] = k[y]
    <3>1. <<NoRow, start + x>> = <<NoRow, start + y>>
      BY <2>1
    <3>2. start + x = start + y /\ x \in Nat /\ y \in Nat
      BY <1>6, <3>1
    <3> QED
      BY <1>1, <3>2
  <2>4. \A z \in A : \E e \in U : k[e] = z
    BY <1>11, <2>1
  <2>5. k \in Bijection(U, A)
    BY <2>2, <2>3, <2>4 DEF Bijection, Injection, IsInjective, Surjection
  <2> QED
    BY <1>6, <2>5, FS_Bijection DEF ExistsBijection
<1> QED
  BY <1>25, <1>26, <1>27, <1>28, Zenon DEF A, P, M, w, U

(* The starts of the blocks are finitely many numbers.                     *)
LEMMA StartsAreNumbers ==
  ASSUME NEW R, NEW data \in Seq(R)
  PROVE  /\ BlockStarts(data) \in SUBSET Nat /\ IsFiniteSet(BlockStarts(data))
         /\ Cardinality(BlockStarts(data)) \in Nat
<1>1. BlockStarts(data) \in SUBSET RowIndexes(data)
  BY DEF BlockStarts
<1> QED
  BY <1>1, KeptRows

(* The blocks with a row that meets no row of the active dataset, which    *)
(* only a full join asks for.                                              *)
StartsLeft(c, d, on, type) ==
    {s \in BlockStarts(d) : type = "full" /\ AloneIn(c, d, on, s) # {}}

(* They are finitely many of the starts of blocks.                         *)
LEMMA LeftAreStarts ==
  ASSUME NEW c, NEW S, NEW d \in Seq(S), NEW on, NEW type
  PROVE  /\ StartsLeft(c, d, on, type) \in SUBSET BlockStarts(d)
         /\ StartsLeft(c, d, on, type) \in SUBSET Nat
         /\ IsFiniteSet(StartsLeft(c, d, on, type))
         /\ Cardinality(StartsLeft(c, d, on, type)) \in Nat
<1>1. StartsLeft(c, d, on, type) \in SUBSET BlockStarts(d)
  BY DEF StartsLeft
<1>2. IsFiniteSet(StartsLeft(c, d, on, type))
  BY <1>1, StartsAreNumbers, FS_Subset
<1> QED
  BY <1>1, <1>2, StartsAreNumbers, FS_CardinalityType

(* Every pair of a join belongs to a block of active rows, or else to such *)
(* a block of compared rows.                                               *)
LEMMA BlockOfPair ==
  ASSUME NEW R, NEW c \in Seq(R), NEW S, NEW d \in Seq(S), NEW on, NEW type,
         NEW p \in JoinPairs(c, d, on, type)
  PROVE  \/ /\ p[1] # NoRow /\ p[1] \in RowIndexes(c) /\ StartOf(p[1]) \in BlockStarts(c)
         \/ /\ p[1] = NoRow /\ type = "full" /\ p[2] \in RowIndexes(d)
            /\ StartOf(p[2]) \in StartsLeft(c, d, on, type)
<1>1. p = <<p[1], p[2]>>
  BY PairsArePlaces DEF Places
<1>2. <<p[1], p[2]>> \in JoinPairs(c, d, on, type)
  BY <1>1
<1>3. \/ p[1] \in RowIndexes(c)
      \/ /\ type = "full" /\ p[1] = NoRow /\ p[2] \in RowIndexes(d)
         /\ RightAlone(c, d, on, p[2])
  BY <1>2, PairsTell
<1>4. CASE p[1] \in RowIndexes(c)
  BY <1>4, BlockOfRow, RowsOfDataset, JoinsAssumption DEF JoinsAssumption
<1>5. CASE p[1] \notin RowIndexes(c)
  <2>1. /\ type = "full" /\ p[1] = NoRow /\ p[2] \in RowIndexes(d) /\ RightAlone(c, d, on, p[2])
    BY <1>3, <1>5
  <2>2. /\ StartOf(p[2]) \in BlockStarts(d) /\ PlaceOf(p[2]) \in RowIndexes(BlockAt(d, StartOf(p[2])))
        /\ p[2] = StartOf(p[2]) + PlaceOf(p[2])
    BY <2>1, BlockOfRow
  <2>3. PlaceOf(p[2]) \in AloneIn(c, d, on, StartOf(p[2]))
    BY <2>1, <2>2 DEF AloneIn
  <2> QED
    BY <2>1, <2>2, <2>3 DEF StartsLeft
<1> QED
  BY <1>4, <1>5

(* The number of the block a pair belongs to.                              *)
BlockNumbers(c, d, on, type) ==
    [p \in JoinPairs(c, d, on, type) |->
        IF p[1] # NoRow THEN RankIn(BlockStarts(c), StartOf(p[1])) + 1
        ELSE Cardinality(BlockStarts(c)) + RankIn(StartsLeft(c, d, on, type), StartOf(p[2])) + 1]

(* The pairs with one number are those of one block: first the blocks of   *)
(* active rows, then the blocks with rows left over.                       *)
LEMMA BlockNumbered ==
  ASSUME NEW R, NEW c \in Seq(R), NEW S, NEW d \in Seq(S), NEW on, NEW type
  PROVE  LET C == BlockStarts(c)
             W == StartsLeft(c, d, on, type)
             P == JoinPairs(c, d, on, type)
             g == BlockNumbers(c, d, on, type)
         IN /\ g \in [P -> 1 .. Cardinality(C) + Cardinality(W)]
            /\ \A n \in 1 .. Cardinality(C) : Numbered(P, g, n) = PairsOfBlock(P, NthOf(C, n))
            /\ \A n \in 1 .. Cardinality(W) :
                    Numbered(P, g, Cardinality(C) + n) = RestOfBlock(P, NthOf(W, n))
            /\ \A x, y \in P : g[x] < g[y] => <<x, y>> \in JoinOrder(c, d, type = "full")
<1> DEFINE C == BlockStarts(c)
           W == StartsLeft(c, d, on, type)
           P == JoinPairs(c, d, on, type)
           g == BlockNumbers(c, d, on, type)
           I == Cardinality(C)
           J == Cardinality(W)
           L == JoinOrder(c, d, type = "full")
           a(p) == StartOf(p[1])
           b(p) == StartOf(p[2])
<1>1. C \in SUBSET Nat /\ IsFiniteSet(C) /\ I \in Nat
  BY StartsAreNumbers
<1>2. W \in SUBSET Nat /\ IsFiniteSet(W) /\ J \in Nat
  BY LeftAreStarts
<1>3. \A p \in P : \/ p[1] # NoRow /\ p[1] \in RowIndexes(c) /\ a(p) \in C
                   \/ p[1] = NoRow /\ type = "full" /\ p[2] \in RowIndexes(d) /\ b(p) \in W
  BY BlockOfPair
<1>4. \A p \in P : g[p] = IF p[1] # NoRow THEN RankIn(C, a(p)) + 1 ELSE I + RankIn(W, b(p)) + 1
  BY DEF BlockNumbers
<1>5. P \in SUBSET Places(c, d)
  BY PairsArePlaces
<1>6. g = [p \in P |-> g[p]]
  BY DEF BlockNumbers
<1> HIDE DEF C, W, P, g, a, b
<1>7. \A s \in C : RankIn(C, s) \in Nat /\ RankIn(C, s) < I
  BY <1>1, RankOfElement
<1>8. \A s \in W : RankIn(W, s) \in Nat /\ RankIn(W, s) < J
  BY <1>2, RankOfElement
<1>9. \A p \in P : p[1] # NoRow => /\ a(p) \in C /\ g[p] = RankIn(C, a(p)) + 1
                                   /\ g[p] \in 1 .. I
  <2> TAKE p \in P
  <2> HAVE p[1] # NoRow
  <2>1. a(p) \in C
    BY <1>3
  <2>2. g[p] = RankIn(C, a(p)) + 1
    BY <1>4
  <2>3. RankIn(C, a(p)) \in Nat /\ RankIn(C, a(p)) < I
    BY <1>7, <2>1
  <2> HIDE DEF I
  <2>4. g[p] \in 1 .. I
    BY <1>1, <2>2, <2>3
  <2> QED
    BY <2>1, <2>2, <2>4
<1>10. \A p \in P : p[1] = NoRow => /\ b(p) \in W /\ g[p] = I + RankIn(W, b(p)) + 1
                                    /\ g[p] \in I + 1 .. I + J
  <2> TAKE p \in P
  <2> HAVE p[1] = NoRow
  <2>1. b(p) \in W
    BY <1>3
  <2>2. g[p] = I + RankIn(W, b(p)) + 1
    BY <1>4
  <2>3. RankIn(W, b(p)) \in Nat /\ RankIn(W, b(p)) < J
    BY <1>8, <2>1
  <2> HIDE DEF I, J
  <2>4. g[p] \in I + 1 .. I + J
    BY <1>1, <1>2, <2>2, <2>3
  <2> QED
    BY <2>1, <2>2, <2>4
<1> HIDE DEF I, J
<1>11. g \in [P -> 1 .. I + J]
  <2>1. \A p \in P : g[p] \in 1 .. I + J
    <3> TAKE p \in P
    <3>1. g[p] \in 1 .. I \/ g[p] \in I + 1 .. I + J
      BY <1>9, <1>10
    <3> QED
      BY <1>1, <1>2, <3>1
  <2> QED
    BY <1>6, <2>1
<1>12. ASSUME NEW n \in 1 .. I
       PROVE  Numbered(P, g, n) = PairsOfBlock(P, NthOf(C, n))
  <2>1. NthOf(C, n) \in C /\ RankIn(C, NthOf(C, n)) = n - 1
    BY <1>1, NthElement DEF I
  <2>2. ASSUME NEW p \in P
        PROVE  g[p] = n <=> p[1] # NoRow /\ a(p) = NthOf(C, n)
    <3>1. CASE p[1] # NoRow
      <4>1. a(p) \in C /\ g[p] = RankIn(C, a(p)) + 1 /\ RankIn(C, a(p)) \in Nat
        BY <1>7, <1>9, <3>1
      <4>2. g[p] = n <=> RankIn(C, a(p)) = RankIn(C, NthOf(C, n))
        BY <2>1, <4>1
      <4>3. RankIn(C, a(p)) = RankIn(C, NthOf(C, n)) <=> a(p) = NthOf(C, n)
        <5>1. \A i, j \in C : RankIn(C, i) = RankIn(C, j) => i = j
          BY <1>1, RankOfElement
        <5>2. a(p) \in C /\ NthOf(C, n) \in C
          BY <2>1, <4>1
        <5> HIDE DEF a
        <5> QED
          BY <5>1, <5>2, Zenon
      <4> QED
        BY <3>1, <4>2, <4>3
    <3>2. CASE p[1] = NoRow
      BY <1>1, <1>2, <1>10, <3>2
    <3> QED
      BY <3>1, <3>2
  <2> QED
    BY <2>2 DEF Numbered, PairsOfBlock, a
<1>13. ASSUME NEW n \in 1 .. J
       PROVE  Numbered(P, g, I + n) = RestOfBlock(P, NthOf(W, n))
  <2>1. NthOf(W, n) \in W /\ RankIn(W, NthOf(W, n)) = n - 1
    BY <1>2, NthElement DEF J
  <2>2. ASSUME NEW p \in P
        PROVE  g[p] = I + n <=> p[1] = NoRow /\ b(p) = NthOf(W, n)
    <3>1. CASE p[1] = NoRow
      <4>1. b(p) \in W /\ g[p] = I + RankIn(W, b(p)) + 1 /\ RankIn(W, b(p)) \in Nat
        BY <1>8, <1>10, <3>1
      <4>2. g[p] = I + n <=> RankIn(W, b(p)) = RankIn(W, NthOf(W, n))
        BY <1>1, <2>1, <4>1
      <4>3. RankIn(W, b(p)) = RankIn(W, NthOf(W, n)) <=> b(p) = NthOf(W, n)
        <5>1. \A i, j \in W : RankIn(W, i) = RankIn(W, j) => i = j
          BY <1>2, RankOfElement
        <5>2. b(p) \in W /\ NthOf(W, n) \in W
          BY <2>1, <4>1
        <5> HIDE DEF b
        <5> QED
          BY <5>1, <5>2, Zenon
      <4> QED
        BY <3>1, <4>2, <4>3
    <3>2. CASE p[1] # NoRow
      BY <1>1, <1>2, <1>9, <3>2
    <3> QED
      BY <3>1, <3>2
  <2> QED
    BY <2>2 DEF Numbered, RestOfBlock, b
<1>14. ASSUME NEW x \in P, NEW y \in P, g[x] < g[y]
       PROVE  <<x, y>> \in L
  <2>1. <<x, y>> \in L <=> ComesBefore(x, y, Len(c), type = "full")
    BY <1>5, OrderTells DEF L
  <2>2. Len(c) \in Nat /\ RowIndexes(c) \subseteq Nat /\ RowIndexes(d) \subseteq Nat
        /\ NoRow \notin RowIndexes(c) /\ NoRow \notin RowIndexes(d)
        /\ \A i \in RowIndexes(c) : i < Len(c)
    BY RowsOfDataset, JoinsAssumption DEF JoinsAssumption
  <2>3. CASE x[1] # NoRow /\ y[1] # NoRow
    <3>1. x[1] \in RowIndexes(c) /\ y[1] \in RowIndexes(c) /\ a(x) \in Nat /\ a(y) \in Nat
      BY <1>1, <1>3, <2>3
    <3>2. RankIn(C, a(x)) < RankIn(C, a(y))
      BY <1>7, <1>9, <1>14, <2>3
    <3>3. a(x) < a(y)
      <4>1. a(y) <= a(x) => RankIn(C, a(y)) <= RankIn(C, a(x))
        BY <1>1, <3>1, RankGrows
      <4>2. RankIn(C, a(x)) \in Nat /\ RankIn(C, a(y)) \in Nat
        BY <1>7, <1>9, <2>3
      <4> QED
        BY <3>1, <3>2, <4>1, <4>2
    <3>4. x[1] < y[1]
      BY <3>1, <3>3, StartsGrow DEF a
    <3>5. /\ OuterPlace(x[1], Len(c), type = "full") = x[1] + 1
          /\ OuterPlace(y[1], Len(c), type = "full") = y[1] + 1
      BY <2>3 DEF OuterPlace
    <3>6. x[1] + 1 < y[1] + 1
      BY <2>2, <3>1, <3>4
    <3> QED
      BY <2>1, <3>5, <3>6 DEF ComesBefore
  <2>4. CASE x[1] # NoRow /\ y[1] = NoRow
    <3>1. x[1] \in RowIndexes(c) /\ type = "full"
      BY <1>3, <2>4
    <3>2. /\ OuterPlace(x[1], Len(c), type = "full") = x[1] + 1
          /\ OuterPlace(y[1], Len(c), type = "full") = Len(c) + 1
      BY <2>4, <3>1 DEF OuterPlace
    <3>3. x[1] + 1 < Len(c) + 1
      BY <2>2, <3>1
    <3> QED
      BY <2>1, <3>2, <3>3 DEF ComesBefore
  <2>5. CASE x[1] = NoRow /\ y[1] # NoRow
    <3>1. g[x] \in I + 1 .. I + J /\ g[y] \in 1 .. I
      BY <1>9, <1>10, <2>5
    <3> QED
      BY <1>1, <1>2, <1>14, <3>1
  <2>6. CASE x[1] = NoRow /\ y[1] = NoRow
    <3>1. /\ x[2] \in RowIndexes(d) /\ y[2] \in RowIndexes(d) /\ b(x) \in Nat /\ b(y) \in Nat
          /\ type = "full"
      BY <1>2, <1>3, <2>6
    <3>2. RankIn(W, b(x)) < RankIn(W, b(y))
      BY <1>1, <1>8, <1>10, <1>14, <2>6
    <3>3. b(x) < b(y)
      <4>1. b(y) <= b(x) => RankIn(W, b(y)) <= RankIn(W, b(x))
        BY <1>2, <3>1, RankGrows
      <4>2. RankIn(W, b(x)) \in Nat /\ RankIn(W, b(y)) \in Nat
        BY <1>8, <1>10, <2>6
      <4> QED
        BY <3>1, <3>2, <4>1, <4>2
    <3>4. x[2] < y[2]
      BY <3>1, <3>3, StartsGrow DEF b
    <3>5. /\ OuterPlace(x[1], Len(c), type = "full") = Len(c) + 1
          /\ OuterPlace(y[1], Len(c), type = "full") = Len(c) + 1
      BY <2>6, <3>1 DEF OuterPlace
    <3>6. InnerPlace(x[2]) = x[2] + 1 /\ InnerPlace(y[2]) = y[2] + 1
      BY <2>2, <3>1 DEF InnerPlace
    <3>7. x[2] + 1 < y[2] + 1
      BY <2>2, <3>1, <3>4
    <3> QED
      BY <2>1, <3>5, <3>6, <3>7 DEF ComesBefore
  <2> QED
    BY <2>3, <2>4, <2>5, <2>6
<1> QED
  BY <1>11, <1>12, <1>13, <1>14, Zenon DEF C, W, P, g, I, J, L

(* The numbers of a set listed by how many are less.                       *)
NumbersListed(S) ==
    [n \in 1 .. Cardinality(S) |->
        CHOOSE x \in S : Cardinality({y \in S \ {x} : y < x}) = n - 1]

(* The n-th number listed is the n-th of the set.                          *)
LEMMA NumbersInOrder ==
  ASSUME NEW S \in SUBSET Nat, IsFiniteSet(S)
  PROVE  /\ DOMAIN NumbersListed(S) = 1 .. Cardinality(S)
         /\ \A n \in 1 .. Cardinality(S) : NumbersListed(S)[n] = NthOf(S, n)
<1>1. ASSUME NEW x \in S
      PROVE  Cardinality({y \in S \ {x} : y < x}) = RankIn(S, x)
  <2>1. {y \in S \ {x} : y < x} = {y \in S : y < x}
    OBVIOUS
  <2> QED
    BY <2>1, Zenon DEF RankIn
<1>2. ASSUME NEW n \in 1 .. Cardinality(S)
      PROVE  NumbersListed(S)[n] = NthOf(S, n)
  <2> DEFINE X == CHOOSE x \in S : Cardinality({y \in S \ {x} : y < x}) = n - 1
  <2>1. NthOf(S, n) \in S /\ RankIn(S, NthOf(S, n)) = n - 1
    BY NthElement
  <2>2. Cardinality({y \in S \ {NthOf(S, n)} : y < NthOf(S, n)}) = n - 1
    BY <1>1, <2>1
  <2>3. \E x \in S : Cardinality({y \in S \ {x} : y < x}) = n - 1
    BY <2>1, <2>2, Zenon
  <2>4. X \in S /\ Cardinality({y \in S \ {X} : y < X}) = n - 1
    BY <2>3, Zenon
  <2>5. NumbersListed(S)[n] = X
    BY DEF NumbersListed
  <2> HIDE DEF X
  <2>6. RankIn(S, X) = n - 1
    BY <1>1, <2>4
  <2>7. X = NthOf(S, n)
    BY <2>1, <2>4, <2>6, RankOfElement
  <2> QED
    BY <2>5, <2>7
<1> QED
  BY <1>2 DEF NumbersListed

(* The order of the numbers.                                               *)
LessThan == {r \in Nat \X Nat : r[1] < r[2]}

(* In that order, the rank of a number is how many are less.               *)
LEMMA RankOfNumber ==
  ASSUME NEW S \in SUBSET Nat, NEW x \in S
  PROVE  OrderRank(S, LessThan, x) = RankIn(S, x)
<1>1. \A y \in S : <<y, x>> \in LessThan <=> y < x
  BY DEF LessThan
<1>2. \A y \in S : y < x => y # x
  OBVIOUS
<1>3. Earlier(S, LessThan, x) = {y \in S : y < x}
  BY <1>1, <1>2 DEF Earlier
<1> QED
  BY <1>3, Zenon DEF OrderRank, RankIn

(* The elements of a part of a set of numbers, found by their places in it.*)
PlacesOf(S, W) == {n \in 0 .. Cardinality(S) - 1 : NthOf(S, n + 1) \in W}

(* The m-th of the places is the place of the m-th element of the part.    *)
LEMMA NthOfPart ==
  ASSUME NEW S \in SUBSET Nat, IsFiniteSet(S), NEW W \in SUBSET S
  PROVE  /\ IsFiniteSet(PlacesOf(S, W)) /\ PlacesOf(S, W) \in SUBSET Nat
         /\ Cardinality(PlacesOf(S, W)) = Cardinality(W) /\ Cardinality(W) \in Nat
         /\ \A m \in 1 .. Cardinality(W) :
                /\ NthOf(PlacesOf(S, W), m) \in PlacesOf(S, W)
                /\ NthOf(S, NthOf(PlacesOf(S, W), m) + 1) = NthOf(W, m)
<1> DEFINE K == PlacesOf(S, W)
           h == [n \in K |-> NthOf(S, n + 1)]
           I == Cardinality(S)
<1>1. I \in Nat /\ W \in SUBSET Nat /\ IsFiniteSet(W)
  BY FS_Subset, FS_CardinalityType
<1>2. K \in SUBSET (0 .. I - 1)
  BY DEF PlacesOf
<1>3. K \in SUBSET Nat /\ IsFiniteSet(K)
  <2>1. IsFiniteSet(0 .. I - 1)
    <3>1. 0 \in Int /\ I - 1 \in Int
      BY <1>1
    <3> HIDE DEF I
    <3> QED
      BY <3>1, FS_Interval
  <2> HIDE DEF I
  <2> QED
    BY <1>1, <1>2, <2>1, FS_Subset
<1>4. \A n \in K : h[n] = NthOf(S, n + 1) /\ h[n] \in W
  BY DEF PlacesOf
<1>5. h \in [K -> W]
  BY <1>4
<1>6. \A m, n \in 1 .. I : m < n => NthOf(S, m) < NthOf(S, n)
  BY NthElement
<1>7. \A s \in S : RankIn(S, s) + 1 \in 1 .. I /\ NthOf(S, RankIn(S, s) + 1) = s /\ RankIn(S, s) \in Nat
  BY NthElement, RankGrows
<1>8. \A z \in W : \E n \in K : h[n] = z
  <2> TAKE z \in W
  <2> DEFINE n == RankIn(S, z)
  <2>1. n + 1 \in 1 .. I /\ NthOf(S, n + 1) = z /\ n \in Nat
    BY <1>7
  <2> HIDE DEF n, I
  <2>2. n \in 0 .. I - 1
    BY <1>1, <2>1
  <2>3. n \in K
    BY <2>1, <2>2 DEF PlacesOf, I
  <2> HIDE DEF K, h
  <2> QED
    BY <1>4, <2>1, <2>3
<1> HIDE DEF K, h, I
<1>9. \A x, y \in K : x < y => h[x] < h[y]
  <2> TAKE x \in K, y \in K
  <2> HAVE x < y
  <2>1. x + 1 \in 1 .. I /\ y + 1 \in 1 .. I /\ x + 1 < y + 1
    BY <1>1, <1>2
  <2> QED
    BY <1>4, <1>6, <2>1
<1>10. \A x, y \in K : x < y <=> h[x] < h[y]
  <2> TAKE x \in K, y \in K
  <2>1. x \in Nat /\ y \in Nat /\ h[x] \in Nat /\ h[y] \in Nat
    BY <1>1, <1>3, <1>4
  <2>2. x = y => h[x] = h[y]
    OBVIOUS
  <2>3. (x < y => h[x] < h[y]) /\ (y < x => h[y] < h[x])
    BY <1>9
  <2> QED
    BY <2>1, <2>2, <2>3
<1>11. Carries(h, K, LessThan, W, LessThan)
  <2>1. \A x, y \in K : h[x] = h[y] => x = y
    <3> TAKE x \in K, y \in K
    <3>1. x \in Nat /\ y \in Nat /\ h[x] \in Nat /\ h[y] \in Nat
      BY <1>1, <1>3, <1>4
    <3>2. (x < y => h[x] < h[y]) /\ (y < x => h[y] < h[x])
      BY <1>9
    <3> QED
      BY <3>1, <3>2
  <2>2. \A x, y \in K : <<x, y>> \in LessThan <=> <<h[x], h[y]>> \in LessThan
    <3> TAKE x \in K, y \in K
    <3>1. x \in Nat /\ y \in Nat /\ h[x] \in Nat /\ h[y] \in Nat
      BY <1>1, <1>3, <1>4
    <3>2. \A m, n \in Nat : <<m, n>> \in LessThan <=> m < n
      BY DEF LessThan
    <3> QED
      BY <1>10, <3>1, <3>2
  <2> QED
    BY <1>5, <1>8, <2>1, <2>2 DEF Carries
<1>12. /\ Cardinality(W) = Cardinality(K)
       /\ \A n \in K : OrderRank(W, LessThan, h[n]) = OrderRank(K, LessThan, n)
  BY <1>3, <1>11, RankIsCarried
<1>13. \A n \in K : RankIn(W, h[n]) = RankIn(K, n)
  BY <1>1, <1>3, <1>4, <1>12, RankOfNumber
<1>14. ASSUME NEW m \in 1 .. Cardinality(W)
       PROVE  NthOf(K, m) \in K /\ NthOf(S, NthOf(K, m) + 1) = NthOf(W, m)
  <2> DEFINE n == NthOf(K, m)
  <2>1. n \in K /\ RankIn(K, n) = m - 1
    BY <1>3, <1>12, NthElement
  <2> HIDE DEF n
  <2>2. RankIn(W, h[n]) = m - 1 /\ h[n] \in W /\ h[n] = NthOf(S, n + 1)
    BY <1>4, <1>13, <2>1
  <2>3. NthOf(W, m) \in W /\ RankIn(W, NthOf(W, m)) = m - 1
    BY <1>1, NthElement
  <2>4. h[n] = NthOf(W, m)
    <3>1. \A i, j \in W : RankIn(W, i) = RankIn(W, j) => i = j
      BY <1>1, RankOfElement
    <3> QED
      BY <2>2, <2>3, <3>1, Zenon
  <2> QED
    BY <2>1, <2>2, <2>4 DEF n
<1>15. Cardinality(W) \in Nat
  BY <1>1, FS_CardinalityType
<1> QED
  BY <1>3, <1>12, <1>14, <1>15 DEF K

(* The blocks a join is delivered in, one by one.                          *)
PartsOfJoin(c, d, on, type) ==
    [n \in 1 .. Cardinality(BlockStarts(c)) + Cardinality(StartsLeft(c, d, on, type)) |->
        Listing(Numbered(JoinPairs(c, d, on, type), BlockNumbers(c, d, on, type), n),
                JoinOrder(c, d, type = "full"), JoinedRows(c, d, on))]

(* One after the other, the blocks are the join that is collected.         *)
LEMMA PartsInOrder ==
  ASSUME NEW R, NEW c \in Seq(R), NEW S, NEW d \in Seq(S), NEW on, NEW type
  PROVE  FlattenSeq(PartsOfJoin(c, d, on, type)) = CollectJoin(c, d, on, type, type = "full")
<1> DEFINE P == JoinPairs(c, d, on, type)
           g == BlockNumbers(c, d, on, type)
           L == JoinOrder(c, d, type = "full")
           v == JoinedRows(c, d, on)
           N == Cardinality(BlockStarts(c)) + Cardinality(StartsLeft(c, d, on, type))
<1>1. N \in Nat
  <2>1. Cardinality(BlockStarts(c)) \in Nat /\ Cardinality(StartsLeft(c, d, on, type)) \in Nat
    BY StartsAreNumbers, LeftAreStarts
  <2> QED
    BY <2>1
<1>2. IsFiniteSet(P) /\ Orders(P, L)
  BY PairsArePlaces, PlacesOrdered
<1>3. g \in [P -> 1 .. N] /\ \A x, y \in P : g[x] < g[y] => <<x, y>> \in L
  BY BlockNumbered
<1>4. CollectJoin(c, d, on, type, type = "full") = Listing(P, L, v)
  <2> DEFINE last == type = "full"
  <2>1. CollectJoin(c, d, on, type, last) = Listing(P, JoinOrder(c, d, last), v)
    <3> HIDE DEF last
    <3> QED
      BY CollectIsListing
  <2> QED
    BY <2>1
<1>5. PartsOfJoin(c, d, on, type) = [n \in 1 .. N |-> Listing(Numbered(P, g, n), L, v)]
  BY DEF PartsOfJoin
<1> HIDE DEF P, g, L, v, N
<1> QED
  BY <1>1, <1>2, <1>3, <1>4, <1>5, ListingOfParts

(* The part of the join that a block of active rows is.                    *)
LEMMA LeftPart ==
  ASSUME NEW R, NEW c \in Seq(R), NEW S, NEW d \in Seq(S), NEW on, NEW type \in JoinTypes,
         NEW n \in 1 .. Cardinality(BlockStarts(c))
  PROVE  /\ n \in 1 .. Cardinality(BlockStarts(c)) + Cardinality(StartsLeft(c, d, on, type))
         /\ CollectJoin(BlockAt(c, NthOf(BlockStarts(c), n)), d, on,
                        IF type = "full" THEN "left" ELSE type, FALSE)
              = PartsOfJoin(c, d, on, type)[n]
<1> DEFINE P == JoinPairs(c, d, on, type)
           g == BlockNumbers(c, d, on, type)
           v == JoinedRows(c, d, on)
           start == NthOf(BlockStarts(c), n)
           last == type = "full"
           I == Cardinality(BlockStarts(c))
           J == Cardinality(StartsLeft(c, d, on, type))
<1>1. I \in Nat /\ J \in Nat /\ start \in BlockStarts(c)
  BY StartsAreNumbers, LeftAreStarts, NthElement
<1>2. n \in 1 .. I + J
  <2>1. n \in 1 .. I
    OBVIOUS
  <2> HIDE DEF I, J
  <2> QED
    BY <1>1, <2>1
<1>3. Numbered(P, g, n) = PairsOfBlock(P, start)
  BY BlockNumbered
<1>4. PartsOfJoin(c, d, on, type)[n] = Listing(Numbered(P, g, n), JoinOrder(c, d, last), v)
  BY <1>2 DEF PartsOfJoin
<1>5. CollectJoin(BlockAt(c, start), d, on, IF type = "full" THEN "left" ELSE type, FALSE)
        = Listing(PairsOfBlock(P, start), JoinOrder(c, d, last), v)
  <2> HIDE DEF last, start
  <2> QED
    BY <1>1, BlockOfPairs
<1> QED
  BY <1>2, <1>3, <1>4, <1>5

(* And the part that a block of compared rows is.                          *)
LEMMA RightPart ==
  ASSUME NEW R, NEW c \in Seq(R), NEW S, NEW d \in Seq(S), NEW on,
         NEW n \in 1 .. Cardinality(StartsLeft(c, d, on, "full"))
  PROVE  /\ Cardinality(BlockStarts(c)) + n
                \in 1 .. Cardinality(BlockStarts(c)) + Cardinality(StartsLeft(c, d, on, "full"))
         /\ CollectJoin(<<>>, UnmatchedRight(c, d, on, NthOf(StartsLeft(c, d, on, "full"), n)),
                        on, "full", FALSE)
              = PartsOfJoin(c, d, on, "full")[Cardinality(BlockStarts(c)) + n]
<1> DEFINE P == JoinPairs(c, d, on, "full")
           g == BlockNumbers(c, d, on, "full")
           v == JoinedRows(c, d, on)
           start == NthOf(StartsLeft(c, d, on, "full"), n)
           last == "full" = "full"
           I == Cardinality(BlockStarts(c))
           J == Cardinality(StartsLeft(c, d, on, "full"))
<1>1. I \in Nat /\ J \in Nat /\ start \in BlockStarts(d)
  BY StartsAreNumbers, LeftAreStarts, NthElement
<1>2. I + n \in 1 .. I + J
  <2>1. n \in 1 .. J
    OBVIOUS
  <2> HIDE DEF I, J
  <2> QED
    BY <1>1, <2>1
<1>3. Numbered(P, g, I + n) = RestOfBlock(P, start)
  BY BlockNumbered
<1>4. PartsOfJoin(c, d, on, "full")[I + n] = Listing(Numbered(P, g, I + n), JoinOrder(c, d, last), v)
  BY <1>2 DEF PartsOfJoin
<1>5. CollectJoin(<<>>, UnmatchedRight(c, d, on, start), on, "full", FALSE)
        = Listing(RestOfBlock(P, start), JoinOrder(c, d, last), v)
  <2> HIDE DEF last, start
  <2> QED
    BY <1>1, BlockOfRest
<1> QED
  BY <1>2, <1>3, <1>4, <1>5

(* A block of compared rows joins to nothing exactly when none is left.    *)
LEMMA NothingInBlock ==
  ASSUME NEW R, NEW c \in Seq(R), NEW S, NEW d \in Seq(S), NEW on, NEW start \in BlockStarts(d)
  PROVE  CollectJoin(<<>>, UnmatchedRight(c, d, on, start), on, "full", FALSE) # <<>>
            <=> start \in StartsLeft(c, d, on, "full")
<1> DEFINE A == RestOfBlock(JoinPairs(c, d, on, "full"), start)
           U == AloneIn(c, d, on, start)
           last == FALSE
           L == JoinOrder(c, d, last)
           v == JoinedRows(c, d, on)
           E == {v[x] : x \in A}
<1>1. /\ CollectJoin(<<>>, UnmatchedRight(c, d, on, start), on, "full", FALSE) = Listing(A, L, v)
      /\ Cardinality(A) = Cardinality(U)
  <2> HIDE DEF last
  <2> QED
    BY BlockOfRest
<1>2. start \in StartsLeft(c, d, on, "full") <=> U # {}
  BY DEF StartsLeft
<1>3. A \in SUBSET Places(c, d) /\ IsFiniteSet(A) /\ Orders(A, L)
  <2>1. A \in SUBSET JoinPairs(c, d, on, "full")
    BY DEF RestOfBlock
  <2>2. A \in SUBSET Places(c, d) /\ IsFiniteSet(A)
    BY <2>1, PairsArePlaces, FS_Subset
  <2> HIDE DEF A, last
  <2> QED
    BY <2>2, PlacesOrdered
<1>4. IsFiniteSet(U)
  <2>1. U \in SUBSET RowIndexes(BlockAt(d, start))
    BY DEF AloneIn
  <2>2. BlockAt(d, start) \in Seq(S)
    BY RowsOfBlock
  <2> HIDE DEF U
  <2> QED
    BY <2>1, <2>2, KeptRows
<1>5. Valued(A, v, E)
  BY DEF Valued
<1> HIDE DEF A, U, L, v, E
<1>6. Listing(A, L, v) \in Seq(E) /\ Len(Listing(A, L, v)) = Cardinality(A)
  BY <1>3, <1>5, ListingOf
<1>7. Cardinality(U) = 0 <=> U = {}
  BY <1>4, FS_EmptySet
<1>8. Listing(A, L, v) # <<>> <=> Cardinality(A) # 0
  BY <1>6
<1> QED
  BY <1>1, <1>2, <1>7, <1>8

(* The blocks of a join are its parts.                                     *)
LEMMA BlocksAreParts ==
  ASSUME NEW R, NEW c \in Seq(R), NEW S, NEW d \in Seq(S), NEW on, NEW type \in JoinTypes
  PROVE  JoinBlocks(c, d, on, type) = PartsOfJoin(c, d, on, type)
<1> DEFINE X == NumbersListed(BlockStarts(c))
           Y == NumbersListed(BlockStarts(d))
           C == BlockStarts(c)
           D == BlockStarts(d)
           W == StartsLeft(c, d, on, type)
           I == Cardinality(C)
           J == Cardinality(W)
           t == PartsOfJoin(c, d, on, type)
           kind == IF type = "full" THEN "left" ELSE type
           lefts == [n \in DOMAIN X |-> CollectJoin(BlockAt(c, X[n]), d, on, kind, FALSE)]
           rights == [n \in DOMAIN Y |->
                        CollectJoin(<<>>, UnmatchedRight(c, d, on, Y[n]), on, "full", FALSE)]
           some == {n \in RowIndexes(rights) : RowAt(rights, n) # <<>>}
           E == {t[n] : n \in 1 .. I + J}
<1>1. JoinBlocks(c, d, on, type) = IF type = "full" THEN lefts \o RowsAt(rights, some) ELSE lefts
  BY DEF JoinBlocks, InOrder, NumbersListed
<1>2. /\ C \in SUBSET Nat /\ IsFiniteSet(C) /\ I \in Nat
      /\ D \in SUBSET Nat /\ IsFiniteSet(D) /\ Cardinality(D) \in Nat
      /\ W \in SUBSET D /\ J \in Nat
  BY StartsAreNumbers, LeftAreStarts
<1>3. /\ DOMAIN X = 1 .. I /\ \A n \in 1 .. I : X[n] = NthOf(C, n)
      /\ DOMAIN Y = 1 .. Cardinality(D) /\ \A n \in 1 .. Cardinality(D) : Y[n] = NthOf(D, n)
  BY <1>2, NumbersInOrder
<1> HIDE DEF X, Y, C, D, W, t, E, I, J
<1>4. lefts \in [1 .. I -> E] /\ \A n \in 1 .. I : lefts[n] = t[n]
  <2>1. \A n \in 1 .. I : lefts[n] = t[n] /\ n \in 1 .. I + J
    <3> TAKE n \in 1 .. I
    <3>1. /\ n \in 1 .. I + J
          /\ CollectJoin(BlockAt(c, NthOf(C, n)), d, on, kind, FALSE) = t[n]
      <4>1. n \in 1 .. Cardinality(BlockStarts(c))
        BY DEF I, C
      <4>2. /\ n \in 1 .. Cardinality(BlockStarts(c)) + Cardinality(StartsLeft(c, d, on, type))
            /\ CollectJoin(BlockAt(c, NthOf(BlockStarts(c), n)), d, on, kind, FALSE)
                 = PartsOfJoin(c, d, on, type)[n]
        BY <4>1, LeftPart, ZenonT(30)
      <4> QED
        BY <4>2 DEF C, W, t, I, J
    <3>2. lefts[n] = CollectJoin(BlockAt(c, NthOf(C, n)), d, on, kind, FALSE)
      BY <1>3
    <3> QED
      BY <3>1, <3>2
  <2>2. lefts = [n \in 1 .. I |-> lefts[n]]
    BY <1>3
  <2>3. \A n \in 1 .. I : lefts[n] \in E
    BY <2>1 DEF E
  <2> HIDE DEF lefts
  <2> QED
    BY <2>1, <2>2, <2>3
<1>5. t = [n \in 1 .. I + J |-> t[n]]
  BY DEF t, PartsOfJoin, I, J, C, W
<1>6. lefts \in Seq(E) /\ Len(lefts) = I
  <2> HIDE DEF lefts
  <2> QED
    BY <1>2, <1>4
<1>7. CASE type # "full"
  <2>1. J = 0
    <3>1. W = {}
      BY <1>7 DEF W, StartsLeft
    <3> QED
      BY <3>1, FS_EmptySet DEF J
  <2>2. lefts = [n \in 1 .. I |-> lefts[n]]
    BY <1>3
  <2>3. I + J = I
    BY <1>2, <2>1
  <2> HIDE DEF lefts
  <2>4. lefts = t
    BY <1>4, <1>5, <2>2, <2>3
  <2> QED
    BY <1>1, <1>7, <2>4 DEF t
<1>8. CASE type = "full"
  <2> DEFINE K == PlacesOf(D, W)
  <2>1. \A n \in 1 .. Cardinality(D) :
           rights[n] = CollectJoin(<<>>, UnmatchedRight(c, d, on, NthOf(D, n)), on, "full", FALSE)
    BY <1>3
  <2>2. \A n \in 1 .. Cardinality(D) : rights[n] # <<>> <=> NthOf(D, n) \in W
    <3> TAKE n \in 1 .. Cardinality(D)
    <3>1. NthOf(D, n) \in D
      BY <1>2, NthElement
    <3>2. CollectJoin(<<>>, UnmatchedRight(c, d, on, NthOf(D, n)), on, "full", FALSE) # <<>>
            <=> NthOf(D, n) \in W
      BY <1>8, <3>1, NothingInBlock DEF W, D
    <3> HIDE DEF rights
    <3> QED
      BY <2>1, <3>2
  <2>3. RowIndexes(rights) = 0 .. Cardinality(D) - 1
    <3>1. Len(rights) = Cardinality(D)
      BY <1>2, <1>3
    <3> HIDE DEF rights
    <3> QED
      BY <3>1 DEF RowIndexes
  <2> HIDE DEF rights
  <2>4. some = K
    <3>1. \A n \in 0 .. Cardinality(D) - 1 : n + 1 \in 1 .. Cardinality(D)
      BY <1>2
    <3>2. \A n \in 0 .. Cardinality(D) - 1 : RowAt(rights, n) # <<>> <=> NthOf(D, n + 1) \in W
      BY <2>2, <3>1 DEF RowAt
    <3> QED
      BY <2>3, <3>2 DEF PlacesOf
  <2>5. Cardinality(K) = J /\ \A m \in 1 .. J : NthOf(K, m) \in K /\ NthOf(D, NthOf(K, m) + 1) = NthOf(W, m)
    BY <1>2, NthOfPart DEF J
  <2>6. \A n \in K : n + 1 \in 1 .. Cardinality(D)
    BY <1>2 DEF PlacesOf
  <2> HIDE DEF K, some
  <2> DEFINE r == RowsAt(rights, some)
  <2>7. r = [m \in 1 .. J |-> rights[NthOf(K, m) + 1]]
    BY <2>4, <2>5 DEF RowsAt, RowAt, NthOf
  <2>8. ASSUME NEW m \in 1 .. J
        PROVE  r[m] = t[I + m] /\ I + m \in 1 .. I + J
    <3>1. r[m] = rights[NthOf(K, m) + 1]
      BY <2>7
    <3>2. rights[NthOf(K, m) + 1]
            = CollectJoin(<<>>, UnmatchedRight(c, d, on, NthOf(W, m)), on, "full", FALSE)
      BY <2>1, <2>5, <2>6
    <3>3. /\ CollectJoin(<<>>, UnmatchedRight(c, d, on, NthOf(W, m)), on, "full", FALSE) = t[I + m]
          /\ I + m \in 1 .. I + J
      <4>1. m \in 1 .. Cardinality(StartsLeft(c, d, on, "full"))
        BY <1>8 DEF J, W
      <4> QED
        BY <1>8, <4>1, RightPart DEF t, W, I, J, C
    <3> QED
      BY <3>1, <3>2, <3>3
  <2>9. \A m \in 1 .. J : r[m] \in E
    BY <2>8 DEF E
  <2>10. r \in Seq(E) /\ Len(r) = J
    <3>1. r \in [1 .. J -> E]
      BY <2>7, <2>9
    <3> HIDE DEF r
    <3> QED
      BY <1>2, <3>1
  <2>11. t \in Seq(E) /\ Len(t) = I + J
    <3>1. \A n \in 1 .. I + J : t[n] \in E
      BY DEF E
    <3>2. t \in [1 .. I + J -> E]
      BY <1>5, <3>1
    <3> QED
      BY <1>2, <3>2
  <2> HIDE DEF lefts, r
  <2>12. /\ lefts \o r \in Seq(E) /\ Len(lefts \o r) = I + J
         /\ \A n \in 1 .. I + J : (lefts \o r)[n] = IF n <= I THEN lefts[n] ELSE r[n - I]
    BY <1>6, <2>10, ConcatProperties
  <2>13. ASSUME NEW n \in 1 .. I + J
         PROVE  (lefts \o r)[n] = t[n]
    <3>1. CASE n <= I
      BY <1>2, <1>4, <2>12, <3>1
    <3>2. CASE ~ (n <= I)
      <4>1. n - I \in 1 .. J /\ I + (n - I) = n
        BY <1>2, <3>2
      <4>2. r[n - I] = t[n]
        BY <2>8, <4>1
      <4> QED
        BY <2>12, <3>2, <4>2
    <3> QED
      BY <3>1, <3>2
  <2>14. lefts \o r = t
    BY <2>11, <2>12, <2>13, SeqEqual
  <2> QED
    BY <1>1, <1>8, <2>14 DEF r, t
<1> QED
  BY <1>7, <1>8

(* One after the other, the blocks of a join are the join.                 *)
LEMMA BlocksAreJoin ==
  ASSUME NEW R, NEW c \in Seq(R), NEW S, NEW d \in Seq(S), NEW on, NEW type \in JoinTypes
  PROVE  JoinInBlocks(c, d, on, type) = JoinFrames(c, d, on, type)
<1>1. FlattenSeq(JoinBlocks(c, d, on, type)) = CollectJoin(c, d, on, type, type = "full")
  BY BlocksAreParts, PartsInOrder
<1> QED
  BY <1>1 DEF JoinInBlocks, JoinFrames

(* The view of a join orders its pairs as the frames do.                   *)
LEMMA ViewOrder ==
  ASSUME NEW R, NEW c \in Seq(R), NEW S, NEW d \in Seq(S), NEW on, NEW type,
         NEW x \in JoinPairs(c, d, on, type), NEW y \in JoinPairs(c, d, on, type), x # y
  PROVE  ComesBefore(x, y, Len(c), type = "full")
            <=> \/ CurrentOrder(c, x) < CurrentOrder(c, y)
                \/ CurrentOrder(c, x) = CurrentOrder(c, y) /\ x[2] < y[2]
<1> DEFINE P == JoinPairs(c, d, on, type)
           O(p) == OuterPlace(p[1], Len(c), type = "full")
<1>1. /\ Len(c) \in Nat /\ RowIndexes(c) \subseteq Nat /\ RowIndexes(d) \subseteq Nat
      /\ NoRow \notin RowIndexes(c) /\ NoRow \notin RowIndexes(d)
      /\ \A i \in RowIndexes(c) : i < Len(c)
  BY RowsOfDataset, JoinsAssumption DEF JoinsAssumption
<1>2. \A p \in P :
        /\ p = <<p[1], p[2]>>
        /\ \/ /\ p[1] \in RowIndexes(c) /\ p[2] \in RowIndexes(d)
              /\ Matches(RowAt(c, p[1]), RowAt(d, p[2]), on)
           \/ p[1] \in RowIndexes(c) /\ p[2] = NoRow /\ LeftAlone(c, d, on, p[1])
           \/ type = "full" /\ p[1] = NoRow /\ p[2] \in RowIndexes(d)
  <2> TAKE p \in P
  <2>1. p = <<p[1], p[2]>>
    BY PairsArePlaces DEF Places
  <2>2. <<p[1], p[2]>> \in P
    BY <2>1
  <2> QED
    BY <2>1, <2>2, PairsTell
<1>3. \A p \in P : p[1] \in RowIndexes(c) =>
          /\ p[1] \in Nat /\ p[1] < Len(c) /\ O(p) = p[1] + 1 /\ CurrentOrder(c, p) = p[1]
  BY <1>1 DEF OuterPlace, CurrentOrder
<1>4. \A p \in P : p[1] = NoRow =>
          /\ type = "full" /\ p[2] \in Nat /\ InnerPlace(p[2]) = p[2] + 1
          /\ O(p) = Len(c) + 1 /\ CurrentOrder(c, p) = Len(c) + p[2]
  <2> TAKE p \in P
  <2> HAVE p[1] = NoRow
  <2>1. type = "full" /\ p[2] \in RowIndexes(d) /\ p[2] # NoRow
    BY <1>1, <1>2
  <2> QED
    BY <1>1, <2>1 DEF OuterPlace, InnerPlace, CurrentOrder
<1>5. ComesBefore(x, y, Len(c), type = "full")
        <=> O(x) < O(y) \/ (O(x) = O(y) /\ InnerPlace(x[2]) < InnerPlace(y[2]))
  BY DEF ComesBefore
<1>6. x \in P /\ y \in P
  OBVIOUS
<1> HIDE DEF P, O
<1>7. CASE x[1] \in RowIndexes(c) /\ y[1] \in RowIndexes(c) /\ x[1] = y[1]
  <2>1. x[2] # y[2]
    BY <1>2, <1>6, <1>7
  <2>2. x[2] \in RowIndexes(d) /\ y[2] \in RowIndexes(d)
    BY <1>1, <1>2, <1>6, <1>7, <2>1 DEF LeftAlone
  <2>3. /\ InnerPlace(x[2]) = x[2] + 1 /\ InnerPlace(y[2]) = y[2] + 1
        /\ x[2] \in Nat /\ y[2] \in Nat
    BY <1>1, <2>2 DEF InnerPlace
  <2>4. O(x) = O(y) /\ O(x) \in Nat /\ CurrentOrder(c, x) = CurrentOrder(c, y) /\ CurrentOrder(c, x) \in Nat
    BY <1>3, <1>6, <1>7
  <2>5. InnerPlace(x[2]) < InnerPlace(y[2]) <=> x[2] < y[2]
    <3>1. \A m, n \in Nat : m + 1 < n + 1 <=> m < n
      OBVIOUS
    <3>2. x[2] + 1 < y[2] + 1 <=> x[2] < y[2]
      BY <2>3, <3>1, Zenon
    <3> QED
      BY <2>3, <3>2, Zenon
  <2>6. ~ (O(x) < O(y)) /\ ~ (CurrentOrder(c, x) < CurrentOrder(c, y))
    BY <2>4
  <2> QED
    BY <1>5, <2>4, <2>5, <2>6, Zenon
<1>8. CASE x[1] \in RowIndexes(c) /\ y[1] \in RowIndexes(c) /\ x[1] # y[1]
  <2>1. /\ O(x) = x[1] + 1 /\ O(y) = y[1] + 1 /\ CurrentOrder(c, x) = x[1] /\ CurrentOrder(c, y) = y[1]
        /\ x[1] \in Nat /\ y[1] \in Nat
    BY <1>3, <1>6, <1>8
  <2>2. \A m, n \in Nat : /\ m + 1 < n + 1 <=> m < n
                          /\ m + 1 = n + 1 => m = n
    OBVIOUS
  <2>3. (O(x) < O(y) <=> CurrentOrder(c, x) < CurrentOrder(c, y)) /\ O(x) # O(y)
    <3>1. (x[1] + 1 < y[1] + 1 <=> x[1] < y[1]) /\ x[1] + 1 # y[1] + 1
      BY <1>8, <2>1, <2>2, Zenon
    <3> QED
      BY <2>1, <3>1, Zenon
  <2>4. CurrentOrder(c, x) # CurrentOrder(c, y)
    BY <1>8, <2>1, Zenon
  <2> QED
    BY <1>5, <2>3, <2>4, Zenon
<1>9. CASE x[1] \in RowIndexes(c) /\ y[1] = NoRow
  <2>1. /\ O(x) = x[1] + 1 /\ CurrentOrder(c, x) = x[1] /\ x[1] \in Nat /\ x[1] < Len(c)
        /\ O(y) = Len(c) + 1 /\ CurrentOrder(c, y) = Len(c) + y[2] /\ y[2] \in Nat
    BY <1>3, <1>4, <1>6, <1>9
  <2>2. O(x) < O(y) /\ CurrentOrder(c, x) < CurrentOrder(c, y)
    BY <1>1, <2>1
  <2> QED
    BY <1>5, <2>2, Zenon
<1>10. CASE x[1] = NoRow /\ y[1] \in RowIndexes(c)
  <2>1. /\ O(y) = y[1] + 1 /\ CurrentOrder(c, y) = y[1] /\ y[1] \in Nat /\ y[1] < Len(c)
        /\ O(x) = Len(c) + 1 /\ CurrentOrder(c, x) = Len(c) + x[2] /\ x[2] \in Nat
    BY <1>3, <1>4, <1>6, <1>10
  <2>2. /\ ~ (O(x) < O(y)) /\ O(x) # O(y)
        /\ ~ (CurrentOrder(c, x) < CurrentOrder(c, y)) /\ CurrentOrder(c, x) # CurrentOrder(c, y)
    BY <1>1, <2>1
  <2> QED
    BY <1>5, <2>2, Zenon
<1>11. CASE x[1] = NoRow /\ y[1] = NoRow
  <2>1. /\ O(x) = Len(c) + 1 /\ O(y) = Len(c) + 1
        /\ InnerPlace(x[2]) = x[2] + 1 /\ InnerPlace(y[2]) = y[2] + 1
        /\ CurrentOrder(c, x) = Len(c) + x[2] /\ CurrentOrder(c, y) = Len(c) + y[2]
        /\ x[2] \in Nat /\ y[2] \in Nat
    BY <1>4, <1>6, <1>11
  <2>2. ~ (O(x) < O(y)) /\ O(x) = O(y)
    <3>1. ~ (Len(c) + 1 < Len(c) + 1)
      BY <1>1
    <3> QED
      BY <2>1, <3>1, Zenon
  <2>3. \A m, n \in Nat : /\ m + 1 < n + 1 <=> m < n
                          /\ Len(c) + m < Len(c) + n <=> m < n
    BY <1>1
  <2>4. /\ InnerPlace(x[2]) < InnerPlace(y[2]) <=> x[2] < y[2]
        /\ CurrentOrder(c, x) < CurrentOrder(c, y) <=> x[2] < y[2]
    <3>1. /\ x[2] + 1 < y[2] + 1 <=> x[2] < y[2]
          /\ Len(c) + x[2] < Len(c) + y[2] <=> x[2] < y[2]
      BY <2>1, <2>3, Zenon
    <3> QED
      BY <2>1, <3>1, Zenon
  <2>5. CurrentOrder(c, x) = CurrentOrder(c, y) => ~ (x[2] < y[2])
    <3>1. \A m, n \in Nat : Len(c) + m = Len(c) + n => ~ (m < n)
      BY <1>1
    <3> QED
      BY <2>1, <3>1, Zenon
  <2> QED
    BY <1>5, <2>2, <2>4, <2>5, Zenon
<1> QED
  BY <1>2, <1>6, <1>7, <1>8, <1>9, <1>10, <1>11

(* The view of a join has its rows, in their order.                        *)
LEMMA ViewIsJoin ==
  ASSUME NEW R, NEW c \in Seq(R), NEW S, NEW d \in Seq(S), NEW on, NEW type
  PROVE  /\ JoinView(c, d, on, type) = CollectJoin(c, d, on, type, type = "full")
         /\ Len(JoinView(c, d, on, type)) = Cardinality(JoinPairs(c, d, on, type))
<1> DEFINE P == JoinPairs(c, d, on, type)
           last == type = "full"
           L == JoinOrder(c, d, last)
           v == JoinedRows(c, d, on)
           VB(p, q) == \/ CurrentOrder(c, p) < CurrentOrder(c, q)
                       \/ CurrentOrder(c, p) = CurrentOrder(c, q) /\ p[2] < q[2]
           Nth(m) == CHOOSE x \in P : Cardinality({y \in P \ {x} : VB(y, x)}) = m - 1
           Key(p, col) == IF type = "full" /\ p[1] = NoRow
                          THEN RowAt(d, p[2])[on[col]] ELSE RowAt(c, p[1])[col]
           Row(p) == [left  |-> [col \in Columns |->
                                    IF col \in DOMAIN on THEN Key(p, col)
                                    ELSE IF p[1] = NoRow THEN Null ELSE RowAt(c, p[1])[col]],
                      right |-> [col \in Columns \ ComparedKeys(on) |->
                                    IF p[2] = NoRow THEN Null ELSE RowAt(d, p[2])[col]]]
<1>1. P \in SUBSET Places(c, d) /\ IsFiniteSet(P) /\ Orders(P, L)
  BY PairsArePlaces, PlacesOrdered
<1>2. \A x \in P : {y \in P \ {x} : VB(y, x)} = Earlier(P, L, x)
  <2> TAKE x \in P
  <2>1. \A y \in P : <<y, x>> \in L <=> ComesBefore(y, x, Len(c), last)
    BY <1>1, OrderTells
  <2>2. \A y \in P \ {x} : ComesBefore(y, x, Len(c), last) <=> VB(y, x)
    BY ViewOrder
  <2> HIDE DEF P, L, VB
  <2> QED
    BY <2>1, <2>2 DEF Earlier
<1>3. JoinView(c, d, on, type) = [m \in 1 .. Cardinality(P) |-> Row(Nth(m))]
  BY DEF JoinView, JoinViewPairs, InOrder
<1>4. \A p \in P : v[p] = JoinedAs(c, d, on, p[1], p[2])
  BY <1>1 DEF JoinedRows
<1>5. \A p \in P : Row(p) = v[p]
  <2> TAKE p \in P
  <2>1. p[1] = NoRow => type = "full"
    BY BlockOfPair
  <2>2. v[p] = JoinedAs(c, d, on, p[1], p[2])
    BY <1>4
  <2> HIDE DEF P, v
  <2> QED
    BY <2>1, <2>2 DEF JoinedAs
<1> HIDE DEF P, L, v, VB, Row
<1>6. ASSUME NEW m \in 1 .. Cardinality(P)
      PROVE  Row(Nth(m)) = v[InList(P, L, m)]
  <2>1. InList(P, L, m) \in P /\ OrderRank(P, L, InList(P, L, m)) = m - 1
    BY <1>1, ListElement
  <2>2. \E x \in P : Cardinality({y \in P \ {x} : VB(y, x)}) = m - 1
    BY <1>2, <2>1 DEF OrderRank
  <2>3. Nth(m) \in P /\ Cardinality({y \in P \ {Nth(m)} : VB(y, Nth(m))}) = m - 1
    BY <2>2
  <2> HIDE DEF Nth
  <2>4. OrderRank(P, L, Nth(m)) = m - 1
    BY <1>2, <2>3 DEF OrderRank
  <2>5. InList(P, L, m) = Nth(m)
    BY <1>1, <2>3, <2>4, OnlyNth
  <2> QED
    BY <1>5, <2>3, <2>5
<1> HIDE DEF Nth
<1>7. JoinView(c, d, on, type) = Listing(P, L, v)
  BY <1>3, <1>6 DEF Listing
<1>8. CollectJoin(c, d, on, type, last) = Listing(P, L, v)
  <2> HIDE DEF last
  <2> QED
    BY CollectIsListing DEF P, L, v
<1>9. Len(Listing(P, L, v)) = Cardinality(P)
  <2> DEFINE E == {v[x] : x \in P}
  <2>1. Valued(P, v, E)
    BY DEF Valued
  <2> HIDE DEF E
  <2> QED
    BY <1>1, <2>1, ListingOf
<1> QED
  BY <1>7, <1>8, <1>9 DEF P

(* Every set of A is finite and has no more elements than b says.          *)
Bounds(b, A, T) == \A x \in T : IsFiniteSet(A[x]) /\ Cardinality(A[x]) <= b[x]

(* Together they have no more than the sum.                                *)
LEMMA UnionIsSummed ==
  ASSUME NEW T, IsFiniteSet(T), NEW b \in [T -> Nat], NEW A, Bounds(b, A, T)
  PROVE  /\ SumFunction(b) \in Nat
         /\ IsFiniteSet(UNION {A[x] : x \in T})
         /\ Cardinality(UNION {A[x] : x \in T}) <= SumFunction(b)
<1>1. PICK f : Adds(f, b, T) /\ SumFunction(b) = f[T]
  BY SumAdds
<1>2. f[T] \in Nat
  BY <1>1, SumIsPositive
<1>3. /\ IsFiniteSet(UNION {A[x] : x \in T})
      /\ Cardinality(UNION {A[x] : x \in T}) <= f[T]
  BY <1>1, UnionIsBounded DEF Bounds
<1> QED
  BY <1>1, <1>2, <1>3

(* The compared rows by the values their keys put in the active keys.      *)
KeyRows(d, on) == [n \in 1 .. Len(d) |-> KeyOf(d[n], on)]

(* They are a dataset with the same indexes and those keys.                *)
LEMMA RowsByKey ==
  ASSUME NEW S, NEW d \in Seq(S), NEW on
  PROVE  /\ KeyRows(d, on) \in Seq({KeyOf(row, on) : row \in S})
         /\ RowIndexes(KeyRows(d, on)) = RowIndexes(d)
         /\ \A j \in RowIndexes(d) :
                Signature(RowAt(KeyRows(d, on), j), DOMAIN on) = KeyOf(RowAt(d, j), on)
<1> DEFINE e == KeyRows(d, on)
           T == {KeyOf(row, on) : row \in S}
<1>1. Len(d) \in Nat /\ \A n \in 1 .. Len(d) : d[n] \in S
  OBVIOUS
<1>2. e \in [1 .. Len(d) -> T]
  BY <1>1 DEF KeyRows
<1>3. e \in Seq(T) /\ Len(e) = Len(d)
  <2> HIDE DEF e, T
  <2> QED
    BY <1>1, <1>2
<1>4. RowIndexes(e) = RowIndexes(d)
  BY <1>3 DEF RowIndexes
<1>5. ASSUME NEW j \in RowIndexes(d)
      PROVE  Signature(RowAt(e, j), DOMAIN on) = KeyOf(RowAt(d, j), on)
  <2>1. j + 1 \in 1 .. Len(d)
    BY <1>1, <1>5 DEF RowIndexes
  <2>2. e[j + 1] = KeyOf(d[j + 1], on)
    BY <2>1 DEF KeyRows
  <2> HIDE DEF e
  <2> QED
    BY <2>2 DEF RowAt, Signature, KeyOf
<1> QED
  BY <1>3, <1>4, <1>5

(* The index of the compared rows is one of them.                          *)
LEMMA JoinRowsIndexed ==
  ASSUME NEW S, NEW d \in Seq(S), NEW on
  PROVE  Indexes(SpillJoinRows(d, on), KeyRows(d, on), DOMAIN on)
<1> DEFINE e == KeyRows(d, on)
<1>1. /\ RowIndexes(e) = RowIndexes(d)
      /\ \A j \in RowIndexes(d) : Signature(RowAt(e, j), DOMAIN on) = KeyOf(RowAt(d, j), on)
  BY RowsByKey
<1> HIDE DEF e
<1>2. ASSUME NEW r \in SpillJoinRows(d, on)
      PROVE  /\ r.row \in RowIndexes(e)
             /\ r.key = Signature(RowAt(e, r.row), DOMAIN on)
             /\ r.bucket = BucketOf(r.key)
  <2>1. PICK j \in RowIndexes(d) :
           r = [bucket |-> BucketOf(KeyOf(RowAt(d, j), on)), key |-> KeyOf(RowAt(d, j), on), row |-> j]
    BY DEF SpillJoinRows
  <2> QED
    BY <1>1, <2>1
<1>3. ASSUME NEW j \in RowIndexes(e)
      PROVE  \E r \in SpillJoinRows(d, on) : r.row = j
  <2> DEFINE r == [bucket |-> BucketOf(KeyOf(RowAt(d, j), on)), key |-> KeyOf(RowAt(d, j), on),
                   row |-> j]
  <2>1. r \in SpillJoinRows(d, on)
    BY <1>1 DEF SpillJoinRows
  <2>2. r.row = j
    OBVIOUS
  <2> HIDE DEF r
  <2> QED
    BY <2>1, <2>2
<1> QED
  BY <1>2, <1>3 DEF Indexes, e

(* A product of counts is one.                                             *)
LEMMA ProductIsNat ==
  ASSUME NEW m \in Nat, NEW n \in Nat
  PROVE  m * n \in Nat
OBVIOUS

(* The pairs of rows with equal keys.                                      *)
MatchedPairs(c, d, on) ==
    {p \in RowIndexes(c) \X RowIndexes(d) : Matches(RowAt(c, p[1]), RowAt(d, p[2]), on)}

(* The sum, over the keys of the buckets, of the rows that have them.      *)
InnerBound(c, d, on) ==
    SumFunction([b \in Buckets |->
        LET l == Groups(c, DOMAIN on, b)
            r == Groups(KeyRows(d, on), DOMAIN on, b)
        IN SumFunction([k \in DOMAIN l \cap DOMAIN r |-> l[k].count * r[k].count])])

(* The bound on the rows of a join is that sum, with the rows that may be  *)
(* alone.                                                                  *)
LEMMA BoundOfJoin ==
  ASSUME NEW c, NEW S, NEW d \in Seq(S), NEW on, NEW type
  PROVE  JoinCardinalityBound(c, d, on, type)
           = IF InnerBound(c, d, on) > MaxJoinResult \/ type = "inner" THEN InnerBound(c, d, on)
             ELSE IF type = "left" THEN InnerBound(c, d, on) + Len(c)
             ELSE InnerBound(c, d, on) + Len(c) + Len(d)
<1>1. \A b : /\ KeyGroups(SpillKeyRows(c, CurrentKeys(on)), b) = Groups(c, DOMAIN on, b)
             /\ KeyGroups(SpillJoinRows(d, on), b) = Groups(KeyRows(d, on), DOMAIN on, b)
  BY FrameIsIndexed, JoinRowsIndexed, GroupsOfIndex DEF CurrentKeys
<1> QED
  BY <1>1 DEF JoinCardinalityBound, InnerBound

(* The pairs of a key are as many as the product of its counts, and those  *)
(* of a bucket no more than its sum.                                       *)
LEMMA PairsOfBucket ==
  ASSUME NEW R, NEW c \in Seq(R), NEW S, NEW d \in Seq(S), NEW on, NEW b
  PROVE  LET l == Groups(c, DOMAIN on, b)
             r == Groups(KeyRows(d, on), DOMAIN on, b)
             s == SumFunction([k \in DOMAIN l \cap DOMAIN r |-> l[k].count * r[k].count])
             A == [k \in DOMAIN l \cap DOMAIN r |->
                     RowsWith(c, DOMAIN on, k) \X RowsWith(KeyRows(d, on), DOMAIN on, k)]
             U == UNION {A[k] : k \in DOMAIN l \cap DOMAIN r}
         IN s \in Nat /\ IsFiniteSet(U) /\ Cardinality(U) <= s
<1> DEFINE e == KeyRows(d, on)
           cols == DOMAIN on
           l == Groups(c, cols, b)
           r == Groups(e, cols, b)
           K == DOMAIN l \cap DOMAIN r
           B == [k \in K |-> l[k].count * r[k].count]
           A == [k \in K |-> RowsWith(c, cols, k) \X RowsWith(e, cols, k)]
           E == {KeyOf(row, on) : row \in S}
<1>1. e \in Seq(E)
  BY RowsByKey
<1> HIDE DEF e, E, cols
<1>2. \A k \in K : /\ k \in KeysOf(c, cols) /\ k \in KeysOf(e, cols)
                   /\ l[k].count = Cardinality(RowsWith(c, cols, k))
                   /\ r[k].count = Cardinality(RowsWith(e, cols, k))
  BY DEF Groups
<1>3. IsFiniteSet(K)
  <2>1. K \in SUBSET KeysOf(c, cols)
    BY <1>2
  <2> HIDE DEF K
  <2> QED
    BY <2>1, FinitelyManyKeys, FS_Subset
<1>4. \A k \in K : B[k] = l[k].count * r[k].count
  OBVIOUS
<1>5. \A k \in K : A[k] = RowsWith(c, cols, k) \X RowsWith(e, cols, k)
  OBVIOUS
<1> HIDE DEF K, l, r
<1>6. ASSUME NEW k \in K
      PROVE  B[k] \in Nat /\ IsFiniteSet(A[k]) /\ Cardinality(A[k]) = B[k]
  <2> DEFINE X == RowsWith(c, cols, k)
             Y == RowsWith(e, cols, k)
  <2>1. IsFiniteSet(X) /\ IsFiniteSet(Y) /\ Cardinality(X) \in Nat /\ Cardinality(Y) \in Nat
    BY <1>1, <1>2, RowsOfKeys
  <2>2. B[k] = Cardinality(X) * Cardinality(Y)
    BY <1>2, <1>4
  <2>3. A[k] = X \X Y
    BY <1>5
  <2> HIDE DEF X, Y, A, B
  <2>4. IsFiniteSet(X \X Y) /\ Cardinality(X \X Y) = Cardinality(X) * Cardinality(Y)
    BY <2>1, FS_Product
  <2>5. Cardinality(X) * Cardinality(Y) \in Nat
    BY <2>1, ProductIsNat
  <2> QED
    BY <2>2, <2>3, <2>4, <2>5, Zenon
<1>7. B \in [K -> Nat]
  BY <1>6
<1> HIDE DEF A, B
<1>8. Bounds(B, A, K)
  <2> SUFFICES ASSUME NEW k \in K PROVE IsFiniteSet(A[k]) /\ Cardinality(A[k]) <= B[k]
    BY DEF Bounds
  <2> QED
    BY <1>6
<1>9. /\ SumFunction(B) \in Nat /\ IsFiniteSet(UNION {A[k] : k \in K})
      /\ Cardinality(UNION {A[k] : k \in K}) <= SumFunction(B)
  BY <1>3, <1>7, <1>8, UnionIsSummed
<1> QED
  BY <1>9, Zenon DEF A, B, K, l, r, e, cols

(* What the buckets hold together.                                         *)
LEMMA BucketsSummed ==
  ASSUME NEW b \in [Buckets -> Nat], NEW A, Bounds(b, A, Buckets)
  PROVE  /\ SumFunction(b) \in Nat
         /\ IsFiniteSet(UNION {A[x] : x \in Buckets})
         /\ Cardinality(UNION {A[x] : x \in Buckets}) <= SumFunction(b)
BY UnionIsSummed, ComparisonAssumption DEF ComparisonAssumption

(* The pairs with equal keys are no more than the sum over the buckets.    *)
LEMMA MatchedBounded ==
  ASSUME NEW R, NEW c \in Seq(R), NEW S, NEW d \in Seq(S), NEW on, KeysFall(c, DOMAIN on)
  PROVE  /\ InnerBound(c, d, on) \in Nat /\ IsFiniteSet(MatchedPairs(c, d, on))
         /\ Cardinality(MatchedPairs(c, d, on)) <= InnerBound(c, d, on)
<1> DEFINE e == KeyRows(d, on)
           cols == DOMAIN on
           l(b) == Groups(c, cols, b)
           r(b) == Groups(e, cols, b)
           s(b) == SumFunction([k \in DOMAIN l(b) \cap DOMAIN r(b) |-> l(b)[k].count * r(b)[k].count])
           Blocks(b) == [k \in DOMAIN l(b) \cap DOMAIN r(b) |-> RowsWith(c, cols, k) \X RowsWith(e, cols, k)]
           InBucket(b) == UNION {Blocks(b)[k] : k \in DOMAIN l(b) \cap DOMAIN r(b)}
           f == [b \in Buckets |-> s(b)]
           Parts == [b \in Buckets |-> InBucket(b)]
           all == UNION {Parts[b] : b \in Buckets}
           M == MatchedPairs(c, d, on)
<1>1. \A b : s(b) \in Nat /\ IsFiniteSet(InBucket(b)) /\ Cardinality(InBucket(b)) <= s(b)
  BY PairsOfBucket
<1>2. /\ RowIndexes(e) = RowIndexes(d)
      /\ \A j \in RowIndexes(d) : Signature(RowAt(e, j), cols) = KeyOf(RowAt(d, j), on)
  BY RowsByKey
<1>3. ASSUME NEW p \in M
      PROVE  p \in all
  <2> DEFINE k == Signature(RowAt(c, p[1]), cols)
             b == BucketOf(k)
  <2>1. /\ p = <<p[1], p[2]>> /\ p[1] \in RowIndexes(c) /\ p[2] \in RowIndexes(d)
        /\ Matches(RowAt(c, p[1]), RowAt(d, p[2]), on)
    BY DEF MatchedPairs
  <2>2. KeyOf(RowAt(d, p[2]), on) = k
    BY <2>1 DEF Matches, KeyOf, Signature
  <2> HIDE DEF e, k
  <2>3. Signature(RowAt(e, p[2]), cols) = k
    BY <1>2, <2>1, <2>2
  <2>4. /\ p[1] \in RowsWith(c, cols, k) /\ p[2] \in RowsWith(e, cols, k)
        /\ k \in KeysOf(c, cols) /\ k \in KeysOf(e, cols)
    BY <1>2, <2>1, <2>3 DEF RowsWith, KeysOf, k
  <2>5. b \in Buckets
    BY <2>4 DEF KeysFall
  <2> HIDE DEF b
  <2>6. k \in DOMAIN l(b) \cap DOMAIN r(b)
    <3>1. DOMAIN l(b) = {q \in KeysOf(c, cols) : BucketOf(q) = b}
      BY DEF Groups
    <3>2. DOMAIN r(b) = {q \in KeysOf(e, cols) : BucketOf(q) = b}
      BY DEF Groups
    <3> HIDE DEF l, r
    <3> QED
      BY <2>4, <3>1, <3>2 DEF b
  <2>7. Blocks(b)[k] = RowsWith(c, cols, k) \X RowsWith(e, cols, k)
    <3> HIDE DEF l, r
    <3> QED
      BY <2>6
  <2> HIDE DEF Blocks, l, r
  <2>8. p \in InBucket(b)
    BY <2>1, <2>4, <2>6, <2>7
  <2> HIDE DEF InBucket
  <2> QED
    BY <2>5, <2>8
<1>4. f \in [Buckets -> Nat]
  <2> HIDE DEF s
  <2> QED
    BY <1>1
<1>5. Bounds(f, Parts, Buckets)
  <2>1. \A b \in Buckets : f[b] = s(b) /\ Parts[b] = InBucket(b)
    OBVIOUS
  <2> HIDE DEF f, Parts, s, InBucket
  <2> QED
    BY <1>1, <2>1 DEF Bounds
<1>6. InnerBound(c, d, on) = SumFunction(f)
  BY DEF InnerBound
<1> HIDE DEF f, Parts, M
<1>8. SumFunction(f) \in Nat /\ IsFiniteSet(all) /\ Cardinality(all) <= SumFunction(f)
  BY <1>4, <1>5, BucketsSummed
<1>9. M \in SUBSET all
  BY <1>3
<1> HIDE DEF all
<1>10. IsFiniteSet(M) /\ Cardinality(M) \in Nat /\ Cardinality(all) \in Nat /\ Cardinality(M) <= Cardinality(all)
  BY <1>8, <1>9, SmallerSet
<1>11. Cardinality(M) <= SumFunction(f)
  BY <1>8, <1>10
<1> QED
  BY <1>6, <1>8, <1>10, <1>11, Zenon DEF M

(* A set that the elements of another one stand for has no more of them.   *)
LEMMA ImageIsSmaller ==
  ASSUME NEW T, IsFiniteSet(T), NEW h, NEW U, U = {h[x] : x \in T}
  PROVE  /\ IsFiniteSet(U) /\ Cardinality(U) \in Nat /\ Cardinality(T) \in Nat
         /\ Cardinality(U) <= Cardinality(T)
<1> DEFINE g == [x \in T |-> h[x]]
<1>1. g \in Surjection(T, U)
  BY DEF Surjection
<1> HIDE DEF g
<1>2. IsFiniteSet(U) /\ Cardinality(U) <= Cardinality(T)
  BY <1>1, FS_Surjection
<1> QED
  BY <1>2, FS_CardinalityType

(* The rows of one side that may stand alone are no more than its rows.    *)
LEMMA AloneBounded ==
  ASSUME NEW R, NEW c \in Seq(R), NEW S, NEW d \in Seq(S), NEW T \in SUBSET RowIndexes(c),
         NEW U \in SUBSET RowIndexes(d)
  PROVE  /\ IsFiniteSet({<<i, NoRow>> : i \in T})
         /\ Cardinality({<<i, NoRow>> : i \in T}) \in Nat
         /\ Cardinality({<<i, NoRow>> : i \in T}) <= Len(c)
         /\ IsFiniteSet({<<NoRow, j>> : j \in U})
         /\ Cardinality({<<NoRow, j>> : j \in U}) \in Nat
         /\ Cardinality({<<NoRow, j>> : j \in U}) <= Len(d)
<1> DEFINE X == {<<i, NoRow>> : i \in T}
           Y == {<<NoRow, j>> : j \in U}
           f == [i \in T |-> <<i, NoRow>>]
           g == [j \in U |-> <<NoRow, j>>]
<1>1. /\ IsFiniteSet(T) /\ Cardinality(T) <= Len(c) /\ Cardinality(T) \in Nat /\ Len(c) \in Nat
      /\ IsFiniteSet(U) /\ Cardinality(U) <= Len(d) /\ Cardinality(U) \in Nat /\ Len(d) \in Nat
  BY FinitelyManyRows, SmallerSet, RowsOfDataset
<1>2. X = {f[i] : i \in T} /\ Y = {g[j] : j \in U}
  OBVIOUS
<1> HIDE DEF X, Y, f, g
<1>3. IsFiniteSet(X) /\ Cardinality(X) \in Nat /\ Cardinality(X) <= Cardinality(T)
  BY <1>1, <1>2, ImageIsSmaller
<1>4. IsFiniteSet(Y) /\ Cardinality(Y) \in Nat /\ Cardinality(Y) <= Cardinality(U)
  BY <1>1, <1>2, ImageIsSmaller
<1>5. Cardinality(X) <= Len(c)
  BY <1>1, <1>3
<1>6. Cardinality(Y) <= Len(d)
  BY <1>1, <1>4
<1> QED
  BY <1>3, <1>4, <1>5, <1>6 DEF X, Y

(* Two finite sets have together no more elements than one by one.         *)
LEMMA TwoSetsBounded ==
  ASSUME NEW X, IsFiniteSet(X), NEW Y, IsFiniteSet(Y)
  PROVE  /\ IsFiniteSet(X \cup Y) /\ Cardinality(X \cup Y) \in Nat
         /\ Cardinality(X) \in Nat /\ Cardinality(Y) \in Nat
         /\ Cardinality(X \cup Y) <= Cardinality(X) + Cardinality(Y)
<1>1. /\ IsFiniteSet(X \cup Y)
      /\ Cardinality(X \cup Y) = Cardinality(X) + Cardinality(Y) - Cardinality(X \cap Y)
  BY FS_Union
<1>2. IsFiniteSet(X \cap Y)
  BY FS_Intersection
<1>3. /\ Cardinality(X \cap Y) \in Nat /\ Cardinality(X) \in Nat /\ Cardinality(Y) \in Nat
      /\ Cardinality(X \cup Y) \in Nat
  BY <1>1, <1>2, FS_CardinalityType
<1> QED
  BY <1>1, <1>3

(* A join that is not refused has no more rows than were foreseen.         *)
LEMMA JoinIsBounded ==
  ASSUME NEW R, NEW c \in Seq(R), NEW S, NEW d \in Seq(S), NEW on, NEW type \in JoinTypes,
         KeysFall(c, DOMAIN on), ~ JoinIsRefused(c, d, on, type)
  PROVE  /\ Cardinality(JoinPairs(c, d, on, type)) <= JoinCardinalityBound(c, d, on, type)
         /\ Cardinality(JoinPairs(c, d, on, type)) <= MaxJoinResult
         /\ DOMAIN on # {}
<1> DEFINE M == MatchedPairs(c, d, on)
           T == RowIndexes(c) \ {p[1] : p \in M}
           U == RowIndexes(d) \ {p[2] : p \in M}
           X == {<<i, NoRow>> : i \in T}
           Y == {<<NoRow, j>> : j \in U}
           P == JoinPairs(c, d, on, type)
           N == InnerBound(c, d, on)
           B == JoinCardinalityBound(c, d, on, type)
<1>1. N \in Nat /\ IsFiniteSet(M) /\ Cardinality(M) <= N /\ Cardinality(M) \in Nat
  BY MatchedBounded, FS_CardinalityType
<1>2. /\ IsFiniteSet(X) /\ Cardinality(X) \in Nat /\ Cardinality(X) <= Len(c)
      /\ IsFiniteSet(Y) /\ Cardinality(Y) \in Nat /\ Cardinality(Y) <= Len(d)
  <2>1. T \in SUBSET RowIndexes(c) /\ U \in SUBSET RowIndexes(d)
    OBVIOUS
  <2> HIDE DEF T, U
  <2> QED
    BY <2>1, AloneBounded
<1>3. P = M \cup (IF type = "inner" THEN {} ELSE X) \cup (IF type = "full" THEN Y ELSE {})
  BY DEF JoinPairs, MatchedPairs
<1>4. B = IF N > MaxJoinResult \/ type = "inner" THEN N
          ELSE IF type = "left" THEN N + Len(c)
          ELSE N + Len(c) + Len(d)
  BY BoundOfJoin
<1>5. ~ (B > MaxJoinResult) /\ DOMAIN on # {} /\ MaxJoinResult \in Nat
  BY JoinsAssumption DEF JoinIsRefused, JoinsAssumption
<1>6. Len(c) \in Nat /\ Len(d) \in Nat
  OBVIOUS
<1> HIDE DEF M, X, Y, P, N, B
<1>7. ~ (N > MaxJoinResult)
  BY <1>4, <1>5
<1>8. CASE type = "inner"
  <2>1. P = M /\ B = N
    BY <1>3, <1>4, <1>8
  <2> QED
    BY <1>1, <1>5, <2>1 DEF P, B
<1>9. CASE type = "left"
  <2>1. P = M \cup X /\ B = N + Len(c)
    BY <1>3, <1>4, <1>7, <1>9
  <2>2. Cardinality(M \cup X) \in Nat /\ Cardinality(M \cup X) <= Cardinality(M) + Cardinality(X)
    BY <1>1, <1>2, TwoSetsBounded
  <2>3. Cardinality(P) <= B /\ Cardinality(P) <= MaxJoinResult
    BY <1>1, <1>2, <1>5, <1>6, <2>1, <2>2
  <2> QED
    BY <1>5, <2>3 DEF P, B
<1>10. CASE type = "full"
  <2>1. P = (M \cup X) \cup Y /\ B = N + Len(c) + Len(d)
    BY <1>3, <1>4, <1>7, <1>10
  <2>2. /\ IsFiniteSet(M \cup X) /\ Cardinality(M \cup X) \in Nat
        /\ Cardinality(M \cup X) <= Cardinality(M) + Cardinality(X)
    BY <1>1, <1>2, TwoSetsBounded
  <2>3. /\ Cardinality((M \cup X) \cup Y) \in Nat
        /\ Cardinality((M \cup X) \cup Y) <= Cardinality(M \cup X) + Cardinality(Y)
    BY <1>2, <2>2, TwoSetsBounded
  <2>4. Cardinality(P) <= B /\ Cardinality(P) <= MaxJoinResult
    BY <1>1, <1>2, <1>5, <1>6, <2>1, <2>2, <2>3
  <2> QED
    BY <1>5, <2>4 DEF P, B
<1> QED
  BY <1>8, <1>9, <1>10 DEF JoinTypes

-----------------------------------------------------------------------------
(* The invariants.                                                         *)

(* The datasets that are compared are lists of rows.                       *)
DatasetsInv == current \in Seq(Rows) /\ compared \in Seq(Rows)

(* Filling the datasets a row at a time keeps them so.                     *)
LEMMA Datasets == Spec => []DatasetsInv
<1>1. Init => DatasetsInv
  BY DEF Init, DatasetsInv
<1>2. DatasetsInv /\ [Next]_vars => DatasetsInv'
  <2> SUFFICES ASSUME DatasetsInv, [Next]_vars PROVE DatasetsInv'
    OBVIOUS
  <2>1. CASE AddCurrentRow
    BY <2>1 DEF AddCurrentRow, DatasetsInv
  <2>2. CASE AddComparedRow
    BY <2>2 DEF AddComparedRow, DatasetsInv
  <2>3. CASE UNCHANGED <<current, compared>>
    BY <2>3 DEF DatasetsInv
  <2> QED
    BY <2>1, <2>2, <2>3 DEF Next, vars, AddTableRow, AddSoiledRow
<1> QED
  BY <1>1, <1>2, PTL DEF Spec

(* The keys of their rows fall into the buckets.                           *)
LEMMA RowsFall ==
  ASSUME NEW data \in Seq(Rows), NEW keys \in KeyChoices
  PROVE  KeysFall(data, keys)
<1>1. \A i \in RowIndexes(data) : RowAt(data, i) \in Rows
  BY RowsOfDataset
<1>2. \A row \in Rows : BucketOf(Signature(row, keys)) \in Buckets
  BY CalculationsAssumption DEF CalculationsAssumption
<1> QED
  BY <1>1, <1>2 DEF KeysFall, KeysOf

(* Whatever the rows, the keys and the size of a block, comparing two      *)
(* snapshots on disk reports what comparing the frames reports, and the    *)
(* three ways of listing the conflicts list the same ones in one order.    *)
THEOREM ReviewIsOneAnswer == Spec => []ReviewRoutesAgree
<1>1. DatasetsInv => ReviewRoutesAgree
  <2> SUFFICES ASSUME DatasetsInv, NEW keys \in KeyChoices
               PROVE  /\ CompareFrames(current, compared, keys, 1)
                            = CompareParquetSources(current, compared, keys, 1)
                      /\ ParquetConflicts(current, compared, keys)
                            = FrameConflicts(current, compared, keys)
                      /\ ConflictsBetweenParquet(current, compared, keys)
                            = FrameConflicts(current, compared, keys)
    BY DEF ReviewRoutesAgree
  <2>1. /\ current \in Seq(Rows) /\ compared \in Seq(Rows) /\ KeysFall(current, keys)
    BY RowsFall DEF DatasetsInv
  <2> QED
    BY <2>1, ReportsAgree, ListsAreConflicts
<1> QED
  BY <1>1, Datasets, PTL

(* Whatever the rows and the keys, the consolidation DuckDB writes is      *)
(* refused for the keys the one in memory is refused for and has its rows: *)
(* the active rows first, and after them no second row of a key.           *)
THEOREM ConsolidationIsOneAnswer == Spec => []ConsolidationRoutesAgree
<1>1. DatasetsInv => ConsolidationRoutesAgree
  <2> SUFFICES ASSUME DatasetsInv, NEW keys \in KeyChoices
               PROVE  LET result == ConsolidateFrames(current, compared, keys)
                      IN /\ ConsolidateSources(current, compared, keys) = result
                         /\ ~result.refused => IsPrefix(current, result.rows)
                         /\ ~result.refused /\ keys # {} => DuplicateGroups(result.rows, keys) = {}
    BY DEF ConsolidationRoutesAgree
  <2>1. /\ current \in Seq(Rows) /\ compared \in Seq(Rows)
        /\ KeysFall(current, keys) /\ KeysFall(compared, keys)
    BY RowsFall DEF DatasetsInv
  <2> QED
    BY <2>1, ConsolidationsAgree
<1> QED
  BY <1>1, Datasets, PTL

(* Whatever the rows, the keys and the decisions, resolving the conflicts  *)
(* in the files gives the rows that resolving them in memory gives; and    *)
(* when every conflict is settled for the compared side or excluded, no    *)
(* conflict is left.                                                       *)
THEOREM ResolutionIsOneAnswer == Spec => []ResolutionRoutesAgree
<1>1. DatasetsInv => ResolutionRoutesAgree
  <2> SUFFICES ASSUME DatasetsInv, NEW keys \in KeyChoices, NEW decisions \in Decisions
               PROVE  LET result == ResolveFrames(current, compared, keys, decisions)
                      IN /\ ResolveSources(current, compared, keys, decisions) = result
                         /\ SettlesEverything(keys, decisions, result)
    BY DEF ResolutionRoutesAgree
  <2> DEFINE result == ResolveFrames(current, compared, keys, decisions)
             settled == ConflictsSettled(current, compared, keys, decisions)
             list == ConflictList(current, compared, keys)
  <2>1. /\ current \in Seq(Rows) /\ compared \in Seq(Rows) /\ KeysFall(current, keys)
        /\ keys \in SUBSET Columns
    BY RowsFall, CalculationsAssumption DEF DatasetsInv, CalculationsAssumption
  <2>2. Decides(decisions)
    BY CalculationsAssumption DEF CalculationsAssumption, Decides
  <2>3. ResolveSources(current, compared, keys, decisions) = result
    BY <2>1, <2>2, ResolutionsAgree
  <2>4. result = IF keys = {} \/ ~ DecisionsAreValid(list, decisions) THEN Refused ELSE Table(settled)
    BY <2>1, FramesSettle
  <2> HIDE DEF result, settled, list
  <2>5. Refused.refused /\ Table(settled).rows = settled
    BY DEF Refused, Table
  <2>6. ASSUME ~ result.refused
        PROVE  DecisionsAreValid(list, decisions) /\ result.rows = settled
    BY <2>4, <2>5, <2>6
  <2>7. ASSUME ~ result.refused, \A d \in DOMAIN decisions : decisions[d] # "current"
        PROVE  FrameConflicts(result.rows, compared, keys) = <<>>
    <3>1. FrameConflicts(settled, compared, keys) = <<>>
      BY <2>1, <2>2, <2>6, <2>7, NothingLeft DEF settled, list
    <3> QED
      BY <2>6, <2>7, <3>1
  <2>8. SettlesEverything(keys, decisions, result)
    BY <2>7 DEF SettlesEverything
  <2> QED
    BY <2>3, <2>8 DEF result
<1> QED
  BY <1>1, Datasets, PTL

(* The keys a join is made by fall into the buckets.                       *)
LEMMA JoinKeysFall ==
  ASSUME NEW data \in Seq(Rows), NEW on \in Conditions
  PROVE  KeysFall(data, DOMAIN on)
<1>1. \A i \in RowIndexes(data) : RowAt(data, i) \in Rows
  BY RowsOfDataset
<1>2. \A row \in Rows : BucketOf(Signature(row, DOMAIN on)) \in Buckets
  BY CalculationsAssumption DEF CalculationsAssumption
<1> QED
  BY <1>1, <1>2 DEF KeysFall, KeysOf

(* Whatever the rows, the key columns, the kind of join and the size of a  *)
(* block, a join in blocks and the view that DuckDB joins have the rows of *)
(* the join of the two frames in their order, and no more than the bound   *)
(* that was checked before.                                                *)
THEOREM JoinIsOneAnswer == Spec => []JoinRoutesAgree
<1>1. DatasetsInv => JoinRoutesAgree
  <2> SUFFICES ASSUME DatasetsInv, NEW on \in Conditions, NEW type \in JoinTypes
               PROVE  LET joined == JoinFrames(current, compared, on, type)
                      IN /\ JoinInBlocks(current, compared, on, type) = joined
                         /\ ~joined.refused => JoinSources(current, compared, on, type) = joined
                         /\ ~joined.refused =>
                              Len(joined.rows) <= JoinCardinalityBound(current, compared, on, type)
    BY DEF JoinRoutesAgree
  <2> DEFINE joined == JoinFrames(current, compared, on, type)
             view == JoinView(current, compared, on, type)
             B == JoinCardinalityBound(current, compared, on, type)
             P == JoinPairs(current, compared, on, type)
  <2>1. /\ current \in Seq(Rows) /\ compared \in Seq(Rows)
        /\ KeysFall(current, DOMAIN on)
    BY JoinKeysFall DEF DatasetsInv
  <2>2. JoinInBlocks(current, compared, on, type) = joined
    BY <2>1, BlocksAreJoin
  <2>3. view = CollectJoin(current, compared, on, type, type = "full") /\ Len(view) = Cardinality(P)
    BY <2>1, ViewIsJoin
  <2>4. joined = IF JoinIsRefused(current, compared, on, type) THEN Refused ELSE Table(view)
    BY <2>3 DEF JoinFrames
  <2>5. JoinSources(current, compared, on, type)
          = IF DOMAIN on = {} \/ Len(view) > MaxJoinResult THEN Refused ELSE Table(view)
    BY DEF JoinSources
  <2>6. Refused.refused /\ Table(view).rows = view
    BY DEF Refused, Table
  <2> HIDE DEF view, B, joined
  <2>7. ASSUME ~ joined.refused
        PROVE  /\ JoinSources(current, compared, on, type) = joined
               /\ Len(joined.rows) <= B
    <3>1. ~ JoinIsRefused(current, compared, on, type) /\ joined = Table(view)
      BY <2>4, <2>6, <2>7
    <3>2. Cardinality(P) <= B /\ Cardinality(P) <= MaxJoinResult /\ DOMAIN on # {}
      BY <2>1, <3>1, JoinIsBounded DEF B
    <3>3. Len(view) <= B /\ ~ (Len(view) > MaxJoinResult)
      <4>1. Cardinality(P) \in Nat /\ MaxJoinResult \in Nat
        BY <2>1, PairsArePlaces, FS_CardinalityType, JoinsAssumption DEF JoinsAssumption
      <4> HIDE DEF P
      <4> QED
        BY <2>3, <3>2, <4>1
    <3> QED
      BY <2>5, <2>6, <3>1, <3>2, <3>3
  <2> QED
    BY <2>2, <2>7 DEF joined, B
<1> QED
  BY <1>1, Datasets, PTL

-----------------------------------------------------------------------------
(* The matches of a dataset, and of its blocks.                            *)

(* A part of the numbers that another set has from k on has its ranks there.*)
LEMMA RankInPart ==
  ASSUME NEW W \in SUBSET Nat, IsFiniteSet(W), NEW V \in SUBSET Nat, IsFiniteSet(V),
         NEW k \in Nat, NEW l \in Nat, \A z \in 0 .. l - 1 : k + z \in W <=> z \in V
  PROVE  \A z \in 0 .. l : RankIn(W, k + z) = RankIn(W, k) + RankIn(V, z)
<1> DEFINE C == {z \in 0 .. l : RankIn(W, k + z) # RankIn(W, k) + RankIn(V, z)}
<1>0. 0 .. l \in SUBSET Nat
  OBVIOUS
<1> SUFFICES ASSUME C # {} PROVE FALSE
  OBVIOUS
<1>1. PICK z \in C : \A y \in C : z <= y
  <2>1. C \in SUBSET Nat
    BY <1>0
  <2> HIDE DEF C
  <2> QED
    BY <2>1, LeastElement
<1>2. \A i \in Nat : RankIn(W, i) \in Nat /\ RankIn(V, i) \in Nat
  BY RankGrows
<1>3. RankIn(V, 0) = 0
  <2> HIDE DEF C
  <2>0. \A j \in V : ~ (j < 0)
    OBVIOUS
  <2>1. {j \in V : j < 0} = {}
    BY <2>0
  <2> QED
    BY <2>1, FS_EmptySet DEF RankIn
<1>4. z # 0
  BY <1>1, <1>2, <1>3
<1> DEFINE y == z - 1
<1>5. y \in 0 .. l - 1 /\ z = y + 1 /\ k + z = (k + y) + 1 /\ y \in 0 .. l /\ y \in Nat /\ k + y \in Nat
  BY <1>1, <1>4
<1>6. y \notin C
  <2>1. ~ (z <= y)
    BY <1>1
  <2> HIDE DEF C
  <2> QED
    BY <1>1, <2>1
<1>7. RankIn(W, k + y) = RankIn(W, k) + RankIn(V, y)
  BY <1>5, <1>6
<1> HIDE DEF y
<1>8. RankIn(W, k + z) = RankIn(W, k) + RankIn(V, z)
  <2>1. CASE y \in V
    <3>1. k + y \in W
      BY <1>5, <2>1
    <3>2. RankIn(W, (k + y) + 1) = RankIn(W, k + y) + 1 /\ RankIn(V, y + 1) = RankIn(V, y) + 1
      BY <1>5, <2>1, <3>1, RankGrows
    <3> QED
      BY <1>2, <1>5, <1>7, <3>2
  <2>2. CASE y \notin V
    <3>1. k + y \notin W
      BY <1>5, <2>2
    <3>2. RankIn(W, (k + y) + 1) = RankIn(W, k + y) /\ RankIn(V, y + 1) = RankIn(V, y)
      BY <1>5, <2>2, <3>1, RankGrows
    <3> QED
      BY <1>2, <1>5, <1>7, <3>2
  <2> QED
    BY <2>1, <2>2
<1> QED
  BY <1>1, <1>8

(* Every element is less than a bound.                                     *)
LEMMA RankOfBound ==
  ASSUME NEW W \in SUBSET Nat, NEW l \in Nat, \A i \in W : i < l
  PROVE  RankIn(W, l) = Cardinality(W)
<1>1. {j \in W : j < l} = W
  OBVIOUS
<1> QED
  BY <1>1 DEF RankIn

(* The rows that match.                                                    *)
Matching(data, where) == {i \in RowIndexes(data) : RowMatches(RowAt(data, i), where)}

(* They are finitely many, listed in their order.                          *)
LEMMA MatchesListed ==
  ASSUME NEW R, NEW data \in Seq(R), NEW where
  PROVE  /\ Matching(data, where) \in SUBSET Nat /\ IsFiniteSet(Matching(data, where))
         /\ MatchingRows(data, where) \in Seq(R)
         /\ Len(MatchingRows(data, where)) = Cardinality(Matching(data, where))
         /\ Cardinality(Matching(data, where)) \in Nat
         /\ \A n \in 1 .. Cardinality(Matching(data, where)) :
                /\ NthOf(Matching(data, where), n) \in Matching(data, where)
                /\ MatchingRows(data, where)[n] = RowAt(data, NthOf(Matching(data, where), n))
<1>1. Matching(data, where) \in SUBSET RowIndexes(data)
  BY DEF Matching
<1>2. MatchingRows(data, where) = RowsAt(data, Matching(data, where))
  BY DEF MatchingRows, Matching
<1> QED
  BY <1>1, <1>2, KeptRows, KeptAreDataset, RowKept

(* The matches of the pieces of a dataset are pieces of its matches.       *)
LEMMA MatchesOfPieces ==
  ASSUME NEW N \in Nat, NEW R, NEW p \in [1 .. N -> Seq(R)], NEW t \in Seq(R), NEW off,
         Pieces(p, N, t, off), NEW where
  PROVE  LET q == [n \in 1 .. N |-> MatchingRows(p[n], where)]
         IN /\ q \in [1 .. N -> Seq(R)]
            /\ \E o : Pieces(q, N, MatchingRows(t, where), o)
<1> DEFINE q == [n \in 1 .. N |-> MatchingRows(p[n], where)]
           W == Matching(t, where)
           V(n) == Matching(p[n], where)
           o == [n \in 1 .. N + 1 |-> RankIn(W, off[n])]
           s == MatchingRows(t, where)
<1>1. q \in [1 .. N -> Seq(R)]
  BY MatchesListed
<1>2. /\ W \in SUBSET Nat /\ IsFiniteSet(W) /\ Len(s) = Cardinality(W) /\ Cardinality(W) \in Nat
      /\ \A m \in 1 .. Cardinality(W) : s[m] = RowAt(t, NthOf(W, m))
  BY MatchesListed
<1>3. \A n \in 1 .. N :
        /\ V(n) \in SUBSET Nat /\ IsFiniteSet(V(n)) /\ Cardinality(V(n)) \in Nat
        /\ Len(q[n]) = Cardinality(V(n))
        /\ \A m \in 1 .. Cardinality(V(n)) :
              NthOf(V(n), m) \in V(n) /\ q[n][m] = RowAt(p[n], NthOf(V(n), m))
  BY MatchesListed
<1>4. /\ \A n \in 1 .. N + 1 : off[n] \in Nat /\ off[n] <= Len(t)
      /\ off[1] = 0 /\ off[N + 1] = Len(t)
      /\ \A n \in 1 .. N : off[n + 1] = off[n] + Len(p[n])
      /\ \A n \in 1 .. N : \A m \in 1 .. Len(p[n]) : p[n][m] = t[off[n] + m]
  BY DEF Pieces
<1>5. \A n \in 1 .. N + 1 : o[n] \in 0 .. Len(s)
  <2>1. \A n \in 1 .. N + 1 : RankIn(W, off[n]) \in Nat /\ RankIn(W, off[n]) <= Cardinality(W)
    BY <1>2, <1>4, RankGrows
  <2> HIDE DEF W, s
  <2> QED
    BY <1>2, <2>1
<1>6. o[1] = 0
  <2>1. {j \in W : j < 0} = {}
    BY <1>2
  <2>2. RankIn(W, 0) = 0
    BY <2>1, FS_EmptySet DEF RankIn
  <2> QED
    BY <1>4, <2>2
<1>7. o[N + 1] = Len(s)
  <2>1. \A i \in W : i < Len(t)
    BY RowsOfDataset DEF Matching
  <2>2. Len(t) \in Nat /\ N + 1 \in 1 .. N + 1
    OBVIOUS
  <2>3. RankIn(W, Len(t)) = Cardinality(W)
    <3> HIDE DEF W
    <3> QED
      BY <1>2, <2>1, <2>2, RankOfBound
  <2> QED
    BY <1>2, <1>4, <2>2, <2>3
<1>8. ASSUME NEW n \in 1 .. N
      PROVE  /\ o[n + 1] = o[n] + Len(q[n])
             /\ \A m \in 1 .. Len(q[n]) : q[n][m] = s[o[n] + m]
  <2> DEFINE k == off[n]
             l == Len(p[n])
             U == V(n)
  <2>1. k \in Nat /\ l \in Nat /\ off[n + 1] = k + l /\ k + l <= Len(t) /\ n \in 1 .. N + 1 /\ n + 1 \in 1 .. N + 1
    BY <1>4
  <2>2. p[n] \in Seq(R)
    OBVIOUS
  <2>3. \A z \in 0 .. l - 1 : k + z \in RowIndexes(t) /\ RowAt(p[n], z) = RowAt(t, k + z) /\ z \in RowIndexes(p[n])
    <3> TAKE z \in 0 .. l - 1
    <3>0. Len(t) \in Nat
      OBVIOUS
    <3>1. z + 1 \in 1 .. l /\ k + (z + 1) = (k + z) + 1 /\ k + z \in 0 .. Len(t) - 1
      <4> HIDE DEF k, l
      <4> QED
        BY <2>1, <3>0
    <3>2. p[n][z + 1] = t[k + (z + 1)]
      BY <1>4, <3>1
    <3>3. p[n][z + 1] = t[(k + z) + 1]
      BY <3>1, <3>2
    <3> QED
      BY <3>1, <3>3 DEF RowAt, RowIndexes
  <2>4. \A z \in 0 .. l - 1 : k + z \in W <=> z \in U
    BY <2>3 DEF Matching
  <2>5. \A z \in U : z < l /\ z \in 0 .. l - 1
    BY <2>1, <2>2, RowsOfDataset DEF Matching
  <2>6. U \in SUBSET Nat /\ IsFiniteSet(U) /\ Cardinality(U) \in Nat /\ Len(q[n]) = Cardinality(U)
        /\ \A m \in 1 .. Cardinality(U) : NthOf(U, m) \in U /\ q[n][m] = RowAt(p[n], NthOf(U, m))
    BY <1>3
  <2>7. o[n] = RankIn(W, k) /\ o[n + 1] = RankIn(W, k + l) /\ RankIn(W, k) \in Nat
    <3>1. RankIn(W, k) \in Nat
      BY <1>2, <2>1, RankGrows
    <3> QED
      BY <2>1, <3>1
  <2> HIDE DEF W, U, k, l, q, o, s
  <2>8. \A z \in 0 .. l : RankIn(W, k + z) = RankIn(W, k) + RankIn(U, z)
    <3>1. /\ W \in SUBSET Nat /\ IsFiniteSet(W) /\ U \in SUBSET Nat /\ IsFiniteSet(U)
          /\ k \in Nat /\ l \in Nat
      BY <1>2, <2>1, <2>6
    <3> QED
      BY <2>4, <3>1, RankInPart, ZenonT(30)
  <2>9. RankIn(U, l) = Cardinality(U)
    BY <2>1, <2>5, <2>6, RankOfBound
  <2>10. o[n + 1] = o[n] + Len(q[n])
    <3>1. l \in 0 .. l
      BY <2>1
    <3> QED
      BY <2>6, <2>7, <2>8, <2>9, <3>1
  <2>11. ASSUME NEW m \in 1 .. Cardinality(U)
         PROVE  q[n][m] = s[o[n] + m]
    <3> DEFINE z == NthOf(U, m)
    <3>0. z \in U
      BY <2>6
    <3>1. z \in U /\ z \in 0 .. l - 1 /\ z \in 0 .. l /\ z \in Nat
      <4> HIDE DEF z
      <4> QED
        BY <2>1, <2>5, <2>6, <3>0
    <3>2. RankIn(U, z) = m - 1
      BY <2>6, NthElement
    <3>3. k + z \in W
      BY <2>4, <3>1
    <3>4. RankIn(W, k + z) + 1 = o[n] + m
      <4>1. RankIn(W, k + z) = RankIn(W, k) + RankIn(U, z)
        BY <2>8, <3>1
      <4> HIDE DEF z
      <4> QED
        BY <2>6, <2>7, <3>2, <4>1
    <3>5. /\ RankIn(W, k + z) + 1 \in 1 .. Cardinality(W)
          /\ NthOf(W, RankIn(W, k + z) + 1) = k + z
      BY <1>2, <3>3, NthElement
    <3>6. s[o[n] + m] = RowAt(t, k + z)
      <4> HIDE DEF z
      <4> QED
        BY <1>2, <3>4, <3>5
    <3> QED
      BY <2>3, <2>6, <3>1, <3>6
  <2> QED
    BY <2>6, <2>10, <2>11
<1>9. Pieces(q, N, s, o)
  <2> HIDE DEF q, o, s, W
  <2> QED
    BY <1>5, <1>6, <1>7, <1>8 DEF Pieces
<1> QED
  BY <1>1, <1>9

(* The blocks of a dataset are its pieces.                                 *)
LEMMA BlocksArePieces ==
  ASSUME NEW R, NEW data \in Seq(R)
  PROVE  /\ Cardinality(BlockStarts(data)) \in Nat
         /\ BlocksOf(data) \in [1 .. Cardinality(BlockStarts(data)) -> Seq(R)]
         /\ \E off : Pieces(BlocksOf(data), Cardinality(BlockStarts(data)), data, off)
<1> DEFINE S == BlockStarts(data)
           N == Cardinality(S)
           p == BlocksOf(data)
           off == [n \in 1 .. N + 1 |-> IF n <= N THEN NthOf(S, n) ELSE Len(data)]
<1>1. S \in SUBSET Nat /\ IsFiniteSet(S) /\ N \in Nat
  BY StartsAreNumbers
<1>2. Len(data) \in Nat /\ BlockRows \in Nat /\ BlockRows > 0 /\ RowIndexes(data) \subseteq Nat
      /\ \A i \in Nat : i \in RowIndexes(data) <=> i < Len(data)
  BY RowsOfDataset, ComparisonAssumption DEF ComparisonAssumption
<1>3. /\ \A n \in 1 .. N : NthOf(S, n) \in S /\ RankIn(S, NthOf(S, n)) = n - 1
      /\ \A i \in S : RankIn(S, i) \in 0 .. N - 1
      /\ \A i, j \in S : i < j => RankIn(S, i) < RankIn(S, j)
  <2> HIDE DEF S, N
  <2> QED
    BY <1>1, NthElement, RankOfElement DEF N
<1>4. p = [n \in 1 .. N |-> BlockAt(data, NthOf(S, n))]
  <2> DEFINE X == NumbersListed(S)
  <2>1. DOMAIN X = 1 .. N /\ \A n \in 1 .. N : X[n] = NthOf(S, n)
    <3> HIDE DEF S
    <3> QED
      BY <1>1, NumbersInOrder
  <2>2. p = [n \in DOMAIN X |-> BlockAt(data, X[n])]
    BY DEF BlocksOf, InOrder, NumbersListed
  <2> HIDE DEF X, S, N
  <2> QED
    BY <2>1, <2>2
<1>5. \A s \in S : /\ s \in Nat /\ s < Len(data)
                   /\ BlockAt(data, s) \in Seq(R)
                   /\ \A d \in Nat : d \in RowIndexes(BlockAt(data, s)) <=> d < BlockRows /\ s + d < Len(data)
                   /\ \A d \in RowIndexes(BlockAt(data, s)) : RowAt(BlockAt(data, s), d) = RowAt(data, s + d)
  <2> TAKE s \in S
  <2>1. s \in RowIndexes(data)
    BY DEF BlockStarts
  <2> QED
    BY <1>2, <2>1, RowsOfBlock
<1>6. ASSUME NEW s \in S
      PROVE  LET L == Len(BlockAt(data, s))
             IN /\ L \in Nat /\ s + L <= Len(data) /\ (L = BlockRows \/ s + L = Len(data))
                /\ L <= BlockRows
                /\ \A m \in 1 .. L : BlockAt(data, s)[m] = data[s + m]
  <2> DEFINE b == BlockAt(data, s)
             L == Len(b)
  <2>1. L \in Nat /\ \A d \in Nat : d \in RowIndexes(b) <=> d < L
    BY <1>5, RowsOfDataset
  <2>2. \A d \in Nat : d < L <=> d < BlockRows /\ s + d < Len(data)
    BY <1>5, <2>1
  <2>3. \A m \in 1 .. L : b[m] = data[s + m]
    <3> TAKE m \in 1 .. L
    <3>1. m - 1 \in Nat /\ m - 1 < L /\ (m - 1) + 1 = m /\ s \in Nat /\ (s + (m - 1)) + 1 = s + m
      <4> HIDE DEF L
      <4> QED
        BY <1>5, <2>1
    <3>2. m - 1 \in RowIndexes(b)
      BY <2>1, <3>1
    <3>3. RowAt(b, m - 1) = RowAt(data, s + (m - 1))
      BY <1>5, <3>2
    <3> QED
      BY <3>1, <3>3 DEF RowAt
  <2> HIDE DEF b, L
  <2>4. s \in Nat /\ s < Len(data)
    BY <1>5
  <2>5. 0 < L
    BY <1>2, <2>2, <2>4
  <2>6. L - 1 < BlockRows /\ s + (L - 1) < Len(data)
    BY <2>1, <2>2, <2>5
  <2>7. ~ (L < BlockRows /\ s + L < Len(data))
    BY <2>1, <2>2
  <2> QED
    BY <1>2, <2>1, <2>3, <2>4, <2>6, <2>7 DEF b, L
<1>7. ASSUME NEW s \in S, s + BlockRows < Len(data)
      PROVE  \E u \in S : s < u /\ u <= s + BlockRows
  <2> DEFINE i == s + BlockRows
  <2>1. i \in Nat /\ i \in RowIndexes(data) /\ s \in Nat
    BY <1>2, <1>5, <1>7
  <2>2. StartOf(i) \in S
    BY <2>1, BlockOfRow
  <2>3. StartOf(i) \in Nat /\ PlaceOf(i) \in 0 .. BlockRows - 1 /\ i = StartOf(i) + PlaceOf(i)
    BY <2>1, PlaceInBlock, Zenon
  <2>4. s < StartOf(i) /\ StartOf(i) <= i
    <3> HIDE DEF S
    <3> QED
      BY <1>2, <2>1, <2>3
  <2> QED
    BY <2>2, <2>4
<1>8. ASSUME NEW s \in S, NEW t \in S, s < t
      PROVE  s + BlockRows <= t
  <2>1. s \in Nat /\ t \in Nat /\ t < Len(data) /\ t % BlockRows = 0
    BY <1>5 DEF BlockStarts
  <2>2. SUFFICES ASSUME t < s + BlockRows PROVE FALSE
    BY <1>2, <2>1
  <2>3. t = StartOf(t)
    <3>1. StartOf(t) \in Nat /\ t = StartOf(t) + PlaceOf(t)
      BY <2>1, PlaceInBlock, Zenon
    <3>2. PlaceOf(t) = 0
      BY <2>1, Zenon DEF PlaceOf
    <3> QED
      BY <3>1, <3>2
  <2>4. t - s \in Nat /\ t - s < BlockRows /\ s + (t - s) = t
    BY <1>2, <1>8, <2>1, <2>2
  <2>5. \A e \in Nat : e < BlockRows => StartOf(s + e) = s
    BY RowInBlock
  <2>6. StartOf(s + (t - s)) = s
    BY <2>4, <2>5
  <2> QED
    BY <1>8, <2>1, <2>3, <2>4, <2>6
<1>9. ASSUME NEW n \in 1 .. N
      PROVE  off[n + 1] = off[n] + Len(p[n])
  <2> DEFINE s == NthOf(S, n)
             L == Len(BlockAt(data, s))
  <2>1. s \in S /\ RankIn(S, s) = n - 1
    BY <1>3
  <2>2. p[n] = BlockAt(data, s)
    BY <1>4
  <2>3. n \in 1 .. N + 1 /\ n + 1 \in 1 .. N + 1 /\ n <= N
    BY <1>1
  <2>4. off[n] = s
    BY <2>3
  <2>5. s \in Nat /\ s < Len(data) /\ L \in Nat /\ s + L <= Len(data)
        /\ (L = BlockRows \/ s + L = Len(data)) /\ L <= BlockRows
    <3> HIDE DEF s
    <3> QED
      BY <1>5, <1>6, <2>1
  <2>6. CASE n = N
    <3>1. off[n + 1] = Len(data)
      BY <2>3, <2>6
    <3>2. s + L = Len(data)
      <4>1. SUFFICES ASSUME s + L # Len(data) PROVE FALSE
        OBVIOUS
      <4> HIDE DEF s, L
      <4>2. s + BlockRows < Len(data)
        BY <1>2, <2>5, <4>1
      <4>3. PICK u \in S : s < u
        BY <1>7, <2>1, <4>2
      <4>4. RankIn(S, s) < RankIn(S, u) /\ RankIn(S, u) \in 0 .. N - 1
        BY <1>3, <2>1, <4>3
      <4> HIDE DEF S, N
      <4> QED
        BY <1>1, <2>1, <2>6, <4>4
    <3> QED
      BY <2>2, <2>4, <3>1, <3>2
  <2>7. CASE n # N
    <3> DEFINE t == NthOf(S, n + 1)
    <3>1. n + 1 \in 1 .. N /\ n + 1 <= N
      <4> HIDE DEF N
      <4> QED
        BY <1>1, <2>7
    <3>2. off[n + 1] = t /\ t \in S /\ RankIn(S, t) = n
      BY <1>3, <2>3, <3>1
    <3>3. s < t
      <4>1. s \in Nat /\ t \in Nat
        BY <1>1, <2>1, <3>2
      <4>2. ~ (t < s)
        <5> HIDE DEF S, s, t, N
        <5> QED
          BY <1>3, <2>1, <3>2
      <4>3. s # t
        <5> HIDE DEF S, s, t, N
        <5> QED
          BY <2>1, <3>2
      <4> HIDE DEF s, t
      <4> QED
        BY <4>1, <4>2, <4>3
    <3>4. s + BlockRows <= t /\ t < Len(data) /\ t \in Nat
      <4> HIDE DEF s, t
      <4> QED
        BY <1>5, <1>8, <2>1, <3>2, <3>3
    <3>5. L = BlockRows
      <4> HIDE DEF s, t, L
      <4> QED
        BY <1>2, <2>5, <3>4
    <3>6. s + BlockRows < Len(data)
      <4> HIDE DEF s, t, L
      <4> QED
        BY <1>2, <2>5, <3>4
    <3>7. PICK u \in S : s < u /\ u <= s + BlockRows
      <4> HIDE DEF s
      <4> QED
        BY <1>7, <2>1, <3>6
    <3>8. ~ (u < t)
      <4> HIDE DEF s, t, S, N
      <4>1. u < t => RankIn(S, s) < RankIn(S, u) /\ RankIn(S, u) < RankIn(S, t) /\ RankIn(S, u) \in Int
        BY <1>3, <2>1, <3>2, <3>7
      <4> QED
        BY <2>1, <3>2, <4>1
    <3>9. t = s + BlockRows
      <4>1. u \in Nat
        BY <1>1
      <4> HIDE DEF s, t
      <4> QED
        BY <1>2, <2>5, <3>4, <3>7, <3>8, <4>1
    <3> HIDE DEF s, t, L
    <3> QED
      BY <2>2, <2>4, <3>2, <3>5, <3>9 DEF L
  <2> QED
    BY <2>6, <2>7
<1>10. off[1] = 0
  <2>1. CASE N = 0
    <3>1. S = {}
      <4> HIDE DEF S
      <4> QED
        BY <1>1, <2>1, FS_EmptySet
    <3>2. ~ (0 \in RowIndexes(data))
      BY <3>1, BlockOfRow
    <3>3. Len(data) = 0
      BY <1>2, <3>2
    <3> QED
      BY <1>1, <2>1, <3>3
  <2>2. CASE N # 0
    <3>1. 1 \in 1 .. N /\ 1 \in 1 .. N + 1 /\ 1 <= N
      <4> HIDE DEF N
      <4> QED
        BY <1>1, <2>2
    <3>2. NthOf(S, 1) \in S /\ RankIn(S, NthOf(S, 1)) = 0
      BY <1>3, <3>1
    <3>3. NthOf(S, 1) \in RowIndexes(data)
      BY <3>2 DEF BlockStarts
    <3>4. 0 \in RowIndexes(data)
      BY <1>2, <3>3
    <3>5. StartOf(0) \in S
      BY <3>4, BlockOfRow
    <3>6. StartOf(0) = 0
      <4>1. StartOf(0) \in Nat /\ PlaceOf(0) \in 0 .. BlockRows - 1 /\ 0 = StartOf(0) + PlaceOf(0)
        BY PlaceInBlock, Zenon
      <4> QED
        BY <4>1
    <3>7. ~ (0 < NthOf(S, 1))
      <4> HIDE DEF S, N
      <4>1. 0 < NthOf(S, 1) => RankIn(S, 0) < RankIn(S, NthOf(S, 1)) /\ RankIn(S, 0) \in 0 .. N - 1
        BY <1>3, <3>2, <3>5, <3>6
      <4> QED
        BY <1>1, <3>2, <4>1
    <3>8. NthOf(S, 1) = 0
      <4>1. NthOf(S, 1) \in Nat
        BY <1>1, <3>2
      <4> HIDE DEF S
      <4> QED
        BY <3>7, <4>1
    <3> QED
      BY <3>1, <3>8
  <2> QED
    BY <2>1, <2>2
<1>11. off[N + 1] = Len(data)
  <2>1. N + 1 \in 1 .. N + 1 /\ ~ (N + 1 <= N)
    <3> HIDE DEF N
    <3> QED
      BY <1>1
  <2> QED
    BY <2>1
<1>12. \A n \in 1 .. N + 1 : off[n] \in 0 .. Len(data)
  <2> TAKE n \in 1 .. N + 1
  <2>1. CASE n <= N
    <3>1. n \in 1 .. N
      <4> HIDE DEF N
      <4> QED
        BY <1>1, <2>1
    <3>2. NthOf(S, n) \in 0 .. Len(data)
      <4>1. NthOf(S, n) \in S
        BY <1>3, <3>1
      <4> HIDE DEF S, N
      <4> QED
        BY <1>2, <1>5, <4>1
    <3> QED
      BY <2>1, <3>2
  <2>2. CASE ~ (n <= N)
    BY <1>2, <2>2
  <2> QED
    BY <2>1, <2>2
<1>13. \A n \in 1 .. N : \A m \in 1 .. Len(p[n]) : p[n][m] = data[off[n] + m]
  <2> TAKE n \in 1 .. N
  <2>1. p[n] = BlockAt(data, NthOf(S, n)) /\ NthOf(S, n) \in S
    BY <1>3, <1>4
  <2>2. off[n] = NthOf(S, n)
    <3>1. n <= N /\ n \in 1 .. N + 1
      <4> HIDE DEF N
      <4> QED
        BY <1>1
    <3> QED
      BY <3>1
  <2> HIDE DEF S, off, p
  <2> QED
    BY <1>6, <2>1, <2>2
<1>14. p \in [1 .. N -> Seq(R)]
  <2> HIDE DEF S, N, p
  <2> QED
    BY <1>3, <1>4, <1>5
<1>15. Pieces(p, N, data, off)
  <2> HIDE DEF S, N, p, off
  <2> QED
    BY <1>9, <1>10, <1>11, <1>12, <1>13 DEF Pieces
<1> QED
  BY <1>1, <1>14, <1>15

-----------------------------------------------------------------------------
(* Folds, one step after the other.                                        *)

(* What holds of 0, and of a number when it holds of the one before, holds *)
(* of all up to N.                                                         *)
LEMMA UpToN ==
  ASSUME NEW N \in Nat, NEW P, 0 \in P, \A n \in 1 .. N : n - 1 \in P => n \in P
  PROVE  \A n \in 0 .. N : n \in P
<1> DEFINE C == {n \in 0 .. N : n \notin P}
<1>0. 0 .. N \in SUBSET Nat
  OBVIOUS
<1> SUFFICES ASSUME C # {} PROVE FALSE
  OBVIOUS
<1>1. PICK n \in C : \A m \in C : n <= m
  <2>1. C \in SUBSET Nat
    BY <1>0
  <2> HIDE DEF C
  <2> QED
    BY <2>1, LeastElement
<1>2. n \in 0 .. N /\ n \notin P /\ n # 0
  OBVIOUS
<1>3. n \in 1 .. N /\ n - 1 \in 0 .. N /\ ~ (n <= n - 1)
  BY <1>2
<1>4. n - 1 \notin C
  <2> HIDE DEF C
  <2> QED
    BY <1>1, <1>3
<1> QED
  BY <1>2, <1>3, <1>4

(* The fold of a sequence of N steps from base, as the community modules   *)
(* define it: over the sets of places, the greatest last.                  *)
FoldsUp(g, base, st, N) ==
    g = [s \in SUBSET (1 .. N) |->
           IF s = {} THEN base
           ELSE LET i == Max(s)
                IN  st[<<g[s \ {i}], i>>]]

(* The greatest of a set that has its bound.                               *)
LEMMA MaxIsBound ==
  ASSUME NEW n \in Nat, NEW s \in SUBSET (1 .. n), n \in s
  PROVE  Max(s) = n
<1>1. \A y \in s : n >= y
  OBVIOUS
<1>2. \A x \in s : (\A y \in s : x >= y) => x = n
  OBVIOUS
<1> QED
  BY <1>1, <1>2 DEF Max

(* Such a fold exists.                                                     *)
LEMMA FoldUpExists ==
  ASSUME NEW N \in Nat, NEW A, NEW base \in A, NEW st \in [A \X (1 .. N) -> A]
  PROVE  \E g \in [SUBSET (1 .. N) -> A] : FoldsUp(g, base, st, N)
<1> DEFINE P == {n \in 0 .. N : \E g \in [SUBSET (1 .. n) -> A] : FoldsUp(g, base, st, n)}
<1>1. 0 \in P
  <2> DEFINE g == [s \in SUBSET (1 .. 0) |-> base]
  <2>1. g \in [SUBSET (1 .. 0) -> A] /\ 0 \in 0 .. N
    OBVIOUS
  <2>2. \A s \in SUBSET (1 .. 0) : s = {}
    OBVIOUS
  <2>3. FoldsUp(g, base, st, 0)
    BY <2>2 DEF FoldsUp
  <2> QED
    BY <2>1, <2>3
<1>2. ASSUME NEW n \in 1 .. N, n - 1 \in P
      PROVE  n \in P
 <2> DEFINE m == n - 1
 <2>5. m \in Nat /\ n = m + 1 /\ n \in 0 .. N /\ n \in Nat /\ 1 .. m \in SUBSET (1 .. n)
       /\ n \in 1 .. n /\ ~ (n \in 1 .. m)
   OBVIOUS
 <2>6. PICK g \in [SUBSET (1 .. m) -> A] : FoldsUp(g, base, st, m)
   BY <1>2
 <2> HIDE DEF m, P
 <2> DEFINE G == [s \in SUBSET (1 .. n) |-> IF n \in s THEN st[<<g[s \ {n}], n>>] ELSE g[s]]
 <2>7. \A s \in SUBSET (1 .. n) : /\ s \ {n} \in SUBSET (1 .. m)
                                  /\ n \notin s => s \in SUBSET (1 .. m)
   <3>1. \A x \in 1 .. n : x # n => x \in 1 .. m
     BY <2>5
   <3> QED
     BY <3>1
 <2>8. G \in [SUBSET (1 .. n) -> A]
   <3>1. \A s \in SUBSET (1 .. n) : n \in s => <<g[s \ {n}], n>> \in A \X (1 .. N)
     BY <2>5, <2>7
   <3>2. \A s \in SUBSET (1 .. n) : n \notin s => g[s] \in A
     BY <2>7
   <3> QED
     BY <3>1, <3>2
 <2>9. ASSUME NEW s \in SUBSET (1 .. n), s # {}
       PROVE  G[s] = st[<<G[s \ {Max(s)}], Max(s)>>]
   <3>1. CASE n \in s
     <4>1. Max(s) = n
       BY <2>5, <3>1, MaxIsBound
     <4>2. s \ {n} \in SUBSET (1 .. n) /\ n \notin s \ {n}
       OBVIOUS
     <4>3. G[s \ {n}] = g[s \ {n}] /\ G[s] = st[<<g[s \ {n}], n>>]
       BY <3>1, <4>2
     <4> QED
       BY <4>1, <4>3
   <3>2. CASE n \notin s
     <4>1. s \in SUBSET (1 .. m)
       BY <2>7, <3>2
     <4>2. g[s] = st[<<g[s \ {Max(s)}], Max(s)>>]
       BY <2>6, <2>9, <4>1 DEF FoldsUp
     <4>3. s \ {Max(s)} \in SUBSET (1 .. n) /\ n \notin s \ {Max(s)}
       BY <3>2
     <4>4. G[s \ {Max(s)}] = g[s \ {Max(s)}] /\ G[s] = g[s]
       BY <3>2, <4>3
     <4> QED
       BY <4>2, <4>4
   <3> QED
     BY <3>1, <3>2
 <2>10. G[{}] = base
   <3>1. {} \in SUBSET (1 .. n) /\ {} \in SUBSET (1 .. m) /\ n \notin {}
     OBVIOUS
   <3>2. g[{}] = base
     BY <2>6, <3>1 DEF FoldsUp
   <3> QED
     BY <3>1, <3>2
 <2>11. FoldsUp(G, base, st, n)
   <3>1. G = [s \in SUBSET (1 .. n) |-> G[s]]
     OBVIOUS
   <3>2. \A s \in SUBSET (1 .. n) :
             G[s] = IF s = {} THEN base ELSE st[<<G[s \ {Max(s)}], Max(s)>>]
     <4> HIDE DEF G
     <4> QED
       BY <2>9, <2>10
   <3> HIDE DEF G
   <3> QED
     BY <3>1, <3>2 DEF FoldsUp
 <2> QED
   BY <2>5, <2>8, <2>11 DEF P
<1>3. \A n \in 0 .. N : n \in P
  <2> HIDE DEF P
  <2> QED
    BY <1>1, <1>2, UpToN
<1>4. N \in 0 .. N
  OBVIOUS
<1> QED
  BY <1>3, <1>4

(* Places have a greatest one.                                             *)
LEMMA GreatestPlace ==
  ASSUME NEW N \in Nat, NEW s \in SUBSET (1 .. N), s # {}
  PROVE  Max(s) \in s /\ s \ {Max(s)} \in SUBSET (1 .. N)
<1> DEFINE D == {N - x : x \in s}
<1>1. \A x \in s : x \in Nat /\ N - x \in Nat
  OBVIOUS
<1>2. D \in SUBSET Nat /\ D # {}
  BY <1>1
<1>3. PICK d \in D : \A e \in D : d <= e
  <2> HIDE DEF D
  <2> QED
    BY <1>2, LeastElement
<1>4. PICK x \in s : d = N - x
  OBVIOUS
<1>5. \A y \in s : x >= y
  <2> TAKE y \in s
  <2>1. N - x <= N - y
    BY <1>3, <1>4
  <2> QED
    BY <1>1, <2>1
<1>6. Max(s) \in s
  BY <1>5 DEF Max
<1> QED
  BY <1>6

(* The set of the first n places, and the last of them.                    *)
LEMMA LastPlace ==
  ASSUME NEW N \in Nat
  PROVE  /\ 1 .. 0 = {}
         /\ \A n \in 1 .. N : /\ 1 .. n \in SUBSET (1 .. N) /\ 1 .. n # {}
                              /\ Max(1 .. n) = n /\ (1 .. n) \ {n} = 1 .. n - 1
<1>1. 1 .. 0 = {}
  OBVIOUS
<1>2. ASSUME NEW n \in 1 .. N
      PROVE  /\ 1 .. n \in SUBSET (1 .. N) /\ 1 .. n # {}
             /\ Max(1 .. n) = n /\ (1 .. n) \ {n} = 1 .. n - 1
  <2>1. n \in Nat /\ n \in 1 .. n /\ 1 .. n \in SUBSET (1 .. n) /\ 1 .. n \in SUBSET (1 .. N)
    OBVIOUS
  <2>2. Max(1 .. n) = n
    BY <2>1, MaxIsBound
  <2>3. \A x : x \in (1 .. n) \ {n} <=> x \in 1 .. n - 1
    OBVIOUS
  <2> QED
    BY <2>1, <2>2, <2>3
<1> QED
  BY <1>1, <1>2

(* The number of matches of the blocks.                                    *)
CountOf(p, where) == FoldLeft(LAMBDA n, b : n + Len(MatchingRows(b, where)), 0, p)

(* f[n] of them are in the first n blocks.                                 *)
Counts(f, N, p, where) ==
    /\ f \in [0 .. N -> Nat] /\ f[0] = 0
    /\ \A n \in 1 .. N : f[n] = f[n - 1] + Len(MatchingRows(p[n], where))

(* They are counted one block after the other.                             *)
LEMMA CountFolds ==
  ASSUME NEW N \in Nat, NEW R, NEW p \in [1 .. N -> Seq(R)], NEW where
  PROVE  \E f : Counts(f, N, p, where) /\ CountOf(p, where) = f[N]
<1> DEFINE l(i) == Len(MatchingRows(p[i], where))
           F(g) == g = [s \in SUBSET (1 .. N) |->
                          IF s = {} THEN 0
                          ELSE LET i == Max(s)
                               IN  g[s \ {i}] + l(i)]
           st == [a \in Nat \X (1 .. N) |-> a[1] + l(a[2])]
           G == CHOOSE g : F(g)
           f == [n \in 0 .. N |-> G[1 .. n]]
<1>1. \A i \in 1 .. N : l(i) \in Nat
  <2>1. \A i \in 1 .. N : MatchingRows(p[i], where) \in Seq(R)
    BY MatchesListed
  <2> QED
    BY <2>1
<1>2. DOMAIN p = 1 .. N
  OBVIOUS
<1>3. CountOf(p, where) = G[1 .. N]
  BY <1>2 DEF CountOf, FoldLeft, MapThenFoldSet
<1> HIDE DEF l
<1>4. st \in [Nat \X (1 .. N) -> Nat]
  BY <1>1
<1>5. PICK g \in [SUBSET (1 .. N) -> Nat] : FoldsUp(g, 0, st, N)
  <2> HIDE DEF st
  <2> QED
    BY <1>4, FoldUpExists
<1>6. F(g)
  <2>1. \A s \in SUBSET (1 .. N) : s # {} =>
            /\ Max(s) \in 1 .. N /\ s \ {Max(s)} \in SUBSET (1 .. N)
            /\ g[s \ {Max(s)}] \in Nat
            /\ st[<<g[s \ {Max(s)}], Max(s)>>] = g[s \ {Max(s)}] + l(Max(s))
    BY GreatestPlace
  <2> HIDE DEF st
  <2> QED
    BY <1>5, <2>1, Zenon DEF FoldsUp
<1>7. F(G)
  BY <1>6
<1> HIDE DEF G, st
<1>8. f[0] = 0 /\ f[N] = G[1 .. N]
  <2>1. G[{}] = 0 /\ 1 .. 0 = {} /\ 0 \in 0 .. N /\ N \in 0 .. N
    BY <1>7
  <2> QED
    BY <2>1
<1>9. ASSUME NEW n \in 1 .. N
      PROVE  f[n] = f[n - 1] + l(n)
  <2>1. 1 .. n \in SUBSET (1 .. N) /\ 1 .. n # {} /\ Max(1 .. n) = n /\ (1 .. n) \ {n} = 1 .. n - 1
    BY LastPlace
  <2>2. G[1 .. n] = G[1 .. n - 1] + l(n)
    BY <1>7, <2>1
  <2>3. n \in 0 .. N /\ n - 1 \in 0 .. N
    OBVIOUS
  <2> QED
    BY <2>2, <2>3
<1>10. \A n \in 0 .. N : f[n] \in Nat
  <2> DEFINE P == {n \in 0 .. N : f[n] \in Nat}
  <2>1. 0 \in P
    BY <1>8
  <2>2. ASSUME NEW n \in 1 .. N, n - 1 \in P PROVE n \in P
    <3>1. f[n - 1] \in Nat /\ l(n) \in Nat /\ n \in 0 .. N
      BY <1>1, <2>2
    <3> HIDE DEF f
    <3> QED
      BY <1>9, <3>1
  <2>3. \A n \in 0 .. N : n \in P
    <3> HIDE DEF P
    <3> QED
      BY <2>1, <2>2, UpToN
  <2> QED
    BY <2>3
<1>11. f \in [0 .. N -> Nat]
  BY <1>10
<1> HIDE DEF f
<1>12. Counts(f, N, p, where)
  BY <1>8, <1>9, <1>11 DEF Counts, l
<1> QED
  BY <1>3, <1>8, <1>12

(* Counting them block after block counts the matches of the dataset.      *)
LEMMA MatchesCounted ==
  ASSUME NEW N \in Nat, NEW R, NEW p \in [1 .. N -> Seq(R)], NEW t \in Seq(R), NEW off,
         Pieces(p, N, t, off), NEW where
  PROVE  CountOf(p, where) = Len(MatchingRows(t, where))
<1> DEFINE q == [n \in 1 .. N |-> MatchingRows(p[n], where)]
           s == MatchingRows(t, where)
<1>1. PICK o : Pieces(q, N, s, o)
  BY MatchesOfPieces
<1>2. PICK f : Counts(f, N, p, where) /\ CountOf(p, where) = f[N]
  BY CountFolds
<1> DEFINE P == {n \in 0 .. N : f[n] = o[n + 1]}
<1>3. 0 \in P
  <2>1. o[0 + 1] = 0 /\ 0 \in 0 .. N
    BY <1>1 DEF Pieces
  <2> QED
    BY <1>2, <2>1 DEF Counts
<1>4. ASSUME NEW n \in 1 .. N, n - 1 \in P
      PROVE  n \in P
  <2>1. f[n - 1] = o[(n - 1) + 1] /\ (n - 1) + 1 = n /\ n \in 0 .. N
    BY <1>4
  <2>2. o[n + 1] = o[n] + Len(q[n]) /\ q[n] = MatchingRows(p[n], where)
    BY <1>1 DEF Pieces
  <2> QED
    BY <1>2, <2>1, <2>2 DEF Counts
<1>5. \A n \in 0 .. N : n \in P
  <2> HIDE DEF P
  <2> QED
    BY <1>3, <1>4, UpToN
<1>6. f[N] = o[N + 1]
  BY <1>5
<1> QED
  BY <1>1, <1>2, <1>6 DEF Pieces

-----------------------------------------------------------------------------
(* The window of a query.                                                  *)

(* A function on the first k numbers is a sequence of k elements.          *)
LEMMA ListLength ==
  ASSUME NEW E, NEW k \in Nat, NEW a \in [1 .. k -> E]
  PROVE  a \in Seq(E) /\ Len(a) = k
OBVIOUS

(* The part of T of k elements after the i-th, and what follows it.        *)
Part(T, i, k) == [r \in 1 .. k |-> T[i + r]]

(* One after the other, they are a longer part.                            *)
LEMMA LongerPart ==
  ASSUME NEW T, NEW i \in Nat, NEW j \in Nat, NEW k \in Nat
  PROVE  Part(T, i, j) \o Part(T, i + j, k) = Part(T, i, j + k)
<1> DEFINE a == Part(T, i, j)
           c == Part(T, i + j, k)
           b == Part(T, i, j + k)
           E == {T[r] : r \in Nat}
<1>0. \A n \in Nat : T[n] \in E
  OBVIOUS
<1>1. ASSUME NEW x \in Nat, NEW y \in Nat
      PROVE  Part(T, x, y) \in Seq(E) /\ Len(Part(T, x, y)) = y
  <2>1. \A r \in 1 .. y : x + r \in Nat
    OBVIOUS
  <2>2. Part(T, x, y) \in [1 .. y -> E]
    BY <1>0, <2>1 DEF Part
  <2> HIDE DEF E
  <2> QED
    BY <2>2, ListLength
<1>2. /\ a \in Seq(E) /\ c \in Seq(E) /\ b \in Seq(E)
      /\ Len(a) = j /\ Len(c) = k /\ Len(b) = j + k
  <2>1. i + j \in Nat /\ j + k \in Nat
    OBVIOUS
  <2> HIDE DEF E
  <2> QED
    BY <1>1, <2>1
<1> HIDE DEF a, b, c, E
<1>3. /\ a \o c \in Seq(E) /\ Len(a \o c) = j + k
      /\ \A r \in 1 .. j + k : (a \o c)[r] = IF r <= j THEN a[r] ELSE c[r - j]
  BY <1>2, ConcatProperties
<1>4. \A r \in 1 .. j + k : (a \o c)[r] = b[r]
  <2> TAKE r \in 1 .. j + k
  <2>0. b[r] = T[i + r]
    BY DEF b, Part
  <2>1. CASE r <= j
    <3>1. r \in 1 .. j
      BY <2>1
    <3>2. a[r] = T[i + r]
      BY <3>1 DEF a, Part
    <3> QED
      BY <1>3, <2>0, <2>1, <3>2
  <2>2. CASE ~ (r <= j)
    <3>1. r - j \in 1 .. k /\ i + j + (r - j) = i + r
      BY <2>2
    <3>2. c[r - j] = T[i + j + (r - j)]
      BY <3>1 DEF c, Part
    <3> QED
      BY <1>3, <2>0, <2>2, <3>1, <3>2
  <2> QED
    BY <2>1, <2>2
<1>5. a \o c = b
  BY <1>2, <1>3, <1>4, SeqEqual
<1> QED
  BY <1>5 DEF a, b, c

(* What is selected of the rows that match.                                *)
Selection(rows, select) == [m \in 1 .. Len(rows) |-> Project(rows[m], select)]

(* The window after the first k of the selected rows T have been passed.   *)
Taken(k, q) == IF k <= q.offset THEN 0 ELSE IF k - q.offset <= q.limit THEN k - q.offset ELSE q.limit
WindowAfter(T, k, q) ==
    [skip      |-> IF k <= q.offset THEN q.offset - k ELSE 0,
     remaining |-> q.limit - Taken(k, q),
     rows      |-> Part(T, q.offset, Taken(k, q))]

(* A page has a first row and holds one at least.                          *)
IsPage(q) == q.offset \in Nat /\ q.limit \in Nat \ {0}

(* A part of a sequence, by its places.                                    *)
LEMMA PartOfSequence ==
  ASSUME NEW R, NEW s \in Seq(R), NEW i \in Nat, NEW k \in Nat, i + k <= Len(s)
  PROVE  /\ SubSeq(s, i + 1, i + k) \in Seq(R) /\ Len(SubSeq(s, i + 1, i + k)) = k
         /\ \A r \in 1 .. k : SubSeq(s, i + 1, i + k)[r] = s[i + r]
<1> DEFINE c == SubSeq(s, i + 1, i + k)
<1>1. \A n \in i + 1 .. i + k : s[n] \in R
  <2>1. \A n \in i + 1 .. i + k : n \in 1 .. Len(s)
    OBVIOUS
  <2> QED
    BY <2>1
<1>2. /\ c \in Seq(R)
      /\ Len(c) = IF i + 1 <= i + k THEN (i + k) - (i + 1) + 1 ELSE 0
      /\ \A n \in 1 .. (i + k) - (i + 1) + 1 : c[n] = s[i + 1 + n - 1]
  <2>1. i + 1 \in Int /\ i + k \in Int
    OBVIOUS
  <2> QED
    BY <1>1, <2>1, SubSeqProperties
<1> HIDE DEF c
<1>3. Len(c) = k
  BY <1>2
<1>4. \A r \in 1 .. k : c[r] = s[i + r]
  <2> TAKE r \in 1 .. k
  <2>1. r \in 1 .. (i + k) - (i + 1) + 1 /\ i + 1 + r - 1 = i + r
    OBVIOUS
  <2> QED
    BY <1>2, <2>1
<1> QED
  BY <1>2, <1>3, <1>4 DEF c

(* A block moves the window over its rows.                                 *)
LEMMA WindowMoves ==
  ASSUME NEW R, NEW block \in Seq(R), NEW q, IsPage(q), NEW T, NEW k \in Nat,
         \A r \in 1 .. Len(MatchingRows(block, q.where)) :
            Project(MatchingRows(block, q.where)[r], q.select) = T[k + r]
  PROVE  TakeFromBlock(q, WindowAfter(T, k, q), block)
           = WindowAfter(T, k + Len(MatchingRows(block, q.where)), q)
<1> DEFINE s == MatchingRows(block, q.where)
           l == Len(s)
           w == WindowAfter(T, k, q)
           o == q.offset
           L == q.limit
<1>1. s \in Seq(R) /\ l \in Nat
  <2>1. s \in Seq(R)
    BY MatchesListed
  <2> QED
    BY <2>1
<1>2. o \in Nat /\ L \in Nat /\ L > 0
  BY DEF IsPage
<1>3. /\ Taken(k, q) = IF k <= o THEN 0 ELSE IF k - o <= L THEN k - o ELSE L
      /\ Taken(k + l, q) = IF k + l <= o THEN 0 ELSE IF (k + l) - o <= L THEN (k + l) - o ELSE L
  BY DEF Taken
<1>4. /\ w.skip = IF k <= o THEN o - k ELSE 0
      /\ w.remaining = L - Taken(k, q)
      /\ w.rows = Part(T, o, Taken(k, q))
      /\ w = [skip |-> w.skip, remaining |-> w.remaining, rows |-> w.rows]
  BY DEF WindowAfter
<1>5. WindowAfter(T, k + l, q)
        = [skip |-> IF k + l <= o THEN o - (k + l) ELSE 0,
           remaining |-> L - Taken(k + l, q),
           rows |-> Part(T, o, Taken(k + l, q))]
  BY DEF WindowAfter
<1> DEFINE take == Min({w.remaining, l - w.skip})
           taken == SubSeq(s, w.skip + 1, w.skip + take)
<1>6. TakeFromBlock(q, w, block)
        = IF w.remaining = 0 THEN w
          ELSE IF w.skip >= l THEN [w EXCEPT !.skip = @ - l]
          ELSE [skip |-> 0, remaining |-> w.remaining - take,
                rows |-> w.rows \o [n \in DOMAIN taken |-> Project(taken[n], q.select)]]
  BY DEF TakeFromBlock
<1> HIDE DEF w, l, s
<1>7. CASE w.remaining = 0
  <2> DEFINE x == Taken(k, q)
             y == Taken(k + l, q)
  <2>0. x = L
    <3>1. w.remaining = L - x /\ x \in Nat
      BY <1>2, <1>3, <1>4
    <3> HIDE DEF x
    <3> QED
      BY <1>2, <1>7, <3>1
  <2>1. Taken(k + l, q) = Taken(k, q) /\ ~ (k + l <= o) /\ ~ (k <= o)
    <3>1. ~ (k <= o) /\ (k - o >= L)
      BY <1>2, <1>3, <2>0
    <3>2. ~ (k + l <= o) /\ (k + l) - o >= L
      BY <1>1, <1>2, <3>1
    <3>3. y = L
      BY <1>1, <1>2, <1>3, <3>2
    <3> QED
      BY <2>0, <3>1, <3>2, <3>3
  <2>2. WindowAfter(T, k + l, q) = [skip |-> w.skip, remaining |-> w.remaining, rows |-> w.rows]
    BY <1>4, <1>5, <2>1
  <2>3. TakeFromBlock(q, w, block) = WindowAfter(T, k + l, q)
    BY <1>4, <1>6, <1>7, <2>2
  <2> QED
    BY <2>3 DEF w, s, l
<1>8. CASE w.remaining # 0 /\ w.skip >= l
  <2>1. /\ Taken(k + l, q) = Taken(k, q)
        /\ w.skip - l = IF k + l <= o THEN o - (k + l) ELSE 0
    BY <1>1, <1>2, <1>3, <1>4, <1>8
  <2>2. [w EXCEPT !.skip = @ - l] = [skip |-> w.skip - l, remaining |-> w.remaining, rows |-> w.rows]
    <3> DEFINE x == w.skip
               y == w.remaining
               z == w.rows
    <3>1. w = [skip |-> x, remaining |-> y, rows |-> z]
      BY <1>4
    <3> HIDE DEF x, y, z
    <3>2. [w EXCEPT !.skip = @ - l] = [skip |-> x - l, remaining |-> y, rows |-> z]
      BY <3>1
    <3> QED
      BY <3>2 DEF x, y, z
  <2>3. WindowAfter(T, k + l, q) = [skip |-> w.skip - l, remaining |-> w.remaining, rows |-> w.rows]
    BY <1>4, <1>5, <2>1
  <2>4. TakeFromBlock(q, w, block) = WindowAfter(T, k + l, q)
    BY <1>6, <1>8, <2>2, <2>3
  <2> QED
    BY <2>4 DEF w, s, l
<1>9. CASE w.remaining # 0 /\ ~ (w.skip >= l)
  <2> DEFINE i == w.skip
             m == IF w.remaining <= l - i THEN w.remaining ELSE l - i
  <2>1. i \in Nat /\ w.remaining \in Nat /\ l - i \in Nat /\ Taken(k, q) \in Nat
    <3>1. w.skip \in Nat
      BY <1>2, <1>4
    <3>2. Taken(k, q) \in Nat /\ Taken(k, q) <= L
      BY <1>2, <1>3
    <3>3. w.remaining \in Nat
      BY <1>2, <1>4, <3>2
    <3> QED
      BY <1>1, <1>9, <3>1, <3>2, <3>3
  <2>2. take = m
    <3>1. take = Min({w.remaining, l - i})
      OBVIOUS
    <3> HIDE DEF take, i
    <3>2. w.remaining \in Int /\ l - i \in Int
      BY <2>1
    <3>3. Min({w.remaining, l - i}) = m
      BY <3>2, MinOfTwo
    <3> QED
      BY <3>1, <3>3
  <2>3. m \in Nat /\ i + m <= l
    <3>1. l \in Nat
      BY <1>1
    <3>2. m = IF w.remaining <= l - i THEN w.remaining ELSE l - i
      OBVIOUS
    <3> HIDE DEF m, i
    <3> QED
      BY <2>1, <3>1, <3>2
  <2>4. /\ Taken(k + l, q) = Taken(k, q) + m /\ ~ (k + l <= o)
        /\ L - Taken(k + l, q) = w.remaining - m
        /\ k + i = o + Taken(k, q)
    <3>1. CASE k <= o
      <4>1. i = o - k /\ Taken(k, q) = 0 /\ w.remaining = L
        BY <1>2, <1>3, <1>4, <3>1
      <4>2. m = (IF L <= l - (o - k) THEN L ELSE l - (o - k)) /\ ~ (o - k >= l)
        BY <1>9, <4>1
      <4> HIDE DEF m, i
      <4>3. k + l = o + (l - i) /\ l - i \in Nat /\ l - i > 0
        <5>1. l \in Nat
          BY <1>1
        <5>2. ~ (i >= l)
          BY <4>1, <4>2
        <5> HIDE DEF o, L
        <5> QED
          BY <1>2, <2>1, <3>1, <4>1, <5>1, <5>2
      <4>4. m <= l - i /\ m <= L /\ (m = l - i \/ m = L) /\ m > 0
        BY <1>2, <4>1, <4>2, <4>3
      <4>5. Taken(k + l, q) = m /\ ~ (k + l <= o)
        <5>1. l \in Nat /\ m \in Nat
          BY <1>1, <2>3
        <5>2. Taken(k + l, q)
                = IF k + l <= o THEN 0 ELSE IF (k + l) - o <= L THEN (k + l) - o ELSE L
          BY <1>3
        <5> HIDE DEF o, L
        <5> QED
          BY <1>2, <4>3, <4>4, <5>1, <5>2
      <4>6. m \in Nat
        BY <2>3
      <4> HIDE DEF o, L
      <4> QED
        BY <1>2, <3>1, <4>1, <4>5, <4>6
    <3>2. CASE ~ (k <= o)
      <4>1. i = 0 /\ w.remaining = L - Taken(k, q)
        BY <1>2, <1>3, <1>4, <3>2
      <4>2. m = (IF L - Taken(k, q) <= l THEN L - Taken(k, q) ELSE l) /\ L - Taken(k, q) # 0
        BY <1>1, <1>9, <4>1
      <4>3. Taken(k, q) = k - o
        BY <1>2, <1>3, <3>2, <4>2
      <4> HIDE DEF m, i
      <4>4. /\ Taken(k + l, q) = IF (k - o) + l <= L THEN (k - o) + l ELSE L
            /\ ~ (k + l <= o) /\ k - o \in Nat
        <5>1. l \in Nat
          BY <1>1
        <5>2. Taken(k + l, q)
                = IF k + l <= o THEN 0 ELSE IF (k + l) - o <= L THEN (k + l) - o ELSE L
          BY <1>3
        <5> HIDE DEF o, L
        <5> QED
          BY <1>2, <3>2, <5>1, <5>2
      <4>5. Taken(k + l, q) = (k - o) + m
        <5>1. l \in Nat
          BY <1>1
        <5> HIDE DEF o, L
        <5> QED
          BY <1>2, <4>2, <4>3, <4>4, <5>1
      <4>6. m \in Nat
        BY <2>3
      <4> HIDE DEF o, L
      <4>7. L - Taken(k + l, q) = w.remaining - m
        BY <1>2, <4>1, <4>3, <4>4, <4>5, <4>6
      <4>8. k + i = o + Taken(k, q)
        BY <1>2, <4>1, <4>3
      <4> QED
        BY <4>3, <4>4, <4>5, <4>7, <4>8
    <3> QED
      BY <3>1, <3>2
  <2> HIDE DEF take
  <2>5. /\ taken \in Seq(R) /\ Len(taken) = m
        /\ \A r \in 1 .. m : taken[r] = s[i + r]
    <3>1. i + m <= Len(s) /\ taken = SubSeq(s, i + 1, i + m)
      BY <2>2, <2>3 DEF l
    <3>2. i \in Nat /\ m \in Nat /\ s \in Seq(R)
      BY <1>1, <2>1, <2>3
    <3> HIDE DEF i, m, taken
    <3>3. /\ SubSeq(s, i + 1, i + m) \in Seq(R) /\ Len(SubSeq(s, i + 1, i + m)) = m
          /\ \A r \in 1 .. m : SubSeq(s, i + 1, i + m)[r] = s[i + r]
      BY <3>1, <3>2, PartOfSequence
    <3> QED
      BY <3>1, <3>3
  <2> DEFINE c == [n \in DOMAIN taken |-> Project(taken[n], q.select)]
  <2>6. c = Part(T, o + Taken(k, q), m)
    <3>1. DOMAIN taken = 1 .. m
      BY <2>5
    <3>2. \A r \in 1 .. m : Project(taken[r], q.select) = T[o + Taken(k, q) + r]
      <4> TAKE r \in 1 .. m
      <4>1. i + r \in 1 .. l /\ k + (i + r) = o + Taken(k, q) + r
        <5> HIDE DEF i, m
        <5> QED
          BY <1>1, <1>2, <2>1, <2>3, <2>4
      <4>2. Project(s[i + r], q.select) = T[k + (i + r)]
        BY <4>1 DEF s, l
      <4> QED
        BY <2>5, <4>1, <4>2
    <3> QED
      BY <3>1, <3>2 DEF Part
  <2>7. w.rows \o c = Part(T, o, Taken(k, q) + m)
    <3> DEFINE j == Taken(k, q)
    <3>1. w.rows = Part(T, o, j) /\ c = Part(T, o + j, m) /\ j \in Nat /\ o \in Nat
      BY <1>2, <1>4, <2>1, <2>6
    <3>2. m \in Nat
      BY <2>3
    <3> HIDE DEF c, m, i, j, o
    <3>3. Part(T, o, j) \o Part(T, o + j, m) = Part(T, o, j + m)
      BY <3>1, <3>2, LongerPart, ZenonT(30)
    <3>4. w.rows \o c = Part(T, o, j + m)
      BY <3>1, <3>3
    <3> QED
      BY <3>4 DEF j, o
  <2>8. TakeFromBlock(q, w, block) = [skip |-> 0, remaining |-> w.remaining - m, rows |-> w.rows \o c]
    BY <1>6, <1>9, <2>2
  <2> HIDE DEF c, i, m
  <2>9. WindowAfter(T, k + l, q) = [skip |-> 0, remaining |-> w.remaining - m, rows |-> w.rows \o c]
    BY <1>5, <2>4, <2>7
  <2> QED
    BY <2>8, <2>9 DEF w, s, l
<1> QED
  BY <1>7, <1>8, <1>9 DEF w, s, l

(* The window of a query, moved over the blocks p.                         *)
NewWindow(q) == [skip |-> q.offset, remaining |-> q.limit, rows |-> <<>>]
WindowOf(p, q) == FoldLeft(LAMBDA w, b : TakeFromBlock(q, w, b), NewWindow(q), p)
WindowsOver(R, q) == [skip : Nat, remaining : Nat, rows : Seq({Project(r, q.select) : r \in R})]

(* f[n] is the window after n blocks.                                      *)
Windows(f, N, p, q) ==
    /\ f[0] = NewWindow(q)
    /\ \A n \in 1 .. N : f[n] = TakeFromBlock(q, f[n - 1], p[n])

(* A block leaves a window.                                                *)
LEMMA TakeStays ==
  ASSUME NEW R, NEW block \in Seq(R), NEW q, NEW w \in WindowsOver(R, q)
  PROVE  TakeFromBlock(q, w, block) \in WindowsOver(R, q)
<1> DEFINE s == MatchingRows(block, q.where)
           l == Len(s)
           E == {Project(r, q.select) : r \in R}
           take == Min({w.remaining, l - w.skip})
           taken == SubSeq(s, w.skip + 1, w.skip + take)
           c == [n \in DOMAIN taken |-> Project(taken[n], q.select)]
<1>1. s \in Seq(R) /\ l \in Nat
  <2>1. s \in Seq(R)
    BY MatchesListed
  <2> QED
    BY <2>1
<1>2. w.skip \in Nat /\ w.remaining \in Nat /\ w.rows \in Seq(E)
      /\ w = [skip |-> w.skip, remaining |-> w.remaining, rows |-> w.rows]
  BY DEF WindowsOver
<1>3. TakeFromBlock(q, w, block)
        = IF w.remaining = 0 THEN w
          ELSE IF w.skip >= l THEN [w EXCEPT !.skip = @ - l]
          ELSE [skip |-> 0, remaining |-> w.remaining - take, rows |-> w.rows \o c]
  BY DEF TakeFromBlock
<1>4. CASE w.remaining # 0 /\ ~ (w.skip >= l)
  <2> DEFINE i == w.skip
             k == w.remaining
             m == IF k <= l - i THEN k ELSE l - i
  <2>1. i \in Nat /\ k \in Nat /\ l - i \in Nat
    BY <1>1, <1>2, <1>4
  <2>2. take = m
    <3> HIDE DEF i, k, l
    <3> QED
      BY <2>1, MinOfTwo DEF i, k
  <2>3. m \in Nat /\ i + m <= l /\ k - m \in Nat
    <3> HIDE DEF i, k, l
    <3> QED
      BY <1>1, <2>1
  <2>4. taken \in Seq(R)
    <3>1. taken = SubSeq(s, i + 1, i + m)
      BY <2>2
    <3> HIDE DEF taken, s, i, k, m
    <3> QED
      BY <1>1, <2>1, <2>3, <3>1, PartOfSequence DEF l
  <2>5. c \in Seq(E)
    <3>1. Len(taken) \in Nat /\ DOMAIN taken = 1 .. Len(taken) /\ \A n \in DOMAIN taken : taken[n] \in R
      <4> HIDE DEF taken
      <4> QED
        BY <2>4
    <3> HIDE DEF taken
    <3>2. c \in [1 .. Len(taken) -> E]
      BY <3>1
    <3> HIDE DEF E, c
    <3> QED
      BY <3>1, <3>2, ListLength
  <2>6. w.rows \o c \in Seq(E)
    <3> HIDE DEF E, c
    <3> QED
      BY <1>2, <2>5
  <2>7. TakeFromBlock(q, w, block) = [skip |-> 0, remaining |-> k - m, rows |-> w.rows \o c]
    BY <1>3, <1>4, <2>2
  <2> HIDE DEF c, m, k
  <2> QED
    BY <2>3, <2>6, <2>7 DEF WindowsOver
<1>5. CASE w.remaining # 0 /\ w.skip >= l
  <2> DEFINE x == w.skip
             y == w.remaining
             z == w.rows
  <2>1. w = [skip |-> x, remaining |-> y, rows |-> z] /\ x - l \in Nat
    BY <1>1, <1>2, <1>5
  <2> HIDE DEF x, y, z, l, E
  <2>2. [w EXCEPT !.skip = @ - l] = [skip |-> x - l, remaining |-> y, rows |-> z]
    BY <2>1
  <2> QED
    BY <1>2, <1>3, <1>5, <2>1, <2>2 DEF WindowsOver, x, y, z, E
<1>6. CASE w.remaining = 0
  BY <1>3, <1>6
<1> QED
  BY <1>4, <1>5, <1>6

(* The window is moved over one block after the other.                     *)
LEMMA WindowFolds ==
  ASSUME NEW N \in Nat, NEW R, NEW p \in [1 .. N -> Seq(R)], NEW q, IsPage(q)
  PROVE  \E f : Windows(f, N, p, q) /\ WindowOf(p, q) = f[N]
<1> DEFINE A == WindowsOver(R, q)
           F(g) == g = [s \in SUBSET (1 .. N) |->
                          IF s = {} THEN NewWindow(q)
                          ELSE LET i == Max(s)
                               IN  TakeFromBlock(q, g[s \ {i}], p[i])]
           st == [a \in A \X (1 .. N) |-> TakeFromBlock(q, a[1], p[a[2]])]
           G == CHOOSE g : F(g)
           f == [n \in 0 .. N |-> G[1 .. n]]
<1>1. NewWindow(q) \in A
  <2>1. <<>> \in Seq({Project(r, q.select) : r \in R})
    OBVIOUS
  <2> QED
    BY <2>1 DEF NewWindow, WindowsOver, IsPage
<1>2. DOMAIN p = 1 .. N
  OBVIOUS
<1>3. WindowOf(p, q) = G[1 .. N]
  BY <1>2 DEF WindowOf, FoldLeft, MapThenFoldSet
<1>4. st \in [A \X (1 .. N) -> A]
  <2>1. \A w \in A, i \in 1 .. N : TakeFromBlock(q, w, p[i]) \in A
    <3> TAKE w \in A, i \in 1 .. N
    <3>1. p[i] \in Seq(R)
      OBVIOUS
    <3> QED
      BY <3>1, TakeStays
  <2> HIDE DEF A
  <2> QED
    BY <2>1
<1> HIDE DEF A
<1>5. PICK g \in [SUBSET (1 .. N) -> A] : FoldsUp(g, NewWindow(q), st, N)
  <2> HIDE DEF st
  <2> QED
    BY <1>1, <1>4, FoldUpExists
<1>6. F(g)
  <2>1. \A s \in SUBSET (1 .. N) : s # {} =>
            /\ Max(s) \in 1 .. N /\ s \ {Max(s)} \in SUBSET (1 .. N)
            /\ g[s \ {Max(s)}] \in A
            /\ st[<<g[s \ {Max(s)}], Max(s)>>] = TakeFromBlock(q, g[s \ {Max(s)}], p[Max(s)])
    BY GreatestPlace
  <2> HIDE DEF st
  <2> QED
    BY <1>5, <2>1, Zenon DEF FoldsUp
<1>7. F(G)
  BY <1>6
<1> HIDE DEF G, st
<1>8. f[0] = NewWindow(q) /\ f[N] = G[1 .. N]
  <2>1. G[{}] = NewWindow(q) /\ 1 .. 0 = {} /\ 0 \in 0 .. N /\ N \in 0 .. N
    BY <1>7
  <2> QED
    BY <2>1
<1>9. ASSUME NEW n \in 1 .. N
      PROVE  f[n] = TakeFromBlock(q, f[n - 1], p[n])
  <2>1. 1 .. n \in SUBSET (1 .. N) /\ 1 .. n # {} /\ Max(1 .. n) = n /\ (1 .. n) \ {n} = 1 .. n - 1
    BY LastPlace
  <2>2. G[1 .. n] = TakeFromBlock(q, G[1 .. n - 1], p[n])
    BY <1>7, <2>1
  <2>3. n \in 0 .. N /\ n - 1 \in 0 .. N
    OBVIOUS
  <2> QED
    BY <2>2, <2>3
<1> HIDE DEF f
<1>10. Windows(f, N, p, q)
  BY <1>8, <1>9 DEF Windows
<1> QED
  BY <1>3, <1>8, <1>10

(* Moved over the blocks of a dataset, it has passed all its matches.      *)
LEMMA WindowPasses ==
  ASSUME NEW N \in Nat, NEW R, NEW p \in [1 .. N -> Seq(R)], NEW t \in Seq(R), NEW off,
         Pieces(p, N, t, off), NEW q, IsPage(q)
  PROVE  WindowOf(p, q) = WindowAfter(Selection(MatchingRows(t, q.where), q.select),
                                      Len(MatchingRows(t, q.where)), q)
<1> DEFINE r == [n \in 1 .. N |-> MatchingRows(p[n], q.where)]
           s == MatchingRows(t, q.where)
           T == Selection(s, q.select)
<1>1. PICK o : Pieces(r, N, s, o)
  BY MatchesOfPieces
<1>2. PICK f : Windows(f, N, p, q) /\ WindowOf(p, q) = f[N]
  BY WindowFolds
<1>0. s \in Seq(R) /\ Len(s) \in Nat
  <2>1. s \in Seq(R)
    BY MatchesListed
  <2> QED
    BY <2>1
<1> DEFINE P == {n \in 0 .. N : f[n] = WindowAfter(T, o[n + 1], q)}
<1>3. 0 \in P
  <2>1. o[0 + 1] = 0 /\ 0 \in 0 .. N
    BY <1>1 DEF Pieces
  <2>2. Taken(0, q) = 0 /\ q.offset \in Nat /\ q.limit \in Nat
    BY DEF Taken, IsPage
  <2>3. Part(T, q.offset, 0) = <<>>
    BY DEF Part
  <2>4. WindowAfter(T, 0, q) = NewWindow(q)
    <3> HIDE DEF T
    <3> QED
      BY <2>2, <2>3 DEF WindowAfter, NewWindow
  <2> HIDE DEF T
  <2> QED
    BY <1>2, <2>1, <2>4 DEF Windows
<1>4. ASSUME NEW n \in 1 .. N, n - 1 \in P
      PROVE  n \in P
  <2>1. f[n - 1] = WindowAfter(T, o[(n - 1) + 1], q) /\ (n - 1) + 1 = n /\ n \in 0 .. N
    BY <1>4
  <2>2. /\ o[n + 1] = o[n] + Len(r[n]) /\ r[n] = MatchingRows(p[n], q.where)
        /\ o[n] \in 0 .. Len(s) /\ o[n + 1] \in 0 .. Len(s)
        /\ \A m \in 1 .. Len(r[n]) : r[n][m] = s[o[n] + m]
    <3>1. n \in 1 .. N + 1 /\ n + 1 \in 1 .. N + 1
      OBVIOUS
    <3> HIDE DEF s
    <3> QED
      BY <1>1, <3>1 DEF Pieces
  <2>3. p[n] \in Seq(R) /\ o[n] \in Nat /\ o[n + 1] \in Nat
    BY <1>0, <2>2
  <2>4. \A m \in 1 .. Len(r[n]) : Project(r[n][m], q.select) = T[o[n] + m]
    <3> TAKE m \in 1 .. Len(r[n])
    <3>0. r[n] \in Seq(R)
      BY <2>2, <2>3, MatchesListed
    <3>1. Len(r[n]) \in Nat
      BY <3>0
    <3> HIDE DEF r, s
    <3>2. o[n] + m \in 1 .. Len(s)
      BY <1>0, <2>2, <2>3, <3>1
    <3> QED
      BY <2>2, <3>2 DEF Selection
  <2> HIDE DEF T, s
  <2>5. TakeFromBlock(q, WindowAfter(T, o[n], q), p[n]) = WindowAfter(T, o[n] + Len(r[n]), q)
    <3>1. r[n] = MatchingRows(p[n], q.where)
      BY <2>2
    <3> HIDE DEF r
    <3>2. \A m \in 1 .. Len(MatchingRows(p[n], q.where)) :
            Project(MatchingRows(p[n], q.where)[m], q.select) = T[o[n] + m]
      BY <2>4, <3>1
    <3>3. TakeFromBlock(q, WindowAfter(T, o[n], q), p[n])
            = WindowAfter(T, o[n] + Len(MatchingRows(p[n], q.where)), q)
      BY <2>3, <3>2, WindowMoves
    <3> QED
      BY <3>1, <3>3
  <2>6. f[n] = TakeFromBlock(q, f[n - 1], p[n])
    BY <1>2 DEF Windows
  <2> QED
    BY <2>1, <2>2, <2>5, <2>6
<1>5. \A n \in 0 .. N : n \in P
  <2> HIDE DEF P
  <2> QED
    BY <1>3, <1>4, UpToN
<1>6. f[N] = WindowAfter(T, o[N + 1], q)
  BY <1>5
<1>7. o[N + 1] = Len(s)
  BY <1>1 DEF Pieces
<1> QED
  BY <1>2, <1>6, <1>7

(* A query without aggregates: the page of all that is selected.           *)
LEMMA WindowIsPage ==
  ASSUME NEW N \in Nat, NEW R, NEW p \in [1 .. N -> Seq(R)], NEW t \in Seq(R), NEW off,
         Pieces(p, N, t, off), NEW q, IsPage(q)
  PROVE  PageOfRows(Selection(MatchingRows(t, q.where), q.select), q)
           = IF q.offset > Len(MatchingRows(t, q.where)) THEN OutOfRange
             ELSE [rowCount |-> Len(MatchingRows(t, q.where)), rows |-> WindowOf(p, q).rows,
                   truncated |-> q.offset + q.limit < Len(MatchingRows(t, q.where))]
<1> DEFINE s == MatchingRows(t, q.where)
           l == Len(s)
           T == Selection(s, q.select)
           E == {Project(r, q.select) : r \in R}
           o == q.offset
           k == Taken(l, q)
<1>1. s \in Seq(R) /\ l \in Nat /\ o \in Nat /\ q.limit \in Nat
  <2>1. s \in Seq(R)
    BY MatchesListed
  <2> QED
    BY <2>1 DEF IsPage
<1>2. T \in Seq(E) /\ Len(T) = l
  <2>1. T \in [1 .. l -> E]
    <3>1. \A m \in 1 .. l : s[m] \in R
      BY <1>1
    <3> HIDE DEF s
    <3> QED
      BY <3>1 DEF Selection
  <2> HIDE DEF T, E, l
  <2> QED
    BY <1>1, <2>1, ListLength
<1>3. WindowOf(p, q).rows = Part(T, o, k)
  BY WindowPasses DEF WindowAfter
<1>4. CASE ~ (o > l)
  <2>1. k \in Nat /\ o + k = Min({o + q.limit, l})
    <3>1. o + q.limit \in Int /\ l \in Int
      BY <1>1
    <3>2. Min({o + q.limit, l}) = IF o + q.limit <= l THEN o + q.limit ELSE l
      <4> HIDE DEF l, o
      <4> QED
        BY <3>1, MinOfTwo
    <3>3. k = IF l <= o THEN 0 ELSE IF l - o <= q.limit THEN l - o ELSE q.limit
      BY DEF Taken
    <3> DEFINE x == Min({o + q.limit, l})
    <3> HIDE DEF l, o, k, x
    <3>4. x = IF o + q.limit <= l THEN o + q.limit ELSE l
      BY <3>2 DEF x
    <3>5. k \in Nat /\ o + k = x
      <4> DEFINE z == q.limit
      <4>1. z \in Nat /\ l \in Nat /\ o \in Nat
        BY <1>1
      <4>2. k = IF l <= o THEN 0 ELSE IF l - o <= z THEN l - o ELSE z
        BY <3>3
      <4>3. x = IF o + z <= l THEN o + z ELSE l
        BY <3>4
      <4> HIDE DEF z
      <4> QED
        BY <1>4, <4>1, <4>2, <4>3
    <3> QED
      BY <3>5 DEF x
  <2>2. o + k <= l
    <3>1. k = IF l <= o THEN 0 ELSE IF l - o <= q.limit THEN l - o ELSE q.limit
      BY DEF Taken
    <3> HIDE DEF l, k, o
    <3> QED
      BY <1>1, <1>4, <3>1
  <2>3. SubSeq(T, o + 1, o + k) = Part(T, o, k)
    <3> DEFINE a == SubSeq(T, o + 1, o + k)
               b == Part(T, o, k)
    <3> HIDE DEF T, E, k, o
    <3>1. a \in Seq(E) /\ Len(a) = k /\ \A r \in 1 .. k : a[r] = T[o + r]
      BY <1>1, <1>2, <2>1, <2>2, PartOfSequence
    <3>2. \A r \in 1 .. k : b[r] = T[o + r]
      BY DEF Part
    <3>3. b \in [1 .. k -> E]
      <4>1. \A r \in 1 .. k : T[o + r] \in E
        <5>1. \A r \in 1 .. k : o + r \in 1 .. Len(T)
          BY <1>1, <1>2, <2>1, <2>2
        <5> QED
          BY <1>2, <5>1
      <4> QED
        BY <4>1 DEF Part
    <3> HIDE DEF a, b
    <3>4. b \in Seq(E) /\ Len(b) = k
      BY <2>1, <3>3, ListLength
    <3>5. a = b
      BY <3>1, <3>2, <3>4, SeqEqual
    <3> QED
      BY <3>5 DEF a, b
  <2>4. PageOfRows(T, q) = [rowCount |-> l, rows |-> SubSeq(T, o + 1, o + k),
                            truncated |-> o + q.limit < l]
    <3> HIDE DEF T, k, l
    <3> QED
      BY <1>2, <1>4, <2>1 DEF PageOfRows
  <2> HIDE DEF T, k
  <2> QED
    BY <1>3, <1>4, <2>3, <2>4 DEF T
<1>5. CASE o > l
  <2> HIDE DEF T, l
  <2> QED
    BY <1>2, <1>5 DEF PageOfRows, T, l
<1> QED
  BY <1>4, <1>5

-----------------------------------------------------------------------------
(* Totals of numbers of either sign.                                       *)

(* f gives the total of b, numbers of either sign, over every subset of S. *)
Totals(f, b, S) ==
    /\ f \in [SUBSET S -> Int]
    /\ f[{}] = 0
    /\ \A s \in SUBSET S : \A x \in s : f[s] = b[x] + f[s \ {x}]

(* Finitely many numbers have a total.                                     *)
LEMMA TotalExists ==
  ASSUME NEW S, IsFiniteSet(S), NEW b \in [S -> Int]
  PROVE  \E f : Totals(f, b, S)
<1> DEFINE C == {T \in SUBSET S : ~ \E f : Totals(f, b, T)}
<1> SUFFICES ASSUME C # {} PROVE FALSE
  OBVIOUS
<1>1. \A T \in C : IsFiniteSet(T)
  BY FS_Subset
<1>2. PICK T \in C : \A U \in C : ~ (Cardinality(U) < Cardinality(T))
  <2> HIDE DEF C
  <2> QED
    BY <1>1, SmallestSet
<1>3. T \in SUBSET S /\ IsFiniteSet(T) /\ ~ \E f : Totals(f, b, T)
  BY <1>1, <1>2
<1>4. T # {}
  <2>1. ASSUME T = {} PROVE Totals([s \in SUBSET {} |-> 0], b, T)
    BY <2>1 DEF Totals
  <2> QED
    BY <1>3, <2>1
<1>5. PICK x : x \in T
  BY <1>4
<1>6. Cardinality(T \ {x}) < Cardinality(T)
  <2>1. Cardinality(T \ {x}) = Cardinality(T) - 1 /\ Cardinality(T) \in Nat
    BY <1>3, <1>5, FS_RemoveElement, FS_CardinalityType
  <2> QED
    BY <2>1
<1>7. PICK f : Totals(f, b, T \ {x})
  BY <1>2, <1>3, <1>6
<1> DEFINE F == [s \in SUBSET T |-> IF x \in s THEN b[x] + f[s \ {x}] ELSE f[s]]
<1>8. b[x] \in Int /\ \A y \in T : b[y] \in Int
  BY <1>3, <1>5
<1>9. \A s \in SUBSET T : s \ {x} \in SUBSET (T \ {x}) /\ f[s \ {x}] \in Int
  BY <1>7 DEF Totals
<1>10. \A s \in SUBSET T : x \notin s => s \in SUBSET (T \ {x}) /\ f[s] \in Int
  BY <1>7 DEF Totals
<1>11. F \in [SUBSET T -> Int]
  BY <1>8, <1>9, <1>10
<1>12. F[{}] = 0
  BY <1>7 DEF Totals
<1>13. ASSUME NEW s \in SUBSET T, NEW y \in s
       PROVE  F[s] = b[y] + F[s \ {y}]
  <2>1. s \ {y} \in SUBSET T
    OBVIOUS
  <2>2. CASE y = x
    <3>1. F[s] = b[x] + f[s \ {x}]
      BY <2>2
    <3>2. F[s \ {x}] = f[s \ {x}]
      BY <2>1, <2>2
    <3> QED
      BY <2>2, <3>1, <3>2
  <2>3. CASE y # x /\ x \in s
    <3>1. F[s] = b[x] + f[s \ {x}]
      BY <2>3
    <3>2. F[s \ {y}] = b[x] + f[(s \ {y}) \ {x}]
      BY <2>1, <2>3
    <3>3. (s \ {y}) \ {x} = (s \ {x}) \ {y}
      OBVIOUS
    <3>4. f[s \ {x}] = b[y] + f[(s \ {x}) \ {y}]
      BY <1>7, <1>9, <2>3 DEF Totals
    <3>5. f[(s \ {x}) \ {y}] \in Int
      BY <1>9, <2>1, <3>3
    <3>6. F[s] = b[x] + (b[y] + f[(s \ {x}) \ {y}]) /\ F[s \ {y}] = b[x] + f[(s \ {x}) \ {y}]
      BY <3>1, <3>2, <3>3, <3>4
    <3>7. b[y] \in Int
      BY <1>8
    <3> HIDE DEF F
    <3> QED
      BY <1>8, <3>5, <3>6, <3>7
  <2>4. CASE y # x /\ x \notin s
    <3>1. F[s] = f[s] /\ F[s \ {y}] = f[s \ {y}]
      BY <2>1, <2>4
    <3>2. f[s] = b[y] + f[s \ {y}]
      BY <1>7, <1>10, <2>4 DEF Totals
    <3> QED
      BY <3>1, <3>2
  <2> QED
    BY <2>2, <2>3, <2>4
<1>14. Totals(F, b, T)
  <2> HIDE DEF F
  <2> QED
    BY <1>11, <1>12, <1>13 DEF Totals
<1> QED
  BY <1>3, <1>14

(* A total adds the chosen element first, as the fold does.                *)
LEMMA TotalFolds ==
  ASSUME NEW S, NEW b, NEW f, Totals(f, b, S)
  PROVE  Folds(f, b, S)
<1>1. ASSUME NEW s \in SUBSET S, s # {}
      PROVE  f[s] = b[CHOOSE y \in s : TRUE] + f[s \ {CHOOSE y \in s : TRUE}]
  <2>1. (CHOOSE y \in s : TRUE) \in s
    BY <1>1
  <2> QED
    BY <2>1 DEF Totals
<1> QED
  BY <1>1 DEF Totals, Folds

(* That fold computes the total.                                           *)
LEMMA FoldIsTotal ==
  ASSUME NEW S, IsFiniteSet(S), NEW b, NEW f, Totals(f, b, S), NEW g, Folds(g, b, S)
  PROVE  g[S] = f[S]
<1> DEFINE C == {s \in SUBSET S : g[s] # f[s]}
<1> SUFFICES ASSUME C # {} PROVE FALSE
  OBVIOUS
<1>1. \A s \in C : IsFiniteSet(s)
  BY FS_Subset
<1>2. PICK s \in C : \A U \in C : ~ (Cardinality(U) < Cardinality(s))
  <2> HIDE DEF C
  <2> QED
    BY <1>1, SmallestSet
<1>3. s \in SUBSET S /\ g[s] # f[s]
  BY <1>2
<1>4. s # {}
  BY <1>3 DEF Totals, Folds
<1> DEFINE x == CHOOSE y \in s : TRUE
<1>5. x \in s
  BY <1>4
<1>6. g[s] = b[x] + g[s \ {x}]
  BY <1>3, <1>4 DEF Folds
<1>7. f[s] = b[x] + f[s \ {x}]
  BY <1>3, <1>5 DEF Totals
<1> HIDE DEF x
<1>8. Cardinality(s \ {x}) < Cardinality(s)
  <2>1. Cardinality(s \ {x}) = Cardinality(s) - 1 /\ Cardinality(s) \in Nat
    BY <1>1, <1>2, <1>5, FS_RemoveElement, FS_CardinalityType
  <2> QED
    BY <2>1
<1>9. s \ {x} \in SUBSET S /\ s \ {x} \notin C
  BY <1>2, <1>3, <1>8
<1>10. g[s \ {x}] = f[s \ {x}]
  BY <1>9
<1> QED
  BY <1>3, <1>6, <1>7, <1>10

(* The total of a column over the rows of T in S.                          *)
TotalOf(T, c, S) == MapThenSumSet(LAMBDA n : T[n][c], S)
CellsAt(T, c, S) == [n \in S |-> T[n][c]]

(* It is that total.                                                       *)
LEMMA TotalIsSum ==
  ASSUME NEW S, IsFiniteSet(S), NEW T, NEW c, NEW f, Totals(f, CellsAt(T, c, S), S)
  PROVE  TotalOf(T, c, S) = f[S]
<1> DEFINE b == CellsAt(T, c, S)
           F(g) == g = [s \in SUBSET S |->
                          IF s = {} THEN 0
                          ELSE LET x == CHOOSE y \in s : TRUE
                               IN  T[x][c] + g[s \ {x}]]
           G == CHOOSE g : F(g)
<1>1. TotalOf(T, c, S) = G[S]
  BY DEF TotalOf, MapThenSumSet, MapThenFoldSet
<1>2. \A s \in SUBSET S : s # {} => b[CHOOSE y \in s : TRUE] = T[CHOOSE y \in s : TRUE][c]
  <2> TAKE s \in SUBSET S
  <2> HAVE s # {}
  <2>1. (CHOOSE y \in s : TRUE) \in S
    OBVIOUS
  <2> QED
    BY <2>1 DEF CellsAt
<1> HIDE DEF b
<1>3. Folds(f, b, S)
  BY TotalFolds DEF b
<1>4. F(f)
  BY <1>2, <1>3, Zenon DEF Folds
<1>5. F(G)
  BY <1>4
<1> HIDE DEF G
<1>6. Folds(G, b, S)
  BY <1>2, <1>5, Zenon DEF Folds
<1>7. G[S] = f[S]
  BY <1>6, FoldIsTotal DEF b
<1> QED
  BY <1>1, <1>7

(* A total within a larger set.                                            *)
LEMMA TotalWithin ==
  ASSUME NEW S, IsFiniteSet(S), NEW T, NEW c, NEW f, Totals(f, CellsAt(T, c, S), S),
         NEW U \in SUBSET S
  PROVE  TotalOf(T, c, U) = f[U]
<1> DEFINE g == [s \in SUBSET U |-> f[s]]
           b == CellsAt(T, c, U)
<1>1. IsFiniteSet(U) /\ U \in SUBSET U /\ {} \in SUBSET U
  BY FS_Subset
<1>2. g \in [SUBSET U -> Int] /\ g[{}] = 0
  BY DEF Totals
<1>3. \A s \in SUBSET U : \A x \in s : g[s] = b[x] + g[s \ {x}]
  <2> TAKE s \in SUBSET U
  <2> TAKE x \in s
  <2>1. s \in SUBSET S /\ s \ {x} \in SUBSET U /\ x \in U /\ x \in S
    OBVIOUS
  <2>2. f[s] = CellsAt(T, c, S)[x] + f[s \ {x}]
    BY <2>1 DEF Totals
  <2> QED
    BY <2>1, <2>2 DEF CellsAt
<1>4. g[U] = f[U]
  BY <1>1
<1> HIDE DEF g
<1>5. Totals(g, b, U)
  <2> HIDE DEF b
  <2> QED
    BY <1>2, <1>3 DEF Totals
<1>6. TotalOf(T, c, U) = g[U]
  BY <1>1, <1>5, TotalIsSum
<1> QED
  BY <1>4, <1>6

(* Totals of numbers are numbers, and grow by what is added.               *)
LEMMA TotalGrows ==
  ASSUME NEW S, IsFiniteSet(S), NEW T, NEW c, \A n \in S : T[n][c] \in Int
  PROVE  /\ TotalOf(T, c, S) \in Int
         /\ S = {} => TotalOf(T, c, S) = 0
         /\ \A k \in S : TotalOf(T, c, S) = TotalOf(T, c, S \ {k}) + T[k][c]
<1> DEFINE b == CellsAt(T, c, S)
<1>1. b \in [S -> Int]
  BY DEF CellsAt
<1>2. PICK f : Totals(f, b, S)
  <2> HIDE DEF b
  <2> QED
    BY <1>1, TotalExists
<1>3. \A U \in SUBSET S : TotalOf(T, c, U) = f[U] /\ f[U] \in Int
  <2>1. \A U \in SUBSET S : f[U] \in Int
    BY <1>2 DEF Totals
  <2>2. \A U \in SUBSET S : TotalOf(T, c, U) = f[U]
    BY <1>2, TotalWithin
  <2> QED
    BY <2>1, <2>2
<1>4. S \in SUBSET S /\ \A k \in S : S \ {k} \in SUBSET S
  OBVIOUS
<1>5. \A k \in S : f[S] = b[k] + f[S \ {k}] /\ b[k] = T[k][c] /\ b[k] \in Int
  BY <1>1, <1>2, <1>4 DEF Totals, CellsAt
<1>6. S = {} => f[S] = 0
  BY <1>2 DEF Totals
<1>7. \A k \in S : TotalOf(T, c, S) = TotalOf(T, c, S \ {k}) + T[k][c]
  <2> TAKE k \in S
  <2>1. TotalOf(T, c, S) = f[S] /\ TotalOf(T, c, S \ {k}) = f[S \ {k}] /\ f[S \ {k}] \in Int
    BY <1>3, <1>4
  <2>2. f[S] = T[k][c] + f[S \ {k}] /\ T[k][c] \in Int
    BY <1>5
  <2> QED
    BY <2>1, <2>2
<1> QED
  BY <1>3, <1>4, <1>6, <1>7

-----------------------------------------------------------------------------
(* Executions: the groups of the rows, with the states of their aggregates.*)

(* What an execution has: keys of rows in R or the empty one, and for each *)
(* of them a state of every aggregate.                                     *)
KeysOver(R, q) == {Project(r, q.groupBy) : r \in R} \cup {<<>>}
AggregateStates == [count : Nat, total : Int, extreme : Int \cup {Null}]
StatesOf(q) == [DOMAIN q.aggregates -> AggregateStates]
ExecutionsOver(R, q) ==
    {e \in [matched : Nat, keys : Seq(KeysOver(R, q)), states : Seq(StatesOf(q))] :
        Len(e.keys) = Len(e.states)}

(* The columns that are aggregated hold numbers or nothing.                *)
HoldsNumbers(R, q) ==
    \A n \in DOMAIN q.aggregates : q.aggregates[n][2] # "*" =>
        \A r \in R : r[q.aggregates[n][2]] \in Int \cup {Null}

(* A row added to the states of a group, and the states a group had.       *)
NoStates(q) == [n \in DOMAIN q.aggregates |-> NoAggregate]
StatesAfter(q, states, row) ==
    [n \in DOMAIN q.aggregates |-> AddToAggregate(q.aggregates[n], states[n], row)]
StatesBefore(e, q, n) == IF n <= Len(e.keys) THEN e.states[n] ELSE NoStates(q)

(* A row leaves a state.                                                   *)
LEMMA AggregateStays ==
  ASSUME NEW a, NEW state \in AggregateStates, NEW row,
         a[2] # "*" => row[a[2]] \in Int \cup {Null}
  PROVE  AddToAggregate(a, state, row) \in AggregateStates
<1> DEFINE x == state.count
           y == state.total
           z == state.extreme
           cell == row[a[2]]
<1>1. x \in Nat /\ y \in Int /\ z \in Int \cup {Null}
      /\ state = [count |-> x, total |-> y, extreme |-> z]
  BY DEF AggregateStates
<1>2. CASE a[2] = "*"
  <2>1. AddToAggregate(a, state, row) = [state EXCEPT !.count = @ + 1]
    BY <1>2 DEF AddToAggregate
  <2> HIDE DEF x, y, z
  <2>2. [state EXCEPT !.count = @ + 1] = [count |-> x + 1, total |-> y, extreme |-> z]
    BY <1>1
  <2> QED
    BY <1>1, <2>1, <2>2 DEF AggregateStates
<1>3. CASE a[2] # "*" /\ cell = Null
  BY <1>3 DEF AddToAggregate
<1>4. CASE a[2] # "*" /\ cell # Null
  <2> DEFINE w == IF \/ z = Null
                     \/ a[1] = "min" /\ cell < z
                     \/ a[1] = "max" /\ cell > z
                  THEN cell ELSE z
  <2>1. cell \in Int
    BY <1>4
  <2>2. AddToAggregate(a, state, row) = [count |-> x + 1, total |-> y + cell, extreme |-> w]
    BY <1>4 DEF AddToAggregate
  <2>3. w \in Int \cup {Null}
    BY <1>1, <2>1
  <2> HIDE DEF x, y, w, cell
  <2> QED
    BY <1>1, <2>1, <2>2, <2>3 DEF AggregateStates
<1> QED
  BY <1>2, <1>3, <1>4

(* The states of a group, and of a new one.                                *)
LEMMA StatesStay ==
  ASSUME NEW R, NEW q, HoldsNumbers(R, q), NEW row \in R
  PROVE  /\ NoStates(q) \in StatesOf(q)
         /\ \A states \in StatesOf(q) : StatesAfter(q, states, row) \in StatesOf(q)
<1>1. NoAggregate \in AggregateStates
  BY DEF NoAggregate, AggregateStates
<1>2. NoStates(q) \in StatesOf(q)
  BY <1>1 DEF NoStates, StatesOf
<1>3. ASSUME NEW states \in StatesOf(q), NEW n \in DOMAIN q.aggregates
      PROVE  AddToAggregate(q.aggregates[n], states[n], row) \in AggregateStates
  <2>1. states[n] \in AggregateStates
    BY DEF StatesOf
  <2>2. q.aggregates[n][2] # "*" => row[q.aggregates[n][2]] \in Int \cup {Null}
    BY DEF HoldsNumbers
  <2> QED
    BY <2>1, <2>2, AggregateStays
<1>4. \A states \in StatesOf(q) : StatesAfter(q, states, row) \in StatesOf(q)
  BY <1>3 DEF StatesAfter, StatesOf
<1> QED
  BY <1>2, <1>4

(* One element more.                                                       *)
LEMMA Appended ==
  ASSUME NEW E, NEW s \in Seq(E), NEW x \in E
  PROVE  /\ Append(s, x) \in Seq(E) /\ Len(s) \in Nat
         /\ Len(Append(s, x)) = Len(s) + 1
         /\ \A n \in 1 .. Len(s) : Append(s, x)[n] = s[n]
         /\ Append(s, x)[Len(s) + 1] = x
OBVIOUS

(* f is e with a row of the key added: the key is there or comes last, and *)
(* the states of that group take the row in.                               *)
Extends(f, e, q, row, key) ==
    /\ f.matched = e.matched + 1
    /\ Contains(e.keys, key) => f.keys = e.keys
    /\ ~ Contains(e.keys, key) => f.keys = Append(e.keys, key)
    /\ \E k \in 1 .. Len(f.keys) :
         /\ f.keys[k] = key
         /\ \A n \in 1 .. Len(f.keys) :
              f.states[n] = IF n = k THEN StatesAfter(q, StatesBefore(e, q, n), row)
                            ELSE StatesBefore(e, q, n)

(* Adding a row does so.                                                   *)
LEMMA RowAdded ==
  ASSUME NEW R, NEW q, HoldsNumbers(R, q), NEW e \in ExecutionsOver(R, q), NEW row \in R
  PROVE  /\ AddRow(q, e, row) \in ExecutionsOver(R, q)
         /\ Extends(AddRow(q, e, row), e, q, row, Project(row, q.groupBy))
<1> DEFINE K == KeysOver(R, q)
           A == StatesOf(q)
           key == Project(row, q.groupBy)
           l == Len(e.keys)
           known == Contains(e.keys, key)
           keys == IF known THEN e.keys ELSE Append(e.keys, key)
           states == IF known THEN e.states ELSE Append(e.states, NoStates(q))
           at == CHOOSE n \in DOMAIN keys : keys[n] = key
           new == [states EXCEPT ![at] = StatesAfter(q, states[at], row)]
           f == AddRow(q, e, row)
<1>1. /\ e.matched \in Nat /\ e.keys \in Seq(K) /\ e.states \in Seq(A)
      /\ l \in Nat /\ Len(e.states) = l
  BY DEF ExecutionsOver
<1>2. key \in K /\ NoStates(q) \in A
  BY StatesStay DEF KeysOver
<1>3. f = [matched |-> e.matched + 1, keys |-> keys, states |-> new]
  BY DEF AddRow, NoStates, StatesAfter
<1> HIDE DEF K, A, key, f
<1>4. /\ keys \in Seq(K) /\ states \in Seq(A) /\ Len(keys) = Len(states) /\ Len(keys) \in Nat
      /\ \A n \in 1 .. Len(keys) : states[n] = StatesBefore(e, q, n)
      /\ \E n \in DOMAIN keys : keys[n] = key
  <2>1. CASE known
    <3>1. \E n \in 1 .. l : e.keys[n] = key
      BY <2>1 DEF Contains
    <3>2. DOMAIN keys = 1 .. l /\ keys = e.keys /\ states = e.states
      BY <1>1, <2>1
    <3>3. \A n \in 1 .. l : n <= l
      BY <1>1
    <3> QED
      BY <1>1, <3>1, <3>2, <3>3 DEF StatesBefore
  <2>2. CASE ~ known
    <3>1. /\ Append(e.keys, key) \in Seq(K) /\ Len(Append(e.keys, key)) = l + 1
          /\ Append(e.keys, key)[l + 1] = key
      BY <1>1, <1>2, Appended
    <3>2. /\ Append(e.states, NoStates(q)) \in Seq(A) /\ Len(Append(e.states, NoStates(q))) = l + 1
          /\ \A n \in 1 .. l : Append(e.states, NoStates(q))[n] = e.states[n]
          /\ Append(e.states, NoStates(q))[l + 1] = NoStates(q)
      BY <1>1, <1>2, Appended
    <3>3. keys = Append(e.keys, key) /\ states = Append(e.states, NoStates(q))
      BY <2>2
    <3> HIDE DEF keys, states
    <3>4. DOMAIN keys = 1 .. l + 1 /\ l + 1 \in DOMAIN keys
      BY <1>1, <3>1, <3>3
    <3>5. \A n \in 1 .. l + 1 : (n \in 1 .. l /\ n <= l) \/ (n = l + 1 /\ ~ (n <= l))
      <4>1. l \in Nat
        BY <1>1
      <4> HIDE DEF l
      <4> QED
        BY <4>1
    <3> QED
      BY <1>1, <3>1, <3>2, <3>3, <3>4, <3>5 DEF StatesBefore
  <2> QED
    BY <2>1, <2>2
<1>5. known => keys = e.keys
  OBVIOUS
<1>6. ~ known => keys = Append(e.keys, key)
  OBVIOUS
<1> HIDE DEF keys, states
<1>7. at \in 1 .. Len(keys) /\ keys[at] = key
  <2>1. DOMAIN keys = 1 .. Len(keys)
    BY <1>4
  <2>2. at \in DOMAIN keys /\ keys[at] = key
    BY <1>4
  <2> HIDE DEF at
  <2> QED
    BY <2>1, <2>2
<1> HIDE DEF at
<1>8. StatesAfter(q, states[at], row) \in A
  <2>1. states[at] \in A
    BY <1>4, <1>7
  <2> QED
    BY <2>1, StatesStay DEF A
<1>9. /\ new \in Seq(A) /\ Len(new) = Len(states)
      /\ \A n \in 1 .. Len(states) :
            new[n] = IF n = at THEN StatesAfter(q, states[at], row) ELSE states[n]
  <2> DEFINE x == StatesAfter(q, states[at], row)
             r == [states EXCEPT ![at] = x]
  <2>1. at \in 1 .. Len(states) /\ x \in A /\ states \in Seq(A)
    BY <1>4, <1>7, <1>8
  <2> HIDE DEF x
  <2>2. r \in Seq(A) /\ Len(r) = Len(states)
        /\ \A n \in 1 .. Len(states) : r[n] = IF n = at THEN x ELSE states[n]
    BY <2>1
  <2>3. new = r
    BY DEF x
  <2> QED
    BY <2>2, <2>3 DEF x
<1> HIDE DEF new
<1>10. f \in ExecutionsOver(R, q)
  <2>1. e.matched + 1 \in Nat
    BY <1>1
  <2> QED
    BY <1>3, <1>4, <1>9, <2>1 DEF ExecutionsOver, K, A
<1>11. f.matched = e.matched + 1 /\ f.keys = keys /\ f.states = new
  BY <1>3
<1>12. \A n \in 1 .. Len(f.keys) :
          f.states[n] = IF n = at THEN StatesAfter(q, StatesBefore(e, q, n), row)
                        ELSE StatesBefore(e, q, n)
  BY <1>4, <1>7, <1>9, <1>11
<1> QED
  BY <1>5, <1>6, <1>7, <1>10, <1>11, <1>12 DEF f, key, known, Extends

(* The first k rows of T that have a key, and those of them an aggregate   *)
(* counts.                                                                 *)
MembersTo(T, k, q, key) == {i \in 1 .. k : Project(T[i], q.groupBy) = key}
CountedTo(T, k, q, key, a) == {i \in MembersTo(T, k, q, key) : a[2] = "*" \/ T[i][a[2]] # Null}

(* A state is that of the rows C of T.                                     *)
StateIs(state, T, a, C) ==
    /\ state.count = Cardinality(C)
    /\ a[2] # "*" =>
         /\ state.total = TotalOf(T, a[2], C)
         /\ C = {} => state.extreme = Null
         /\ C # {} => \E i \in C : state.extreme = T[i][a[2]]
         /\ a[1] = "min" => \A i \in C : state.extreme <= T[i][a[2]]
         /\ a[1] = "max" => \A i \in C : state.extreme >= T[i][a[2]]

(* No rows have the state to start from.                                   *)
LEMMA StateOfNone ==
  ASSUME NEW T, NEW a
  PROVE  StateIs(NoAggregate, T, a, {})
<1>1. TotalOf(T, a[2], {}) = 0
  BY FS_EmptySet, TotalGrows
<1>2. Cardinality({}) = 0
  BY FS_EmptySet
<1> QED
  BY <1>1, <1>2 DEF StateIs, NoAggregate

(* One row more.                                                           *)
LEMMA StateMoves ==
  ASSUME NEW T, NEW a, NEW C, IsFiniteSet(C), NEW k, k \notin C, Null \notin Int,
         a[2] # "*" => T[k][a[2]] \in Int \cup {Null} /\ \A i \in C : T[i][a[2]] \in Int,
         NEW state \in AggregateStates, StateIs(state, T, a, C)
  PROVE  StateIs(AddToAggregate(a, state, T[k]), T, a,
                 IF a[2] = "*" \/ T[k][a[2]] # Null THEN C \cup {k} ELSE C)
<1> DEFINE x == state.count
           y == state.total
           z == state.extreme
           c == a[2]
           cell == T[k][c]
           D == C \cup {k}
<1>1. x \in Nat /\ y \in Int /\ z \in Int \cup {Null}
      /\ state = [count |-> x, total |-> y, extreme |-> z]
  BY DEF AggregateStates
<1>2. IsFiniteSet(D) /\ Cardinality(D) = Cardinality(C) + 1 /\ D \ {k} = C /\ k \in D /\ D # {}
  BY FS_AddElement
<1>3. CASE c = "*"
  <2>1. AddToAggregate(a, state, T[k]) = [state EXCEPT !.count = @ + 1]
    BY <1>3 DEF AddToAggregate
  <2> HIDE DEF x, y, z
  <2>2. [state EXCEPT !.count = @ + 1] = [count |-> x + 1, total |-> y, extreme |-> z]
    BY <1>1
  <2>3. x = Cardinality(C)
    BY DEF StateIs, x
  <2> QED
    BY <1>2, <1>3, <2>1, <2>2, <2>3 DEF StateIs
<1>4. CASE c # "*" /\ cell = Null
  <2>1. AddToAggregate(a, state, T[k]) = state
    BY <1>4 DEF AddToAggregate
  <2> QED
    BY <1>4, <2>1
<1>5. CASE c # "*" /\ cell # Null
  <2> DEFINE w == IF \/ z = Null
                     \/ a[1] = "min" /\ cell < z
                     \/ a[1] = "max" /\ cell > z
                  THEN cell ELSE z
             new == [count |-> x + 1, total |-> y + cell, extreme |-> w]
  <2>1. cell \in Int /\ \A i \in C : T[i][c] \in Int
    BY <1>5
  <2>2. AddToAggregate(a, state, T[k]) = new
    BY <1>5 DEF AddToAggregate
  <2>3. /\ x = Cardinality(C) /\ y = TotalOf(T, c, C)
        /\ C = {} => z = Null
        /\ C # {} => \E i \in C : z = T[i][c]
        /\ a[1] = "min" => \A i \in C : z <= T[i][c]
        /\ a[1] = "max" => \A i \in C : z >= T[i][c]
    BY <1>5 DEF StateIs
  <2>4. TotalOf(T, c, D) = TotalOf(T, c, D \ {k}) + T[k][c]
    <3>1. \A i \in D : T[i][c] \in Int
      BY <2>1
    <3> HIDE DEF D, c
    <3> QED
      BY <1>2, <3>1, TotalGrows
  <2>5. y + cell = TotalOf(T, c, D)
    <3>1. TotalOf(T, c, D) = TotalOf(T, c, C) + T[k][c]
      BY <1>2, <2>4
    <3> HIDE DEF D, c, y
    <3> QED
      BY <2>3, <3>1
  <2> HIDE DEF x, y, z, cell, D, c
  <2>6. \E i \in D : w = T[i][c]
    <3>1. CASE w = cell
      BY <1>2, <3>1 DEF cell
    <3>2. CASE w # cell
      <4>1. w = z /\ z # Null
        BY <3>2
      <4>2. PICK i \in C : z = T[i][c]
        BY <2>3, <4>1
      <4>3. i \in D
        BY DEF D
      <4> QED
        BY <4>1, <4>2, <4>3
    <3> QED
      BY <3>1, <3>2
  <2>7. C = {} \/ z \in Int
    BY <2>1, <2>3
  <2>8. \A i \in D : i \in C \/ T[i][c] = cell
    BY DEF D, cell
  <2>9. a[1] = "min" => \A i \in D : w <= T[i][c]
    <3> SUFFICES ASSUME a[1] = "min", NEW i \in D PROVE w <= T[i][c]
      OBVIOUS
    <3>1. CASE C = {}
      <4>1. z = Null /\ T[i][c] = cell
        BY <2>3, <2>8, <3>1
      <4> QED
        BY <2>1, <4>1
    <3>2. CASE C # {}
      <4>1. z \in Int /\ z # Null
        BY <2>7, <3>2
      <4>2. w = IF cell < z THEN cell ELSE z
        BY <4>1
      <4>3. w <= cell /\ w <= z /\ w \in Int
        BY <2>1, <4>1, <4>2
      <4>4. CASE i \in C
        <5>1. z <= T[i][c] /\ T[i][c] \in Int
          BY <2>1, <2>3, <4>4
        <5> HIDE DEF w
        <5> QED
          BY <4>1, <4>3, <5>1
      <4> QED
        BY <2>8, <4>3, <4>4
    <3> QED
      BY <3>1, <3>2
  <2>10. a[1] = "max" => \A i \in D : w >= T[i][c]
    <3> SUFFICES ASSUME a[1] = "max", NEW i \in D PROVE w >= T[i][c]
      OBVIOUS
    <3>1. CASE C = {}
      <4>1. z = Null /\ T[i][c] = cell
        BY <2>3, <2>8, <3>1
      <4> QED
        BY <2>1, <4>1
    <3>2. CASE C # {}
      <4>1. z \in Int /\ z # Null
        BY <2>7, <3>2
      <4>2. w = IF cell > z THEN cell ELSE z
        BY <4>1
      <4>3. w >= cell /\ w >= z /\ w \in Int
        BY <2>1, <4>1, <4>2
      <4>4. CASE i \in C
        <5>1. z >= T[i][c] /\ T[i][c] \in Int
          BY <2>1, <2>3, <4>4
        <5> HIDE DEF w
        <5> QED
          BY <4>1, <4>3, <5>1
      <4> QED
        BY <2>8, <4>3, <4>4
    <3> QED
      BY <3>1, <3>2
  <2> HIDE DEF w
  <2>11. new.count = Cardinality(D) /\ new.total = TotalOf(T, c, D) /\ new.extreme = w
    BY <1>2, <2>3, <2>5
  <2> HIDE DEF new
  <2>12. StateIs(new, T, a, D)
    BY <1>2, <2>6, <2>9, <2>10, <2>11 DEF StateIs, c
  <2> QED
    BY <1>5, <2>2, <2>12 DEF D, c, cell
<1> QED
  BY <1>3, <1>4, <1>5

(* The groups of an execution after the first k rows of T: each key once,  *)
(* in the order of their first rows, with the states of their rows.        *)
InTurn(T, k, q, e) ==
    \A m, n \in 1 .. Len(e.keys) : m < n =>
        /\ e.keys[m] # e.keys[n]
        /\ q.groupBy # <<>> =>
             \E i \in MembersTo(T, k, q, e.keys[m]) :
                \A j \in MembersTo(T, k, q, e.keys[n]) : i < j

Known(T, k, q, e) ==
    /\ \A i \in 1 .. k : Contains(e.keys, Project(T[i], q.groupBy))
    /\ q.groupBy = <<>> => Len(e.keys) = 1 /\ e.keys[1] = <<>>
    /\ q.groupBy # <<>> => \A n \in 1 .. Len(e.keys) : MembersTo(T, k, q, e.keys[n]) # {}

StatesAre(T, k, q, e) ==
    \A n \in 1 .. Len(e.keys) : \A a \in DOMAIN q.aggregates :
        StateIs(e.states[n][a], T, q.aggregates[a], CountedTo(T, k, q, e.keys[n], q.aggregates[a]))

Grouped(T, k, q, e) ==
    e.matched = k /\ InTurn(T, k, q, e) /\ Known(T, k, q, e) /\ StatesAre(T, k, q, e)

(* Without a grouping every row has the empty key.                         *)
LEMMA EmptyKey ==
  ASSUME NEW row
  PROVE  Project(row, <<>>) = <<>>
BY DEF Project

(* The next row joins the group of its key.                                *)
LEMMA MembersMove ==
  ASSUME NEW T, NEW k \in Nat, NEW q, NEW key
  PROVE  /\ \A i : i \in MembersTo(T, k + 1, q, key)
                <=> i \in MembersTo(T, k, q, key) \/ (i = k + 1 /\ Project(T[i], q.groupBy) = key)
         /\ MembersTo(T, k, q, key) \in SUBSET (1 .. k)
<1>1. \A i : i \in 1 .. k + 1 <=> i \in 1 .. k \/ i = k + 1
  OBVIOUS
<1> QED
  BY <1>1 DEF MembersTo

(* Where it is not counted, those that were are.                           *)
LEMMA CountedStay ==
  ASSUME NEW T, NEW k \in Nat, NEW q, NEW key, NEW a
  PROVE  /\ ~ (Project(T[k + 1], q.groupBy) = key /\ (a[2] = "*" \/ T[k + 1][a[2]] # Null)) =>
              CountedTo(T, k + 1, q, key, a) = CountedTo(T, k, q, key, a)
         /\ IsFiniteSet(CountedTo(T, k, q, key, a)) /\ k + 1 \notin CountedTo(T, k, q, key, a)
<1>1. \A i : i \in CountedTo(T, k + 1, q, key, a)
                <=> \/ i \in CountedTo(T, k, q, key, a)
                    \/ /\ i = k + 1
                       /\ Project(T[k + 1], q.groupBy) = key
                       /\ a[2] = "*" \/ T[k + 1][a[2]] # Null
  BY MembersMove DEF CountedTo
<1>2. CountedTo(T, k, q, key, a) \in SUBSET (1 .. k) /\ k + 1 \notin 1 .. k
  BY MembersMove DEF CountedTo
<1>3. IsFiniteSet(CountedTo(T, k, q, key, a)) /\ k + 1 \notin CountedTo(T, k, q, key, a)
  BY <1>2, FS_Interval, FS_Subset
<1> QED
  BY <1>1, <1>3

(* What is counted of the first rows holds numbers.                        *)
LEMMA CountedAreNumbers ==
  ASSUME NEW R, NEW T \in Seq(R), NEW q, HoldsNumbers(R, q), NEW k \in 0 .. Len(T), NEW key,
         NEW n \in DOMAIN q.aggregates, q.aggregates[n][2] # "*"
  PROVE  /\ \A i \in 1 .. Len(T) : T[i][q.aggregates[n][2]] \in Int \cup {Null}
         /\ \A i \in CountedTo(T, k, q, key, q.aggregates[n]) : T[i][q.aggregates[n][2]] \in Int
<1>1. \A i \in 1 .. Len(T) : T[i] \in R
  OBVIOUS
<1>2. \A i \in 1 .. Len(T) : T[i][q.aggregates[n][2]] \in Int \cup {Null}
  BY <1>1 DEF HoldsNumbers
<1>3. \A i \in 1 .. k : i \in 1 .. Len(T)
  OBVIOUS
<1>4. \A i \in CountedTo(T, k, q, key, q.aggregates[n]) :
        i \in 1 .. k /\ T[i][q.aggregates[n][2]] # Null
  BY DEF CountedTo, MembersTo
<1> QED
  BY <1>2, <1>3, <1>4

(* A row moves the groups on.                                              *)
LEMMA GroupsMove ==
  ASSUME NEW R, NEW T \in Seq(R), NEW q, HoldsNumbers(R, q), Null \notin Int,
         NEW k \in Nat, k + 1 <= Len(T), NEW e \in ExecutionsOver(R, q), Grouped(T, k, q, e)
  PROVE  /\ AddRow(q, e, T[k + 1]) \in ExecutionsOver(R, q)
         /\ Grouped(T, k + 1, q, AddRow(q, e, T[k + 1]))
<1> DEFINE row == T[k + 1]
           f == AddRow(q, e, row)
           key == Project(row, q.groupBy)
           l == Len(e.keys)
           M(x) == MembersTo(T, k, q, x)
           M1(x) == MembersTo(T, k + 1, q, x)
<1>1. row \in R /\ Len(T) \in Nat /\ k \in 0 .. Len(T) /\ k + 1 \in 1 .. Len(T)
  OBVIOUS
<1>2. /\ f \in ExecutionsOver(R, q)
      /\ f.matched = e.matched + 1
      /\ Contains(e.keys, key) => f.keys = e.keys
      /\ ~ Contains(e.keys, key) => f.keys = Append(e.keys, key)
      /\ \E p \in 1 .. Len(f.keys) :
           /\ f.keys[p] = key
           /\ \A n \in 1 .. Len(f.keys) :
                f.states[n] = IF n = p THEN StatesAfter(q, StatesBefore(e, q, n), row)
                              ELSE StatesBefore(e, q, n)
  <2> HIDE DEF row, f, key
  <2>1. AddRow(q, e, row) \in ExecutionsOver(R, q) /\ Extends(AddRow(q, e, row), e, q, row, Project(row, q.groupBy))
    BY <1>1, RowAdded
  <2>2. f \in ExecutionsOver(R, q) /\ Extends(f, e, q, row, key)
    BY <2>1 DEF f, key
  <2> QED
    BY <2>2 DEF Extends
<1>3. PICK p \in 1 .. Len(f.keys) :
           /\ f.keys[p] = key
           /\ \A n \in 1 .. Len(f.keys) :
                f.states[n] = IF n = p THEN StatesAfter(q, StatesBefore(e, q, n), row)
                              ELSE StatesBefore(e, q, n)
  BY <1>2
<1>4. /\ e.keys \in Seq(KeysOver(R, q)) /\ l \in Nat /\ Len(e.states) = l /\ e.states \in Seq(StatesOf(q))
      /\ f.keys \in Seq(KeysOver(R, q)) /\ Len(f.keys) \in Nat
  BY <1>2 DEF ExecutionsOver
<1> HIDE DEF f, row, key
<1>5. key \in KeysOver(R, q)
  BY <1>1 DEF key, KeysOver
<1>6. /\ ~ Contains(e.keys, key) => /\ Len(f.keys) = l + 1 /\ f.keys[l + 1] = key
                                    /\ q.groupBy # <<>> /\ M(key) = {}
      /\ Contains(e.keys, key) => Len(f.keys) = l
      /\ \A n \in 1 .. l : f.keys[n] = e.keys[n]
      /\ l <= Len(f.keys)
  <2>1. CASE ~ Contains(e.keys, key)
    <3>1. f.keys = Append(e.keys, key)
      BY <1>2, <2>1
    <3>2. /\ Len(f.keys) = l + 1 /\ f.keys[l + 1] = key
          /\ \A n \in 1 .. l : f.keys[n] = e.keys[n]
      BY <1>4, <1>5, <3>1, Appended
    <3>3. q.groupBy # <<>>
      <4> SUFFICES ASSUME q.groupBy = <<>> PROVE FALSE
        OBVIOUS
      <4>1. key = <<>>
        BY EmptyKey DEF key
      <4>2. l = 1 /\ e.keys[1] = <<>>
        BY DEF Grouped, Known
      <4> QED
        BY <2>1, <4>1, <4>2 DEF Contains
    <3>4. M(key) = {}
      BY <2>1 DEF Grouped, Known, MembersTo
    <3> QED
      BY <1>4, <2>1, <3>2, <3>3, <3>4
  <2>2. CASE Contains(e.keys, key)
    BY <1>2, <1>4, <2>2
  <2> QED
    BY <2>1, <2>2
<1>7. \A n \in 1 .. Len(f.keys) : n \in 1 .. l \/ (n = l + 1 /\ ~ Contains(e.keys, key))
  BY <1>4, <1>6
<1>8. \A x : /\ \A i : i \in M1(x) <=> i \in M(x) \/ (i = k + 1 /\ key = x)
             /\ M(x) \in SUBSET (1 .. k)
  BY MembersMove DEF key, row
<1> HIDE DEF M, M1
<1>9. InTurn(T, k + 1, q, f)
  <2> SUFFICES ASSUME NEW m \in 1 .. Len(f.keys), NEW n \in 1 .. Len(f.keys), m < n
               PROVE  /\ f.keys[m] # f.keys[n]
                      /\ q.groupBy # <<>> => \E i \in M1(f.keys[m]) : \A j \in M1(f.keys[n]) : i < j
    BY DEF InTurn, M1
  <2>1. m \in 1 .. l /\ f.keys[m] = e.keys[m]
    BY <1>4, <1>6, <1>7
  <2>2. CASE n \in 1 .. l
    <3>1. /\ e.keys[m] # e.keys[n] /\ f.keys[n] = e.keys[n]
          /\ q.groupBy # <<>> => \E i \in M(e.keys[m]) : \A j \in M(e.keys[n]) : i < j
      BY <1>6, <2>1, <2>2 DEF Grouped, InTurn, M
    <3>2. ASSUME q.groupBy # <<>>
          PROVE  \E i \in M1(f.keys[m]) : \A j \in M1(f.keys[n]) : i < j
      <4>1. PICK i \in M(e.keys[m]) : \A j \in M(e.keys[n]) : i < j
        BY <3>1, <3>2
      <4>2. i \in 1 .. k
        BY <1>8, <4>1
      <4>3. i < k + 1
        BY <4>2
      <4>4. i \in M1(f.keys[m])
        BY <1>8, <2>1, <4>1
      <4>5. \A j \in M1(f.keys[n]) : j \in M(e.keys[n]) \/ j = k + 1
        BY <1>8, <3>1
      <4> QED
        BY <4>1, <4>3, <4>4, <4>5
    <3> QED
      BY <2>1, <3>1, <3>2
  <2>3. CASE n = l + 1 /\ ~ Contains(e.keys, key)
    <3>1. f.keys[n] = key /\ M1(key) = {k + 1}
      BY <1>6, <1>8, <2>3
    <3>2. e.keys[m] # key
      BY <2>1, <2>3 DEF Contains
    <3>3. M(e.keys[m]) # {}
      BY <1>6, <2>1, <2>3 DEF Grouped, Known, M
    <3>4. PICK i : i \in M(e.keys[m])
      BY <3>3
    <3>6. i \in M1(f.keys[m])
      BY <1>8, <2>1, <3>4
    <3>5. i < k + 1
      <4>1. i \in 1 .. k
        BY <1>8, <3>4
      <4> QED
        BY <4>1
    <3> QED
      BY <2>1, <3>1, <3>2, <3>5, <3>6
  <2> QED
    BY <1>7, <2>2, <2>3
<1>10. Known(T, k + 1, q, f)
  <2>1. ASSUME NEW i \in 1 .. k + 1
        PROVE  Contains(f.keys, Project(T[i], q.groupBy))
    <3>1. CASE i = k + 1
      BY <1>3, <3>1 DEF Contains, key, row
    <3>2. CASE i # k + 1
      <4>1. i \in 1 .. k
        BY <3>2
      <4>2. PICK n \in 1 .. l : e.keys[n] = Project(T[i], q.groupBy)
        BY <4>1 DEF Grouped, Known, Contains
      <4>3. n \in 1 .. Len(f.keys) /\ f.keys[n] = e.keys[n]
        BY <1>4, <1>6
      <4> QED
        BY <4>2, <4>3 DEF Contains
    <3> QED
      BY <3>1, <3>2
  <2>2. ASSUME q.groupBy = <<>>
        PROVE  Len(f.keys) = 1 /\ f.keys[1] = <<>>
    <3>1. l = 1 /\ e.keys[1] = <<>>
      BY <2>2 DEF Grouped, Known
    <3>2. Len(f.keys) = l /\ f.keys[1] = e.keys[1]
      BY <1>6, <2>2, <3>1
    <3> QED
      BY <3>1, <3>2
  <2>3. ASSUME q.groupBy # <<>>, NEW n \in 1 .. Len(f.keys)
        PROVE  M1(f.keys[n]) # {}
    <3>1. CASE n \in 1 .. l
      <4>1. M(e.keys[n]) # {} /\ f.keys[n] = e.keys[n]
        BY <1>6, <2>3, <3>1 DEF Grouped, Known, M
      <4> QED
        BY <1>8, <4>1
    <3>2. CASE n = l + 1 /\ ~ Contains(e.keys, key)
      BY <1>6, <1>8, <3>2
    <3> QED
      BY <1>7, <3>1, <3>2
  <2> QED
    BY <2>1, <2>2, <2>3 DEF Known, M1
<1>11. StatesAre(T, k + 1, q, f)
  <2> SUFFICES ASSUME NEW n \in 1 .. Len(f.keys), NEW b \in DOMAIN q.aggregates
               PROVE  StateIs(f.states[n][b], T, q.aggregates[b],
                              CountedTo(T, k + 1, q, f.keys[n], q.aggregates[b]))
    BY DEF StatesAre
  <2> DEFINE a == q.aggregates[b]
             x == f.keys[n]
             C == CountedTo(T, k, q, x, a)
             s == StatesBefore(e, q, n)
  <2>1. /\ IsFiniteSet(C) /\ k + 1 \notin C
        /\ CountedTo(T, k + 1, q, x, a)
              = IF key = x THEN IF a[2] = "*" \/ row[a[2]] # Null THEN C \cup {k + 1} ELSE C
                ELSE C
    <3> HIDE DEF x, a
    <3>1. IsFiniteSet(C) /\ k + 1 \notin C
      BY CountedStay
    <3>2. CASE key = x /\ (a[2] = "*" \/ row[a[2]] # Null)
      <4>1. CountedTo(T, k + 1, q, x, a) = C \cup {k + 1}
        <5>1. Project(T[k + 1], q.groupBy) = x /\ (a[2] = "*" \/ T[k + 1][a[2]] # Null)
          BY <3>2 DEF key, row
        <5>2. \A i : i \in CountedTo(T, k + 1, q, x, a) <=> i \in CountedTo(T, k, q, x, a) \/ i = k + 1
          <6>1. \A i : i \in MembersTo(T, k + 1, q, x)
                          <=> i \in MembersTo(T, k, q, x) \/ (i = k + 1 /\ Project(T[i], q.groupBy) = x)
            BY MembersMove
          <6> QED
            BY <5>1, <6>1 DEF CountedTo
        <5> QED
          BY <5>2
      <4> HIDE DEF C
      <4> QED
        BY <3>1, <3>2, <4>1
    <3>3. CASE ~ (key = x /\ (a[2] = "*" \/ row[a[2]] # Null))
      <4>1. CountedTo(T, k + 1, q, x, a) = C
        BY <3>3, CountedStay DEF key, row
      <4> HIDE DEF C
      <4> QED
        BY <3>1, <3>3, <4>1
    <3> QED
      BY <3>2, <3>3
  <2>2. s \in StatesOf(q) /\ StateIs(s[b], T, a, C)
    <3>1. CASE n \in 1 .. l
      <4>1. s = e.states[n] /\ x = e.keys[n]
        BY <1>4, <1>6, <3>1 DEF StatesBefore
      <4>2. e.states[n] \in StatesOf(q)
        BY <1>4, <3>1
      <4> QED
        BY <3>1, <4>1, <4>2 DEF Grouped, StatesAre
    <3>2. CASE n = l + 1 /\ ~ Contains(e.keys, key)
      <4>1. s = NoStates(q)
        BY <1>4, <3>2 DEF StatesBefore
      <4>2. x = key /\ C = {}
        BY <1>6, <3>2 DEF CountedTo, M
      <4>3. s[b] = NoAggregate
        BY <4>1 DEF NoStates
      <4>4. NoStates(q) \in StatesOf(q)
        BY <1>1, StatesStay
      <4>5. StateIs(NoAggregate, T, a, {})
        BY StateOfNone
      <4> HIDE DEF s, C, a
      <4> QED
        BY <4>1, <4>2, <4>3, <4>4, <4>5
    <3> QED
      BY <1>7, <3>1, <3>2
  <2>3. s[b] \in AggregateStates
    BY <2>2 DEF StatesOf
  <2>4. a[2] # "*" => T[k + 1][a[2]] \in Int \cup {Null} /\ \A i \in C : T[i][a[2]] \in Int
    BY <1>1, CountedAreNumbers
  <2>5. p = n <=> x = key
    <3>1. x = key => p = n
      <4> SUFFICES ASSUME x = key, p # n PROVE FALSE
        OBVIOUS
      <4>1. p < n \/ n < p
        BY <1>4
      <4> QED
        BY <1>3, <1>9, <4>1 DEF InTurn
    <3> QED
      BY <1>3, <3>1
  <2> HIDE DEF s, C, x, a
  <2>6. CASE n = p
    <3>1. f.states[n][b] = AddToAggregate(a, s[b], T[k + 1])
      BY <1>3, <2>6 DEF StatesAfter, s, a, row
    <3>2. StateIs(AddToAggregate(a, s[b], T[k + 1]), T, a,
                 IF a[2] = "*" \/ T[k + 1][a[2]] # Null THEN C \cup {k + 1} ELSE C)
      BY <2>1, <2>2, <2>3, <2>4, StateMoves
    <3> QED
      BY <2>1, <2>5, <2>6, <3>1, <3>2 DEF row, a, x
  <2>7. CASE n # p
    <3>1. f.states[n][b] = s[b]
      BY <1>3, <2>7 DEF s
    <3> QED
      BY <2>1, <2>2, <2>5, <2>7, <3>1 DEF a, x
  <2> QED
    BY <2>6, <2>7
<1>12. f.matched = k + 1
  BY <1>2 DEF Grouped
<1> QED
  BY <1>2, <1>9, <1>10, <1>11, <1>12 DEF Grouped, f, row

(* h[i] is the execution e after the first i rows of s.                    *)
Executes(h, s, q, e) ==
    h[0] = e /\ \A i \in 1 .. Len(s) : h[i] = AddRow(q, h[i - 1], s[i])

(* The matches of a block are added one after the other.                   *)
LEMMA BlockFolds ==
  ASSUME NEW R, NEW q, HoldsNumbers(R, q), NEW e \in ExecutionsOver(R, q), NEW block \in Seq(R)
  PROVE  \E h : /\ Executes(h, MatchingRows(block, q.where), q, e)
                /\ AggregateBlock(q, e, block) = h[Len(MatchingRows(block, q.where))]
<1> DEFINE A == ExecutionsOver(R, q)
           s == MatchingRows(block, q.where)
           N == Len(s)
           F(g) == g = [t \in SUBSET (1 .. N) |->
                          IF t = {} THEN e
                          ELSE LET i == Max(t)
                               IN  AddRow(q, g[t \ {i}], s[i])]
           st == [a \in A \X (1 .. N) |-> AddRow(q, a[1], s[a[2]])]
           G == CHOOSE g : F(g)
           h == [n \in 0 .. N |-> G[1 .. n]]
<1>1. s \in Seq(R) /\ N \in Nat /\ DOMAIN s = 1 .. N
  <2>1. s \in Seq(R)
    BY MatchesListed
  <2> HIDE DEF s
  <2> QED
    BY <2>1
<1>3. AggregateBlock(q, e, block) = G[1 .. N]
  <2>1. DOMAIN MatchingRows(block, q.where) = 1 .. N
    BY <1>1
  <2> HIDE DEF N
  <2> QED
    BY <2>1 DEF AggregateBlock, FoldLeft, MapThenFoldSet
<1> HIDE DEF s, N
<1>4. st \in [A \X (1 .. N) -> A]
  <2>1. \A w \in A, i \in 1 .. N : AddRow(q, w, s[i]) \in A
    <3> TAKE w \in A, i \in 1 .. N
    <3>1. s[i] \in R
      BY <1>1
    <3> QED
      BY <3>1, RowAdded
  <2> HIDE DEF A
  <2> QED
    BY <2>1
<1> HIDE DEF A
<1>5. PICK g \in [SUBSET (1 .. N) -> A] : FoldsUp(g, e, st, N)
  <2>1. e \in A
    BY DEF A
  <2> HIDE DEF st
  <2> QED
    BY <1>1, <1>4, <2>1, FoldUpExists
<1>6. F(g)
  <2>1. \A t \in SUBSET (1 .. N) : t # {} =>
            /\ Max(t) \in 1 .. N /\ t \ {Max(t)} \in SUBSET (1 .. N)
            /\ g[t \ {Max(t)}] \in A
            /\ st[<<g[t \ {Max(t)}], Max(t)>>] = AddRow(q, g[t \ {Max(t)}], s[Max(t)])
    BY <1>1, GreatestPlace
  <2> HIDE DEF st
  <2> QED
    BY <1>5, <2>1, Zenon DEF FoldsUp
<1>7. F(G)
  BY <1>6
<1> HIDE DEF G, st
<1>8. h[0] = e /\ h[N] = G[1 .. N]
  <2>1. G[{}] = e /\ 1 .. 0 = {} /\ 0 \in 0 .. N /\ N \in 0 .. N
    BY <1>1, <1>7
  <2> QED
    BY <2>1
<1>9. ASSUME NEW n \in 1 .. N
      PROVE  h[n] = AddRow(q, h[n - 1], s[n])
  <2>1. 1 .. n \in SUBSET (1 .. N) /\ 1 .. n # {} /\ Max(1 .. n) = n /\ (1 .. n) \ {n} = 1 .. n - 1
    BY <1>1, LastPlace
  <2>2. G[1 .. n] = AddRow(q, G[1 .. n - 1], s[n])
    BY <1>7, <2>1
  <2>3. n \in 0 .. N /\ n - 1 \in 0 .. N
    BY <1>1
  <2> QED
    BY <2>2, <2>3
<1> HIDE DEF h
<1>10. Executes(h, s, q, e)
  BY <1>8, <1>9 DEF Executes, N
<1> QED
  BY <1>3, <1>8, <1>10 DEF s, N

(* A block leaves an execution.                                            *)
LEMMA BlockStays ==
  ASSUME NEW R, NEW q, HoldsNumbers(R, q), NEW e \in ExecutionsOver(R, q), NEW block \in Seq(R)
  PROVE  AggregateBlock(q, e, block) \in ExecutionsOver(R, q)
<1> DEFINE s == MatchingRows(block, q.where)
<1>1. PICK h : Executes(h, s, q, e) /\ AggregateBlock(q, e, block) = h[Len(s)]
  BY BlockFolds
<1>2. s \in Seq(R) /\ Len(s) \in Nat
  <2>1. s \in Seq(R)
    BY MatchesListed
  <2> QED
    BY <2>1
<1> HIDE DEF s
<1> DEFINE P == {n \in 0 .. Len(s) : h[n] \in ExecutionsOver(R, q)}
<1>3. 0 \in P
  BY <1>1, <1>2 DEF Executes
<1>4. ASSUME NEW n \in 1 .. Len(s), n - 1 \in P PROVE n \in P
  <2>1. h[n] = AddRow(q, h[n - 1], s[n]) /\ s[n] \in R /\ n \in 0 .. Len(s)
    BY <1>1, <1>2 DEF Executes
  <2>2. h[n - 1] \in ExecutionsOver(R, q)
    BY <1>4
  <2> QED
    BY <2>1, <2>2, RowAdded
<1>5. \A n \in 0 .. Len(s) : n \in P
  <2> HIDE DEF P
  <2> QED
    BY <1>2, <1>3, <1>4, UpToN
<1> QED
  BY <1>1, <1>2, <1>5

(* A block moves the groups over its matches.                              *)
LEMMA BlockGroups ==
  ASSUME NEW R, NEW T \in Seq(R), NEW q, HoldsNumbers(R, q), Null \notin Int,
         NEW k \in Nat, NEW e \in ExecutionsOver(R, q), Grouped(T, k, q, e),
         NEW block \in Seq(R), k + Len(MatchingRows(block, q.where)) <= Len(T),
         \A m \in 1 .. Len(MatchingRows(block, q.where)) :
            MatchingRows(block, q.where)[m] = T[k + m]
  PROVE  Grouped(T, k + Len(MatchingRows(block, q.where)), q, AggregateBlock(q, e, block))
<1> DEFINE s == MatchingRows(block, q.where)
           X == ExecutionsOver(R, q)
<1>1. PICK h : Executes(h, s, q, e) /\ AggregateBlock(q, e, block) = h[Len(s)]
  BY BlockFolds
<1>2. s \in Seq(R) /\ Len(s) \in Nat
  <2>1. s \in Seq(R)
    BY MatchesListed
  <2> QED
    BY <2>1
<1>0. Len(T) \in Nat
  OBVIOUS
<1> HIDE DEF s
<1> DEFINE P == {n \in 0 .. Len(s) : h[n] \in X /\ Grouped(T, k + n, q, h[n])}
<1>3. 0 \in P
  BY <1>1, <1>2 DEF Executes
<1>4. ASSUME NEW n \in 1 .. Len(s), n - 1 \in P PROVE n \in P
  <2> DEFINE j == k + (n - 1)
             d == h[n - 1]
  <2>1. h[n] = AddRow(q, d, s[n]) /\ s[n] = T[k + n] /\ n \in 0 .. Len(s)
    BY <1>1, <1>2 DEF Executes, s
  <2>2. d \in X /\ Grouped(T, j, q, d)
    BY <1>4
  <2>3. j \in Nat /\ j + 1 = k + n /\ j + 1 <= Len(T)
    <3>1. n \in Nat /\ n >= 1 /\ n <= Len(s) /\ k + Len(s) <= Len(T)
      BY <1>2 DEF s
    <3> QED
      BY <1>0, <1>2, <3>1
  <2> HIDE DEF j, d, X
  <2>4. AddRow(q, d, T[j + 1]) \in X /\ Grouped(T, j + 1, q, AddRow(q, d, T[j + 1]))
    BY <2>2, <2>3, GroupsMove DEF X
  <2> QED
    BY <2>1, <2>3, <2>4
<1>5. \A n \in 0 .. Len(s) : n \in P
  <2> HIDE DEF P
  <2> QED
    BY <1>2, <1>3, <1>4, UpToN
<1>6. Grouped(T, k + Len(s), q, h[Len(s)])
  BY <1>2, <1>5
<1> QED
  BY <1>1, <1>6 DEF s

-----------------------------------------------------------------------------
(* The aggregates of a query, block after block.                           *)
ExecutionOf(p, q) == FoldLeft(LAMBDA e, b : AggregateBlock(q, e, b), NewExecution(q), p)

(* f[n] is the execution after n blocks.                                   *)
Aggregates(f, N, p, q) ==
    /\ f[0] = NewExecution(q)
    /\ \A n \in 1 .. N : f[n] = AggregateBlock(q, f[n - 1], p[n])

(* To begin with there is the one group of a query without grouping.       *)
LEMMA FirstExecution ==
  ASSUME NEW R, NEW q, HoldsNumbers(R, q), NEW T
  PROVE  NewExecution(q) \in ExecutionsOver(R, q) /\ Grouped(T, 0, q, NewExecution(q))
<1> DEFINE e == NewExecution(q)
<1>1. NoAggregate \in AggregateStates
  BY DEF NoAggregate, AggregateStates
<1>2. NoStates(q) \in StatesOf(q)
  BY <1>1 DEF NoStates, StatesOf
<1>3. <<>> \in KeysOver(R, q)
  BY DEF KeysOver
<1>4. CASE q.groupBy = <<>>
  <2>1. e = [matched |-> 0, keys |-> <<(<<>>)>>, states |-> <<NoStates(q)>>]
    BY <1>4 DEF NewExecution, NoStates
  <2>2. /\ e.matched = 0 /\ Len(e.keys) = 1 /\ e.keys[1] = <<>> /\ e.states[1] = NoStates(q)
        /\ e \in ExecutionsOver(R, q)
    <3>1. <<(<<>>)>> \in Seq(KeysOver(R, q)) /\ <<NoStates(q)>> \in Seq(StatesOf(q))
      BY <1>2, <1>3
    <3>2. Len(<<(<<>>)>>) = 1 /\ Len(<<NoStates(q)>>) = 1 /\ <<NoStates(q)>>[1] = NoStates(q)
          /\ <<(<<>>)>>[1] = <<>>
      OBVIOUS
    <3> HIDE DEF e
    <3> QED
      BY <2>1, <3>1, <3>2 DEF ExecutionsOver
  <2> HIDE DEF e
  <2>3. InTurn(T, 0, q, e)
    BY <2>2 DEF InTurn
  <2>4. Known(T, 0, q, e)
    BY <1>4, <2>2 DEF Known
  <2>5. StatesAre(T, 0, q, e)
    <3> SUFFICES ASSUME NEW n \in 1 .. Len(e.keys), NEW a \in DOMAIN q.aggregates
                 PROVE  StateIs(e.states[n][a], T, q.aggregates[a],
                                CountedTo(T, 0, q, e.keys[n], q.aggregates[a]))
      BY DEF StatesAre
    <3>1. e.states[n][a] = NoAggregate
      BY <2>2 DEF NoStates
    <3>2. CountedTo(T, 0, q, e.keys[n], q.aggregates[a]) = {}
      BY DEF CountedTo, MembersTo
    <3> QED
      BY <3>1, <3>2, StateOfNone
  <2> QED
    BY <2>2, <2>3, <2>4, <2>5 DEF Grouped, e
<1>5. CASE q.groupBy # <<>>
  <2>1. e = [matched |-> 0, keys |-> <<>>, states |-> <<>>]
    BY <1>5 DEF NewExecution
  <2>2. e.matched = 0 /\ Len(e.keys) = 0 /\ e \in ExecutionsOver(R, q)
    <3> HIDE DEF e
    <3> QED
      BY <2>1 DEF ExecutionsOver
  <2> HIDE DEF e
  <2> QED
    BY <1>5, <2>2 DEF Grouped, InTurn, Known, StatesAre, e
<1> QED
  BY <1>4, <1>5

(* The blocks are aggregated one after the other.                          *)
LEMMA ExecutionFolds ==
  ASSUME NEW N \in Nat, NEW R, NEW p \in [1 .. N -> Seq(R)], NEW q, HoldsNumbers(R, q)
  PROVE  \E f : Aggregates(f, N, p, q) /\ ExecutionOf(p, q) = f[N]
<1> DEFINE A == ExecutionsOver(R, q)
           F(g) == g = [s \in SUBSET (1 .. N) |->
                          IF s = {} THEN NewExecution(q)
                          ELSE LET i == Max(s)
                               IN  AggregateBlock(q, g[s \ {i}], p[i])]
           st == [a \in A \X (1 .. N) |-> AggregateBlock(q, a[1], p[a[2]])]
           G == CHOOSE g : F(g)
           f == [n \in 0 .. N |-> G[1 .. n]]
<1>1. NewExecution(q) \in A
  BY FirstExecution
<1>2. DOMAIN p = 1 .. N
  OBVIOUS
<1>3. ExecutionOf(p, q) = G[1 .. N]
  BY <1>2 DEF ExecutionOf, FoldLeft, MapThenFoldSet
<1>4. st \in [A \X (1 .. N) -> A]
  <2>1. \A w \in A, i \in 1 .. N : AggregateBlock(q, w, p[i]) \in A
    <3> TAKE w \in A, i \in 1 .. N
    <3>1. p[i] \in Seq(R)
      OBVIOUS
    <3> QED
      BY <3>1, BlockStays
  <2> HIDE DEF A
  <2> QED
    BY <2>1
<1> HIDE DEF A
<1>5. PICK g \in [SUBSET (1 .. N) -> A] : FoldsUp(g, NewExecution(q), st, N)
  <2> HIDE DEF st
  <2> QED
    BY <1>1, <1>4, FoldUpExists
<1>6. F(g)
  <2>1. \A s \in SUBSET (1 .. N) : s # {} =>
            /\ Max(s) \in 1 .. N /\ s \ {Max(s)} \in SUBSET (1 .. N)
            /\ g[s \ {Max(s)}] \in A
            /\ st[<<g[s \ {Max(s)}], Max(s)>>] = AggregateBlock(q, g[s \ {Max(s)}], p[Max(s)])
    BY GreatestPlace
  <2> HIDE DEF st
  <2> QED
    BY <1>5, <2>1, Zenon DEF FoldsUp
<1>7. F(G)
  BY <1>6
<1> HIDE DEF G, st
<1>8. f[0] = NewExecution(q) /\ f[N] = G[1 .. N]
  <2>1. G[{}] = NewExecution(q) /\ 1 .. 0 = {} /\ 0 \in 0 .. N /\ N \in 0 .. N
    BY <1>7
  <2> QED
    BY <2>1
<1>9. ASSUME NEW n \in 1 .. N
      PROVE  f[n] = AggregateBlock(q, f[n - 1], p[n])
  <2>1. 1 .. n \in SUBSET (1 .. N) /\ 1 .. n # {} /\ Max(1 .. n) = n /\ (1 .. n) \ {n} = 1 .. n - 1
    BY LastPlace
  <2>2. G[1 .. n] = AggregateBlock(q, G[1 .. n - 1], p[n])
    BY <1>7, <2>1
  <2>3. n \in 0 .. N /\ n - 1 \in 0 .. N
    OBVIOUS
  <2> QED
    BY <2>2, <2>3
<1> HIDE DEF f
<1>10. Aggregates(f, N, p, q)
  BY <1>8, <1>9 DEF Aggregates
<1> QED
  BY <1>3, <1>8, <1>10

(* After the blocks of a dataset, the groups are those of all its matches. *)
LEMMA ExecutionGroups ==
  ASSUME NEW N \in Nat, NEW R, NEW p \in [1 .. N -> Seq(R)], NEW t \in Seq(R), NEW off,
         Pieces(p, N, t, off), NEW q, HoldsNumbers(R, q), Null \notin Int
  PROVE  LET T == MatchingRows(t, q.where)
         IN /\ ExecutionOf(p, q) \in ExecutionsOver(R, q)
            /\ Grouped(T, Len(T), q, ExecutionOf(p, q))
<1> DEFINE r == [n \in 1 .. N |-> MatchingRows(p[n], q.where)]
           T == MatchingRows(t, q.where)
           X == ExecutionsOver(R, q)
<1>1. PICK o : Pieces(r, N, T, o)
  BY MatchesOfPieces
<1>2. PICK f : Aggregates(f, N, p, q) /\ ExecutionOf(p, q) = f[N]
  BY ExecutionFolds
<1>0. T \in Seq(R) /\ Len(T) \in Nat
  <2>1. T \in Seq(R)
    BY MatchesListed
  <2> QED
    BY <2>1
<1> DEFINE P == {n \in 0 .. N : f[n] \in X /\ Grouped(T, o[n + 1], q, f[n])}
<1>3. 0 \in P
  <2>1. o[0 + 1] = 0 /\ 0 \in 0 .. N
    BY <1>1 DEF Pieces
  <2>2. f[0] \in X /\ Grouped(T, 0, q, f[0])
    BY <1>2, FirstExecution DEF Aggregates
  <2> HIDE DEF T, X
  <2> QED
    BY <2>1, <2>2
<1>4. ASSUME NEW n \in 1 .. N, n - 1 \in P
      PROVE  n \in P
  <2>1. f[n - 1] \in X /\ Grouped(T, o[(n - 1) + 1], q, f[n - 1])
        /\ (n - 1) + 1 = n /\ n \in 0 .. N
    BY <1>4
  <2>2. /\ o[n + 1] = o[n] + Len(r[n]) /\ r[n] = MatchingRows(p[n], q.where)
        /\ o[n] \in 0 .. Len(T) /\ o[n + 1] \in 0 .. Len(T)
        /\ \A m \in 1 .. Len(r[n]) : r[n][m] = T[o[n] + m]
    <3>1. n \in 1 .. N + 1 /\ n + 1 \in 1 .. N + 1
      OBVIOUS
    <3> HIDE DEF T
    <3> QED
      BY <1>1, <3>1 DEF Pieces
  <2>3. p[n] \in Seq(R) /\ o[n] \in Nat /\ o[n + 1] \in Nat /\ o[n + 1] <= Len(T)
    BY <1>0, <2>2
  <2>4. f[n] = AggregateBlock(q, f[n - 1], p[n])
    BY <1>2 DEF Aggregates
  <2> HIDE DEF T
  <2>5. f[n] \in X
    BY <2>1, <2>3, <2>4, BlockStays
  <2> DEFINE s == MatchingRows(p[n], q.where)
  <2>6. o[n] + Len(s) <= Len(T) /\ \A m \in 1 .. Len(s) : s[m] = T[o[n] + m]
    BY <2>2, <2>3
  <2>7. Grouped(T, o[n] + Len(s), q, AggregateBlock(q, f[n - 1], p[n]))
    BY <1>0, <2>1, <2>3, <2>6, BlockGroups
  <2> QED
    BY <2>1, <2>2, <2>4, <2>5, <2>7
<1>5. \A n \in 0 .. N : n \in P
  <2> HIDE DEF P
  <2> QED
    BY <1>3, <1>4, UpToN
<1>6. f[N] \in X /\ Grouped(T, o[N + 1], q, f[N])
  BY <1>5
<1>7. o[N + 1] = Len(T)
  BY <1>1 DEF Pieces
<1> QED
  BY <1>2, <1>6, <1>7

-----------------------------------------------------------------------------
(* The groups in the order of the other engine.                            *)

(* The groups of the rows T, each with its rows, in the order of their     *)
(* first ones.                                                             *)
GroupMembers(T, q, key) == {n \in DOMAIN T : Project(T[n], q.groupBy) = key}
FoundKeys(T, q) == {Project(T[n], q.groupBy) : n \in DOMAIN T}
GroupKeys(T, q) ==
    IF q.groupBy = <<>> THEN <<(<<>>)>>
    ELSE InOrder(FoundKeys(T, q),
                 LAMBDA x, y : Min(GroupMembers(T, q, x)) < Min(GroupMembers(T, q, y)))
FirstOrder(T, q) ==
    {r \in FoundKeys(T, q) \X FoundKeys(T, q) :
        Min(GroupMembers(T, q, r[1])) < Min(GroupMembers(T, q, r[2]))}

(* The least member of a set of numbers.                                   *)
LEMMA LeastMember ==
  ASSUME NEW S \in SUBSET Nat, S # {}
  PROVE  Min(S) \in S /\ \A j \in S : Min(S) <= j
BY LeastElement DEF Min

(* That order, of two keys; and the rows of a key.                         *)
LEMMA FirstsTell ==
  ASSUME NEW R, NEW T \in Seq(R), NEW q
  PROVE  /\ \A x, y \in FoundKeys(T, q) :
              <<x, y>> \in FirstOrder(T, q)
                <=> Min(GroupMembers(T, q, x)) < Min(GroupMembers(T, q, y))
         /\ \A key : /\ GroupMembers(T, q, key) = MembersTo(T, Len(T), q, key)
                     /\ GroupMembers(T, q, key) \in SUBSET Nat
         /\ \A x \in FoundKeys(T, q) :
              /\ GroupMembers(T, q, x) # {}
              /\ Min(GroupMembers(T, q, x)) \in GroupMembers(T, q, x)
              /\ \A j \in GroupMembers(T, q, x) : Min(GroupMembers(T, q, x)) <= j
<1>1. DOMAIN T = 1 .. Len(T) /\ Len(T) \in Nat
  OBVIOUS
<1>2. \A x, y \in FoundKeys(T, q) :
              <<x, y>> \in FirstOrder(T, q)
                <=> Min(GroupMembers(T, q, x)) < Min(GroupMembers(T, q, y))
  BY DEF FirstOrder
<1>3. \A key : /\ GroupMembers(T, q, key) = MembersTo(T, Len(T), q, key)
               /\ GroupMembers(T, q, key) \in SUBSET Nat
  BY <1>1 DEF GroupMembers, MembersTo
<1>4. \A x \in FoundKeys(T, q) : GroupMembers(T, q, x) # {}
  BY DEF FoundKeys, GroupMembers
<1>5. \A x \in FoundKeys(T, q) :
              /\ Min(GroupMembers(T, q, x)) \in GroupMembers(T, q, x)
              /\ \A j \in GroupMembers(T, q, x) : Min(GroupMembers(T, q, x)) <= j
  BY <1>3, <1>4, LeastMember
<1> QED
  BY <1>2, <1>3, <1>4, <1>5

(* It orders the keys.                                                     *)
LEMMA FirstsOrder ==
  ASSUME NEW R, NEW T \in Seq(R), NEW q
  PROVE  Orders(FoundKeys(T, q), FirstOrder(T, q))
<1> DEFINE F == FoundKeys(T, q)
           L == FirstOrder(T, q)
           m == [x \in F |-> Min(GroupMembers(T, q, x))]
<1>1. \A x, y \in F : <<x, y>> \in L <=> m[x] < m[y]
  BY FirstsTell
<1>2. \A x \in F : m[x] \in Nat
  BY FirstsTell
<1>3. \A x, y \in F : m[x] = m[y] => x = y
  <2> SUFFICES ASSUME NEW x \in F, NEW y \in F, m[x] = m[y] PROVE x = y
    OBVIOUS
  <2>1. m[x] \in GroupMembers(T, q, x) /\ m[x] \in GroupMembers(T, q, y)
    BY FirstsTell
  <2> QED
    BY <2>1 DEF GroupMembers
<1> HIDE DEF F, L, m
<1>4. \A x, y \in F : x # y => <<x, y>> \in L \/ <<y, x>> \in L
  BY <1>1, <1>2, <1>3
<1>5. \A x, y \in F : x # y => ~ (<<x, y>> \in L /\ <<y, x>> \in L)
  BY <1>1, <1>2
<1>6. \A x, y, z \in F : <<x, y>> \in L /\ <<y, z>> \in L => <<x, z>> \in L
  BY <1>1, <1>2
<1> QED
  BY <1>4, <1>5, <1>6 DEF Orders, F, L

(* The n-th of the first l numbers.                                        *)
LEMMA RankUpTo ==
  ASSUME NEW l \in Nat, NEW n \in 1 .. l
  PROVE  OrderRank(1 .. l, LessThan, n) = n - 1
<1>1. 1 .. l \in SUBSET Nat
  OBVIOUS
<1>2. OrderRank(1 .. l, LessThan, n) = RankIn(1 .. l, n)
  BY <1>1, RankOfNumber
<1>3. {j \in 1 .. l : j < n} = 1 .. n - 1
  OBVIOUS
<1>4. Cardinality(1 .. n - 1) = n - 1
  <2>1. 1 \in Int /\ n - 1 \in Int
    OBVIOUS
  <2>2. Cardinality(1 .. n - 1) = IF 1 > n - 1 THEN 0 ELSE (n - 1) - 1 + 1
    BY <2>1, FS_Interval
  <2> QED
    BY <2>2
<1> QED
  BY <1>2, <1>3, <1>4 DEF RankIn

(* An execution that has the groups lists their keys in that order.        *)
LEMMA OrderedGroups ==
  ASSUME NEW R, NEW T \in Seq(R), NEW q, NEW e \in ExecutionsOver(R, q),
         Grouped(T, Len(T), q, e)
  PROVE  e.keys = GroupKeys(T, q)
<1> DEFINE l == Len(e.keys)
           F == FoundKeys(T, q)
           M == FirstOrder(T, q)
           G(x) == GroupMembers(T, q, x)
           h == [n \in 1 .. l |-> e.keys[n]]
<1>1. e.keys \in Seq(KeysOver(R, q)) /\ l \in Nat
  BY DEF ExecutionsOver
<1>2. CASE q.groupBy = <<>>
  <2>1. l = 1 /\ e.keys[1] = <<>>
    BY <1>2 DEF Grouped, Known
  <2>2. e.keys = <<(<<>>)>>
    BY <1>1, <2>1
  <2> QED
    BY <1>2, <2>2 DEF GroupKeys
<1>3. CASE q.groupBy # <<>>
  <2>1. \A n \in 1 .. l : e.keys[n] \in F
    <3> TAKE n \in 1 .. l
    <3>1. MembersTo(T, Len(T), q, e.keys[n]) # {}
      BY <1>3 DEF Grouped, Known
    <3>2. PICK i \in 1 .. Len(T) : Project(T[i], q.groupBy) = e.keys[n]
      BY <3>1 DEF MembersTo
    <3> QED
      BY <3>2 DEF FoundKeys
  <2>2. \A z \in F : \E n \in 1 .. l : e.keys[n] = z
    <3> TAKE z \in F
    <3>1. PICK i \in 1 .. Len(T) : Project(T[i], q.groupBy) = z
      BY DEF FoundKeys
    <3>2. Contains(e.keys, z)
      BY <3>1 DEF Grouped, Known
    <3> QED
      BY <1>1, <3>2 DEF Contains
  <2>3. \A m, n \in 1 .. l : m < n => e.keys[m] # e.keys[n] /\ Min(G(e.keys[m])) < Min(G(e.keys[n]))
    <3> SUFFICES ASSUME NEW m \in 1 .. l, NEW n \in 1 .. l, m < n
                 PROVE  e.keys[m] # e.keys[n] /\ Min(G(e.keys[m])) < Min(G(e.keys[n]))
      OBVIOUS
    <3>1. /\ e.keys[m] # e.keys[n]
          /\ \E i \in G(e.keys[m]) : \A j \in G(e.keys[n]) : i < j
      <4>1. /\ e.keys[m] # e.keys[n]
            /\ \E i \in MembersTo(T, Len(T), q, e.keys[m]) :
                  \A j \in MembersTo(T, Len(T), q, e.keys[n]) : i < j
        BY <1>3 DEF Grouped, InTurn
      <4>2. /\ G(e.keys[m]) = MembersTo(T, Len(T), q, e.keys[m])
            /\ G(e.keys[n]) = MembersTo(T, Len(T), q, e.keys[n])
        BY FirstsTell
      <4> HIDE DEF G
      <4> QED
        BY <4>1, <4>2
    <3>2. PICK i \in G(e.keys[m]) : \A j \in G(e.keys[n]) : i < j
      BY <3>1
    <3>3. /\ e.keys[m] \in F /\ e.keys[n] \in F
      BY <2>1
    <3>4. /\ Min(G(e.keys[m])) <= i /\ Min(G(e.keys[n])) \in G(e.keys[n])
          /\ Min(G(e.keys[m])) \in Nat /\ Min(G(e.keys[n])) \in Nat /\ i \in Nat
      <4>1. /\ Min(G(e.keys[m])) <= i /\ Min(G(e.keys[n])) \in G(e.keys[n])
            /\ Min(G(e.keys[m])) \in G(e.keys[m])
        BY <3>2, <3>3, FirstsTell
      <4>2. G(e.keys[m]) \in SUBSET Nat /\ G(e.keys[n]) \in SUBSET Nat
        BY FirstsTell
      <4> HIDE DEF G
      <4> QED
        BY <3>2, <4>1, <4>2
    <3>5. i < Min(G(e.keys[n]))
      BY <3>2, <3>4
    <3> HIDE DEF G
    <3> QED
      BY <3>1, <3>4, <3>5
  <2>4. Carries(h, 1 .. l, LessThan, F, M)
    <3>1. h \in [1 .. l -> F]
      BY <2>1
    <3>2. \A x, y \in 1 .. l : h[x] = h[y] => x = y
      <4> SUFFICES ASSUME NEW x \in 1 .. l, NEW y \in 1 .. l, h[x] = h[y] PROVE x = y
        OBVIOUS
      <4>1. ~ (x < y) /\ ~ (y < x)
        BY <2>3
      <4> HIDE DEF h, l
      <4> QED
        BY <1>1, <4>1
    <3>3. \A z \in F : \E x \in 1 .. l : h[x] = z
      BY <2>2
    <3>4. ASSUME NEW x \in 1 .. l, NEW y \in 1 .. l, x # y
          PROVE  <<x, y>> \in LessThan <=> <<h[x], h[y]>> \in M
      <4>1. <<h[x], h[y]>> \in M <=> Min(G(h[x])) < Min(G(h[y]))
        BY <2>1, FirstsTell
      <4>2. x < y => Min(G(h[x])) < Min(G(h[y]))
        BY <2>3
      <4>3. y < x => Min(G(h[y])) < Min(G(h[x]))
        BY <2>3
      <4>4. Min(G(h[x])) \in Nat /\ Min(G(h[y])) \in Nat
        BY <2>1, FirstsTell
      <4>5. <<x, y>> \in LessThan <=> x < y
        BY <1>1 DEF LessThan
      <4>6. x \in Nat /\ y \in Nat
        BY <1>1
      <4> HIDE DEF h, G, M, l
      <4> QED
        BY <3>4, <4>1, <4>2, <4>3, <4>4, <4>5, <4>6
    <3> HIDE DEF h, F, M
    <3> QED
      BY <3>1, <3>2, <3>3, <3>4 DEF Carries
  <2>5. IsFiniteSet(1 .. l) /\ Cardinality(1 .. l) = l
    <3>1. 1 \in Int /\ l \in Int
      BY <1>1
    <3>2. IsFiniteSet(1 .. l) /\ Cardinality(1 .. l) = IF 1 > l THEN 0 ELSE l - 1 + 1
      BY <3>1, FS_Interval
    <3> HIDE DEF l
    <3> QED
      BY <1>1, <3>2
  <2>6. /\ IsFiniteSet(F) /\ Cardinality(F) = l
        /\ \A n \in 1 .. l : OrderRank(F, M, h[n]) = OrderRank(1 .. l, LessThan, n)
    <3> HIDE DEF F, M, h
    <3> QED
      BY <2>4, <2>5, RankIsCarried
  <2>7. \A n \in 1 .. l : e.keys[n] \in F /\ OrderRank(F, M, e.keys[n]) = n - 1
    BY <1>1, <2>1, <2>6, RankUpTo
  <2>8. Orders(F, M)
    BY FirstsOrder
  <2> DEFINE Nth(n) == CHOOSE x \in F : Cardinality({y \in F \ {x} : Min(G(y)) < Min(G(x))}) = n - 1
  <2>9. GroupKeys(T, q) = [n \in 1 .. Cardinality(F) |-> Nth(n)]
    BY <1>3 DEF GroupKeys, InOrder
  <2>10. \A x \in F : Cardinality({y \in F \ {x} : Min(G(y)) < Min(G(x))}) = OrderRank(F, M, x)
    <3> TAKE x \in F
    <3>1. \A y \in F : <<y, x>> \in M <=> Min(G(y)) < Min(G(x))
      BY FirstsTell
    <3> HIDE DEF F, M, G
    <3>2. {y \in F \ {x} : Min(G(y)) < Min(G(x))} = Earlier(F, M, x)
      BY <3>1 DEF Earlier
    <3> QED
      BY <3>2 DEF OrderRank
  <2> HIDE DEF F, M, G
  <2>11. ASSUME NEW n \in 1 .. l
         PROVE  Nth(n) = e.keys[n]
    <3>1. \E x \in F : Cardinality({y \in F \ {x} : Min(G(y)) < Min(G(x))}) = n - 1
      BY <2>7, <2>10
    <3>2. Nth(n) \in F /\ Cardinality({y \in F \ {Nth(n)} : Min(G(y)) < Min(G(Nth(n)))}) = n - 1
      BY <3>1
    <3> HIDE DEF Nth
    <3>3. OrderRank(F, M, Nth(n)) = n - 1
      BY <2>10, <3>2
    <3>4. \A x, y \in F : OrderRank(F, M, x) = OrderRank(F, M, y) => x = y
      BY <2>6, <2>8, RanksDiffer
    <3> QED
      BY <2>7, <3>2, <3>3, <3>4
  <2> HIDE DEF Nth
  <2>12. e.keys = [n \in 1 .. l |-> e.keys[n]]
    BY <1>1
  <2> QED
    BY <2>6, <2>9, <2>11, <2>12
<1> QED
  BY <1>2, <1>3

(* The value of an aggregate of a group, as the other engine has it.       *)
GroupCounted(T, q, key, a) == {n \in GroupMembers(T, q, key) : a[2] = "*" \/ T[n][a[2]] # Null}
CellsAmong(T, a, C) == {T[n][a[2]] : n \in C}
ValueOf(T, a, C) ==
    IF a[1] = "count" THEN Cardinality(C)
    ELSE IF C = {} THEN Null
    ELSE CASE a[1] = "sum" -> TotalOf(T, a[2], C)
           [] a[1] = "avg" -> <<TotalOf(T, a[2], C), Cardinality(C)>>
           [] a[1] = "min" -> Min(CellsAmong(T, a, C))
           [] a[1] = "max" -> Max(CellsAmong(T, a, C))

(* An aggregate is one of the five, and only a count is of the rows.       *)
IsAggregate(a) ==
    a[1] \in {"count", "sum", "avg", "min", "max"} /\ (a[2] = "*" => a[1] = "count")

(* The state of rows finishes as their value.                              *)
LEMMA StateFinishes ==
  ASSUME NEW T, NEW a, IsAggregate(a), NEW C, IsFiniteSet(C), Null \notin Int,
         a[2] # "*" => \A i \in C : T[i][a[2]] \in Int,
         NEW state, StateIs(state, T, a, C)
  PROVE  FinishAggregate(a, state) = ValueOf(T, a, C)
<1>1. Cardinality(C) \in Nat /\ (Cardinality(C) = 0 <=> C = {})
  BY FS_CardinalityType, FS_EmptySet
<1>2. CASE a[1] = "count"
  BY <1>2 DEF FinishAggregate, ValueOf, StateIs
<1>3. CASE a[1] = "sum"
  <2>1. a[2] # "*"
    BY <1>3 DEF IsAggregate
  <2>2. state.count = Cardinality(C) /\ state.total = TotalOf(T, a[2], C)
    BY <2>1 DEF StateIs
  <2>3. FinishAggregate(a, state) = IF state.count = 0 THEN Null ELSE state.total
    BY <1>3 DEF FinishAggregate
  <2>4. ValueOf(T, a, C) = IF C = {} THEN Null ELSE TotalOf(T, a[2], C)
    BY <1>3 DEF ValueOf
  <2> QED
    BY <1>1, <2>2, <2>3, <2>4
<1>4. CASE a[1] = "avg"
  <2>1. a[2] # "*"
    BY <1>4 DEF IsAggregate
  <2>2. state.count = Cardinality(C) /\ state.total = TotalOf(T, a[2], C)
    BY <2>1 DEF StateIs
  <2>3. FinishAggregate(a, state) = IF state.count = 0 THEN Null ELSE <<state.total, state.count>>
    BY <1>4 DEF FinishAggregate
  <2>4. ValueOf(T, a, C) = IF C = {} THEN Null ELSE <<TotalOf(T, a[2], C), Cardinality(C)>>
    BY <1>4 DEF ValueOf
  <2> QED
    BY <1>1, <2>2, <2>3, <2>4
<1>5. CASE a[1] = "min" \/ a[1] = "max"
  <2>1. a[2] # "*"
    BY <1>5 DEF IsAggregate
  <2>2. FinishAggregate(a, state) = state.extreme
    BY <1>5 DEF FinishAggregate
  <2>3. CASE C = {}
    <3>1. ValueOf(T, a, C) = Null
      BY <1>5, <2>3 DEF ValueOf
    <3>2. state.extreme = Null
      BY <2>1, <2>3 DEF StateIs
    <3> QED
      BY <2>2, <3>1, <3>2
  <2>4. CASE C # {}
    <3> DEFINE z == state.extreme
               V == CellsAmong(T, a, C)
    <3>1. /\ \A i \in C : T[i][a[2]] \in Int
          /\ \E i \in C : z = T[i][a[2]]
          /\ a[1] = "min" => \A i \in C : z <= T[i][a[2]]
          /\ a[1] = "max" => \A i \in C : z >= T[i][a[2]]
      BY <2>1, <2>4 DEF StateIs
    <3>2. V \in SUBSET Int /\ z \in V
      BY <3>1 DEF CellsAmong
    <3>3. CASE a[1] = "min"
      <4>1. ValueOf(T, a, C) = Min(V)
        BY <2>4, <3>3 DEF ValueOf
      <4>2. \A y \in V : z <= y
        BY <3>1, <3>3 DEF CellsAmong
      <4> HIDE DEF z, V
      <4>3. Min(V) \in V /\ \A y \in V : Min(V) <= y
        BY <3>2, <4>2 DEF Min
      <4>4. Min(V) = z
        <5>1. Min(V) \in Int /\ z \in Int /\ Min(V) <= z /\ z <= Min(V)
          BY <3>2, <4>2, <4>3
        <5> QED
          BY <5>1
      <4> QED
        BY <2>2, <4>1, <4>4 DEF z
    <3>4. CASE a[1] = "max"
      <4>1. ValueOf(T, a, C) = Max(V)
        BY <2>4, <3>4 DEF ValueOf
      <4>2. \A y \in V : z >= y
        BY <3>1, <3>4 DEF CellsAmong
      <4> HIDE DEF z, V
      <4>3. Max(V) \in V /\ \A y \in V : Max(V) >= y
        BY <3>2, <4>2 DEF Max
      <4>4. Max(V) = z
        <5>1. Max(V) \in Int /\ z \in Int /\ Max(V) <= z /\ z <= Max(V)
          BY <3>2, <4>2, <4>3
        <5> QED
          BY <5>1
      <4> QED
        BY <2>2, <4>1, <4>4 DEF z
    <3> QED
      BY <1>5, <3>3, <3>4
  <2> QED
    BY <2>3, <2>4
<1> QED
  BY <1>2, <1>3, <1>4, <1>5 DEF IsAggregate

(* The rows of groups, from their keys.                                    *)
SelectedKey(q, key) ==
    [m \in DOMAIN q.select |-> key[CHOOSE g \in DOMAIN q.groupBy : q.groupBy[g] = q.select[m]]]
ValuesOf(T, q, key) ==
    [m \in DOMAIN q.aggregates |->
        ValueOf(T, q.aggregates[m], GroupCounted(T, q, key, q.aggregates[m]))]
FinishedStates(q, states) ==
    [m \in DOMAIN q.aggregates |-> FinishAggregate(q.aggregates[m], states[m])]
GroupRows(T, q, keys) ==
    [n \in DOMAIN keys |-> SelectedKey(q, keys[n]) \o ValuesOf(T, q, keys[n])]

(* An execution that has the groups finishes as they are.                  *)
LEMMA FinishIsGroups ==
  ASSUME NEW R, NEW T \in Seq(R), NEW q, HoldsNumbers(R, q), Null \notin Int,
         \A n \in DOMAIN q.aggregates : IsAggregate(q.aggregates[n]),
         NEW e \in ExecutionsOver(R, q), Grouped(T, Len(T), q, e)
  PROVE  FinishExecution(q, e) = GroupsInOrder(T, q, LAMBDA x, y : Min(x) < Min(y))
<1>1. GroupsInOrder(T, q, LAMBDA x, y : Min(x) < Min(y)) = GroupRows(T, q, GroupKeys(T, q))
  BY DEF GroupsInOrder, GroupRows, GroupKeys, FoundKeys, GroupMembers, SelectedKey, ValuesOf,
         ValueOf, GroupCounted, CellsAmong, TotalOf
<1>2. e.keys = GroupKeys(T, q)
  BY OrderedGroups
<1>3. FinishExecution(q, e)
        = [n \in DOMAIN e.keys |-> SelectedKey(q, e.keys[n]) \o FinishedStates(q, e.states[n])]
  BY DEF FinishExecution, SelectedKey, FinishedStates
<1>4. ASSUME NEW n \in DOMAIN e.keys
      PROVE  FinishedStates(q, e.states[n]) = ValuesOf(T, q, e.keys[n])
  <2>1. n \in 1 .. Len(e.keys) /\ Len(T) \in Nat
    BY DEF ExecutionsOver
  <2>2. ASSUME NEW m \in DOMAIN q.aggregates
        PROVE  FinishAggregate(q.aggregates[m], e.states[n][m])
                 = ValueOf(T, q.aggregates[m], GroupCounted(T, q, e.keys[n], q.aggregates[m]))
    <3> DEFINE a == q.aggregates[m]
               C == CountedTo(T, Len(T), q, e.keys[n], a)
    <3>1. StateIs(e.states[n][m], T, a, C)
      BY <2>1 DEF Grouped, StatesAre
    <3>2. GroupCounted(T, q, e.keys[n], a) = C
      <4>1. GroupMembers(T, q, e.keys[n]) = MembersTo(T, Len(T), q, e.keys[n])
        BY FirstsTell
      <4> QED
        BY <4>1 DEF GroupCounted, CountedTo
    <3>3. IsFiniteSet(C)
      <4>1. C \in SUBSET (1 .. Len(T)) /\ 1 \in Int /\ Len(T) \in Int
        BY <2>1 DEF CountedTo, MembersTo
      <4> HIDE DEF C
      <4> QED
        BY <4>1, FS_Interval, FS_Subset
    <3>4. a[2] # "*" => \A i \in C : T[i][a[2]] \in Int
      <4>1. Len(T) \in 0 .. Len(T)
        BY <2>1
      <4> QED
        BY <4>1, CountedAreNumbers
    <3>5. IsAggregate(a)
      OBVIOUS
    <3> HIDE DEF a, C
    <3>6. FinishAggregate(a, e.states[n][m]) = ValueOf(T, a, C)
      BY <3>1, <3>3, <3>4, <3>5, StateFinishes
    <3> QED
      BY <3>2, <3>6 DEF a
  <2> QED
    BY <2>2 DEF FinishedStates, ValuesOf
<1> QED
  BY <1>1, <1>2, <1>3, <1>4 DEF GroupRows

-----------------------------------------------------------------------------
(* The answers of the two engines.                                         *)

(* The answer of the other engine: a page of the groups, or of the matches.*)
LEMMA OrderedAnswer ==
  ASSUME NEW R, NEW t \in Seq(R), NEW q
  PROVE  LET T == MatchingRows(t, q.where)
         IN /\ q.aggregates # <<>> =>
                 ExecuteInDuckDb(t, q)
                   = PageOfRows(GroupsInOrder(T, q, LAMBDA x, y : Min(x) < Min(y)), q)
            /\ q.aggregates = <<>> => ExecuteInDuckDb(t, q) = PageOfRows(Selection(T, q.select), q)
<1> DEFINE T == MatchingRows(t, q.where)
<1>1. T \in Seq(R)
  BY MatchesListed
<1>2. DOMAIN T = 1 .. Len(T)
  BY <1>1
<1>3. q.aggregates # <<>> =>
         ExecuteInDuckDb(t, q)
           = PageOfRows(GroupsInOrder(T, q, LAMBDA x, y : Min(x) < Min(y)), q)
  BY DEF ExecuteInDuckDb, ExecuteOrdered
<1>4. ASSUME q.aggregates = <<>>
      PROVE  ExecuteInDuckDb(t, q) = PageOfRows([n \in DOMAIN T |-> Project(T[n], q.select)], q)
  BY <1>4 DEF ExecuteInDuckDb, ExecuteOrdered
<1>5. [n \in DOMAIN T |-> Project(T[n], q.select)] = Selection(T, q.select)
  BY <1>2 DEF Selection
<1> QED
  BY <1>3, <1>4, <1>5

(* The answer of this engine, from the counts, the windows and the groups  *)
(* of the blocks.                                                          *)
LEMMA BlocksAnswer ==
  ASSUME NEW data, NEW q
  PROVE  LET p == BlocksOf(data)
             m == CountOf(p, q.where)
         IN ExecuteInBlocks(data, q)
              = IF q.aggregates # <<>>
                THEN IF m > MaxAggregatedRows THEN TooManyRows
                     ELSE PageOfRows(FinishExecution(q, ExecutionOf(p, q)), q)
                ELSE IF q.offset > m THEN OutOfRange
                ELSE [rowCount |-> m, rows |-> WindowOf(p, q).rows,
                      truncated |-> q.offset + q.limit < m]
BY DEF ExecuteInBlocks, CountOf, WindowOf, NewWindow, ExecutionOf

(* The two engines answer alike, but for too many rows to aggregate.       *)
LEMMA EnginesAgree ==
  ASSUME NEW R, NEW data \in Seq(R), NEW q, IsPage(q), HoldsNumbers(R, q), Null \notin Int,
         \A n \in DOMAIN q.aggregates : IsAggregate(q.aggregates[n])
  PROVE  \/ ExecuteInBlocks(data, q) = ExecuteInDuckDb(data, q)
         \/ /\ ExecuteInBlocks(data, q) = TooManyRows
            /\ Len(MatchingRows(data, q.where)) > MaxAggregatedRows
<1> DEFINE N == Cardinality(BlockStarts(data))
           p == BlocksOf(data)
           T == MatchingRows(data, q.where)
<1>1. PICK off : N \in Nat /\ p \in [1 .. N -> Seq(R)] /\ Pieces(p, N, data, off)
  BY BlocksArePieces
<1> HIDE DEF N, p
<1>2. CountOf(p, q.where) = Len(T)
  BY <1>1, MatchesCounted
<1>3. CASE q.aggregates # <<>>
  <2>1. ExecuteInBlocks(data, q)
          = IF CountOf(p, q.where) > MaxAggregatedRows THEN TooManyRows
            ELSE PageOfRows(FinishExecution(q, ExecutionOf(p, q)), q)
    BY <1>3, BlocksAnswer DEF p
  <2>2. /\ ExecutionOf(p, q) \in ExecutionsOver(R, q)
        /\ Grouped(T, Len(T), q, ExecutionOf(p, q))
    BY <1>1, ExecutionGroups
  <2>3. T \in Seq(R)
    BY MatchesListed
  <2> HIDE DEF T
  <2>4. FinishExecution(q, ExecutionOf(p, q)) = GroupsInOrder(T, q, LAMBDA x, y : Min(x) < Min(y))
    BY <2>2, <2>3, FinishIsGroups
  <2>5. ExecuteInDuckDb(data, q)
          = PageOfRows(GroupsInOrder(T, q, LAMBDA x, y : Min(x) < Min(y)), q)
    BY <1>3, OrderedAnswer DEF T
  <2> QED
    BY <1>2, <2>1, <2>4, <2>5 DEF T
<1>4. CASE q.aggregates = <<>>
  <2>1. ExecuteInBlocks(data, q)
          = IF q.offset > CountOf(p, q.where) THEN OutOfRange
            ELSE [rowCount |-> CountOf(p, q.where), rows |-> WindowOf(p, q).rows,
                  truncated |-> q.offset + q.limit < CountOf(p, q.where)]
    BY <1>4, BlocksAnswer DEF p
  <2>2. PageOfRows(Selection(T, q.select), q)
          = IF q.offset > Len(T) THEN OutOfRange
            ELSE [rowCount |-> Len(T), rows |-> WindowOf(p, q).rows,
                  truncated |-> q.offset + q.limit < Len(T)]
    BY <1>1, WindowIsPage
  <2>3. ExecuteInDuckDb(data, q) = PageOfRows(Selection(T, q.select), q)
    BY <1>4, OrderedAnswer
  <2> HIDE DEF T
  <2> QED
    BY <1>2, <2>1, <2>2, <2>3
<1> QED
  BY <1>3, <1>4

(* Whatever a session has, one of the two engines is asked, or neither.    *)
LEMMA OneIsAsked ==
  ASSUME NEW s, NEW data, NEW q, NEW engine
  PROVE  QueryDataset(s, data, q, engine)
           \in {ExecuteInDuckDb(data, q), ExecuteInBlocks(data, q), NeedsMaterialization}
<1>1. ExecuteFromParquet(data, Len(data), q) = ExecuteInBlocks(data, q)
  BY DEF ExecuteFromParquet
<1> QED
  BY <1>1 DEF QueryDataset

(* What is asked of the rows is a plan over their columns.                 *)
LEMMA PlansAreOver ==
  ASSUME NEW q \in Queries
  PROVE  /\ IsPage(q) /\ HoldsNumbers(Rows, q) /\ Null \notin Int
         /\ \A n \in DOMAIN q.aggregates : IsAggregate(q.aggregates[n])
<1>1. /\ IsPlan(q, Columns) /\ Null \notin Int
      /\ \A row \in Rows, c \in Columns : row[c] \in Int \cup {Null}
  BY CalculationsAssumption DEF CalculationsAssumption
<1>2. IsPage(q)
  BY <1>1, LocalQueryAssumption DEF IsPlan, IsPage, LocalQueryAssumption
<1>3. ASSUME NEW n \in DOMAIN q.aggregates
      PROVE  IsAggregate(q.aggregates[n]) /\ q.aggregates[n][2] \in Columns \cup {"*"}
  <2>1. q.aggregates[n] \in ToSet(q.aggregates)
    BY DEF ToSet
  <2> QED
    BY <1>1, <2>1 DEF IsPlan, IsAggregate
<1> QED
  BY <1>1, <1>2, <1>3 DEF HoldsNumbers

(* Whatever the rows and the plan, a query has one answer, whichever       *)
(* engine is asked and wherever the rows are read from, but for a group of *)
(* too many rows, which one engine refuses, and rows that are nowhere.     *)
THEOREM QueriesAreOneAnswer == Spec => []QueryRoutesAgree
<1>1. DatasetsInv => QueryRoutesAgree
  <2> SUFFICES ASSUME DatasetsInv, NEW q \in Queries, NEW s \in Sessions,
                      NEW engine \in {"local", "duckdb"}
               PROVE  LET answer == QueryDataset(s, current, q, engine)
                      IN \/ answer = ExecuteInDuckDb(current, q)
                         \/ answer = NeedsMaterialization
                         \/ /\ answer = TooManyRows
                            /\ Len(MatchingRows(current, q.where)) > MaxAggregatedRows
    BY DEF QueryRoutesAgree
  <2>1. current \in Seq(Rows)
    BY DEF DatasetsInv
  <2>2. \/ ExecuteInBlocks(current, q) = ExecuteInDuckDb(current, q)
        \/ /\ ExecuteInBlocks(current, q) = TooManyRows
           /\ Len(MatchingRows(current, q.where)) > MaxAggregatedRows
    BY <2>1, PlansAreOver, EnginesAgree
  <2> QED
    BY <2>2, OneIsAsked
<1> QED
  BY <1>1, Datasets, PTL
=============================================================================
