----------------------------- MODULE Comparison -----------------------------
(***************************************************************************)
(* The comparison of the active dataset with a second one: the temporary   *)
(* key indexes on disk, the summary by key, the pages of conflicts, the    *)
(* consolidation and the resolution of conflicts (src-tauri/src/dataset/   *)
(* comparison_engine.rs, query_execution.rs and dataset.rs).               *)
(*                                                                         *)
(* Every answer has several routes: over the two frames in memory, over    *)
(* Parquet files read in blocks of BlockRows rows, and as SQL that DuckDB  *)
(* runs over the files.  The module gives each route as an operator of the *)
(* two datasets, and the plain meaning of the answer beside them.          *)
(*                                                                         *)
(* A dataset is a sequence of rows, a row a function from columns to text  *)
(* cells or Null (a text is rendered as itself by preview_value).  Rows    *)
(* are numbered from 0, as in the code.                                    *)
(***************************************************************************)
EXTENDS Cells, Naturals, FiniteSets, FiniteSetsExt, SequencesExt

CONSTANTS
    Columns,        \* the columns the two datasets share, with equal types
    BlockRows,      \* LOCAL_QUERY_BLOCK_ROWS
    Buckets,        \* 0 .. COMPARISON_KEY_BUCKETS - 1
    BucketOf(_),    \* comparison_key_bucket, a hash of a signature
    WholeRow,       \* the column of a decision about the row (None)
    MaxDecisions    \* SOURCE_BACKED_RESOLUTION_MAX_CONFLICTS

ASSUME ComparisonAssumption ==
    /\ BlockRows \in Nat \ {0}
    /\ IsFiniteSet(Buckets)
    /\ MaxDecisions \in Nat
    /\ WholeRow \notin Columns

RowIndexes(data) == 0 .. Len(data) - 1
RowAt(data, i) == data[i + 1]
Payload(keys) == Columns \ keys

(* The rows of data whose index is in kept, in their order. *)
RowsAt(data, kept) ==
    [n \in 1 .. Cardinality(kept) |->
        RowAt(data, CHOOSE i \in kept : Cardinality({j \in kept : j < i}) = n - 1)]

BlockStarts(data) == {i \in RowIndexes(data) : i % BlockRows = 0}
BlockAt(data, start) ==
    SubSeq(data, start + 1, Min({start + BlockRows, Len(data)}))

----------------------------------------------------------------------------
(* The temporary index: one file of (key, row) records per bucket.         *)

(* row_signature: every cell behind its length, null apart from any text,  *)
(* so that two rows have one signature exactly when the cells are equal.   *)
Signature(row, cols) == [c \in cols |-> row[c]]

(* spill_key_rows: the records of a frame. *)
SpillKeyRows(data, cols) ==
    {[bucket |-> BucketOf(Signature(RowAt(data, i), cols)),
      key    |-> Signature(RowAt(data, i), cols),
      row    |-> i] : i \in RowIndexes(data)}

(* Mutant of SpillParquetRows: the rows of every block count from 0. *)
SpillParquetRowsUnnumbered(data, cols) ==
    UNION {SpillKeyRows(BlockAt(data, start), cols) : start \in BlockStarts(data)}

(* spill_parquet_rows: the records of a file, block by block, each row     *)
(* numbered from the start of its block.                                   *)
SpillParquetRows(data, cols) ==
    UNION {{[r EXCEPT !.row = start + r.row] :
                r \in SpillKeyRows(BlockAt(data, start), cols)} :
            start \in BlockStarts(data)}

(* read_spilled_key_bucket: the groups of one bucket. *)
KeyGroups(spill, bucket) ==
    LET records == {r \in spill : r.bucket = bucket}
    IN [k \in {r.key : r \in records} |->
            LET rows == {r.row : r \in {q \in records : q.key = k}}
            IN [first |-> Min(rows), count |-> Cardinality(rows)]]

(* spill_parquet_key_payload_rows: the records also carry the payload. *)
SpillKeyPayloadRows(data, keys) ==
    {[bucket |-> r.bucket, key |-> r.key, row |-> r.row,
      payload |-> Signature(RowAt(data, r.row), Payload(keys))] :
        r \in SpillParquetRows(data, keys)}

(* read_spilled_key_payload_bucket: the payload of the first record, given *)
(* up as soon as a second one has the key.                                 *)
KeyPayloadGroups(spill, bucket) ==
    LET groups == KeyGroups(spill, bucket)
    IN [k \in DOMAIN groups |->
            [first   |-> groups[k].first,
             count   |-> groups[k].count,
             payload |-> IF groups[k].count > 1 THEN Null
                         ELSE (CHOOSE r \in spill : r.key = k).payload]]

(* common_row_count_from_spilled_indexes *)
CommonRowCount(left, right) ==
    MapThenSumSet(LAMBDA b :
        LET l == KeyGroups(left, b)
            r == KeyGroups(right, b)
        IN MapThenSumSet(LAMBDA k : Min({l[k].count, r[k].count}),
                         DOMAIN l \cap DOMAIN r),
        Buckets)

(* common_row_count_between_parquet *)
CommonRowsBetweenParquet(current, compared) ==
    CommonRowCount(SpillParquetRows(current, Columns), SpillParquetRows(compared, Columns))

----------------------------------------------------------------------------
(* The summary by key.                                                     *)

Summary(groups(_, _), left, right, conflicting(_, _, _)) ==
    LET Count(P(_, _, _)) ==
            SumFunction([b \in Buckets |->
                LET l == groups(left, b)
                    r == groups(right, b)
                IN Cardinality({k \in DOMAIN l \cup DOMAIN r : P(l, r, k)})])
        Duplicated(l, r, k) ==
            \/ /\ k \in DOMAIN l
               /\ l[k].count > 1
            \/ /\ k \in DOMAIN r
               /\ r[k].count > 1
               /\ k \in DOMAIN l => l[k].count <= 1
    IN [matched      |-> Count(LAMBDA l, r, k : k \in DOMAIN l \cap DOMAIN r),
        currentOnly  |-> Count(LAMBDA l, r, k : k \notin DOMAIN r),
        comparedOnly |-> Count(LAMBDA l, r, k : k \notin DOMAIN l),
        conflicting  |-> Count(conflicting),
        duplicate    |-> Count(Duplicated)]

UniqueInBoth(l, r, k) ==
    /\ k \in DOMAIN l \cap DOMAIN r
    /\ l[k].count = 1
    /\ r[k].count = 1

(* compare_keyed_frames: the payload is read back from the two frames. *)
CompareKeyedFrames(current, compared, keys) ==
    Summary(KeyGroups, SpillKeyRows(current, keys), SpillKeyRows(compared, keys),
            LAMBDA l, r, k :
                /\ UniqueInBoth(l, r, k)
                /\ Signature(RowAt(current, l[k].first), Payload(keys))
                     # Signature(RowAt(compared, r[k].first), Payload(keys)))

(* compare_keyed_parquet_sources: the payload is the one in the index. *)
CompareKeyedSources(current, compared, keys) ==
    Summary(KeyPayloadGroups,
            SpillKeyPayloadRows(current, keys), SpillKeyPayloadRows(compared, keys),
            LAMBDA l, r, k : UniqueInBoth(l, r, k) /\ l[k].payload # r[k].payload)

----------------------------------------------------------------------------
(* The pages of conflicts.                                                 *)

(* build_key_conflict_shape: the payload columns that differ. *)
ConflictColumns(left, right, keys) ==
    {c \in Payload(keys) : left[c] # right[c]}

(* build_key_conflict: none when no column differs. *)
BuildConflict(left, right, currentRow, comparedRow, keys) ==
    IF ConflictColumns(left, right, keys) = {} THEN <<>>
    ELSE <<[currentRow  |-> currentRow,
            comparedRow |-> comparedRow,
            key         |-> Signature(left, keys),
            cells       |-> [c \in ConflictColumns(left, right, keys) |->
                                <<left[c], right[c]>>]]>>

(* The marked rows of the active dataset in their order, each with the row *)
(* written for it, turned into conflicts by build.                         *)
ReadMarks(current, marks, build(_, _)) ==
    FlattenSeq([n \in 1 .. Len(current) |->
        IF n - 1 \in DOMAIN marks THEN build(n - 1, marks[n - 1]) ELSE <<>>])

(* A page and whether more conflicts follow it. *)
Page(conflicts, offset, limit) ==
    LET rows == SubSeq(conflicts, offset + 1, Min({offset + limit, Len(conflicts)}))
    IN [rows |-> rows, hasNext |-> Len(conflicts) > offset + Len(rows)]

(* conflict_markers and conflict_rows: the compared row written for each   *)
(* marked row of the active dataset.                                       *)
Marks(pairs) == [i \in {p[1] : p \in pairs} |-> (CHOOSE p \in pairs : p[1] = i)[2]]

(* collect_key_conflicts_page, first pass: the rows whose key is unique on *)
(* both sides and whose payloads differ.                                   *)
FramePairs(current, compared, keys) ==
    LET left == SpillKeyRows(current, keys)
        right == SpillKeyRows(compared, keys)
        Marked(b) ==
            LET l == KeyGroups(left, b)
                r == KeyGroups(right, b)
            IN {<<l[k].first, r[k].first>> : k \in {q \in DOMAIN l \cap DOMAIN r :
                    /\ UniqueInBoth(l, r, q)
                    /\ Signature(RowAt(current, l[q].first), Payload(keys))
                         # Signature(RowAt(compared, r[q].first), Payload(keys))}}
    IN UNION {Marked(b) : b \in Buckets}

FrameConflicts(current, compared, keys) ==
    ReadMarks(current, Marks(FramePairs(current, compared, keys)), LAMBDA i, j :
        BuildConflict(RowAt(current, i), RowAt(compared, j), i, j, keys))

(* collect_key_conflicts_page_from_parquet, first pass: each block of the  *)
(* compared file has an index of its own, whose rows count from 0.         *)
ParquetPairs(current, compared, keys) ==
    LET left == SpillKeyRows(current, keys)
        right == SpillParquetRows(compared, keys)
        Marked(start, b) ==
            LET block == BlockAt(compared, start)
                l == KeyGroups(left, b)
                r == KeyGroups(right, b)
                own == KeyGroups(SpillKeyRows(block, keys), b)
            IN {<<l[k].first, start + own[k].first>> : k \in {q \in DOMAIN own \cap DOMAIN l :
                    /\ UniqueInBoth(l, r, q)
                    /\ own[q].count = 1
                    /\ Signature(RowAt(current, l[q].first), Payload(keys))
                         # Signature(RowAt(block, own[q].first), Payload(keys))}}
    IN UNION {Marked(start, b) : start \in BlockStarts(compared), b \in Buckets}

(* Second pass: the compared row is read from the block that holds it. *)
ComparedRowInBlock(compared, j) ==
    LET start == (j \div BlockRows) * BlockRows
    IN RowAt(BlockAt(compared, start), j - start)

ParquetConflicts(current, compared, keys) ==
    ReadMarks(current, Marks(ParquetPairs(current, compared, keys)), LAMBDA i, j :
        BuildConflict(RowAt(current, i), ComparedRowInBlock(compared, j), i, j, keys))

(* for_each_key_conflict_between_parquet: marks from the payload index... *)
PairsBetweenParquet(current, compared, keys) ==
    LET left == SpillKeyPayloadRows(current, keys)
        right == SpillKeyPayloadRows(compared, keys)
        Marked(b) ==
            LET l == KeyPayloadGroups(left, b)
                r == KeyPayloadGroups(right, b)
            IN {<<l[k].first, r[k].first>> : k \in {q \in DOMAIN l \cap DOMAIN r :
                    UniqueInBoth(l, r, q) /\ l[q].payload # r[q].payload}}
    IN UNION {Marked(b) : b \in Buckets}

(* ...and both rows read from blocks; no payload, no conflict. *)
ConflictsBetweenParquet(current, compared, keys) ==
    IF Payload(keys) = {} THEN <<>>
    ELSE ReadMarks(current, Marks(PairsBetweenParquet(current, compared, keys)), LAMBDA i, j :
            BuildConflict(ComparedRowInBlock(current, i), ComparedRowInBlock(compared, j),
                          i, j, keys))

(* compare_parquet_sources, and the compare_frames the tests hold it to:   *)
(* what the person is shown.  Without keys only whole rows are counted.    *)
Report(common, summary, conflicts, current, compared, keys, preview) ==
    [common          |-> common,
     currentOnly     |-> Len(current) - common,
     comparedOnly    |-> Len(compared) - common,
     keyed           |-> IF keys = {} THEN {} ELSE {summary},
     conflicts       |-> IF keys = {} THEN Page(<<>>, 0, preview)
                         ELSE Page(conflicts, 0, preview),
     canConsolidate  |-> keys # {} => summary.conflicting = 0 /\ summary.duplicate = 0]

CompareFrames(current, compared, keys, preview) ==
    Report(CommonRowCount(SpillKeyRows(current, Columns), SpillKeyRows(compared, Columns)),
           CompareKeyedFrames(current, compared, keys),
           FrameConflicts(current, compared, keys), current, compared, keys, preview)

CompareParquetSources(current, compared, keys, preview) ==
    Report(CommonRowsBetweenParquet(current, compared),
           CompareKeyedSources(current, compared, keys),
           ConflictsBetweenParquet(current, compared, keys), current, compared, keys, preview)

----------------------------------------------------------------------------
(* The consolidation: the active rows and the compared rows of new keys.   *)

Table(data) == [refused |-> FALSE, rows |-> data]

(* rows_with_new_keys *)
RowsWithNewKeys(current, compared, keys) ==
    LET own == SpillKeyRows(current, keys)
        New(b) == {r.row : r \in {q \in SpillKeyRows(compared, keys) :
                        q.bucket = b /\ q.key \notin DOMAIN KeyGroups(own, b)}}
    IN RowsAt(compared, UNION {New(b) : b \in Buckets})

(* use_consolidated_dataset, over the frames. *)
ConsolidateFrames(current, compared, keys) ==
    LET summary == CompareKeyedFrames(current, compared, keys)
    IN IF keys = {} THEN Table(current \o compared)
       ELSE IF summary.conflicting > 0 \/ summary.duplicate > 0 THEN Refused
       ELSE Table(current \o RowsWithNewKeys(current, compared, keys))

(* Mutant of NotDistinct: = in place of IS NOT DISTINCT FROM. *)
EqualInSql(left, right, cols) == \A c \in cols : left[c] # Null /\ left[c] = right[c]

(* IS NOT DISTINCT FROM on each column: null equals null. *)
NotDistinct(left, right, cols) == \A c \in cols : left[c] = right[c]

(* validate_source_backed_consolidation: the two counting queries. *)
DuplicateGroups(data, keys) ==
    {i \in RowIndexes(data) : \E j \in RowIndexes(data) \ {i} :
        NotDistinct(RowAt(data, i), RowAt(data, j), keys)}

ConsolidationConflicts(current, compared, keys) ==
    {p \in RowIndexes(current) \X RowIndexes(compared) :
        /\ NotDistinct(RowAt(current, p[1]), RowAt(compared, p[2]), keys)
        /\ ~NotDistinct(RowAt(current, p[1]), RowAt(compared, p[2]), Payload(keys))}

ConsolidationIsRefused(current, compared, keys) ==
    /\ keys # {}
    /\ \/ DuplicateGroups(current, keys) # {}
       \/ DuplicateGroups(compared, keys) # {}
       \/ Payload(keys) # {} /\ ConsolidationConflicts(current, compared, keys) # {}

(* source_backed_consolidation_plan: the compared rows NOT EXISTS lets     *)
(* through, ordered after every active row.                                *)
ConsolidationRows(current, compared, keys) ==
    current \o RowsAt(compared, {j \in RowIndexes(compared) :
        \/ keys = {}
        \/ ~\E i \in RowIndexes(current) :
                NotDistinct(RowAt(current, i), RowAt(compared, j), keys)})

ConsolidateSources(current, compared, keys) ==
    IF ConsolidationIsRefused(current, compared, keys) THEN Refused
    ELSE Table(ConsolidationRows(current, compared, keys))

----------------------------------------------------------------------------
(* The resolution of conflicts.  decisions is a function from              *)
(* <<conflict, column or WholeRow>> to "current", "compared" or, for a     *)
(* whole row, "exclude"; a repeated decision is refused before this.       *)

DecidedColumns(decisions, n) == {d[2] : d \in {x \in DOMAIN decisions : x[1] = n}}
Excludes(decisions, n) ==
    \E c \in DecidedColumns(decisions, n) : decisions[<<n, c>>] = "exclude"

(* A conflict is settled by an exclusion alone, by one choice for the row  *)
(* or by one choice for each of its columns.                               *)
IsSettled(decisions, n, columns) ==
    LET decided == DecidedColumns(decisions, n)
    IN \/ Excludes(decisions, n) /\ Cardinality(decided) = 1
       \/ ~Excludes(decisions, n) /\ (decided = {WholeRow} \/ decided = columns)

(* validate_conflict_decisions, against the list of conflicts. *)
DecisionsAreValid(conflicts, decisions) ==
    /\ \A d \in DOMAIN decisions :
            /\ d[1] < Len(conflicts)
            /\ d[2] # WholeRow => d[2] \in DOMAIN conflicts[d[1] + 1].cells
    /\ \A n \in 1 .. Len(conflicts) :
            IsSettled(decisions, n - 1, DOMAIN conflicts[n].cells)

(* validate_source_backed_conflict_decisions, while the conflicts go by:   *)
(* too many of either leaves the work to the frames.                       *)
SourceValidation(conflicts, decisions) ==
    LET seen == Min({Len(conflicts), MaxDecisions})
        left == {d \in DOMAIN decisions : d[1] >= Len(conflicts)}
    IN IF Cardinality(DOMAIN decisions) > MaxDecisions THEN "fallback"
       ELSE IF \E n \in 1 .. seen :
                    ~IsSettled(decisions, n - 1, DOMAIN conflicts[n].cells) THEN "refused"
       ELSE IF Len(conflicts) > MaxDecisions THEN "fallback"
       ELSE IF left # {} THEN "refused" ELSE "valid"

(* The cell of a column: the choice of its column, else the one of its row. *)
Chosen(decisions, n, column) ==
    IF <<n, column>> \in DOMAIN decisions THEN decisions[<<n, column>>]
    ELSE IF <<n, WholeRow>> \in DOMAIN decisions THEN decisions[<<n, WholeRow>>]
    ELSE "current"

(* resolved_conflict_frame *)
ResolveFrames(current, compared, keys, decisions) ==
    LET conflicts == FrameConflicts(current, compared, keys)
        Of(i) == CHOOSE n \in 1 .. Len(conflicts) : conflicts[n].currentRow = i
        InConflict(i) == \E n \in 1 .. Len(conflicts) : conflicts[n].currentRow = i
        active == {i \in RowIndexes(current) :
                        ~(InConflict(i) /\ Excludes(decisions, Of(i) - 1))}
        Resolved(i) ==
            [c \in Columns |->
                IF InConflict(i) /\ Chosen(decisions, Of(i) - 1, c) = "compared"
                THEN RowAt(compared, conflicts[Of(i)].comparedRow)[c]
                ELSE RowAt(current, i)[c]]
    IN IF keys = {} \/ ~DecisionsAreValid(conflicts, decisions) THEN Refused
       ELSE Table(RowsAt([n \in 1 .. Len(current) |-> Resolved(n - 1)], active))

(* source_backed_conflict_resolution_plan: the query the choices become.   *)
(* current_ranked and compared_ranked count the rows of a key; the         *)
(* conflicts are numbered in the order of the active rows.                 *)
RowsOfKey(data, row, keys) == {i \in RowIndexes(data) : NotDistinct(RowAt(data, i), row, keys)}

JoinedRow(current, compared, keys, i) ==
    {j \in RowsOfKey(compared, RowAt(current, i), keys) :
        /\ Cardinality(RowsOfKey(current, RowAt(current, i), keys)) = 1
        /\ Cardinality(RowsOfKey(compared, RowAt(compared, j), keys)) = 1}

(* Mutant of ConflictNumber: the position of the row, not of the conflict. *)
RowNumber(inConflict, i) == i

(* ROW_NUMBER over the conflicts, in the order of the active rows. *)
ConflictNumber(inConflict, i) == Cardinality({h \in inConflict : h < i})

ResolutionPlan(current, compared, keys, decisions) ==
    LET inConflict == {i \in RowIndexes(current) :
            \E j \in JoinedRow(current, compared, keys, i) :
                ~NotDistinct(RowAt(current, i), RowAt(compared, j), Payload(keys))}
        Number(i) == ConflictNumber(inConflict, i)
        kept == {i \in RowIndexes(current) :
                    ~(i \in inConflict /\ Excludes(decisions, Number(i)))}
        Projected(i) ==
            [c \in Columns |->
                IF i \in inConflict /\ Chosen(decisions, Number(i), c) = "compared"
                THEN RowAt(compared, CHOOSE j \in JoinedRow(current, compared, keys, i) : TRUE)[c]
                ELSE RowAt(current, i)[c]]
    IN RowsAt([n \in 1 .. Len(current) |-> Projected(n - 1)], kept)

(* resolve_source_backed_conflicts, and the frames when it gives up. *)
ResolveSources(current, compared, keys, decisions) ==
    LET conflicts == ConflictsBetweenParquet(current, compared, keys)
        verdict == SourceValidation(conflicts, decisions)
    IN IF keys = {} \/ verdict = "refused" THEN Refused
       ELSE IF verdict = "valid"
            THEN Table(ResolutionPlan(current, compared, keys, decisions))
       ELSE ResolveFrames(current, compared, keys, decisions)
=============================================================================
