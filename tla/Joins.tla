-------------------------------- MODULE Joins --------------------------------
(***************************************************************************)
(* The join of the active dataset with another one, by key columns: over   *)
(* the two frames at once, over blocks of the active rows, and as the SQL  *)
(* view that DuckDB joins (src-tauri/src/dataset/comparison_engine.rs,     *)
(* query_execution.rs, dataset.rs join_dataset).                           *)
(*                                                                         *)
(* on maps each key of the active dataset to the compared column it is     *)
(* joined with.  A joined row keeps the active columns, whose keys take    *)
(* the compared key where there is no active row, and the compared columns *)
(* that are not keys; the missing side is Null.                            *)
(***************************************************************************)
EXTENDS Comparison

CONSTANTS
    NoRow,          \* the missing side of an outer join
    MaxJoinInput,   \* LOCAL_QUERY_JOIN_MAX_INPUT_ROWS
    MaxJoinResult   \* LOCAL_QUERY_JOIN_MAX_RESULT_ROWS

ASSUME JoinsAssumption == NoRow \notin Nat /\ MaxJoinInput \in Nat /\ MaxJoinResult \in Nat

JoinTypes == {"inner", "left", "full"}

CurrentKeys(on) == DOMAIN on
ComparedKeys(on) == {on[k] : k \in DOMAIN on}
KeyOf(row, on) == [k \in DOMAIN on |-> row[on[k]]]

----------------------------------------------------------------------------
(* The limits, checked before any row is joined.                           *)

(* The compared rows indexed by the values their keys put in on's keys. *)
SpillJoinRows(data, on) ==
    {[bucket |-> BucketOf(KeyOf(RowAt(data, i), on)),
      key |-> KeyOf(RowAt(data, i), on), row |-> i] : i \in RowIndexes(data)}

(* join_cardinality_upper_bound: null keys are counted as if they matched. *)
JoinCardinalityBound(current, compared, on, type) ==
    LET left == SpillKeyRows(current, CurrentKeys(on))
        right == SpillJoinRows(compared, on)
        inner == SumFunction([b \in Buckets |->
                    LET l == KeyGroups(left, b)
                        r == KeyGroups(right, b)
                    IN SumFunction([k \in DOMAIN l \cap DOMAIN r |-> l[k].count * r[k].count])])
    IN IF inner > MaxJoinResult \/ type = "inner" THEN inner
       ELSE IF type = "left" THEN inner + Len(current)
       ELSE inner + Len(current) + Len(compared)

(* validate_join_inputs_and_cardinality *)
JoinIsRefused(current, compared, on, type) ==
    \/ DOMAIN on = {}
    \/ Len(current) + Len(compared) > MaxJoinInput
    \/ JoinCardinalityBound(current, compared, on, type) > MaxJoinResult

----------------------------------------------------------------------------
(* The rows.                                                               *)

(* The elements of a set, sorted: the n-th is the one n - 1 come before. *)
InOrder(S, Before(_, _)) ==
    [n \in 1 .. Cardinality(S) |->
        CHOOSE x \in S : Cardinality({y \in S \ {x} : Before(y, x)}) = n - 1]

(* Keys are joined with =, which null never satisfies. *)
Matches(left, right, on) == \A k \in DOMAIN on : left[k] # Null /\ left[k] = right[on[k]]

(* One joined row; i or j is NoRow where that side has no row. *)
JoinedAs(current, compared, on, i, j) ==
    [left  |-> [c \in Columns |->
                    IF i # NoRow THEN RowAt(current, i)[c]
                    ELSE IF c \in DOMAIN on THEN RowAt(compared, j)[on[c]]
                    ELSE Null],
     right |-> [c \in Columns \ ComparedKeys(on) |->
                    IF j # NoRow THEN RowAt(compared, j)[c] ELSE Null]]

(* The pairs of row indexes a join of this type has. *)
JoinPairs(current, compared, on, type) ==
    LET matched == {p \in RowIndexes(current) \X RowIndexes(compared) :
                        Matches(RowAt(current, p[1]), RowAt(compared, p[2]), on)}
        leftOnly == {<<i, NoRow>> : i \in RowIndexes(current) \ {p[1] : p \in matched}}
        rightOnly == {<<NoRow, j>> : j \in RowIndexes(compared) \ {p[2] : p \in matched}}
    IN matched \cup (IF type = "inner" THEN {} ELSE leftOnly)
               \cup (IF type = "full" THEN rightOnly ELSE {})

(* collect_join_frame_on_keys_with_null_order: sorted by the active row    *)
(* and then the compared row; the rows with no active row come last when   *)
(* nullsLast, and first otherwise.                                         *)
CollectJoin(current, compared, on, type, nullsLast) ==
    LET Outer(i) == IF i # NoRow THEN i + 1 ELSE IF nullsLast THEN Len(current) + 1 ELSE 0
        Inner(j) == IF j = NoRow THEN 0 ELSE j + 1
        Before(p, q) == \/ Outer(p[1]) < Outer(q[1])
                        \/ Outer(p[1]) = Outer(q[1]) /\ Inner(p[2]) < Inner(q[2])
        pairs == InOrder(JoinPairs(current, compared, on, type), Before)
    IN [n \in DOMAIN pairs |-> JoinedAs(current, compared, on, pairs[n][1], pairs[n][2])]

(* join_frames_on_keys *)
JoinFrames(current, compared, on, type) ==
    IF JoinIsRefused(current, compared, on, type) THEN Refused
    ELSE Table(CollectJoin(current, compared, on, type, type = "full"))

(* Mutant of UnmatchedRight: a null key is taken for one that was joined. *)
UnmatchedRightWithKeys(current, compared, on, start) ==
    LET block == BlockAt(compared, start)
        index == SpillKeyRows(current, CurrentKeys(on))
        Unmatched(row) ==
            /\ \A k \in DOMAIN on : row[on[k]] # Null
            /\ KeyOf(row, on) \notin DOMAIN KeyGroups(index, BucketOf(KeyOf(row, on)))
    IN RowsAt(block, {j \in RowIndexes(block) : Unmatched(RowAt(block, j))})

(* visit_unmatched_join_right_blocks: block by block, the compared rows    *)
(* with a null key or whose key is not in the index of the active rows.    *)
UnmatchedRight(current, compared, on, start) ==
    LET block == BlockAt(compared, start)
        index == SpillKeyRows(current, CurrentKeys(on))
        Joinable(row) == \A k \in DOMAIN on : row[on[k]] # Null
        Unmatched(row) ==
            \/ ~Joinable(row)
            \/ KeyOf(row, on) \notin DOMAIN KeyGroups(index, BucketOf(KeyOf(row, on)))
    IN RowsAt(block, {j \in RowIndexes(block) : Unmatched(RowAt(block, j))})

(* visit_local_join_blocks: the blocks a join is delivered in. *)
JoinBlocks(current, compared, on, type) ==
    LET Starts(data) == InOrder(BlockStarts(data), <)
        leftType == IF type = "full" THEN "left" ELSE type
        lefts == [n \in DOMAIN Starts(current) |->
                    CollectJoin(BlockAt(current, Starts(current)[n]), compared, on,
                                leftType, FALSE)]
        rights == [n \in DOMAIN Starts(compared) |->
                    CollectJoin(<<>>, UnmatchedRight(current, compared, on, Starts(compared)[n]),
                                on, "full", FALSE)]
        notEmpty == {n \in RowIndexes(rights) : RowAt(rights, n) # <<>>}
    IN IF type = "full" THEN lefts \o RowsAt(rights, notEmpty) ELSE lefts

(* join_frames_on_keys_in_blocks *)
JoinInBlocks(current, compared, on, type) ==
    IF JoinIsRefused(current, compared, on, type) THEN Refused
    ELSE Table(FlattenSeq(JoinBlocks(current, compared, on, type)))

(* build_duckdb_join_view_query and source_backed_join_plan: a row with no *)
(* active row is ordered after all of them, at count + its compared order. *)
CurrentOrder(current, p) == IF p[1] = NoRow THEN Len(current) + p[2] ELSE p[1]

JoinViewPairs(current, compared, on, type) ==
    LET Before(p, q) ==
            \/ CurrentOrder(current, p) < CurrentOrder(current, q)
            \/ CurrentOrder(current, p) = CurrentOrder(current, q) /\ p[2] < q[2]
    IN InOrder(JoinPairs(current, compared, on, type), Before)

JoinView(current, compared, on, type) ==
    LET pairs == JoinViewPairs(current, compared, on, type)
        Key(p, c) == IF type = "full" /\ p[1] = NoRow
                     THEN RowAt(compared, p[2])[on[c]] ELSE RowAt(current, p[1])[c]
        Projected(p) ==
            [left  |-> [c \in Columns |->
                            IF c \in DOMAIN on THEN Key(p, c)
                            ELSE IF p[1] = NoRow THEN Null ELSE RowAt(current, p[1])[c]],
             right |-> [c \in Columns \ ComparedKeys(on) |->
                            IF p[2] = NoRow THEN Null ELSE RowAt(compared, p[2])[c]]]
    IN [n \in DOMAIN pairs |-> Projected(pairs[n])]

(* join_source_backed_dataset: only the rows that come out are limited. *)
JoinSources(current, compared, on, type) ==
    LET rows == JoinView(current, compared, on, type)
    IN IF DOMAIN on = {} \/ Len(rows) > MaxJoinResult THEN Refused ELSE Table(rows)
=============================================================================
