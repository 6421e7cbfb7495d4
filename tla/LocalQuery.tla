------------------------------ MODULE LocalQuery ------------------------------
(***************************************************************************)
(* The read-only queries over the active dataset: SELECT ... FROM dataset  *)
(* [JOIN compared] [WHERE] [GROUP BY] [LIMIT] [OFFSET], parsed into a plan *)
(* and executed by one of two engines, each over a frame, a snapshot read  *)
(* in blocks or a file (src-tauri/src/dataset/local_query.rs,              *)
(* query_execution.rs, duckdb_query.rs and dataset.rs query_dataset).      *)
(*                                                                         *)
(* A cell is Null or a number, written so that its text and its value are  *)
(* ordered alike; the engines differ on other texts (see the README).  A   *)
(* row of a join has the active columns under their names and the compared *)
(* ones under RightColumn.                                                 *)
(***************************************************************************)
EXTENDS Joins

CONSTANTS
    RightColumn(_),     \* the name a compared column has in a join (suffix _right)
    MaxPageSize,        \* MAX_PAGE_SIZE
    MaxAggregatedRows   \* LOCAL_QUERY_AGGREGATE_MAX_MATCHING_ROWS

ASSUME LocalQueryAssumption == MaxPageSize \in Nat /\ MaxAggregatedRows \in Nat

OutOfRange == [error |-> "out of range"]
TooManyRows == [error |-> "too many rows"]
StaleSnapshot == [error |-> "snapshot"]
NeedsMaterialization == [error |-> "source backed"]

----------------------------------------------------------------------------
(* The plan.                                                               *)

(* parse_local_query and parse_local_projection: a page of a bounded size; *)
(* columns beside aggregates only when they are grouped by.                *)
IsPlan(q, columns) ==
    /\ q.limit \in 1 .. MaxPageSize
    /\ q.offset \in Nat
    /\ \A p \in q.where : p[1] \in columns
    /\ ToSet(q.groupBy) \subseteq columns
    /\ Cardinality(ToSet(q.groupBy)) = Len(q.groupBy)
    /\ q.groupBy # <<>> => q.aggregates # <<>>
    /\ IF q.aggregates = <<>> THEN q.select # <<>> /\ ToSet(q.select) \subseteq columns
       ELSE ToSet(q.select) \subseteq ToSet(q.groupBy)
    /\ \A a \in ToSet(q.aggregates) :
            /\ a[1] \in {"count", "sum", "avg", "min", "max"}
            /\ a[2] \in columns \cup {"*"}
            /\ a[2] = "*" => a[1] = "count"

(* parse_local_join_query_spec: each condition names a column of either    *)
(* side, in any order, and no column twice.                                *)
JoinKeys(conditions) ==
    LET Sided(c) == IF c[1][1] = "dataset" THEN <<c[1][2], c[2][2]>> ELSE <<c[2][2], c[1][2]>>
        pairs == [n \in DOMAIN conditions |-> Sided(conditions[n])]
    IN IF \/ conditions = <<>>
          \/ \E n \in DOMAIN conditions : conditions[n][1][1] = conditions[n][2][1]
          \/ \E m, n \in DOMAIN pairs :
                m # n /\ (pairs[m][1] = pairs[n][1] \/ pairs[m][2] = pairs[n][2])
       THEN Refused
       ELSE [refused |-> FALSE,
             on |-> [k \in {p[1] : p \in ToSet(pairs)} |->
                        (CHOOSE p \in ToSet(pairs) : p[1] = k)[2]]]

----------------------------------------------------------------------------
(* Rows.                                                                   *)

(* local_compare: a null cell satisfies no comparison. *)
LocalCompare(cell, op, value) ==
    /\ cell # Null
    /\ CASE op = "=" -> cell = value
         [] op = "<>" -> cell # value
         [] op = ">" -> cell > value
         [] op = ">=" -> cell >= value
         [] op = "<" -> cell < value
         [] op = "<=" -> cell <= value

(* local_predicate_matches *)
PredicateMatches(row, p) ==
    CASE p[2] = "null" -> row[p[1]] = Null
      [] p[2] = "not null" -> row[p[1]] # Null
      [] OTHER -> LocalCompare(row[p[1]], p[2], p[3])

(* local_row_matches: the predicates are a conjunction. *)
RowMatches(row, where) == \A p \in where : PredicateMatches(row, p)

MatchingRows(data, where) ==
    RowsAt(data, {i \in RowIndexes(data) : RowMatches(RowAt(data, i), where)})
Project(row, select) == [n \in DOMAIN select |-> row[select[n]]]

(* LocalAggregateState: nulls are skipped, except by COUNT star.  The state *)
(* is a count, a total and an extreme.                                     *)
NoAggregate == [count |-> 0, total |-> 0, extreme |-> Null]

AddToAggregate(a, state, row) ==
    IF a[2] = "*" THEN [state EXCEPT !.count = @ + 1]
    ELSE LET cell == row[a[2]]
         IN IF cell = Null THEN state
            ELSE [count   |-> state.count + 1,
                  total   |-> state.total + cell,
                  extreme |-> IF \/ state.extreme = Null
                                 \/ a[1] = "min" /\ cell < state.extreme
                                 \/ a[1] = "max" /\ cell > state.extreme
                              THEN cell ELSE state.extreme]

FinishAggregate(a, state) ==
    CASE a[1] = "count" -> state.count
      [] a[1] \in {"sum", "avg"} ->
            IF state.count = 0 THEN Null
            ELSE IF a[1] = "sum" THEN state.total ELSE <<state.total, state.count>>
      [] a[1] \in {"min", "max"} -> state.extreme

(* aggregate_local_query_into_execution: the groups in the order of their  *)
(* first row, each with one state per aggregate; without GROUP BY there is *)
(* one group, whose key is empty, from the start.                          *)
NewExecution(q) ==
    [matched |-> 0,
     keys    |-> IF q.groupBy = <<>> THEN <<(<<>>)>> ELSE <<>>,
     states  |-> IF q.groupBy = <<>> THEN <<[n \in DOMAIN q.aggregates |-> NoAggregate]>>
                 ELSE <<>>]

AddRow(q, execution, row) ==
    LET key == Project(row, q.groupBy)
        known == Contains(execution.keys, key)
        keys == IF known THEN execution.keys ELSE Append(execution.keys, key)
        states == IF known THEN execution.states
                  ELSE Append(execution.states, [n \in DOMAIN q.aggregates |-> NoAggregate])
        at == CHOOSE n \in DOMAIN keys : keys[n] = key
    IN [matched |-> execution.matched + 1,
        keys    |-> keys,
        states  |-> [states EXCEPT ![at] =
                        [n \in DOMAIN q.aggregates |->
                            AddToAggregate(q.aggregates[n], @[n], row)]]]

AggregateBlock(q, execution, block) ==
    FoldLeft(LAMBDA e, row : AddRow(q, e, row), execution, MatchingRows(block, q.where))

(* local_query_aggregate_row and finish_local_aggregate_execution *)
FinishExecution(q, execution) ==
    [n \in DOMAIN execution.keys |->
        [m \in DOMAIN q.select |->
            execution.keys[n][CHOOSE g \in DOMAIN q.groupBy : q.groupBy[g] = q.select[m]]]
        \o [m \in DOMAIN q.aggregates |->
                FinishAggregate(q.aggregates[m], execution.states[n][m])]]

PageOfRows(rows, q) ==
    IF q.offset > Len(rows) THEN OutOfRange
    ELSE [rowCount  |-> Len(rows),
          rows      |-> SubSeq(rows, q.offset + 1, Min({q.offset + q.limit, Len(rows)})),
          truncated |-> q.offset + q.limit < Len(rows)]

----------------------------------------------------------------------------
(* The executions of this engine.                                          *)

(* Mutant of TakeFromBlock: what is skipped is skipped in every block. *)
TakeSkippingInEachBlock(q, window, block) ==
    LET matches == MatchingRows(block, q.where)
        take == Min({window.remaining, Max({0, Len(matches) - q.offset})})
        taken == SubSeq(matches, q.offset + 1, q.offset + take)
    IN [window EXCEPT !.remaining = @ - take,
                      !.rows = @ \o [n \in DOMAIN taken |-> Project(taken[n], q.select)]]

(* Only the blocks that hold the window are read a second time: skip       *)
(* matches are left to pass over, remaining rows are left to take.         *)
TakeFromBlock(q, window, block) ==
    LET matches == MatchingRows(block, q.where)
    IN IF window.remaining = 0 THEN window
       ELSE IF window.skip >= Len(matches)
            THEN [window EXCEPT !.skip = @ - Len(matches)]
       ELSE LET take == Min({window.remaining, Len(matches) - window.skip})
                taken == SubSeq(matches, window.skip + 1, window.skip + take)
            IN [skip      |-> 0,
                remaining |-> window.remaining - take,
                rows      |-> window.rows \o [n \in DOMAIN taken |-> Project(taken[n], q.select)]]

BlocksOf(data) ==
    LET starts == InOrder(BlockStarts(data), <)
    IN [n \in DOMAIN starts |-> BlockAt(data, starts[n])]

(* execute_local_query_plan and execute_local_query_from_parquet: count    *)
(* the matches of every block, then aggregate or take the window.          *)
ExecuteInBlocks(data, q) ==
    LET blocks == BlocksOf(data)
        matching == FoldLeft(LAMBDA n, b : n + Len(MatchingRows(b, q.where)), 0, blocks)
        window == FoldLeft(LAMBDA w, b : TakeFromBlock(q, w, b),
                           [skip |-> q.offset, remaining |-> q.limit, rows |-> <<>>], blocks)
    IN IF q.aggregates # <<>>
       THEN IF matching > MaxAggregatedRows THEN TooManyRows
            ELSE PageOfRows(FinishExecution(q, FoldLeft(LAMBDA e, b : AggregateBlock(q, e, b),
                                                        NewExecution(q), blocks)), q)
       ELSE IF q.offset > matching THEN OutOfRange
       ELSE [rowCount |-> matching, rows |-> window.rows,
             truncated |-> q.offset + q.limit < matching]

(* A snapshot that does not have the recorded number of rows is not read. *)
ExecuteFromParquet(file, recorded, q) ==
    IF Len(file) # recorded THEN StaleSnapshot ELSE ExecuteInBlocks(file, q)

(* Mutant of ProbeBlock: nothing is counted once the page is full. *)
ProbeUntilFull(q, window, block) ==
    LET matches == MatchingRows(block, q.where)
        skip == Min({window.skip, Len(matches)})
        from == SubSeq(matches, skip + 1, Min({skip + window.remaining, Len(matches)}))
    IN IF window.remaining = 0 THEN window
       ELSE [skip      |-> window.skip - skip,
             remaining |-> window.remaining - Len(from),
             rows      |-> window.rows \o [n \in DOMAIN from |-> Project(from[n], q.select)],
             matched   |-> window.matched + Len(matches)]

(* execute_local_join_query_in_blocks: each joined block is probed for its *)
(* matches, and read again when the window starts inside it.               *)
ProbeBlock(q, window, block) ==
    LET matches == MatchingRows(block, q.where)
        projected == [n \in DOMAIN matches |-> Project(matches[n], q.select)]
        skipped == [window EXCEPT !.matched = @ + Len(matches)]
        from == IF window.skip = 0
                THEN SubSeq(projected, 1, Min({window.remaining, Len(projected)}))
                ELSE SubSeq(projected, window.skip + 1,
                            Min({window.skip + window.remaining, Len(projected)}))
    IN IF window.skip >= Len(matches) THEN [skipped EXCEPT !.skip = @ - Len(matches)]
       ELSE IF window.remaining = 0 THEN skipped
       ELSE [skipped EXCEPT !.skip = 0, !.remaining = @ - Len(from), !.rows = @ \o from]

FlatRow(joined) ==
    LET right == DOMAIN joined.right
    IN [c \in DOMAIN joined.left \cup {RightColumn(d) : d \in right} |->
            IF c \in DOMAIN joined.left THEN joined.left[c]
            ELSE joined.right[CHOOSE d \in right : RightColumn(d) = c]]

FlatBlock(block) == [n \in DOMAIN block |-> FlatRow(block[n])]

ExecuteJoinInBlocks(current, compared, on, type, q) ==
    LET joined == JoinBlocks(current, compared, on, type)
        blocks == [n \in DOMAIN joined |-> FlatBlock(joined[n])]
        execution == FoldLeft(LAMBDA e, b : AggregateBlock(q, e, b), NewExecution(q), blocks)
        window == FoldLeft(LAMBDA w, b : ProbeBlock(q, w, b),
                           [skip |-> q.offset, remaining |-> q.limit, rows |-> <<>>,
                            matched |-> 0], blocks)
    IN IF JoinIsRefused(current, compared, on, type) THEN Refused
       ELSE IF current = <<>>
            THEN ExecuteInBlocks(FlatBlock(CollectJoin(current, compared, on, type,
                                                       type = "full")), q)
       ELSE IF q.aggregates # <<>>
            THEN IF execution.matched > MaxAggregatedRows THEN TooManyRows
                 ELSE PageOfRows(FinishExecution(q, execution), q)
       ELSE IF q.offset > window.matched THEN OutOfRange
       ELSE [rowCount |-> window.matched, rows |-> window.rows,
             truncated |-> q.offset + q.limit < window.matched]

----------------------------------------------------------------------------
(* The other engine: the plan as SQL over the whole dataset, ordered by    *)
(* the row order; the groups are ordered by First, from the positions of   *)
(* their rows.                                                             *)
GroupsInOrder(matching, q, Before(_, _)) ==
    LET Members(key) == {n \in DOMAIN matching : Project(matching[n], q.groupBy) = key}
        found == {Project(matching[n], q.groupBy) : n \in DOMAIN matching}
        keys == IF q.groupBy = <<>> THEN <<(<<>>)>>
                ELSE InOrder(found, LAMBDA x, y : Before(Members(x), Members(y)))
        Counted(key, a) == {n \in Members(key) : a[2] = "*" \/ matching[n][a[2]] # Null}
        Value(key, a) ==
            LET counted == Counted(key, a)
                values == {matching[n][a[2]] : n \in counted}
                total == MapThenSumSet(LAMBDA n : matching[n][a[2]], counted)
            IN IF a[1] = "count" THEN Cardinality(counted)
               ELSE IF counted = {} THEN Null
               ELSE CASE a[1] = "sum" -> total
                      [] a[1] = "avg" -> <<total, Cardinality(counted)>>
                      [] a[1] = "min" -> Min(values)
                      [] a[1] = "max" -> Max(values)
    IN [n \in DOMAIN keys |->
            [m \in DOMAIN q.select |->
                keys[n][CHOOSE g \in DOMAIN q.groupBy : q.groupBy[g] = q.select[m]]]
            \o [m \in DOMAIN q.aggregates |-> Value(keys[n], q.aggregates[m])]]

(* prepare_duckdb_query_with_row_count and execute_query_with_connection   *)
ExecuteOrdered(matching, q, Before(_, _)) ==
    PageOfRows(IF q.aggregates # <<>> THEN GroupsInOrder(matching, q, Before)
               ELSE [n \in DOMAIN matching |-> Project(matching[n], q.select)], q)

ExecuteInDuckDb(data, q) ==
    ExecuteOrdered(MatchingRows(data, q.where), q, LAMBDA x, y : Min(x) < Min(y))

(* Over a join the groups are ordered by their least active row and then   *)
(* by their least compared row, which need not be a row of the former; the *)
(* query leaves the rest open, here the first in the view comes first.     *)
ExecuteJoinInDuckDb(current, compared, on, type, q) ==
    LET view == JoinView(current, compared, on, type)
        pairs == JoinViewPairs(current, compared, on, type)
        found == {n \in RowIndexes(view) : RowMatches(FlatRow(RowAt(view, n)), q.where)}
        rows == RowsAt([n \in DOMAIN view |-> [row |-> FlatRow(view[n]), pair |-> pairs[n]]], found)
        First(members) == Min({CurrentOrder(current, rows[n].pair) : n \in members})
        Second(members) ==
            Min({rows[n].pair[2] : n \in {m \in members : rows[m].pair[2] # NoRow}})
        Before(x, y) == \/ First(x) < First(y)
                        \/ First(x) = First(y) /\ Second(x) < Second(y)
                        \/ First(x) = First(y) /\ Second(x) = Second(y) /\ Min(x) < Min(y)
    IN ExecuteOrdered([n \in DOMAIN rows |-> rows[n].row], q, Before)

----------------------------------------------------------------------------
(* query_dataset.  A session is asked through an engine; it may have a     *)
(* Parquet snapshot of the revision, a file it is read from, its rows in   *)
(* memory (unless source backed) and a pending comparison.                 *)
QueryDataset(session, data, q, engine) ==
    LET inDuckDb == ExecuteInDuckDb(data, q)
    IN IF engine = "duckdb"
       THEN IF session.sourceBacked /\ ~session.file /\ ~session.snapshot
            THEN NeedsMaterialization ELSE inDuckDb
       ELSE IF ~session.history /\ ~session.snapshot /\ session.file THEN inDuckDb
       ELSE IF session.snapshot /\ ~session.compared
            THEN ExecuteFromParquet(data, Len(data), q)
       ELSE IF session.sourceBacked THEN NeedsMaterialization
       ELSE ExecuteInBlocks(data, q)

JoinQuery(session, current, compared, on, type, q, engine) ==
    IF session.snapshot \/ session.file \/ ~session.sourceBacked
    THEN IF engine = "duckdb" \/ session.duckDbWorks
         THEN ExecuteJoinInDuckDb(current, compared, on, type, q)
         ELSE IF session.sourceBacked THEN NeedsMaterialization
         ELSE ExecuteJoinInBlocks(current, compared, on, type, q)
    ELSE NeedsMaterialization
=============================================================================
