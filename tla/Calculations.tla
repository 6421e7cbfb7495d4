------------------------------ MODULE Calculations ------------------------------
(***************************************************************************)
(* The answers the program computes by more than one route, put side by    *)
(* side: whether the rows are in memory or in a snapshot on disk is a      *)
(* matter of size, which must not change what the person is told.  The two *)
(* datasets that are compared, or the one that is prepared or cleaned, are *)
(* filled a row at a time from a small universe of rows.                   *)
(***************************************************************************)
EXTENDS LocalQuery, RecipePlans, Cleaning

CONSTANTS
    Rows,           \* the rows a dataset is made of
    MaxCurrent, MaxCompared, MaxTotal,  \* bounds of the two datasets
    KeyChoices,     \* the key columns a person may choose
    Decisions,      \* what a person may decide about the conflicts
    Conditions,     \* the key columns of joins
    Queries,        \* the plans asked of one dataset
    JoinQueries,    \* and of a join
    TableNames,     \* the columns of a dataset to prepare,
    TableTypes,     \* their types
    TableRows,      \* and the rows it is made of
    MaxTable,       \* a bound on it
    RecipeChoices,  \* the recipes asked of it
    PolicyChoices,  \* and recipes with decisions about their conversions
    SoiledNames,    \* the columns of a dataset to clean,
    SoiledTypes,    \* the types they may have
    SoiledRows,     \* and the rows it is made of
    MaxSoiled, MaxDistinct,     \* a bound on it, and on how many differ
    CleaningChoices \* the corrections asked of it

(* A key falls into one of the buckets, and a decision is one of those that *)
(* ConflictResolution can express: nothing but a row is excluded.  A cell  *)
(* is a number or Null, and the queries asked have been parsed.            *)
ASSUME CalculationsAssumption ==
    /\ KeyChoices \subseteq SUBSET Columns
    /\ \A row \in Rows, keys \in KeyChoices \cup {Columns} \cup {DOMAIN on : on \in Conditions} :
            BucketOf(Signature(row, keys)) \in Buckets
    /\ \A decisions \in Decisions :
            /\ IsFiniteSet(DOMAIN decisions)
            /\ DOMAIN decisions \subseteq Nat \X (Columns \cup {WholeRow})
            /\ \A d \in DOMAIN decisions :
                    /\ decisions[d] \in {"current", "compared", "exclude"}
                    /\ decisions[d] = "exclude" => d[2] = WholeRow
    /\ Null \notin Int
    /\ \A row \in Rows, c \in Columns : row[c] \in Int \cup {Null}
    /\ \A q \in Queries : IsPlan(q, Columns)
    /\ \A q \in JoinQueries : IsPlan(q, Columns \cup {RightColumn(c) : c \in Columns})

VARIABLES current, compared, table, soiled
vars == <<current, compared, table, soiled>>

Init ==
    /\ current = <<>>
    /\ compared = <<>>
    /\ table = <<>>
    /\ soiled = <<>>

AddCurrentRow ==
    /\ table \o soiled = <<>>
    /\ Len(current) < MaxCurrent
    /\ Len(current) + Len(compared) < MaxTotal
    /\ \E row \in Rows : current' = Append(current, row)
    /\ UNCHANGED <<compared, table, soiled>>

AddComparedRow ==
    /\ table \o soiled = <<>>
    /\ Len(compared) < MaxCompared
    /\ Len(current) + Len(compared) < MaxTotal
    /\ \E row \in Rows : compared' = Append(compared, row)
    /\ UNCHANGED <<current, table, soiled>>

AddTableRow ==
    /\ current \o compared \o soiled = <<>>
    /\ Len(table) < MaxTable
    /\ \E row \in TableRows : table' = Append(table, row)
    /\ UNCHANGED <<current, compared, soiled>>

AddSoiledRow ==
    /\ current \o compared \o table = <<>>
    /\ Len(soiled) < MaxSoiled
    /\ \E row \in SoiledRows :
        /\ Cardinality(ToSet(soiled) \cup {row}) <= MaxDistinct
        /\ soiled' = Append(soiled, row)
    /\ UNCHANGED <<current, compared, table>>

Next == AddCurrentRow \/ AddComparedRow \/ AddTableRow \/ AddSoiledRow
Spec == Init /\ [][Next]_vars

----------------------------------------------------------------------------
(* The comparison of two snapshots on disk reports what the comparison of  *)
(* the two frames reports, and the three ways of listing the conflicts     *)
(* find the same ones in the same order, so that a decision about the n-th *)
(* conflict of a page is about the n-th conflict of the resolution.        *)
ReviewRoutesAgree ==
    \A keys \in KeyChoices :
        LET conflicts == FrameConflicts(current, compared, keys)
        IN /\ CompareFrames(current, compared, keys, 1)
                = CompareParquetSources(current, compared, keys, 1)
           /\ ParquetConflicts(current, compared, keys) = conflicts
           /\ ConflictsBetweenParquet(current, compared, keys) = conflicts

(* The consolidation that DuckDB writes is refused for exactly the keys    *)
(* the one in memory is refused for, and has the same rows: every active   *)
(* row first, then the compared rows whose key is new.  The keys of what   *)
(* it publishes stay unique.                                               *)
ConsolidationRoutesAgree ==
    \A keys \in KeyChoices :
        LET result == ConsolidateFrames(current, compared, keys)
        IN /\ ConsolidateSources(current, compared, keys) = result
           /\ ~result.refused => IsPrefix(current, result.rows)
           /\ ~result.refused /\ keys # {} => DuplicateGroups(result.rows, keys) = {}

SettlesEverything(keys, decisions, result) ==
    ~result.refused /\ (\A d \in DOMAIN decisions : decisions[d] # "current")
        => FrameConflicts(result.rows, compared, keys) = <<>>

(* Resolving the conflicts in the files gives the rows that resolving them *)
(* in memory gives, whatever is decided about each, and refuses the same   *)
(* decisions; and after every conflict has been settled for the compared   *)
(* side or excluded, no conflict is left.                                  *)
ResolutionRoutesAgree ==
    \A keys \in KeyChoices : \A decisions \in Decisions :
        \A result \in {ResolveFrames(current, compared, keys, decisions)} :
            /\ ResolveSources(current, compared, keys, decisions) = result
            /\ SettlesEverything(keys, decisions, result)

(* A join read in blocks has the rows, in the order, of the join of the    *)
(* two frames, and so has the SQL view; a row of either side is never lost *)
(* by a full join.                                                         *)
JoinRoutesAgree ==
    \A on \in Conditions : \A type \in JoinTypes :
        LET joined == JoinFrames(current, compared, on, type)
        IN /\ JoinInBlocks(current, compared, on, type) = joined
           /\ ~joined.refused => JoinSources(current, compared, on, type) = joined
           /\ ~joined.refused => Len(joined.rows) <= JoinCardinalityBound(current, compared, on, type)

Sessions == [sourceBacked : BOOLEAN, snapshot : BOOLEAN, file : BOOLEAN, history : BOOLEAN,
             compared : BOOLEAN, duckDbWorks : BOOLEAN]

(* A query is answered alike whichever engine runs it and wherever the     *)
(* rows are read from, except that a group of too many rows is only        *)
(* refused by one engine and rows that are nowhere are asked for.  (The    *)
(* answer does not depend on the other dataset: it is asked once.)         *)
QueryRoutesAgree ==
    compared = <<>> =>
        \A q \in Queries, s \in Sessions, engine \in {"local", "duckdb"} :
            LET answer == QueryDataset(s, current, q, engine)
            IN \/ answer = ExecuteInDuckDb(current, q)
               \/ answer = NeedsMaterialization
               \/ /\ answer = TooManyRows
                  /\ Len(MatchingRows(current, q.where)) > MaxAggregatedRows

(* A join may be refused unseen: for no key, too many rows to read, or too *)
(* many that it could have, null keys counted as if they matched.          *)
MayRefuseJoin(on, type) ==
    LET alike == {p \in (DOMAIN current) \X DOMAIN compared :
                    \A k \in DOMAIN on : current[p[1]][k] = compared[p[2]][on[k]]}
    IN \/ DOMAIN on = {}
       \/ Len(current) + Len(compared) > MaxJoinInput
       \/ Cardinality(alike) + (IF type = "inner" THEN 0 ELSE Len(current))
            + (IF type = "full" THEN Len(compared) ELSE 0) > MaxJoinResult

TooManyJoined(q, on, type) ==
    /\ q.aggregates # <<>>
    /\ Len(MatchingRows(FlatBlock(JoinView(current, compared, on, type)), q.where))
        > MaxAggregatedRows

SameJoinAnswer(q, on, type, local, sql) ==
    \/ local = Refused /\ MayRefuseJoin(on, type)
    \/ local = TooManyRows /\ TooManyJoined(q, on, type)
    \/ local = sql
    \/ /\ q.groupBy # <<>>
       /\ local.rowCount = sql.rowCount
       /\ q.offset = 0 /\ ~sql.truncated => ToSet(local.rows) = ToSet(sql.rows)

(* A query over a join has the rows, in the order, whichever engine joins, *)
(* and the same groups; one engine refuses more, for its limits alone.     *)
JoinQueriesAgree ==
    \A q \in JoinQueries, on \in Conditions, type \in JoinTypes :
        SameJoinAnswer(q, on, type, ExecuteJoinInBlocks(current, compared, on, type, q),
                       ExecuteJoinInDuckDb(current, compared, on, type, q))

----------------------------------------------------------------------------
(* The routes of a recipe, and where the code lets them differ.            *)

Prepared == Frame(TableNames, TableTypes, table)
Preparing == current \o compared \o soiled = <<>>

RowByRow(r) == Settled(Prepared, r, EagerRecipe(Prepared, r, NoPolicy))

(* A filter or a calculation is validated against the rows the recipe      *)
(* leaves out too, and the names a plan knows are those before the renames.*)
RefusedByLazyPlan(r) ==
    \/ ~LazyInputsValid(Prepared, r)
    \/ ToSet(CalculatedNames(r)) \cap NamesOf(Prepared) # {}

(* DuckDB reads both operands of a row, one of them null; its plan refuses *)
(* renames in a cycle, a literal 0 as divisor and a summary of what the    *)
(* recipe extracts.                                                        *)
RefusedByDiskPlan(r) ==
    \/ ~NoCycles(r)
    \/ \E c \in ToSet(r.calculated) : c.operand = <<"literal", 0>>
    \/ \E c \in ToSet(r.calculated), row \in ToSet(table) :
            /\ Arithmetic(c)
            /\ Invalid \in {NumberIn(row[n]) : n \in CalculationInputs(Unrenamed(r), c)}
    \/ \E s \in ToSet(r.summary) : SummaryColumns(s) \cap ToSet(ExtractedNames(r)) # {}

(* "Every text" takes a column the recipe parses into dates for a text.    *)
ReplacesDates(r) == EffectiveAll(r, DOMAIN r.dates) \cap PlannedTargets(Prepared, r) # {}

(* The bounds of a renamed column, without filters: of the source's names. *)
TreatsRenamed(r) == r.filters = {} /\ \E c \in DOMAIN r.outliers : Effective(r, c) # c

(* A calculated column with the new name of another one replaces it.       *)
OverwritesRenamed(r) == ToSet(CalculatedNames(r)) \cap ToSet(EffectiveNames(Prepared, r)) # {}

(* Only on disk is a column treated that the recipe does not keep.         *)
TreatsDropped(r) == ~ EffectiveAll(r, DOMAIN r.outliers) \subseteq ToSet(Selected(Prepared, r))

(* What the person is shown: the numbers of DuckDB are not told apart.     *)
Shown(outcome) ==
    [names |-> outcome.names, replaced |-> outcome.replaced, adjusted |-> outcome.adjusted,
     outlierRows |-> outcome.outlierRows, collapsed |-> outcome.collapsed,
     contacts |-> outcome.contacts,
     types |-> [n \in NamesOf(outcome) |->
                IF outcome.type[n] \in Numeric THEN "number" ELSE outcome.type[n]]]

(* The sum of a group without values is 0 in memory and null on disk.      *)
WithEmptySums(r, rows) ==
    LET sums == UNION {{OutputName(r, a) : a \in {b \in ToSet(s.aggregations) : b[1] = "sum"}}
                        : s \in ToSet(r.summary)}
    IN [i \in DOMAIN rows |-> [n \in DOMAIN rows[i] |->
            IF n \in sums /\ rows[i][n] = Null THEN 0 ELSE rows[i][n]]]

SameAnswer(r, answer, reference) ==
    /\ Shown(answer) = Shown(reference)
    /\ WithEmptySums(r, answer.rows) = WithEmptySums(r, reference.rows)

EveryRowIsCounted(outcome) ==
    Len(table) - Len(outcome.rows) = outcome.removed + outcome.outlierRows + outcome.collapsed

(* Wherever the rows are, and row by row.                                  *)
RecipeAnswers(r) == [sourceBacked \in BOOLEAN |-> ApplyRecipe(Prepared, r, NoPolicy, sourceBacked)]

MemoryAgrees(r, eager, memory) ==
    /\ memory.refused /\ ~eager.refused =>
            RefusedByLazyPlan(r) \/ ReplacesDates(r) \/ TreatsRenamed(r)
    /\ eager.refused => memory.refused \/ OverwritesRenamed(r)
    /\ ~(eager.refused \/ memory.refused \/ TreatsRenamed(r)) =>
            /\ SameAnswer(r, memory, eager)
            /\ memory.removed \in {eager.removed, eager.removed + eager.outlierRows}

DiskAgrees(r, eager, disk) ==
    /\ disk.refused /\ ~eager.refused => RefusedByDiskPlan(r)
    /\ eager.refused => disk.refused \/ TreatsDropped(r)
    /\ ~(eager.refused \/ disk.refused \/ ReplacesDates(r)) =>
            SameAnswer(r, disk, eager) /\ disk.removed = eager.removed

RecipeAgrees(r, eager, answers) ==
    /\ MemoryAgrees(r, eager, answers[FALSE])
    /\ DiskAgrees(r, eager, answers[TRUE])
    /\ \A answer \in {eager, answers[TRUE]} : answer.refused \/ EveryRowIsCounted(answer)

(* A recipe gives the rows, the columns and the counts it gives row by row *)
(* when it runs as a lazy plan or in DuckDB, and is refused by none of     *)
(* them alone, but for the differences named above; and every row that is  *)
(* gone is in one of the counts, in two of them when a lazy plan removes   *)
(* it as an outlier.                                                       *)
RecipeRoutesAgree ==
    Preparing => \A r \in RecipeChoices : RecipeAgrees(r, RowByRow(r), RecipeAnswers(r))

TreatsAlike(r, eager, memory) ==
    DOMAIN r.outliers # {} /\ ~eager.refused => ~memory.refused /\ SameAnswer(r, memory, eager)

(* A treatment of outliers follows its column through a rename: in memory  *)
(* it gives what it gives row by row.  The code computes the bounds from   *)
(* the source's columns, by their new names (the run RenamedOutliers).     *)
OutliersFollowRenames ==
    Preparing => \A r \in RecipeChoices :
        TreatsAlike(r, RowByRow(r), ApplyRecipe(Prepared, r, NoPolicy, FALSE))

(* The rows an exception policy concerns: those where a conversion it      *)
(* decides about fails.                                                    *)
Failing(r, policy, decision, row) ==
    {n \in InvalidCells(Renamed(Prepared, r), r, [m \in ToSet(EffectiveNames(Prepared, r)) |->
            row[Original(Prepared, r, m)]]) : ActionFor(policy, r, n) = decision}

(* The dataset with the rows a policy excludes taken out by hand, and the  *)
(* cells it nullifies emptied.                                             *)
CleanedByHand(r, policy) ==
    [Prepared EXCEPT !.rows =
        LET kept == SelectSeq(@, LAMBDA row : Failing(r, policy, "exclude", row) = {})
        IN [i \in DOMAIN kept |-> [c \in NamesOf(Prepared) |->
                IF Effective(r, c) \in Failing(r, policy, "nullify", kept[i])
                THEN Null ELSE kept[i][c]]]]

LeavesNoTrace(answer, cleaned, byHand) ==
    /\ answer[TRUE] = answer[FALSE]
    /\ answer[TRUE].refused = byHand.refused
    /\ ~byHand.refused =>
        /\ answer[TRUE].rows = byHand.rows /\ Shown(answer[TRUE]) = Shown(byHand)
        /\ answer[TRUE].removed = byHand.removed + Len(table) - Len(cleaned.rows)

(* Deciding about the values a conversion cannot read leaves no other      *)
(* trace: the recipe gives what it gives on the dataset without those rows *)
(* or with those cells empty, and counts the rows among the removed; and   *)
(* where the rows are kept makes no difference.                            *)
ExceptionsLeaveNoTrace ==
    Preparing => \A choice \in PolicyChoices :
        \A cleaned \in {CleanedByHand(choice.recipe, choice.policy)} :
            LeavesNoTrace([sourceBacked \in BOOLEAN |->
                            ApplyRecipe(Prepared, choice.recipe, choice.policy, sourceBacked)],
                          cleaned,
                          EagerRecipe(cleaned, choice.recipe, NoPolicy))

----------------------------------------------------------------------------
(* The routes of a correction, and where the code lets them differ.        *)

Soiled(types, audited) ==
    LET frame == Frame(SoiledNames, types, soiled)
    IN IF audited THEN AuditEnabled(frame).frame ELSE frame

CellsIn(frame) == UNION {ToSet(ValuesIn(frame, n)) : n \in NamesOf(frame)}

(* A lone row has constant columns on disk only.                           *)
LoneRow(frame, c) == c.op = "columns" /\ c.kind = "constant" /\ Len(frame.rows) = 1

(* In memory every number of a column that is filled goes through a float, *)
(* and columns of other widths are filled too.                             *)
FillsOtherwise(frame, c) ==
    c.op = "impute" /\ (Unsafe(frame) \/ \E n \in NamesOf(frame) : frame.type[n] = "int32")

(* A marker of no value weighs against the kind of its column on disk.     *)
WeighsMarkers(frame, c) ==
    /\ c.op = "text" /\ c.mode = "invalid types"
    /\ \E n \in TextColumns(frame) : \E cell \in ToSet(ValuesIn(frame, n)) :
        Normalized(cell) \in Markers

(* White space other than spaces is a text on disk, for what fills a       *)
(* column and for the kind its values read as.                             *)
TakesTabsForText(frame, c) ==
    /\ CellsIn(frame) \cap (Blank \ Spaces) # {}
    /\ \/ c.op = "impute"
       \/ c.op = "text" /\ c.mode = "invalid types"

(* Two cases the property below says nothing of, as the code contradicts   *)
(* what the program says of them (the README, section 4): the plan made on *)
(* disk while the changes by row are on adds no label to the rows it       *)
(* affects (PreparePhase.tsx:400), and a row of nulls and white space with *)
(* a tab is not removed on disk as blank (feature-parity.md:231-233).      *)
PlannedOnDisk(frame, c) == c.op = "plan" /\ HasAudit(frame) /\ StaysOnDisk(c.plan)

RowsOfTabs(frame, c) ==
    /\ c.op = "empty rows"
    /\ \E row \in ToSet(frame.rows) :
            /\ \A n \in NamesOf(frame) : row[n] \in Blank \cup {Null}
            /\ \E n \in NamesOf(frame) : row[n] \in Blank \ Spaces

Claimed(frame, c) == ~PlannedOnDisk(frame, c) /\ ~RowsOfTabs(frame, c)

(* Limiting outliers on disk leaves every number a float.                  *)
ShownAnswer(c, answer) ==
    IF answer.refused \/ c.op # "outliers" THEN answer
    ELSE [answer EXCEPT !.frame.type = [n \in NamesOf(answer.frame) |->
            IF @[n] \in Numeric THEN "number" ELSE @[n]]]

(* Nothing is published without a change, and no change without being      *)
(* published; no row is gone and none is added but those that are counted, *)
(* and every row that stays has the label of the correction, as            *)
(* dataset/tests.rs:11410-11440 has it also of a row that did not change.  *)
TellsTheTruth(frame, c, answer) ==
    ~answer.refused =>
        /\ answer.published = (answer.frame # frame)
        /\ Len(frame.rows) - Len(answer.frame.rows)
            = CASE c.op = "plan" -> IF answer.published THEN answer.counts.removed ELSE 0
                [] c.op \in {"duplicates", "near duplicates", "empty rows"} -> answer.affected
                [] c.op = "outliers" -> IF c.action = "drop" THEN answer.affected ELSE 0
                [] OTHER -> 0
        /\ answer.published /\ HasAudit(frame) =>
            \A row \in ToSet(answer.frame.rows) : row[Audit] # Null

SameCleaning(frame, c, memory, disk) ==
    /\ \/ ShownAnswer(c, disk) = ShownAnswer(c, memory)
       \/ LoneRow(frame, c) \/ FillsOtherwise(frame, c)
       \/ WeighsMarkers(frame, c) \/ TakesTabsForText(frame, c)
    /\ TellsTheTruth(frame, c, disk)

(* A correction gives the rows, the columns, the labels and the counts it  *)
(* gives in memory when DuckDB makes it on disk, and is refused for the    *)
(* same datasets, but for the differences named above; and what it says it *)
(* did is what it did.                                                     *)
CleaningRoutesAgree ==
    soiled # <<>> => \A c \in CleaningChoices, types \in SoiledTypes, audited \in BOOLEAN :
        \A frame \in {Soiled(types, audited)} : \A memory \in {CleanInMemory(frame, c)} :
            /\ TellsTheTruth(frame, c, memory)
            /\ Claimed(frame, c) => SameCleaning(frame, c, memory, CleanOnDisk(frame, c))
=============================================================================
