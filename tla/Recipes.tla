------------------------------- MODULE Recipes -------------------------------
(***************************************************************************)
(* The transformation recipe in memory: one set of stages, run either row  *)
(* by row (src-tauri/src/dataset/recipe_eager.rs) or as a lazy plan that   *)
(* is validated against the source first (recipe_engine.rs).               *)
(*                                                                         *)
(* A frame has its columns in order, the type of each and its rows.  A     *)
(* cell is Null, a number or a value that stands for a text or a date;     *)
(* what a stage computes from one cell is a constant, because the routes   *)
(* differ in which rows, columns and counts a stage sees.  A recipe is a   *)
(* record with a field per stage, empty where the recipe has none: what it *)
(* lists without repetitions is a function or a set.                       *)
(***************************************************************************)
EXTENDS Cells, Integers, FiniteSets, FiniteSetsExt, SequencesExt

CONSTANTS
    Invalid,            \* the result of a conversion that fails
    Convert(_, _),      \* a cell converted to a type, or parsed with a date format
    NumberIn(_),        \* strict_f64: the number a cell reads as, or Invalid
    Replacement(_),     \* a text with its matches replaced
    Segment(_, _),      \* the n-th part of a text, or Null
    Joined(_),          \* the texts of a sequence with separators
    Concatenated(_, _),
    Year(_),
    Quotient(_, _),     \* the division of two numbers, the second not 0
    Normal(_),          \* a contact, normalised
    Extract(_)          \* what is extracted from a text, or Null

Numeric == {"int", "float"}
TypeOf(target) == IF target \in {"ymd", "iso"} THEN "date" ELSE target

Frame(names, type, rows) ==
    [refused |-> FALSE, names |-> names, type |-> type, rows |-> rows]

Then(frame, Stage(_)) == IF frame.refused THEN Refused ELSE Stage(frame)

NamesOf(frame) == ToSet(frame.names)

(* The frame with one column computed from each row. *)
WithColumn(frame, name, type, Cell(_)) ==
    Frame(IF name \in NamesOf(frame) THEN frame.names ELSE Append(frame.names, name),
          [n \in NamesOf(frame) \cup {name} |-> IF n = name THEN type ELSE frame.type[n]],
          [i \in DOMAIN frame.rows |->
            [n \in NamesOf(frame) \cup {name} |->
                IF n = name THEN Cell(frame.rows[i]) ELSE frame.rows[i][n]]])

(* The frame with the cells of some columns changed, nulls left alone. *)
WithCells(frame, names, NewCell(_, _)) ==
    [frame EXCEPT !.rows = [i \in DOMAIN frame.rows |->
        [n \in NamesOf(frame) |->
            IF n \in names /\ frame.rows[i][n] # Null
            THEN NewCell(n, frame.rows[i][n]) ELSE frame.rows[i][n]]]]

Select(frame, names) ==
    Frame(names, [n \in ToSet(names) |-> frame.type[n]],
          [i \in DOMAIN frame.rows |-> [n \in ToSet(names) |-> frame.rows[i][n]]])

Dropping(frame, names) == Select(frame, SelectSeq(frame.names, LAMBDA n : n \notin names))

CellsChanged(before, after) ==
    Cardinality({c \in (DOMAIN before.rows) \X NamesOf(before) :
                    before.rows[c[1]][c[2]] # after.rows[c[1]][c[2]]})

(* remapped_name *)
Effective(r, c) == IF c \in DOMAIN r.renames THEN r.renames[c] ELSE c
EffectiveAll(r, cs) == {Effective(r, c) : c \in cs}

(* The names the recipe adds. *)
Derived(r) ==
    {c.name : c \in ToSet(r.calculated)} \cup UNION {ToSet(s.names) : s \in ToSet(r.split)}
        \cup {m.name : m \in ToSet(r.merge)} \cup {e[1] : e \in ToSet(r.extractions)}

SummaryColumns(s) == ToSet(s.by) \cup {a[2] : a \in ToSet(s.aggregations)}

----------------------------------------------------------------------------
(* Row by row: recipe_eager.rs.                                            *)

(* Every column the recipe names is one of the source. *)
ColumnsExist(table, r) ==
    /\ DOMAIN r.renames \cup DOMAIN r.casts \cup DOMAIN r.dates \cup {f.column : f \in r.filters}
        \cup ToSet(r.keep) \cup DOMAIN r.outliers \cup r.contacts \subseteq NamesOf(table)
    /\ ToSet(r.replace) \ {"every text"} \subseteq NamesOf(table)
    /\ \A c \in ToSet(r.calculated) :
        /\ c.source \in NamesOf(table)
        /\ c.operand[1] = "column" => c.operand[2] \in NamesOf(table)
    /\ {s.source : s \in ToSet(r.split)} \subseteq NamesOf(table)
    /\ UNION {ToSet(m.sources) : m \in ToSet(r.merge)} \subseteq NamesOf(table)
    /\ {e[2] : e \in ToSet(r.extractions)} \subseteq NamesOf(table)
    /\ UNION {SummaryColumns(s) : s \in ToSet(r.summary)} \ Derived(r) \subseteq NamesOf(table)

EffectiveNames(table, r) == [i \in DOMAIN table.names |-> Effective(r, table.names[i])]
Original(table, r, n) == CHOOSE c \in NamesOf(table) : Effective(r, c) = n

Renamed(table, r) ==
    LET names == EffectiveNames(table, r)
    IN IF Cardinality(ToSet(names)) < Len(names) THEN Refused
       ELSE Frame(names,
                  [n \in ToSet(names) |-> table.type[Original(table, r, n)]],
                  [i \in DOMAIN table.rows |->
                    [n \in ToSet(names) |-> table.rows[i][Original(table, r, n)]]])

(* The casts and date parses of columns that have another type, by their   *)
(* new names.                                                              *)
Conversions(frame, r) ==
    LET Target(c) == IF c \in DOMAIN r.casts THEN r.casts[c] ELSE r.dates[c]
        columns == {c \in DOMAIN r.casts \cup DOMAIN r.dates :
                        frame.type[Effective(r, c)] # TypeOf(Target(c))}
    IN [n \in EffectiveAll(r, columns) |-> Target(CHOOSE c \in columns : Effective(r, c) = n)]

ConvertedTypes(frame, r) ==
    LET to == Conversions(frame, r)
    IN [n \in NamesOf(frame) |-> IF n \in DOMAIN to THEN TypeOf(to[n]) ELSE frame.type[n]]

InvalidCells(frame, r, row) ==
    LET to == Conversions(frame, r)
    IN {n \in DOMAIN to : row[n] # Null /\ Convert(row[n], to[n]) = Invalid}

(* exception_action_for_cast, exception_action_for_date: without a policy  *)
(* every conversion that fails is for the person to review.                *)
ActionFor(policy, r, n) ==
    IF \E c \in DOMAIN policy : Effective(r, c) = n
    THEN policy[CHOOSE c \in DOMAIN policy : Effective(r, c) = n] ELSE "review"

(* Mutant of MustBeExcluded: the mask of the last conversion only. *)
MustBeExcludedByAll(frame, r, policy, row) ==
    /\ InvalidCells(frame, r, row) # {}
    /\ \A n \in DOMAIN Conversions(frame, r) :
        n \in InvalidCells(frame, r, row) /\ ActionFor(policy, r, n) = "exclude"

(* excluded_invalid_rows *)
MustBeExcluded(frame, r, policy, row) ==
    \E n \in InvalidCells(frame, r, row) : ActionFor(policy, r, n) = "exclude"

(* Casts, date parses and the rows the policy excludes. *)
EagerConverted(frame, r, policy) ==
    LET to == Conversions(frame, r)
        OrNull(n, cell) == IF Convert(cell, to[n]) = Invalid THEN Null ELSE Convert(cell, to[n])
    IN IF \/ DOMAIN r.casts \cap DOMAIN r.dates # {}
          \/ \E n \in DOMAIN to : TypeOf(to[n]) = "date" /\ frame.type[n] # "text"
          \/ \E row \in ToSet(frame.rows) : \E n \in InvalidCells(frame, r, row) :
                ActionFor(policy, r, n) = "review"
       THEN Refused
       ELSE WithCells([frame EXCEPT
                        !.type = ConvertedTypes(frame, r),
                        !.rows = SelectSeq(@, LAMBDA row : ~MustBeExcluded(frame, r, policy, row))],
                      DOMAIN to, OrNull)

IsOrdered(f) == f.op \in {"<", ">"}

Passes(cell, f) ==
    CASE f.op = "null" -> cell = Null
      [] f.op = "not null" -> cell # Null
      [] f.op = "=" -> cell = f.value
      [] f.op = "<>" -> cell # Null /\ cell # f.value
      [] f.op = "<" -> cell # Null /\ NumberIn(cell) < f.value
      [] f.op = ">" -> cell # Null /\ NumberIn(cell) > f.value

Filtered(frame, r) ==
    [frame EXCEPT !.rows = SelectSeq(@, LAMBDA row :
        \A f \in r.filters : Passes(row[Effective(r, f.column)], f))]

(* apply_recipe_filters: an ordered filter reads every row as a number. *)
EagerFiltered(frame, r) ==
    IF \E f \in r.filters, row \in ToSet(frame.rows) :
        LET cell == row[Effective(r, f.column)]
        IN IsOrdered(f) /\ cell # Null /\ NumberIn(cell) = Invalid
    THEN Refused ELSE Filtered(frame, r)

Replaced(frame, targets) == WithCells(frame, targets, LAMBDA n, cell : Replacement(cell))

(* apply_find_replace, in a text column or in every one. *)
EagerReplaced(frame, r) ==
    LET targets == IF r.replace = <<"every text">>
                   THEN {n \in NamesOf(frame) : frame.type[n] = "text"}
                   ELSE EffectiveAll(r, ToSet(r.replace))
    IN IF \E n \in targets : frame.type[n] # "text" THEN Refused
       ELSE Replaced(frame, targets)

(* resolve_keep_column_names, apply_keep_columns *)
Kept(frame, r) ==
    IF r.keep = <<>> THEN frame
    ELSE Select(frame, [i \in DOMAIN r.keep |-> Effective(r, r.keep[i])])

(* The calculated column: null unless both values are there. *)
Arithmetic(c) == c.op \in {"+", "/"}
CalculatedType(c) == IF Arithmetic(c) THEN "float" ELSE IF c.op = "year" THEN "int32" ELSE "text"

OperandOf(r, c, row) ==
    IF c.operand[1] = "column" THEN row[Effective(r, c.operand[2])] ELSE c.operand[2]

Calculation(r, c, row) ==
    LET left == row[Effective(r, c.source)]
        right == OperandOf(r, c, row)
    IN IF left = Null \/ right = Null THEN Null
       ELSE CASE c.op = "+" -> NumberIn(left) + NumberIn(right)
              [] c.op = "/" -> Quotient(NumberIn(left), NumberIn(right))
              [] c.op = "concat" -> Concatenated(left, right)
              [] c.op = "year" -> Year(left)

CalculationInputs(r, c) ==
    {Effective(r, c.source)}
        \cup (IF c.operand[1] = "column" THEN {Effective(r, c.operand[2])} ELSE {})

(* add_calculated_column: the rows that have both values must give one. *)
CannotCalculate(r, c, row) ==
    LET left == row[Effective(r, c.source)]
        right == OperandOf(r, c, row)
    IN /\ Arithmetic(c) /\ left # Null /\ right # Null
       /\ Invalid \in {NumberIn(left), NumberIn(right)} \/ (c.op = "/" /\ NumberIn(right) = 0)

WithCalculation(frame, r, c) ==
    WithColumn(frame, c.name, CalculatedType(c), LAMBDA row : Calculation(r, c, row))

EagerCalculated(frame, r) ==
    LET c == r.calculated[1]
    IN IF r.calculated = <<>> THEN frame
       ELSE IF \/ c.name \in NamesOf(frame)
               \/ ~CalculationInputs(r, c) \subseteq NamesOf(frame)
               \/ c.op = "year" /\ frame.type[Effective(r, c.source)] # "date"
               \/ \E row \in ToSet(frame.rows) : CannotCalculate(r, c, row)
            THEN Refused
       ELSE WithCalculation(frame, r, c)

(* apply_split_column *)
WithSegments(frame, r) ==
    LET s == r.split[1]
        source == Effective(r, s.source)
        AddSegment(f, n) ==
            WithColumn(f, s.names[n], "text", LAMBDA row :
                IF row[source] = Null THEN Null ELSE Segment(row[source], n))
        added == FoldLeftDomain(AddSegment, frame, s.names)
    IN IF s.drop THEN Dropping(added, {source}) ELSE added

EagerSplit(frame, r) ==
    LET s == r.split[1]
        source == Effective(r, s.source)
    IN IF r.split = <<>> THEN frame
       ELSE IF \/ \E m \in ToSet(r.merge) : s.drop /\ s.source \in ToSet(m.sources)
               \/ source \notin NamesOf(frame)
               \/ ToSet(s.names) \cap NamesOf(frame) # {}
            THEN Refused
       ELSE IF frame.type[source] # "text" THEN Refused
       ELSE WithSegments(frame, r)

(* apply_merge_columns: nulls are left out, only nulls give a null. *)
WithUnion(frame, r) ==
    LET m == r.merge[1]
        sources == [i \in DOMAIN m.sources |-> Effective(r, m.sources[i])]
        Union(row) ==
            LET present == SelectSeq([i \in DOMAIN sources |-> row[sources[i]]],
                                     LAMBDA cell : cell # Null)
            IN IF present = <<>> THEN Null ELSE Joined(present)
        added == WithColumn(frame, m.name, "text", Union)
    IN IF m.drop THEN Dropping(added, ToSet(sources)) ELSE added

EagerMerged(frame, r) ==
    LET m == r.merge[1]
        sources == EffectiveAll(r, ToSet(m.sources))
    IN IF r.merge = <<>> THEN frame
       ELSE IF m.name \in NamesOf(frame) \/ ~sources \subseteq NamesOf(frame) THEN Refused
       ELSE IF \E n \in sources : frame.type[n] # "text" THEN Refused
       ELSE WithUnion(frame, r)

----------------------------------------------------------------------------
(* Outliers: the numbers beyond one and a half interquartile ranges.       *)

ValuesIn(frame, n) ==
    SelectSeq([i \in DOMAIN frame.rows |-> frame.rows[i][n]], LAMBDA cell : cell # Null)

(* The k-th smallest of a sequence. *)
Smallest(values, k) ==
    CHOOSE v \in ToSet(values) :
        /\ Cardinality({i \in DOMAIN values : values[i] < v}) < k
        /\ Cardinality({i \in DOMAIN values : values[i] <= v}) >= k

(* outlier_linear_quantile, in quarters; exact for multiples of four. *)
Quartile(values, q) ==
    LET position == q * (Len(values) - 1)
        weight == position % 4
        lower == position \div 4 + 1
        upper == IF weight = 0 THEN lower ELSE lower + 1
    IN (Smallest(values, lower) * (4 - weight) + Smallest(values, upper) * weight) \div 4

(* prepare_outlier_treatments: the bounds and the median of a column. *)
OutlierBounds(frame, n) ==
    LET values == ValuesIn(frame, n)
        range == Quartile(values, 3) - Quartile(values, 1)
    IN [lower  |-> Quartile(values, 1) - (3 * range) \div 2,
        upper  |-> Quartile(values, 3) + (3 * range) \div 2,
        median |-> IF frame.type[n] = "int" THEN Smallest(values, (Len(values) + 1) \div 2)
                   ELSE Quartile(values, 2)]

CanBeTreated(frame, n) ==
    /\ n \in NamesOf(frame)
    /\ frame.type[n] \in Numeric
    /\ Len(ValuesIn(frame, n)) >= 4

Treatment(r, n) == r.outliers[CHOOSE c \in DOMAIN r.outliers : Effective(r, c) = n]
IsOutlier(bounds, cell) == cell # Null /\ (cell < bounds.lower \/ cell > bounds.upper)

(* The cells that Cap and Impute adjust, the rows that Drop removes. *)
OutlierCells(frame, r, bounds) ==
    {c \in (DOMAIN frame.rows) \X (DOMAIN bounds) :
        Treatment(r, c[2]) # "drop" /\ IsOutlier(bounds[c[2]], frame.rows[c[1]][c[2]])}
OutlierRow(r, bounds, row) ==
    \E n \in DOMAIN bounds : Treatment(r, n) = "drop" /\ IsOutlier(bounds[n], row[n])

Treated(frame, r, bounds) ==
    LET NewCell(n, cell) ==
            IF Treatment(r, n) = "drop" \/ ~IsOutlier(bounds[n], cell) THEN cell
            ELSE IF Treatment(r, n) = "impute" THEN bounds[n].median
            ELSE IF cell < bounds[n].lower THEN bounds[n].lower ELSE bounds[n].upper
        adjusted == WithCells(frame, DOMAIN bounds, NewCell)
        Capped(n) == n \in DOMAIN bounds /\ Treatment(r, n) = "cap"
                        /\ \E c \in OutlierCells(frame, r, bounds) : c[2] = n
    IN [adjusted EXCEPT
            !.type = [n \in NamesOf(frame) |-> IF Capped(n) THEN "float" ELSE frame.type[n]],
            !.rows = SelectSeq(@, LAMBDA row : ~OutlierRow(r, bounds, row))]

BoundsOf(frame, r) == [n \in EffectiveAll(r, DOMAIN r.outliers) |-> OutlierBounds(frame, n)]

(* apply_outlier_treatments *)
EagerTreated(frame, r) ==
    IF \E n \in EffectiveAll(r, DOMAIN r.outliers) : ~CanBeTreated(frame, n) THEN Refused
    ELSE Treated(frame, r, BoundsOf(frame, r))

----------------------------------------------------------------------------
(* Contacts, extractions and the summary by group.                         *)

IsText(frame, n) == n \in NamesOf(frame) /\ frame.type[n] = "text"

WithContacts(frame, r) ==
    WithCells(frame, EffectiveAll(r, r.contacts), LAMBDA n, cell : Normal(cell))

(* apply_contact_normalizations *)
EagerContacts(frame, r) ==
    IF \E n \in EffectiveAll(r, r.contacts) : ~IsText(frame, n) THEN Refused
    ELSE WithContacts(frame, r)

WithExtraction(frame, name, source) ==
    WithColumn(frame, name, "text", LAMBDA row :
        IF row[source] = Null THEN Null ELSE Extract(row[source]))

(* apply_text_extractions, one after the other. *)
EagerExtracted(frame, r) ==
    LET Step(f, e) ==
            IF f.refused THEN Refused
            ELSE IF e[1] \in NamesOf(f) \/ ~IsText(f, Effective(r, e[2])) THEN Refused
            ELSE WithExtraction(f, e[1], Effective(r, e[2]))
    IN FoldLeft(Step, frame, r.extractions)

OutputName(r, a) == Effective(r, a[2]) \o "_" \o a[1]

AggregateType(frame, r, a) ==
    CASE a[1] \in {"count", "count_unique"} -> "int"
      [] a[1] = "mean" -> "float"
      [] OTHER -> frame.type[Effective(r, a[2])]

(* An aggregation over the rows of a group: the sum of nothing is 0. *)
Aggregated(op, cells) ==
    LET values == SelectSeq(cells, LAMBDA cell : cell # Null)
        total == FoldLeft(LAMBDA x, y : x + y, 0, values)
    IN CASE op = "count" -> Len(cells)
         [] op = "count_unique" -> Cardinality(ToSet(values))
         [] op = "sum" -> total
         [] op = "mean" -> IF values = <<>> THEN Null ELSE Quotient(total, Len(values))
         [] op = "max" ->
                IF values = <<>> THEN Null
                ELSE CHOOSE v \in ToSet(values) : \A w \in ToSet(values) : w <= v

SummaryIsValid(frame, r, s) ==
    LET by == EffectiveAll(r, ToSet(s.by))
        outputs == [i \in DOMAIN s.aggregations |-> OutputName(r, s.aggregations[i])]
    IN /\ EffectiveAll(r, SummaryColumns(s)) \subseteq NamesOf(frame)
       /\ by \cap ToSet(outputs) = {}
       /\ Cardinality(ToSet(outputs)) = Len(outputs)
       /\ \A a \in ToSet(s.aggregations) :
            a[1] \in {"sum", "mean"} => frame.type[Effective(r, a[2])] \in Numeric

GroupOf(r, s, row) == [i \in DOMAIN s.by |-> row[Effective(r, s.by[i])]]

(* One row per key, with the cells the rows of that key give. *)
SummaryFrame(frame, r, s, keys, Aggregate(_, _)) ==
    LET by == [i \in DOMAIN s.by |-> Effective(r, s.by[i])]
        outputs == [i \in DOMAIN s.aggregations |-> OutputName(r, s.aggregations[i])]
        Members(key) == SelectSeq(frame.rows, LAMBDA row : GroupOf(r, s, row) = key)
        Position(names, n) == CHOOSE i \in DOMAIN names : names[i] = n
        Cell(key, n) ==
            IF n \in ToSet(by) THEN key[Position(by, n)]
            ELSE LET a == s.aggregations[Position(outputs, n)]
                 IN Aggregate(a[1], [i \in DOMAIN Members(key) |-> Members(key)[i][Effective(r, a[2])]])
    IN Frame(by \o outputs,
             [n \in ToSet(by \o outputs) |->
                IF n \in ToSet(by) THEN frame.type[n]
                ELSE AggregateType(frame, r, s.aggregations[Position(outputs, n)])],
             [k \in DOMAIN keys |-> [n \in ToSet(by \o outputs) |-> Cell(keys[k], n)]])

(* The keys in the order their first rows have. *)
FirstKeys(frame, r, s) ==
    FoldLeft(LAMBDA keys, row :
        IF GroupOf(r, s, row) \in ToSet(keys) THEN keys ELSE Append(keys, GroupOf(r, s, row)),
        <<>>, frame.rows)

(* apply_group_summary *)
EagerGrouped(frame, r) ==
    LET s == r.summary[1]
    IN IF r.summary = <<>> THEN frame
       ELSE IF ~SummaryIsValid(frame, r, s) THEN Refused
       ELSE SummaryFrame(frame, r, s, FirstKeys(frame, r, s), Aggregated)

----------------------------------------------------------------------------
(* What a route answers: a frame and the counts the person is shown.       *)

Outcome(frame, removed, replaced, adjusted, outlierRows, collapsed, contacts) ==
    [refused |-> FALSE, names |-> frame.names, type |-> frame.type, rows |-> frame.rows,
     removed |-> removed, replaced |-> replaced, adjusted |-> adjusted,
     outlierRows |-> outlierRows, collapsed |-> collapsed, contacts |-> contacts]

NoPolicy == [c \in {} |-> "review"]

Arrived(run, stage, frame) == [result |-> frame] @@ (stage :> frame) @@ run

(* The frames a recipe goes through, by the name of the stage that gives   *)
(* each; after a refusal all are refused.                                  *)
AfterStages(start, stages, Stage(_, _)) ==
    FoldLeft(LAMBDA run, stage :
                Arrived(run, stage, Then(run.result, LAMBDA f : Stage(stage, f))),
             [renamed |-> start, result |-> start], stages)

EagerStages == <<"converted", "filtered", "replaced", "kept", "calculated", "split", "merged",
                 "treated", "contacts", "extracted", "grouped">>

EagerStage(r, policy, stage, f) ==
    CASE stage = "converted" -> EagerConverted(f, r, policy)
      [] stage = "filtered" -> EagerFiltered(f, r)
      [] stage = "replaced" -> EagerReplaced(f, r)
      [] stage = "kept" -> Kept(f, r)
      [] stage = "calculated" -> EagerCalculated(f, r)
      [] stage = "split" -> EagerSplit(f, r)
      [] stage = "merged" -> EagerMerged(f, r)
      [] stage = "treated" -> EagerTreated(f, r)
      [] stage = "contacts" -> EagerContacts(f, r)
      [] stage = "extracted" -> EagerExtracted(f, r)
      [] stage = "grouped" -> EagerGrouped(f, r)

Start(table, r, accepted) == IF accepted THEN Renamed(table, r) ELSE Refused

EagerOutcome(table, r, run) ==
    IF run.result.refused THEN Refused
    ELSE Outcome(run.result,
                 Len(table.rows) - Len(run.filtered.rows),
                 CellsChanged(run.filtered, run.replaced),
                 Cardinality(OutlierCells(run.merged, r, BoundsOf(run.merged, r))),
                 Len(run.merged.rows) - Len(run.treated.rows),
                 Len(run.extracted.rows) - Len(run.result.rows),
                 CellsChanged(run.treated, run.contacts))

(* apply_eager_recipe_to_frame_with_exception_policy *)
EagerRecipe(table, r, policy) ==
    EagerOutcome(table, r,
        AfterStages(Start(table, r, ColumnsExist(table, r)), EagerStages,
                LAMBDA stage, f : EagerStage(r, policy, stage, f)))
=============================================================================
