----------------------------- MODULE RecipePlans -----------------------------
(***************************************************************************)
(* The transformation recipe as a plan: a lazy one over the frame          *)
(* (src-tauri/src/dataset/recipe_engine.rs) or a query DuckDB runs over    *)
(* the file of a source-backed dataset (recipe_source_projection.rs), and  *)
(* the choice between them (src-tauri/src/dataset.rs).  A plan is checked  *)
(* against the schema before a row is read: what the stages of Recipes     *)
(* decide on the frame they are given, a plan decides on the names and the *)
(* types it expects there.  Polars and DuckDB are taken to convert every   *)
(* row before they filter, and DuckDB to keep the order of the rows.       *)
(***************************************************************************)
EXTENDS Recipes

CONSTANT HasOffset(_)   \* a date and time with an offset other than Z

(* lazy_renames_have_no_cycles *)
NoCycles(r) ==
    ~ \E names \in SUBSET DOMAIN r.renames :
        names # {} /\ \A c \in names : r.renames[c] \in names

(* lazy_iso8601_value_supported, and what DuckDB's try_strptime reads. *)
IsPlainIso(cell) == Convert(cell, "iso") # Invalid /\ ~HasOffset(cell)

CellsOf(table, c) == {row[c] : row \in ToSet(table.rows)} \ {Null}

DatePartIsKnown(table, r, c) ==
    c.op = "year" =>
        /\ c.source \notin DOMAIN r.casts
        /\ \/ c.source \in NamesOf(table) /\ table.type[c.source] = "date"
           \/ c.source \in DOMAIN r.dates

OutliersAreAlone(r) ==
    /\ DOMAIN r.casts = {} /\ DOMAIN r.dates = {} /\ r.contacts = {}
    /\ r.replace \o r.calculated \o r.split \o r.merge \o r.summary \o r.extractions = <<>>

(* lazy_recipe_supported *)
LazySupported(table, r) ==
    /\ NoCycles(r)
    /\ r.keep # <<>> =>
        EffectiveAll(r, DOMAIN r.outliers) \subseteq EffectiveAll(r, ToSet(r.keep))
    /\ DOMAIN r.dates \cap DOMAIN r.casts = {}
    /\ \A c \in DOMAIN r.dates :
        /\ c \in NamesOf(table) /\ table.type[c] \in {"text", "date"}
        /\ r.dates[c] = "iso" /\ table.type[c] = "text" =>
            \A cell \in CellsOf(table, c) : IsPlainIso(cell)
    /\ DOMAIN r.outliers # {} => OutliersAreAlone(r)
    /\ \A c \in DOMAIN r.outliers : c \in NamesOf(table) /\ table.type[c] \in Numeric
    /\ \A c \in ToSet(r.calculated) : DatePartIsKnown(table, r, c)

Unrenamed(r) == [r EXCEPT !.renames = NoPolicy]

(* validate_lazy_recipe_inputs: every row of the source, before a stage.   *)
LazyInputsValid(table, r) ==
    LET AllRead(c, To(_)) == \A cell \in CellsOf(table, c) : To(cell) # Invalid
    IN /\ \A c \in DOMAIN r.casts :
            table.type[c] # r.casts[c] => AllRead(c, LAMBDA cell : Convert(cell, r.casts[c]))
       /\ \A f \in r.filters : IsOrdered(f) => AllRead(f.column, NumberIn)
       /\ \A c \in ToSet(r.calculated) : Arithmetic(c) =>
            /\ AllRead(c.source, NumberIn)
            /\ c.operand[1] = "column" => AllRead(c.operand[2], NumberIn)
            /\ ~ \E row \in ToSet(table.rows) :
                    CannotCalculate(Unrenamed(r), c, row)

(* The conversions of a lazy plan are all or nothing.                      *)
LazyConverted(frame, r) ==
    LET to == Conversions(frame, r)
    IN IF \/ \E n \in DOMAIN to : TypeOf(to[n]) = "date" /\ frame.type[n] # "text"
          \/ \E row \in ToSet(frame.rows) : InvalidCells(frame, r, row) # {}
       THEN Refused
       ELSE WithCells([frame EXCEPT !.type = ConvertedTypes(frame, r)], DOMAIN to,
                      LAMBDA n, cell : Convert(cell, to[n]))

(* What a plan takes for text: it forgets the dates the recipe parses.     *)
IsTextAfterCast(table, r, c) ==
    IF c \in DOMAIN r.casts THEN r.casts[c] = "text" ELSE table.type[c] = "text"

(* A text operation on a column that is a date by then fails when it runs. *)
IsTextInPlan(frame, table, r, c) ==
    IsTextAfterCast(table, r, c) /\ IsText(frame, Effective(r, c))

(* lazy_find_replace_targets *)
PlannedTargets(table, r) ==
    IF r.replace = <<"every text">>
    THEN EffectiveAll(r, {c \in NamesOf(table) : IsTextAfterCast(table, r, c)})
    ELSE EffectiveAll(r, ToSet(r.replace))

LazyReplaced(frame, table, r) ==
    LET named == ToSet(r.replace) \ {"every text"}
    IN IF \/ \E c \in named : ~IsTextAfterCast(table, r, c)
          \/ \E n \in PlannedTargets(table, r) : ~IsText(frame, n)
       THEN Refused
       ELSE Replaced(frame, PlannedTargets(table, r))

(* The name is only looked for among those the source had.                 *)
LazyCalculated(frame, table, r) ==
    LET c == r.calculated[1]
    IN IF r.calculated = <<>> THEN frame
       ELSE IF \/ c.name \in NamesOf(table)
               \/ ~CalculationInputs(r, c) \subseteq NamesOf(frame)
               \/ \E row \in ToSet(frame.rows) : CannotCalculate(r, c, row)
            THEN Refused
       ELSE WithCalculation(frame, r, c)

(* The columns kept, in the order the recipe keeps them.                   *)
Selected(table, r) ==
    IF r.keep = <<>> THEN EffectiveNames(table, r)
    ELSE [i \in DOMAIN r.keep |-> Effective(r, r.keep[i])]

CalculatedNames(r) == [i \in DOMAIN r.calculated |-> r.calculated[i].name]
SplitNames(r) == IF r.split = <<>> THEN <<>> ELSE r.split[1].names
SplitSources(r) == {Effective(r, s.source) : s \in {s \in ToSet(r.split) : s.drop}}

(* output_names: what the plan expects before it divides, and after.       *)
NamesToDivide(table, r) == Selected(table, r) \o CalculatedNames(r)
NamesToUnite(table, r) ==
    SelectSeq(NamesToDivide(table, r), LAMBDA n : n \notin SplitSources(r)) \o SplitNames(r)

LazySplit(frame, table, r) ==
    LET s == r.split[1]
        names == ToSet(NamesToDivide(table, r))
    IN IF r.split = <<>> THEN frame
       ELSE IF \/ Effective(r, s.source) \notin names
               \/ ~IsTextInPlan(frame, table, r, s.source)
               \/ ToSet(s.names) \cap names # {}
            THEN Refused
       ELSE WithSegments(frame, r)

LazyMerged(frame, table, r) ==
    LET m == r.merge[1]
        names == ToSet(NamesToUnite(table, r))
    IN IF r.merge = <<>> THEN frame
       ELSE IF \/ m.name \in names
               \/ ~EffectiveAll(r, ToSet(m.sources)) \subseteq names
               \/ \E c \in ToSet(m.sources) : ~IsTextInPlan(frame, table, r, c)
            THEN Refused
       ELSE WithUnion(frame, r)

(* The rows the bounds are computed from: without filters, the source's.   *)
BoundsSource(frame, table, r) == IF r.filters = {} THEN table ELSE frame

LazyTreated(frame, table, r) ==
    LET source == BoundsSource(frame, table, r)
    IN IF \E n \in EffectiveAll(r, DOMAIN r.outliers) : ~CanBeTreated(source, n) THEN Refused
       ELSE Treated(frame, r, BoundsOf(source, r))

(* lazy_contact_targets, lazy_contact_expression *)
LazyContacts(frame, table, r) ==
    IF \E c \in r.contacts : ~IsTextInPlan(frame, table, r, c) THEN Refused
    ELSE WithContacts(frame, r)

ExtractedNames(r) == [i \in DOMAIN r.extractions |-> r.extractions[i][1]]
WithExtractions(frame, r) ==
    FoldLeft(LAMBDA f, e : WithExtraction(f, e[1], Effective(r, e[2])), frame, r.extractions)

(* lazy_text_extraction_targets, lazy_text_extraction_expression *)
LazyExtracted(frame, table, r) ==
    IF \/ Cardinality(ToSet(ExtractedNames(r))) < Len(r.extractions)
       \/ \E e \in ToSet(r.extractions) :
            e[1] \in NamesOf(frame) \/ ~IsTextInPlan(frame, table, r, e[2])
    THEN Refused ELSE WithExtractions(frame, r)

(* validate_lazy_group_summary, then group_by_stable and agg.              *)
LazyGrouped(frame, r) ==
    LET s == r.summary[1]
    IN IF r.summary = <<>> THEN frame
       ELSE IF ~SummaryIsValid(frame, r, s) THEN Refused
       ELSE SummaryFrame(frame, r, s, FirstKeys(frame, r, s), Aggregated)

LazyStage(table, r, stage, f) ==
    CASE stage = "converted" -> LazyConverted(f, r)
      [] stage = "filtered" -> IF LazyInputsValid(table, r) THEN Filtered(f, r) ELSE Refused
      [] stage = "replaced" -> LazyReplaced(f, table, r)
      [] stage = "kept" -> Kept(f, r)
      [] stage = "calculated" -> LazyCalculated(f, table, r)
      [] stage = "split" -> LazySplit(f, table, r)
      [] stage = "merged" -> LazyMerged(f, table, r)
      [] stage = "treated" -> LazyTreated(f, table, r)
      [] stage = "contacts" -> LazyContacts(f, table, r)
      [] stage = "extracted" -> LazyExtracted(f, table, r)
      [] stage = "grouped" -> LazyGrouped(f, r)

(* The rows that outliers remove are counted among the removed ones too.   *)
LazyOutcome(table, r, run, source, bounds) ==
    IF run.result.refused THEN Refused
    ELSE Outcome(run.result,
                 Len(table.rows) - Len(run.extracted.rows),
                 CellsChanged(run.filtered, run.replaced),
                 Cardinality(OutlierCells(source, r, bounds)),
                 Cardinality({i \in DOMAIN source.rows : OutlierRow(r, bounds, source.rows[i])}),
                 Len(run.extracted.rows) - Len(run.result.rows),
                 CellsChanged(run.treated, run.contacts))

LazyCounted(table, r, run, source) == LazyOutcome(table, r, run, source, BoundsOf(source, r))
LazyAnswer(table, r, run) == LazyCounted(table, r, run, BoundsSource(run.merged, table, r))

(* apply_lazy_recipe_to_frame *)
LazyRecipe(table, r) ==
    LazyAnswer(table, r,
        AfterStages(Start(table, r, ColumnsExist(table, r)), EagerStages,
                LAMBDA stage, f : LazyStage(table, r, stage, f)))

(* apply_recipe_to_frame *)
MemoryRecipe(table, r) ==
    IF LazySupported(table, r) THEN LazyRecipe(table, r) ELSE EagerRecipe(table, r, NoPolicy)

----------------------------------------------------------------------------
(* On disk: recipe_source_projection.rs.                                   *)

IsEmptyRecipe(r) ==
    /\ DOMAIN r.renames \cup DOMAIN r.casts \cup DOMAIN r.dates \cup DOMAIN r.outliers = {}
    /\ r.filters = {} /\ r.contacts = {}
    /\ r.keep \o r.replace \o r.calculated \o r.split \o r.merge \o r.summary \o r.extractions
        = <<>>

(* source_backed_projection_recipe_supported *)
DiskSupported(table, r) ==
    /\ ~IsEmptyRecipe(r)
    /\ \A c \in ToSet(r.calculated) : DatePartIsKnown(table, r, c)

(* Mutant of IsoIsReadable: DuckDB is trusted with every date. *)
IsoIsAssumed(table, r) == TRUE

(* source_backed_iso8601_values_are_supported *)
IsoIsReadable(table, r) ==
    \A c \in DOMAIN r.dates :
        r.dates[c] = "iso" /\ c \in NamesOf(table) /\ table.type[c] # "date" =>
            \A cell \in CellsOf(table, c) : IsPlainIso(cell)

(* The sources that a division or a union drops. *)
DroppedSources(r) ==
    SplitSources(r)
        \cup UNION {EffectiveAll(r, ToSet(m.sources)) : m \in {m \in ToSet(r.merge) : m.drop}}

MergedNames(r) == [i \in DOMAIN r.merge |-> r.merge[i].name]

(* output_columns, before the extractions. *)
PlannedNames(table, r) ==
    SelectSeq(Selected(table, r) \o CalculatedNames(r) \o SplitNames(r),
              LAMBDA n : n \notin DroppedSources(r)) \o MergedNames(r)

(* The names a stage adds are new, even against columns already dropped.   *)
NamesAreNew(table, r) ==
    LET new == CalculatedNames(r) \o SplitNames(r) \o MergedNames(r) \o ExtractedNames(r)
    IN /\ ToSet(new) \cap ToSet(EffectiveNames(table, r)) = {}
       /\ Cardinality(ToSet(new)) = Len(new)

(* available_types: of every column not dropped by a division or a union.  *)
PlannedTypes(table, r) ==
    LET renamed == Renamed(table, r)
        names == (NamesOf(renamed) \cup Derived(r)) \ DroppedSources(r)
        TypeNamed(n) ==
            IF n \in EffectiveAll(r, r.contacts) THEN "text"
            ELSE IF n \in NamesOf(renamed) THEN ConvertedTypes(renamed, r)[n]
            ELSE IF n \in ToSet(CalculatedNames(r)) THEN CalculatedType(r.calculated[1])
            ELSE "text"
    IN [n \in names |-> TypeNamed(n)]

(* source_backed_group_summary_plan: the columns extracted are not known.  *)
SummaryIsPlanned(table, r, types) ==
    r.summary # <<>> =>
        SummaryIsValid(Frame(PlannedNames(table, r), types, <<>>), r, r.summary[1])

(* The parts of source_backed_projection_plan, one for each stage.         *)

ConversionsArePlanned(table, r) ==
    /\ DOMAIN r.casts \cap DOMAIN r.dates = {}
    /\ \A c \in DOMAIN r.dates : table.type[c] \in {"text", "date"}

DivisorIsPlanned(c) == c.op = "/" => c.operand # <<"literal", 0>>

CalculationIsPlanned(table, r) ==
    \A c \in ToSet(r.calculated) :
        DivisorIsPlanned(c) /\ CalculationInputs(r, c) \subseteq ToSet(Selected(table, r))

(* text_after_cast, of columns the recipe keeps.                           *)
TextIsKept(table, r, cs) ==
    \A c \in cs : /\ Effective(r, c) \in ToSet(Selected(table, r))
                   /\ IsTextAfterCast(table, r, c)

ReplacementIsPlanned(table, r) ==
    \A n \in ToSet(r.replace) \ {"every text"} : IsTextAfterCast(table, r, n)

DivisionIsPlanned(table, r) ==
    /\ TextIsKept(table, r, {s.source : s \in ToSet(r.split)})
    /\ \A s \in ToSet(r.split), m \in ToSet(r.merge) : s.drop => s.source \notin ToSet(m.sources)

UnionIsPlanned(table, r) == TextIsKept(table, r, UNION {ToSet(m.sources) : m \in ToSet(r.merge)})

ContactsArePlanned(table, r) ==
    /\ TextIsKept(table, r, r.contacts)
    /\ EffectiveAll(r, r.contacts) \cap DroppedSources(r) = {}

ExtractionsArePlanned(table, r) ==
    LET sources == {e[2] : e \in ToSet(r.extractions)}
    IN TextIsKept(table, r, sources) /\ EffectiveAll(r, sources) \cap DroppedSources(r) = {}

OutliersArePlanned(r, types) ==
    \A n \in EffectiveAll(r, DOMAIN r.outliers) : n \in DOMAIN types /\ types[n] \in Numeric

PlanAccepts(table, r) ==
    /\ NoCycles(r)
    /\ ColumnsExist(table, r)
    /\ ~Renamed(table, r).refused
    /\ ConversionsArePlanned(table, r)
    /\ NamesAreNew(table, r)
    /\ CalculationIsPlanned(table, r)
    /\ ReplacementIsPlanned(table, r)
    /\ DivisionIsPlanned(table, r)
    /\ UnionIsPlanned(table, r)
    /\ ContactsArePlanned(table, r)
    /\ ExtractionsArePlanned(table, r)
    /\ OutliersArePlanned(r, PlannedTypes(table, r))
    /\ SummaryIsPlanned(table, r, PlannedTypes(table, r))

(* transformed: try_strptime gives NULL, the other conversions an error.   *)
DiskConverted(frame, r) ==
    LET to == Conversions(frame, r)
        Converted(n, cell) ==
            IF to[n] = "iso" /\ ~IsPlainIso(cell) THEN Null ELSE Convert(cell, to[n])
    IN IF \E row \in ToSet(frame.rows) : \E n \in InvalidCells(frame, r, row) : to[n] # "iso"
       THEN Refused
       ELSE WithCells([frame EXCEPT !.type = ConvertedTypes(frame, r)], DOMAIN to, Converted)

(* replaced: what it changes is text, a date included.                     *)
DiskReplaced(frame, table, r) ==
    LET targets == PlannedTargets(table, r)
    IN [Replaced(frame, targets) EXCEPT
            !.type = [n \in NamesOf(frame) |-> IF n \in targets THEN "text" ELSE frame.type[n]]]

(* source_backed_filter_expression: the cast of an ordered filter fails on *)
(* any row it cannot read.                                                 *)
DiskFiltered(frame, r) ==
    IF \E f \in {f \in r.filters : IsOrdered(f)}, row \in ToSet(frame.rows) :
        row[Effective(r, f.column)] # Null /\ NumberIn(row[Effective(r, f.column)]) = Invalid
    THEN Refused ELSE Filtered(frame, r)

(* calculated: each operand is read as a number, whatever the other is.    *)
DiskCalculated(frame, r) ==
    LET c == r.calculated[1]
        Unreadable(row) ==
            Arithmetic(c) /\ \E cell \in {row[Effective(r, c.source)], OperandOf(r, c, row)} :
                cell # Null /\ NumberIn(cell) = Invalid
    IN IF r.calculated = <<>> THEN frame
       ELSE IF \E row \in ToSet(frame.rows) : Unreadable(row) \/ CannotCalculate(r, c, row)
            THEN Refused
       ELSE WithCalculation(frame, r, c)

(* outliers, over columns the recipe may not keep. *)
DiskTreated(frame, r) ==
    IF \E n \in EffectiveAll(r, DOMAIN r.outliers) : Len(ValuesIn(frame, n)) < 4 THEN Refused
    ELSE Treated(frame, r, BoundsOf(frame, r))

KeepingSources(r) ==
    [r EXCEPT !.split = [i \in DOMAIN @ |-> [@[i] EXCEPT !.drop = FALSE]],
              !.merge = [i \in DOMAIN @ |-> [@[i] EXCEPT !.drop = FALSE]]]

(* source_backed_summary_aggregate_expression: the SUM of nothing is NULL. *)
DiskAggregated(op, cells) ==
    IF op = "sum" /\ ToSet(cells) \subseteq {Null} THEN Null ELSE Aggregated(op, cells)

(* grouped, in the order of MIN(row_number()). *)
DiskGrouped(frame, r) ==
    IF r.summary = <<>> THEN frame
    ELSE SummaryFrame(frame, r, r.summary[1], FirstKeys(frame, r, r.summary[1]), DiskAggregated)

DiskStages == <<"converted", "filtered", "replaced", "calculated", "split", "merged", "treated",
                "selected", "contacts", "extracted", "grouped">>

(* The stages of source_backed_projection_query. *)
DiskStage(table, r, stage, f) ==
    CASE stage = "converted" -> DiskConverted(f, r)
      [] stage = "filtered" -> DiskFiltered(f, r)
      [] stage = "replaced" -> DiskReplaced(f, table, r)
      [] stage = "calculated" -> DiskCalculated(f, r)
      [] stage = "split" -> IF r.split = <<>> THEN f ELSE WithSegments(f, KeepingSources(r))
      [] stage = "merged" -> IF r.merge = <<>> THEN f ELSE WithUnion(f, KeepingSources(r))
      [] stage = "treated" -> DiskTreated(f, r)
      [] stage = "selected" -> Select(f, PlannedNames(table, r))
      [] stage = "contacts" -> WithContacts(f, r)
      [] stage = "extracted" -> WithExtractions(f, r)
      [] stage = "grouped" -> DiskGrouped(f, r)

DiskOutcome(table, r, run) ==
    IF run.result.refused THEN Refused
    ELSE Outcome(run.result,
                 Len(table.rows) - Len(run.filtered.rows),
                 CellsChanged(run.filtered, run.replaced),
                 Cardinality(OutlierCells(run.merged, r, BoundsOf(run.merged, r))),
                 Len(run.merged.rows) - Len(run.treated.rows),
                 Len(run.extracted.rows) - Len(run.result.rows),
                 CellsChanged(run.selected, run.contacts))

(* apply_source_backed_projection_recipe_with_cancellation *)
DiskRecipe(table, r) ==
    DiskOutcome(table, r,
        AfterStages(Start(table, r, PlanAccepts(table, r)), DiskStages,
                LAMBDA stage, f : DiskStage(table, r, stage, f)))

----------------------------------------------------------------------------
(* apply_recipe_to_dataset_with_policy_and_cancellation: dataset.rs.       *)

StructureChanges(table, r) ==
    \/ EffectiveNames(table, r) # table.names
    \/ DOMAIN Conversions(Renamed(table, r), r) # {}
    \/ Derived(r) # {} \/ r.summary # <<>> \/ DroppedSources(r) # {}
    \/ Selected(table, r) # EffectiveNames(table, r)

(* A recipe that changed nothing leaves the dataset and its history.       *)
Changes(table, r, outcome) ==
    \/ StructureChanges(table, r)
    \/ outcome.removed + outcome.replaced + outcome.adjusted + outcome.outlierRows
        + outcome.contacts > 0

(* The decisions must be about the conversions of the recipe; one that is  *)
(* not to review them takes the recipe to memory, row by row.              *)
Computed(table, r, policy, sourceBacked) ==
    IF DOMAIN policy \notin {{}, DOMAIN r.casts \cup DOMAIN r.dates} THEN Refused
    ELSE IF \E c \in DOMAIN policy : policy[c] # "review" THEN EagerRecipe(table, r, policy)
    ELSE IF sourceBacked /\ DiskSupported(table, r) /\ IsoIsReadable(table, r)
         THEN DiskRecipe(table, r)
    ELSE MemoryRecipe(table, r)

Settled(table, r, outcome) ==
    IF outcome.refused \/ Changes(table, r, outcome) THEN outcome
    ELSE Outcome(table, 0, 0, 0, 0, 0, 0)

ApplyRecipe(table, r, policy, sourceBacked) ==
    Settled(table, r, Computed(table, r, policy, sourceBacked))
=============================================================================
