------------------------------- MODULE Cleaning -------------------------------
(***************************************************************************)
(* The corrections of Prepare (src-tauri/src/dataset.rs): what each makes  *)
(* of a frame in memory, and what DuckDB makes of the same dataset on      *)
(* disk, which is used when the dataset is backed by its source.  A        *)
(* correction that changes nothing publishes nothing; one that is          *)
(* published adds its label to the audit column, if there is one.  What    *)
(* the two routes decide by the same condition is written once.            *)
(***************************************************************************)
EXTENDS Recipes

CONSTANTS
    Audit,                  \* the column _cambios
    Trimmed(_),             \* a text without its outer white space
    Normalized(_),          \* and in lower case, without accents
    Blank, Spaces,          \* the texts that are white space, or only spaces
    Markers,                \* the normalised texts that stand for no value
    Booleans, BooleanOf(_), \* the texts that read as a boolean, and as which
    Ambiguous, Repaired(_), \* the texts with doubtful encoding; a repaired one
    LeadingZeros,           \* the texts of digits that begin with 0
    DecimalTokens,          \* the texts with a point or an exponent
    Whole(_),               \* whether a float is a whole number
    SafeLimit, Rounded(_),  \* 2^53; an integer as the float nearest to it
    Plausible(_),           \* whether a date is between 1900 and 2100
    Identifiers, Personal,  \* the columns with a privacy signal
    NewName(_),             \* a column's name, normalised
    Redacted, Unknown,      \* what masks a value, what fills a category
    DateFormats,            \* in the order they are tried
    SampleSize, DatePercentage, ExtraNullPercentage,
    TypePercentage, MinimumValues, HighNullPercentage

HasAudit(frame) == Audit \in NamesOf(frame)
DataColumns(frame) == NamesOf(frame) \ {Audit}
TextColumns(frame) == {n \in DataColumns(frame) : frame.type[n] = "text"}
RowsOf(frame) == DOMAIN frame.rows

RowsKept(frame, indexes) ==
    LET order == SetToSortSeq(indexes, <)
    IN [frame EXCEPT !.rows = [k \in DOMAIN order |-> frame.rows[order[k]]]]

----------------------------------------------------------------------------
(* What a command answers.                                                 *)

(* append_audit_label: after the label that is there, if any. *)
Annotated(frame, label) ==
    IF ~HasAudit(frame) THEN frame
    ELSE [frame EXCEPT !.rows = [i \in RowsOf(frame) |-> [frame.rows[i] EXCEPT ![Audit] =
            IF @ = Null THEN <<label>> ELSE Append(@, label)]]]

Untouched(frame) ==
    [refused |-> FALSE, frame |-> frame, published |-> FALSE, counts |-> <<>>, affected |-> 0]

Published(frame, counts, affected) ==
    [refused |-> FALSE, frame |-> frame, published |-> TRUE, counts |-> counts,
     affected |-> affected]

(* The answer of a correction of cells: how many of each column, and in    *)
(* how many rows, Changes(row, column) says.                               *)
CellAnswer(before, after, label, columns, Changes(_, _)) ==
    LET Hit(n) == {i \in RowsOf(before) : Changes(i, n)}
        changed == {n \in columns : Hit(n) # {}}
    IN IF changed = {} THEN Untouched(before)
       ELSE Published(Annotated(after, label), [n \in changed |-> Cardinality(Hit(n))],
                      Cardinality(UNION {Hit(n) : n \in changed}))

RowAnswer(frame, kept, label) ==
    IF kept = RowsOf(frame) THEN Untouched(frame)
    ELSE Published(Annotated(RowsKept(frame, kept), label), <<>>,
                   Cardinality(RowsOf(frame) \ kept))

----------------------------------------------------------------------------
(* Rows.                                                                   *)

(* unique_stable; the first of the rows DuckDB numbers in each partition.  *)
FirstRows(frame) ==
    {i \in RowsOf(frame) : \A j \in 1 .. i - 1 : frame.rows[j] # frame.rows[i]}

Rank(rows, i) == Cardinality({j \in 1 .. i : rows[j] = rows[i]})

FirstRanks(frame) == {i \in RowsOf(frame) : Rank(frame.rows, i) = 1}

NormalRows(frame) ==
    [i \in RowsOf(frame) |-> [n \in NamesOf(frame) |->
        IF n \in TextColumns(frame) /\ frame.rows[i][n] # Null
        THEN Normalized(frame.rows[i][n]) ELSE frame.rows[i][n]]]

(* remove_near_duplicate_rows: in each group of rows that normalise alike  *)
(* the first stays, and so does a later one that repeats exactly a row     *)
(* that was seen, removed or not.                                          *)
NearKept(frame) ==
    LET normal == NormalRows(frame)
        Visit(state, i) ==
            IF normal[i] \notin state.groups
            THEN [groups |-> state.groups \cup {normal[i]},
                  seen |-> state.seen \cup {frame.rows[i]}, kept |-> state.kept \cup {i}]
            ELSE IF frame.rows[i] \in state.seen THEN [state EXCEPT !.kept = @ \cup {i}]
            ELSE [state EXCEPT !.seen = @ \cup {frame.rows[i]}]
        start == [groups |-> {}, seen |-> {}, kept |-> {}]
    IN FoldLeftDomain(Visit, start, frame.rows).kept

(* Mutant of NearRanked: only the first of each group. *)
NearRankedFirst(frame) ==
    {i \in RowsOf(frame) : Rank(NormalRows(frame), i) = 1}

(* source_backed_near_duplicate_query: by two row numbers. *)
NearRanked(frame) ==
    {i \in RowsOf(frame) : Rank(NormalRows(frame), i) = 1 \/ Rank(frame.rows, i) > 1}

(* remove_empty_rows_from_frame, and the query of the disk, where TRIM     *)
(* takes only spaces away.                                                 *)
NotEmpty(frame, blanks) ==
    {i \in RowsOf(frame) : \E n \in NamesOf(frame) : frame.rows[i][n] \notin blanks \cup {Null}}

----------------------------------------------------------------------------
(* Columns.                                                                *)

NullCount(frame, n) == Len(frame.rows) - Len(ValuesIn(frame, n))

Removable(frame, kind, n) ==
    LET values == ValuesIn(frame, n)
    IN CASE kind = "constant" -> values # <<>> /\ Cardinality(ToSet(values)) = 1
         [] kind = "empty" -> values = <<>>
         [] kind = "high null" ->
                /\ values # <<>> /\ NullCount(frame, n) > 0
                /\ NullCount(frame, n) * 100 >= Len(frame.rows) * HighNullPercentage
         [] kind = "identifier" -> n \in Identifiers
         [] kind = "personal" -> n \in Personal

(* One column is always left. *)
WithoutColumns(frame, kind) ==
    LET candidates == SelectSeq(frame.names, LAMBDA n : n # Audit /\ Removable(frame, kind, n))
        removed == ToSet(SubSeq(candidates, 1, Min({Len(candidates), Len(frame.names) - 1})))
    IN IF frame.rows = <<>> \/ removed = {} THEN Untouched(frame)
       ELSE Published(Annotated(Dropping(frame, removed), kind), [n \in removed |-> 1], 0)

MemoryColumns(frame, kind) ==
    IF kind = "constant" /\ Len(frame.rows) = 1 THEN Untouched(frame)
    ELSE WithoutColumns(frame, kind)

(* mask_personal_values: nulls stay, and the column becomes a text. *)
Masked(frame) ==
    LET columns == Personal \cap DataColumns(frame)
        after == [WithCells(frame, columns, LAMBDA n, cell : Redacted) EXCEPT
                    !.type = [n \in NamesOf(frame) |-> IF n \in columns THEN "text" ELSE @[n]]]
    IN CellAnswer(frame, after, "mask", columns,
                  LAMBDA i, n : frame.rows[i][n] \notin {Null, Redacted})

(* normalized_column_names: the first name that is not taken. *)
NormalNames(names) ==
    LET Numbered(base, k) == IF k = 1 THEN base ELSE base \o "_" \o ToString(k)
        Taken(done, base, k) == Numbered(base, k) \in ToSet(done)
        Next(done, name) ==
            LET k == CHOOSE k \in 1 .. Len(done) + 1 :
                        /\ ~Taken(done, NewName(name), k)
                        /\ \A j \in 1 .. k - 1 : Taken(done, NewName(name), j)
            IN Append(done, Numbered(NewName(name), k))
    IN FoldLeft(Next, <<>>, names)

WithNames(frame, names) ==
    LET Old(n) == frame.names[CHOOSE i \in DOMAIN names : names[i] = n]
    IN Frame(names, [n \in ToSet(names) |-> frame.type[Old(n)]],
             [i \in RowsOf(frame) |-> [n \in ToSet(names) |-> frame.rows[i][Old(n)]]])

RenamedColumns(frame, names) == {i \in DOMAIN names : names[i] # frame.names[i]}

NamesNormalized(frame) ==
    LET names == NormalNames(frame.names)
        renamed == RenamedColumns(frame, names)
    IN IF renamed = {} THEN Untouched(frame)
       ELSE Published(Annotated(WithNames(frame, names), "names"),
                      [n \in {frame.names[i] : i \in renamed} |-> 1], 0)

(* enable_row_audit: an audit column without labels. *)
AuditEnabled(frame) ==
    IF HasAudit(frame) THEN Untouched(frame)
    ELSE Published(WithColumn(frame, Audit, "text", LAMBDA row : Null), <<>>, 0)

----------------------------------------------------------------------------
(* Texts.                                                                  *)

Kinds == <<"boolean", "integer", "decimal", "date">>

(* semantic_numeric_value *)
IsNumber(cell) ==
    /\ cell \notin LeadingZeros
    /\ Convert(cell, "float") # Invalid
    /\ cell \in DecimalTokens \/ Convert(cell, "float") <= SafeLimit

ReadsAs(cell, kind) ==
    CASE kind = "boolean" -> cell \in Booleans
      [] kind = "decimal" -> IsNumber(cell)
      [] kind = "date" -> \E f \in ToSet(DateFormats) : Convert(cell, f) # Invalid

(* is_valid_suggested_type: an integer may be written with decimals,       *)
MemoryReads(cell, kind) ==
    IF kind # "integer" THEN ReadsAs(cell, kind)
    ELSE IsNumber(cell) /\ LET v == Convert(cell, "float") IN Whole(v) /\ v <= SafeLimit

(* source_backed_text_type_validity_expression: but not on disk.           *)
DiskReads(cell, kind) ==
    IF kind # "integer" THEN ReadsAs(cell, kind)
    ELSE IsNumber(cell) /\ cell \notin DecimalTokens

(* suggest_text_type: the kind most values read as, the first of equals,   *)
(* if there are enough of them.                                            *)
SuggestedKind(values, counted, Reads(_, _)) ==
    LET Matches(kind) == Len(SelectSeq(values, LAMBDA cell : Reads(cell, kind)))
        best == CHOOSE k \in DOMAIN Kinds :
                    /\ \A j \in DOMAIN Kinds : Matches(Kinds[j]) <= Matches(Kinds[k])
                    /\ \A j \in 1 .. k - 1 : Matches(Kinds[j]) < Matches(Kinds[k])
    IN IF counted >= MinimumValues /\ Matches(Kinds[best]) * 100 >= counted * TypePercentage
       THEN <<Kinds[best]>> ELSE <<>>

(* What a text becomes, but in the mode that empties what does not read   *)
(* as the rest of its column.                                              *)
NewText(mode, cell) ==
    CASE mode = "trim" -> Trimmed(cell)
      [] mode = "normalize" -> Normalized(cell)
      [] mode = "sentinels" -> IF Normalized(cell) \in Markers THEN Null ELSE cell
      [] mode = "booleans" -> BooleanOf(cell)
      [] mode = "encoding" -> Repaired(cell)

(* is_boolean_candidate *)
BooleanCandidate(frame, n) ==
    LET values == SelectSeq(ValuesIn(frame, n), LAMBDA cell : cell \notin Blank)
    IN /\ Len(values) >= MinimumValues
       /\ Len(SelectSeq(values, LAMBDA cell : cell \in Booleans)) * 100
            >= Len(values) * TypePercentage

TextsCleaned(frame, mode, columns, Valid(_, _)) ==
    LET Cell(n, cell) ==
            IF mode # "invalid types" THEN NewText(mode, cell)
            ELSE IF Valid(n, cell) THEN cell ELSE Null
        after == WithCells(frame, columns, Cell)
    IN CellAnswer(frame, after, mode, columns,
                  LAMBDA i, n : frame.rows[i][n] # after.rows[i][n])

(* The columns a person selected, or else those the mode applies to. *)
Targets(frame, mode, selected) ==
    IF selected # <<>> THEN selected[1]
    ELSE {n \in TextColumns(frame) : mode = "booleans" => BooleanCandidate(frame, n)}

(* clean_text_columns: a marker does not count against a kind.             *)
MemoryText(frame, mode, selected) ==
    LET columns == Targets(frame, mode, selected)
        IsValue(cell) == cell \notin Blank /\ Normalized(cell) \notin Markers
        Suggested(n) ==
            LET values == ValuesIn(frame, n)
            IN SuggestedKind(values, Len(SelectSeq(values, IsValue)), MemoryReads)
        Valid(n, cell) ==
            Suggested(n) = <<>> \/ cell \in Blank \/ MemoryReads(cell, Suggested(n)[1])
    IN IF selected = <<{}>> \/ ~columns \subseteq TextColumns(frame) THEN Refused
       ELSE TextsCleaned(frame, mode, columns, Valid)

(* source_backed_text_cleaning: what it cannot do is left to the memory.   *)
DiskText(frame, mode, selected) ==
    LET columns == Targets(frame, mode, selected)
        Suggested(n) ==
            LET values == ValuesIn(frame, n)
            IN SuggestedKind(values, Len(SelectSeq(values, LAMBDA cell : cell \notin Blank)),
                             DiskReads)
        Valid(n, cell) ==
            Suggested(n) = <<>> \/ cell \in Spaces \/ DiskReads(cell, Suggested(n)[1])
    IN IF \/ selected # <<>> /\ mode = "booleans"
          \/ selected = <<{}>> \/ ~columns \subseteq TextColumns(frame)
          \/ /\ mode = "encoding"
             /\ \E n \in columns : ToSet(ValuesIn(frame, n)) \cap Ambiguous # {}
       THEN MemoryText(frame, mode, selected)
       ELSE TextsCleaned(frame, mode, columns, Valid)

----------------------------------------------------------------------------
(* Numbers and dates.                                                      *)

MostRead(values, type) ==
    Len(SelectSeq(values, LAMBDA cell : Convert(cell, type) # Invalid)) * 100
        > Len(values) * TypePercentage

(* The type that more than nine of ten values read as, or none. *)
NumericTarget(frame, n) ==
    LET values == ValuesIn(frame, n)
    IN IF values = <<>> \/ n \in Identifiers \/ ToSet(values) \cap LeadingZeros # {} THEN "text"
       ELSE IF ToSet(values) \cap DecimalTokens = {} /\ MostRead(values, "int") THEN "int"
       ELSE IF MostRead(values, "float") THEN "float"
       ELSE "text"

LosesPrecision(frame, n) ==
    /\ NumericTarget(frame, n) = "float"
    /\ \E cell \in ToSet(ValuesIn(frame, n)) :
        LET value == Convert(cell, "float")
        IN value # Invalid /\ Whole(value) /\ value > SafeLimit

(* The frame with columns converted, null where a cell does not convert.   *)
ConvertedTo(frame, to) ==
    LET OrNull(n, cell) == IF Convert(cell, to[n]) = Invalid THEN Null ELSE Convert(cell, to[n])
    IN [WithCells(frame, DOMAIN to, OrNull) EXCEPT
            !.type = [n \in NamesOf(frame) |-> IF n \in DOMAIN to THEN TypeOf(to[n]) ELSE @[n]]]

ConversionAnswer(frame, to, label) ==
    LET after == ConvertedTo(frame, to)
    IN CellAnswer(frame, after, label, DOMAIN to, LAMBDA i, n : after.rows[i][n] # Null)

(* cast_inferred_numeric_columns *)
NumbersCast(frame) ==
    LET columns == {n \in TextColumns(frame) : NumericTarget(frame, n) # "text"}
    IN IF \E n \in columns : LosesPrecision(frame, n) THEN Refused
       ELSE ConversionAnswer(frame, [n \in columns |-> NumericTarget(frame, n)], "numbers")

Parsed(values, format) ==
    SelectSeq([i \in DOMAIN values |-> Convert(values[i], format)], LAMBDA date : date # Invalid)

EnoughDates(parsed, sample) ==
    /\ Len(parsed) * 100 > Len(sample) * DatePercentage
    /\ \A date \in ToSet(parsed) : Plausible(date)

(* The first format that fits the first values, if it fits the others too. *)
DateFormatOf(frame, n) ==
    LET values == ValuesIn(frame, n)
        sample == SubSeq(values, 1, Min({Len(values), SampleSize}))
        fitting == SelectSeq(DateFormats, LAMBDA f : EnoughDates(Parsed(sample, f), sample))
        parsed == Parsed(values, fitting[1])
    IN IF /\ values # <<>> /\ fitting # <<>>
          /\ EnoughDates(parsed, sample)
          /\ (Len(values) - Len(parsed)) * 100 <= Len(frame.rows) * ExtraNullPercentage
       THEN <<fitting[1]>> ELSE <<>>

(* parse_inferred_date_columns *)
DatesParsed(frame) ==
    LET columns == {n \in TextColumns(frame) : DateFormatOf(frame, n) # <<>>}
    IN ConversionAnswer(frame, [n \in columns |-> DateFormatOf(frame, n)[1]], "dates")

----------------------------------------------------------------------------
(* Missing values.                                                         *)

(* The text that is there most often, twice or more; the first of equals.  *)
Mode(values, blanks) ==
    LET texts == SelectSeq(values, LAMBDA cell : cell \notin blanks)
        Count(cell) == Len(SelectSeq(texts, LAMBDA other : other = cell))
        best == CHOOSE i \in DOMAIN texts :
                    /\ \A j \in DOMAIN texts : Count(texts[j]) <= Count(texts[i])
                    /\ \A j \in 1 .. i - 1 : Count(texts[j]) < Count(texts[i])
    IN IF texts = <<>> \/ Count(texts[best]) < 2 THEN <<>> ELSE <<texts[best]>>

(* A number as the float both routes compute with. *)
AsFloat(frame, n, cell) ==
    IF frame.type[n] = "int" /\ cell # Null THEN Rounded(cell) ELSE cell

Median(frame, n) ==
    LET values == [i \in DOMAIN ValuesIn(frame, n) |-> AsFloat(frame, n, ValuesIn(frame, n)[i])]
    IN IF values = <<>> THEN <<>> ELSE <<Smallest(values, (Len(values) + 1) \div 2)>>

Fill(frame, n, blanks) ==
    IF n \in TextColumns(frame) THEN Mode(ValuesIn(frame, n), blanks) ELSE Median(frame, n)

(* The columns with nulls and something to put there. *)
Filled(frame, columns, blanks) ==
    {n \in columns : NullCount(frame, n) > 0 /\ Fill(frame, n, blanks) # <<>>}

WithFills(frame, columns, blanks) ==
    [frame EXCEPT !.rows = [i \in RowsOf(frame) |-> [n \in NamesOf(frame) |->
        IF n \in columns /\ frame.rows[i][n] = Null THEN Fill(frame, n, blanks)[1]
        ELSE frame.rows[i][n]]]]

(* impute_missing_values_in_columns: the numbers of a column that is       *)
(* filled have all been through a float.                                   *)
MemoryFilled(frame, columns) ==
    LET filled == Filled(frame, columns, Blank)
        Through(n, cell) == AsFloat(frame, n, cell)
    IN WithFills(WithCells(frame, filled, Through), filled, Blank)

FillAnswer(frame, after, columns) ==
    CellAnswer(frame, after, "fill", columns, LAMBDA i, n : frame.rows[i][n] = Null)

NumericColumns(frame) == {n \in DataColumns(frame) : frame.type[n] \in Numeric}

ImputableColumns(frame) ==
    TextColumns(frame) \cup {n \in DataColumns(frame) : frame.type[n] \in Numeric \cup {"int32"}}

MemoryImputed(frame) ==
    LET columns == ImputableColumns(frame)
    IN FillAnswer(frame, MemoryFilled(frame, columns), Filled(frame, columns, Blank))

(* source_backed_imputation: only nulls are written. *)
DiskImputed(frame) ==
    LET columns == Filled(frame, TextColumns(frame) \cup NumericColumns(frame), Spaces)
    IN FillAnswer(frame, WithFills(frame, columns, Spaces), columns)

(* impute_categorical_values_in_frame *)
CategoriesImputed(frame) ==
    LET after == [frame EXCEPT !.rows = [i \in RowsOf(frame) |-> [n \in NamesOf(frame) |->
                    IF n \in TextColumns(frame) /\ frame.rows[i][n] = Null
                    THEN Unknown ELSE frame.rows[i][n]]]]
    IN FillAnswer(frame, after, TextColumns(frame))

----------------------------------------------------------------------------
(* Outliers.                                                               *)

(* physical_numeric_values: an integer that a float cannot hold exactly.   *)
Unsafe(frame) ==
    \E n \in NumericColumns(frame) :
        frame.type[n] = "int" /\ \E v \in ToSet(ValuesIn(frame, n)) : v > SafeLimit

TreatedColumns(frame) == {n \in NumericColumns(frame) : Len(ValuesIn(frame, n)) >= 4}

(* impute_outlier_values_in_frame, apply_outlier_mode: a column is         *)
(* replaced when one of its cells is.                                      *)
MemoryOutliers(frame, action) ==
    LET columns == TreatedColumns(frame)
        bounds == [n \in columns |-> OutlierBounds(frame, n)]
        treatments == [renames |-> <<>>, outliers |-> [n \in columns |-> action]]
    IN IF Unsafe(frame) THEN Refused
       ELSE CellAnswer(frame, Treated(frame, treatments, bounds), action, columns,
                       LAMBDA i, n : IsOutlier(bounds[n], frame.rows[i][n]))

ReadAsFloats(answer, columns) ==
    LET Type(n) == IF n \in columns THEN "float" ELSE answer.frame.type[n]
    IN [answer EXCEPT !.frame.type = [n \in NamesOf(answer.frame) |-> Type(n)]]

Capped(frame, answer) ==
    IF answer.refused \/ ~answer.published THEN answer
    ELSE ReadAsFloats(answer, TreatedColumns(frame))

(* source_backed_direct_outlier: the projection reads every column that    *)
(* was planned as a float, to cap it.                                      *)
DiskOutliers(frame, action) ==
    IF action = "cap" THEN Capped(frame, MemoryOutliers(frame, action))
    ELSE MemoryOutliers(frame, action)

----------------------------------------------------------------------------
(* The corrections that are proposed together.                             *)

(* The texts of the plan: first trimmed, then the markers emptied. *)
PlannedText(plan, cell) ==
    LET trimmed == IF plan.trim THEN NewText("trim", cell) ELSE cell
    IN IF plan.sentinels THEN NewText("sentinels", trimmed) ELSE trimmed

NamesAfter(frame, plan) ==
    IF plan.names THEN NormalNames(frame.names) ELSE frame.names

(* safe_corrected_frame; DuckDB's query has the same stages. *)
TextsCorrected(frame, plan) ==
    WithCells(frame, TextColumns(frame), LAMBDA n, cell : PlannedText(plan, cell))

Corrected(frame, plan) ==
    LET named == WithNames(TextsCorrected(frame, plan), NamesAfter(frame, plan))
    IN IF plan.duplicates THEN RowsKept(named, FirstRows(named)) ELSE named

NewNameOf(frame, plan, n) ==
    NamesAfter(frame, plan)[CHOOSE i \in DOMAIN frame.names : frame.names[i] = n]

(* cast_fully_numeric_columns: only if every value is a number. *)
FullTarget(frame, n) ==
    LET values == ToSet(ValuesIn(frame, n))
        All(type) == \A cell \in values : Convert(cell, type) # Invalid
    IN IF \/ values = {} \/ n \notin TextColumns(frame) \/ n \in Identifiers
          \/ values \cap (LeadingZeros \cup Blank) # {}
       THEN "text"
       ELSE IF \/ values \cap DecimalTokens = {} /\ All("int")
               \/ All("float") /\ \A cell \in values : LET v == Convert(cell, "float")
                                                       IN Whole(v) /\ v <= SafeLimit
       THEN "int"
       ELSE IF All("float") THEN "float" ELSE "text"

FullyNumeric(frame, columns) == {n \in columns \cap NamesOf(frame) : FullTarget(frame, n) # "text"}

(* cast_fully_dated_columns *)
FullyDated(frame, dates) ==
    {n \in DOMAIN dates \cap TextColumns(frame) :
        /\ ValuesIn(frame, n) # <<>>
        /\ \A cell \in ToSet(ValuesIn(frame, n)) : Convert(cell, dates[n]) # Invalid}

(* What the answer counts. *)
PlanAnswer(frame, plan, after, typed, dated, imputed) ==
    LET texts == TextsCorrected(frame, plan)
        renamed == RenamedColumns(frame, NamesAfter(frame, plan))
        Changed(i) == \E n \in NamesOf(frame) : frame.rows[i][n] # texts.rows[i][n]
        counts == [cells |-> CellsChanged(frame, texts), renamed |-> Cardinality(renamed),
                   removed |-> Len(frame.rows) - Len(after.rows),
                   typed |-> typed, dated |-> dated, imputed |-> imputed]
    IN IF \A c \in DOMAIN counts : counts[c] = 0 THEN Untouched(frame)
       ELSE Published(after, counts, Cardinality({i \in RowsOf(frame) : Changed(i)}))

(* The lists follow the renames of the plan.                               *)
Followed(frame, plan, columns) == {NewNameOf(frame, plan, n) : n \in columns}

FormatsAfter(frame, plan) ==
    [n \in Followed(frame, plan, DOMAIN plan.dates) |->
        plan.dates[CHOOSE c \in NamesOf(frame) : NewNameOf(frame, plan, c) = n]]

(* The stages after the texts: the frame each gives and what it converted  *)
(* or filled.                                                              *)
Typed(frame, columns) ==
    LET typed == FullyNumeric(frame, columns)
    IN [frame |-> ConvertedTo(frame, [n \in typed |-> FullTarget(frame, n)]), columns |-> typed]

Dated(frame, formats) ==
    LET dated == FullyDated(frame, formats)
    IN [frame |-> ConvertedTo(frame, [n \in dated |-> formats[n]]), columns |-> dated]

Completed(frame, chosen) ==
    LET columns == chosen \cap ImputableColumns(frame)
        filled == Filled(frame, columns, Blank)
    IN [frame |-> MemoryFilled(frame, columns),
        cells |-> {c \in RowsOf(frame) \X filled : frame.rows[c[1]][c[2]] = Null}]

(* What is published after the last stage. *)
Labelled(answer, cells) ==
    IF ~answer.published THEN answer
    ELSE [answer EXCEPT !.frame = Annotated(@, "plan"),
                        !.affected = Max({@, Cardinality({c[1] : c \in cells})})]

AfterCompletion(frame, plan, typed, dated, completed) ==
    Labelled(PlanAnswer(frame, plan, completed.frame, Cardinality(typed.columns),
                        Cardinality(dated.columns), Cardinality(completed.cells)),
             completed.cells)

AfterDates(frame, plan, typed, dated) ==
    AfterCompletion(frame, plan, typed, dated,
        Completed(dated.frame, Followed(frame, plan, UNION ToSet(plan.impute))))

AfterTypes(frame, plan, typed) ==
    AfterDates(frame, plan, typed, Dated(typed.frame, FormatsAfter(frame, plan)))

(* safe_corrected_plan_frame *)
MemoryPlan(frame, plan) ==
    AfterTypes(frame, plan, Typed(Corrected(frame, plan), Followed(frame, plan, plan.casts)))

(* safe_corrections_stay_source_backed *)
StaysOnDisk(plan) == plan.impute = <<>> /\ plan.casts = {} /\ DOMAIN plan.dates = {}

(* source_backed_safe_corrections: the audit column is carried as it is.   *)
DiskPlan(frame, plan) ==
    IF StaysOnDisk(plan) THEN PlanAnswer(frame, plan, Corrected(frame, plan), 0, 0, 0)
    ELSE MemoryPlan(frame, plan)

----------------------------------------------------------------------------
(* The commands.                                                           *)

CleanInMemory(frame, c) ==
    CASE c.op = "duplicates" -> RowAnswer(frame, FirstRows(frame), c.op)
      [] c.op = "near duplicates" -> RowAnswer(frame, NearKept(frame), c.op)
      [] c.op = "empty rows" -> RowAnswer(frame, NotEmpty(frame, Blank), c.op)
      [] c.op = "columns" -> MemoryColumns(frame, c.kind)
      [] c.op = "mask" -> Masked(frame)
      [] c.op = "names" -> NamesNormalized(frame)
      [] c.op = "audit" -> AuditEnabled(frame)
      [] c.op = "text" -> MemoryText(frame, c.mode, c.columns)
      [] c.op = "numbers" -> NumbersCast(frame)
      [] c.op = "dates" -> DatesParsed(frame)
      [] c.op = "impute" -> MemoryImputed(frame)
      [] c.op = "categories" -> CategoriesImputed(frame)
      [] c.op = "outliers" -> MemoryOutliers(frame, c.action)
      [] c.op = "plan" -> MemoryPlan(frame, c.plan)

CleanOnDisk(frame, c) ==
    CASE c.op = "duplicates" -> RowAnswer(frame, FirstRanks(frame), c.op)
      [] c.op = "near duplicates" -> RowAnswer(frame, NearRanked(frame), c.op)
      [] c.op = "empty rows" -> RowAnswer(frame, NotEmpty(frame, Spaces), c.op)
      [] c.op = "columns" -> WithoutColumns(frame, c.kind)
      [] c.op = "text" -> DiskText(frame, c.mode, c.columns)
      [] c.op = "impute" -> DiskImputed(frame)
      [] c.op = "outliers" -> DiskOutliers(frame, c.action)
      [] c.op = "plan" -> DiskPlan(frame, c.plan)
      [] OTHER -> CleanInMemory(frame, c)
=============================================================================
