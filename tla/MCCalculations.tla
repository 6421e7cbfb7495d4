----------------------------- MODULE MCCalculations -----------------------------
EXTENDS Calculations
CONSTANTS null, whole
MCColumns == {"k", "v", "w"}
Row(k, v, w) == [k |-> k, v |-> v, w |-> w]
MCRows == {Row(1, null, 1), Row(1, 1, 1), Row(1, 1, 2), Row(2, 1, 1), Row(2, 1, 2),
           Row(null, 1, 1), Row(null, null, 2)}
MCBuckets == {0, 1}
MCBucketOf(key) == IF \E c \in DOMAIN key : key[c] = 1 THEN 1 ELSE 0
MCKeys == {{}, {"k"}, {"k", "v"}, {"k", "v", "w"}}
OneConflict(n) ==
    { (<<n, whole>> :> d) : d \in {"current", "compared", "exclude"}}
    \cup {(<<n, "w">> :> "compared")}
    \cup {(<<n, "v">> :> x @@ <<n, "w">> :> y) : x \in {"compared"}, y \in {"current", "compared"}}
Empty == [x \in {} |-> TRUE]
MCDecisions == {Empty} \cup OneConflict(0) \cup {a @@ b : a \in OneConflict(0), b \in OneConflict(1)}
MCConditions == {("k" :> "k"), ("k" :> "k" @@ "v" :> "v"), ("k" :> "v")}
Q(where, select, groupBy, aggregates, limit, offset) ==
   [where |-> where, select |-> select, groupBy |-> groupBy, aggregates |-> aggregates,
    limit |-> limit, offset |-> offset]
MCQueries == {
   Q({}, <<"k", "w">>, <<>>, <<>>, 2, 1),
   Q({<<"k", ">", 1>>}, <<"v">>, <<>>, <<>>, 2, 0),
   Q({<<"k", "<=", 1>>, <<"w", "<>", 2>>}, <<"k">>, <<>>, <<>>, 1, 1),
   Q({<<"k", "null", 0>>}, <<"w", "v">>, <<>>, <<>>, 1, 0),
   Q({}, <<>>, <<>>, << <<"count", "*">>, <<"count", "v">>, <<"max", "w">>, <<"avg", "k">> >>, 1, 0),
   Q({<<"v", "not null", 0>>}, <<"k">>, <<"k">>, << <<"sum", "w">>, <<"min", "w">> >>, 1, 1) }
MCRight(c) == [k |-> "k_right", v |-> "v_right", w |-> "w_right"][c]
MCJoinQueries == {
   Q({}, <<"k", "w_right">>, <<>>, <<>>, 1, 1),
   Q({<< "w_right", "=", 1>>}, <<"v">>, <<>>, <<>>, 2, 0),
   Q({}, << "w_right" >>, << "w_right" >>, << <<"count", "*">>, <<"max", "k">> >>, 2, 0)}

CONSTANTS invalid, eight, zero, eighty, junk, other, day, zoned, day1, day2
CONSTANTS spaced, marker, yes, affirmed, blank, tabbed, empty, dotted, half, huge, code, bad, unclear,
    redacted, unknown
MCTexts == {eight, zero, eighty}
MCOtherNumbers == (spaced :> 8 @@ dotted :> 8 @@ half :> 85 @@ huge :> 1001 @@ code :> 7)
MCNumbers == {0, 8, 80}
MCNumberIn(cell) ==
    CASE cell = eight -> 8 [] cell = zero -> 0 [] cell = eighty -> 80
      [] cell \in {junk, other, day, zoned, day1, day2} -> invalid
      [] OTHER -> cell
MCConvert(cell, type) ==
    CASE type = "int" /\ cell \in MCTexts -> MCNumberIn(cell)
      [] type = "float" /\ cell \in MCNumbers -> cell
      [] type = "float" /\ cell \in MCTexts -> MCNumberIn(cell)
      [] type \in {"int", "float"} /\ cell \in DOMAIN MCOtherNumbers
            /\ (type = "float" \/ cell # half) -> MCOtherNumbers[cell]
      [] type = "text" /\ cell \in MCNumbers -> (8 :> eight @@ 0 :> zero @@ 80 :> eighty)[cell]
      [] type \in {"ymd", "iso"} /\ cell = day -> day1
      [] type = "iso" /\ cell = zoned -> day2
      [] OTHER -> invalid
MCReplacement(cell) == IF cell = junk THEN other ELSE cell
MCSegment(cell, n) == IF n = 1 THEN cell ELSE null
MCPair(x, y) == <<x, y>>
MCJoined(cells) == cells
MCYear(cell) == IF cell = day1 THEN 2024 ELSE 2025
MCQuotient(x, y) == x \div y
MCNormal(cell) == IF cell = junk THEN other ELSE cell
MCExtract(cell) == IF cell = day THEN other ELSE null
MCHasOffset(cell) == cell = zoned

MCTableNames == <<"t", "n">>
MCTableTypes == [t |-> "text", n |-> "int"]
MCTableRows == {[t |-> x[1], n |-> x[2]] : x \in
    {<<eight, 8>>, <<junk, 8>>, <<null, 0>>, <<zoned, 80>>, <<day, null>>}}

Plain == [renames |-> <<>>, casts |-> <<>>, dates |-> <<>>, filters |-> {}, replace |-> <<>>,
          keep |-> <<>>, calculated |-> <<>>, split |-> <<>>, merge |-> <<>>, outliers |-> <<>>,
          contacts |-> {}, extractions |-> <<>>, summary |-> <<>>]
Filter(c, op, v) == [column |-> c, op |-> op, value |-> v]
Calc(name, source, op, operand) ==
    << [name |-> name, source |-> source, op |-> op, operand |-> operand] >>
Group(by, aggregations) == << [by |-> by, aggregations |-> aggregations] >>
Parts(c, drop) == << [source |-> c, names |-> <<"a", "b">>, drop |-> drop] >>
Swap == ("t" :> "n" @@ "n" :> "t")
Shift == ("t" :> "n" @@ "n" :> "m")
MCRecipeChoices == {
    Plain,
    [Plain EXCEPT !.renames = Swap, !.filters = {Filter("t", "<>", junk)}],
    [Plain EXCEPT !.renames = Shift, !.casts = ("t" :> "int"), !.filters = {Filter("t", ">", 0)}],
    [Plain EXCEPT !.casts = ("n" :> "text"), !.filters = {Filter("n", "not null", null)},
                  !.replace = <<"every text">>],
    [Plain EXCEPT !.dates = ("t" :> "ymd"), !.filters = {Filter("n", "null", null)}],
    [Plain EXCEPT !.dates = ("t" :> "iso"), !.calculated = Calc("y", "t", "year", <<"literal", 1>>),
                  !.summary = Group(<<"y">>, << <<"count", "n">>, <<"max", "n">> >>)],
    [Plain EXCEPT !.dates = ("t" :> "iso"), !.replace = <<"every text">>],
    [Plain EXCEPT !.keep = <<"n">>, !.outliers = ("n" :> "cap"),
                  !.filters = {Filter("n", "not null", null)}],
    [Plain EXCEPT !.renames = ("n" :> "m"), !.outliers = ("n" :> "drop")],
    [Plain EXCEPT !.renames = Shift, !.outliers = ("n" :> "impute"),
                  !.filters = {Filter("t", "<>", junk)}],
    [Plain EXCEPT !.keep = <<"t">>, !.outliers = ("n" :> "drop")],
    [Plain EXCEPT !.outliers = ("n" :> "drop"), !.summary = Group(<<"t">>, << <<"sum", "n">>, <<"mean", "n">> >>)],
    [Plain EXCEPT !.calculated = Calc("q", "n", "/", <<"column", "t">>), !.filters = {Filter("t", "=", eight)}],
    [Plain EXCEPT !.calculated = Calc("q", "n", "/", <<"literal", 0>>), !.filters = {Filter("n", "null", null)}],
    [Plain EXCEPT !.renames = ("n" :> "m"), !.calculated = Calc("m", "n", "+", <<"column", "n">>)],
    [Plain EXCEPT !.renames = ("n" :> "m"), !.calculated = Calc("n", "n", "+", <<"literal", 8>>)],
    [Plain EXCEPT !.calculated = Calc("q", "t", "concat", <<"column", "n">>),
                  !.keep = <<"n", "t">>, !.split = Parts("t", TRUE), !.contacts = {}],
    [Plain EXCEPT !.split = Parts("t", FALSE), !.contacts = {"t"},
                  !.extractions = << <<"e", "t">> >>],
    [Plain EXCEPT !.merge = << [sources |-> <<"t", "n">>, name |-> "u", drop |-> TRUE] >>,
                  !.casts = ("n" :> "text")],
    [Plain EXCEPT !.contacts = {"t"}],
    [Plain EXCEPT !.extractions = << <<"e", "t">> >>, !.summary = Group(<<"e">>, << <<"count", "t">> >>)],
    [Plain EXCEPT !.summary = Group(<<"t">>, << <<"sum", "n">>, <<"count_unique", "n">>, <<"mean", "n">> >>)],
    [Plain EXCEPT !.filters = {Filter("n", "not null", null)}, !.summary = Group(<<"n">>, << <<"count", "t">>, <<"count_unique", "t">> >>)],
    [Plain EXCEPT !.calculated = Calc("y", "n", "+", <<"column", "t">>)],
    [Plain EXCEPT !.keep = <<"n", "t">>]
  }
P(r, policy) == [recipe |-> r, policy |-> policy]
Casts == [Plain EXCEPT !.renames = ("t" :> "c"), !.casts = ("t" :> "int"), !.filters = {Filter("n", "<>", 0)},
                  !.summary = Group(<<"t">>, << <<"sum", "n">> >>)]
Dates == [Plain EXCEPT !.dates = ("t" :> "iso"), !.casts = ("n" :> "text"), !.contacts = {"n"}]
MCPolicyChoices == {
    P(Casts, ("t" :> "exclude")), P(Casts, ("t" :> "nullify")),
    P(Dates, ("t" :> "exclude" @@ "n" :> "review")), P(Dates, ("t" :> "nullify" @@ "n" :> "exclude")) }

MCTrimmed(cell) ==
    IF cell = spaced THEN eight ELSE IF cell \in {blank, tabbed, empty} THEN empty ELSE cell
MCNormalized(cell) == IF cell = yes THEN affirmed ELSE MCTrimmed(cell)
MCBlank == {blank, tabbed, empty}
MCSpaces == {blank, empty}
MCMarkers == {marker, empty}
MCBooleans == {yes, affirmed}
MCBooleanOf(cell) == IF cell = yes THEN affirmed ELSE cell
MCRepaired(cell) == IF cell = bad THEN other ELSE cell
MCWhole(v) == v # 85
MCRounded(v) == IF v = 1001 THEN 1000 ELSE v
MCPlausible(date) == date # day2
MCNewName(n) == IF n = "n" THEN "t" ELSE n
MCDateFormats == <<"ymd", "iso">>
MCSoiledNames == <<"t", "n", "m">>
MCSoiledTypes == {[t |-> "text", n |-> type, m |-> "int"] : type \in {"int", "int32"}}
MCSoiledRows == {[t |-> x[1], n |-> x[2], m |-> x[3]] : x \in
    {<<eight, 8, 8>>, <<spaced, 8, 8>>, <<marker, null, 8>>, <<yes, 1001, 8>>, <<null, 80, null>>,
     <<blank, null, null>>, <<tabbed, null, null>>, <<day, 8, 8>>, <<zoned, null, 8>>, <<half, 8, 8>>,
     <<dotted, 8, null>>, <<huge, 8, 8>>, <<code, 8, 8>>, <<bad, 8, 8>>, <<unclear, 8, 8>>}}
Plan(trim, sentinels, names, duplicates, casts, dates, impute) ==
    [op |-> "plan", plan |-> [trim |-> trim, sentinels |-> sentinels, names |-> names,
     duplicates |-> duplicates, casts |-> casts, dates |-> dates, impute |-> impute]]
Text(mode, columns) == [op |-> "text", mode |-> mode, columns |-> columns]
MCCleaningChoices ==
    {[op |-> op] : op \in {"duplicates", "near duplicates", "empty rows", "mask", "names", "audit",
                           "numbers", "dates", "impute", "categories"}}
    \cup {[op |-> "columns", kind |-> kind] :
            kind \in {"constant", "empty", "high null", "identifier", "personal"}}
    \cup {Text(mode, <<>>) : mode \in {"trim", "normalize", "sentinels", "booleans", "encoding",
                                      "invalid types"}}
    \cup {Text("trim", <<{"n"}>>), Text("booleans", <<{"t"}>>)}
    \cup {[op |-> "outliers", action |-> action] : action \in {"cap", "drop", "impute"}}
    \cup {Plan(TRUE, TRUE, TRUE, TRUE, {}, <<>>, <<>>),
          Plan(TRUE, FALSE, FALSE, TRUE, {}, <<>>, <<>>),
          Plan(TRUE, TRUE, TRUE, FALSE, {"t"}, "t" :> "ymd", <<{"n", "t"}>>),
          Plan(FALSE, TRUE, FALSE, TRUE, {}, "t" :> "iso", <<{"m"}>>)}
=============================================================================
