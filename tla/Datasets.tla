------------------------------ MODULE Datasets ------------------------------
(***************************************************************************)
(* What the web interface asks of the history: cantal_query.  A rule       *)
(* selects metrics by a condition on their keys, extracts a value or a     *)
(* series of each, and runs the results through functions that sum and     *)
(* derive them.                                                            *)
(*                                                                         *)
(* A key is a function from the names of its pairs to their values.  A     *)
(* dataset is a record [type, data]; `data' is the set of what the code    *)
(* has in a Vec in the order of a HashMap: of series [key, kind, vals,     *)
(* timestamps] (vals may be shorter than timestamps), or of tips [key,     *)
(* kind, val, from, to].                                                   *)
(***************************************************************************)
EXTENDS Query, FiniteSets, Functions

CONSTANT PerSecond   \* clock units in a second: 1000 in the code

-----------------------------------------------------------------------------
(* Keys and conditions                                                     *)

EmptyKey == [name \in {} |-> name]
FromPair(name, val) == [n \in {name} |-> val]

\* What key.get_with(name, ..) finds: one value, or none.
GetWith(key, name) == IF name \in DOMAIN key THEN {key[name]} ELSE {}

\* Condition::matches.  A condition is the sequence of its parts, each behind the
\* parts it is made of, whose places it has; the last part is the whole.  A
\* regular expression is the set of values it matches.
Matches(cond, key) ==
    LET holds[i \in 1..Len(cond)] ==
            LET part == cond[i] IN
            \/ part.op = "Eq"        /\ part.value \in GetWith(key, part.name)
            \/ part.op = "NotEq"     /\ GetWith(key, part.name) \ {part.value} # {}
            \/ part.op = "RegexLike" /\ GetWith(key, part.name) \cap part.regex # {}
            \/ part.op = "And"       /\ holds[part.left] /\ holds[part.right]
            \/ part.op = "Or"        /\ (holds[part.left] \/ holds[part.right])
            \/ part.op = "Not"       /\ ~holds[part.val]
            \/ part.op = "Has"       /\ GetWith(key, part.name) # {}
    IN  holds[Len(cond)]

-----------------------------------------------------------------------------
(* Datasets                                                                *)

Empty                == [type |-> "Empty", data |-> {}]
Incompatible(reason) == [type |-> "Incompatible", data |-> {}, reason |-> reason]

\* The thread that serves the request panics.
Panic == [type |-> "Panic", data |-> {}]

\* ChunkSet::merge and ValueSet::merge: the kind all items have.
MergedKind(items) ==
    LET kinds == {s.kind : s \in items}
    IN  IF kinds = {} THEN "Empty"
        ELSE IF Cardinality(kinds) = 1 THEN CHOOSE k \in kinds : TRUE
        ELSE "Conflict"

\* vec_sum at one place: the sum of what is known there.
PointSum(series, i) ==
    LET known == {s \in series : s.vals[i] # NoValue}
    IN  IF known = {} THEN NoValue ELSE SumFunction([s \in known |-> s.vals[i]])

\* Fault: as many places as there are values, whatever the timestamps.
SummedSeriesShortest(series) ==
    LET one == CHOOSE s \in series : \A t \in series : Len(s.vals) <= Len(t.vals)
    IN  [type |-> "SingleSeries",
         data |-> {[key |-> EmptyKey, kind |-> MergedKind(series),
                    vals |-> [i \in 1..Len(one.vals) |-> PointSum(series, i)],
                    timestamps |-> one.timestamps]}]

\* sum_series.  Every vector is indexed up to the number of timestamps.
SummedSeries(series) ==
    LET ts   == (CHOOSE s \in series : TRUE).timestamps
        kind == MergedKind(series)
    IN  IF \E s \in series : s.timestamps # ts THEN Incompatible("CantSumTimestamps")
        ELSE IF kind = "state" THEN Incompatible("CantSumStates")
        ELSE IF kind = "Conflict" THEN Incompatible("Dissimilar")
        ELSE IF \E s \in series : Len(s.vals) < Len(ts) THEN Panic
        ELSE [type |-> "SingleSeries",
              data |-> {[key |-> EmptyKey, kind |-> kind,
                         vals |-> [i \in 1..Len(ts) |-> PointSum(series, i)],
                         timestamps |-> ts]}]

\* sum_tip.
SummedTip(tips) ==
    LET one  == CHOOSE t \in tips : TRUE
        kind == MergedKind(tips)
    IN  IF tips = {} THEN Empty
        ELSE IF Cardinality(tips) = 1 THEN [type |-> "SingleTip", data |-> tips]
        ELSE IF \E t \in tips : <<t.from, t.to>> # <<one.from, one.to>>
             THEN Incompatible("CantSumTimestamps")
        ELSE IF kind = "state" THEN Incompatible("CantSumStates")
        ELSE IF kind = "Conflict" THEN Incompatible("Dissimilar")
        ELSE [type |-> "SingleTip",
              data |-> {[key |-> EmptyKey, kind |-> kind,
                         val |-> SumFunction([t \in tips |-> t.val]),
                         from |-> one.from, to |-> one.to]}]

\* sum: a single series or tip keeps its key.
SumAll(d) ==
    CASE d.type = "MultiSeries" ->
            IF d.data = {} THEN Empty
            ELSE IF Cardinality(d.data) = 1 THEN [type |-> "SingleSeries", data |-> d.data]
            ELSE SummedSeries(d.data)
      [] d.type = "MultiTip" -> SummedTip(d.data)
      [] OTHER -> d

\* sum_series_by: one series per value of the pair `by'; a series without the
\* pair is left out.  A sum that cannot be made is the answer to the query.
GroupsBy(by, series) ==
    LET named == {s \in series : by \in DOMAIN s.key}
        Group(val) == {s \in named : s.key[by] = val}
    IN  {LET group == Group(val) IN
         [val |-> val,
          sum |-> IF Cardinality(group) > 1 THEN SummedSeries(group)
                  ELSE [type |-> "SingleSeries", data |-> group]] :
         val \in {s.key[by] : s \in named}}

\* sum_by.  Which of several failing groups is found first is the order of a
\* HashMap; a panic and an error are told apart.
SumBy(by, total, d) ==
    IF d.type = "MultiTip" THEN Panic
    ELSE IF d.type # "MultiSeries" THEN d
    ELSE LET groups == GroupsBy(by, d.data)
             failed == {g \in groups : g.sum.type # "SingleSeries"}
             sums   == {[(CHOOSE s \in g.sum.data : TRUE) EXCEPT !.key = FromPair(by, g.val)] :
                        g \in groups}
             all    == SummedSeries(sums)
         IN  IF failed # {} THEN (CHOOSE g \in failed : TRUE).sum
             ELSE IF ~total \/ Cardinality(sums) <= 1 THEN [type |-> "MultiSeries", data |-> sums]
             ELSE IF all.type # "SingleSeries" THEN all
             ELSE [type |-> "MultiSeries", data |-> sums \cup all.data]

\* derive_vec: neighbours, with the timestamp of the newer one.  Unsigned and
\* signed numbers are subtracted in their own type.
DerivedSeries(s) ==
    LET both == Smaller(Len(s.vals), Len(s.timestamps))
        n    == Monus(both, 1)
        Rate(i) == ((s.vals[i] - s.vals[i + 1]) * PerSecond)
                       \div (s.timestamps[i] - s.timestamps[i + 1])
    IN  [key |-> s.key, kind |-> "float",
         vals |-> [i \in 1..n |-> IF s.vals[i] = NoValue \/ s.vals[i + 1] = NoValue
                                  THEN NoValue ELSE Rate(i)],
         timestamps |-> Take(s.timestamps, n)]

\* non_negative_derivative.
Derivative(d) ==
    CASE d.type \in {"MultiSeries", "SingleSeries"} ->
            [d EXCEPT !.data = {DerivedSeries(s) : s \in d.data}]
      [] d.type \in {"MultiTip", "SingleTip"} -> Incompatible("CantDerive")
      [] OTHER -> d

\* Function::exec; the functions that are `unimplemented!' panic.
Exec(d, func) ==
    CASE d.type = "Panic"                    -> d
      [] d.type # "Panic" /\ func.op = "Sum" -> SumAll(d)
      [] d.type # "Panic" /\ func.op = "SumBy" -> SumBy(func.by, func.total, d)
      [] d.type # "Panic" /\ func.op = "NonNegativeDerivative" -> Derivative(d)
      [] d.type # "Panic" /\ func.op \in {"Expect", "StateChart"} -> Panic

-----------------------------------------------------------------------------
(* query_history                                                           *)

SingleValue(extract) == extract.op \in {"Tip", "DiffToAtMost"}

\* extract_single; a metric without an answer is left out.
SingleOf(bl, k, extract) ==
    LET v == bl.values[k]
        t == ExtractTip(bl, v)
        d == DiffToAtMost(bl, v, extract.n)
    IN  IF extract.op = "Tip"
        THEN {[key |-> k, kind |-> v.kind, val |-> t.value, from |-> t.at, to |-> t.at]}
        ELSE IF KnownIndexes(bl, v, extract.n) = {} THEN {}
        ELSE {[key |-> k, kind |-> v.kind, val |-> d.value, from |-> d.from, to |-> d.to]}

\* extract_multi.
SeriesOf(bl, k, extract) ==
    LET v == bl.values[k]
        h == IF extract.op = "HistoryByNum" THEN HistoryByNum(bl, v, extract.n)
                                            ELSE HistoryByTime(bl, v, extract.n)
    IN  IF extract.op = "HistoryByTime" /\ bl.timestamps = << >> THEN {}
        ELSE {[key |-> k, kind |-> v.kind, vals |-> h.values, timestamps |-> h.timestamps]}

Selected(condition, values) == {k \in Key : values[k] # NoValue /\ Matches(condition, k)}

\* The dataset before any function is applied.
Extracted(rule, fine, tip) ==
    CASE rule.source = "Tip" ->
            [type |-> "MultiTip",
             data |-> {[key |-> k, kind |-> "state", val |-> tip[k].val,
                        from |-> tip[k].at, to |-> tip[k].at] : k \in Selected(rule.condition, tip)}]
      [] rule.source = "Fine" /\ SingleValue(rule.extract) ->
            [type |-> "MultiTip",
             data |-> UNION {SingleOf(fine, k, rule.extract) :
                             k \in Selected(rule.condition, fine.values)}]
      [] rule.source = "Fine" /\ ~SingleValue(rule.extract) ->
            [type |-> "MultiSeries",
             data |-> UNION {SeriesOf(fine, k, rule.extract) :
                             k \in Selected(rule.condition, fine.values)}]

QueryHistory(rule, fine, tip) ==
    LET after[i \in 0..Len(rule.functions)] ==
            IF i = 0 THEN Extracted(rule, fine, tip) ELSE Exec(after[i - 1], rule.functions[i])
    IN  after[Len(rule.functions)]

=============================================================================
