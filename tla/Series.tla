------------------------------- MODULE Series -------------------------------
(***************************************************************************)
(* What the readers of several metrics at once make of the history that    *)
(* Scanner fills, cuts, stores and restores: queries with functions        *)
(* (Datasets) and the carbon sinks (Carbon).                               *)
(***************************************************************************)
EXTENDS Scanner, Carbon

CONSTANTS
    MetricName,  \* the metrics that are asked for
    Interval     \* how often a carbon sink sends

ASSUME SeriesAssumption ==
    /\ IsFiniteSet(Key)
    /\ Interval \in Nat /\ PerSecond \in Nat
    /\ NaN \notin Int /\ NaN # NoValue

Places == 1..Len(fine.timestamps)

\* What the scan at place i of the history saw of a metric, and when it was.
SeenAt(k, kind, i) == SampleOf(k, kind, fine.age + 1 - i)
At(i) == scans[fine.age + 1 - i].at

\* .. and as what.
SeenAs(k, i) ==
    LET tv == FinePart(scans[fine.age + 1 - i].sample)[k]
    IN  IF tv = NoValue THEN "nothing" ELSE tv.kind

Kind(k) == fine.values[k].kind

\* A query for the metrics of this name that belong to a process.
KeysOf(metric) ==
    {k \in Key : /\ fine.values[k] # NoValue
                 /\ {"pid", "metric"} \subseteq DOMAIN k /\ k["metric"] = metric}
Ask(metric, extract, functions) ==
    QueryHistory([source |-> "Fine", functions |-> functions, extract |-> extract,
                  condition |-> <<[op |-> "Has", name |-> "pid"],
                                  [op |-> "Eq", name |-> "metric", value |-> metric],
                                  [op |-> "And", left |-> 1, right |-> 2]>>],
                 fine, tip)
ByNum(n)  == [op |-> "HistoryByNum", n |-> n]
AtMost(n) == [op |-> "DiffToAtMost", n |-> n]
Total      == [op |-> "Sum"]
TotalBy(by) == [op |-> "SumBy", by |-> by, total |-> TRUE]
Derived    == [op |-> "NonNegativeDerivative"]

\* A counter that the scans at all these places saw going up.
Steady(k, places) ==
    \A i \in places :
        /\ SeenAt(k, "counter", i) # NoValue
        /\ i + 1 \in places => /\ SeenAt(k, "counter", i + 1) # NoValue
                               /\ SeenAt(k, "counter", i) >= SeenAt(k, "counter", i + 1)

\* How much a counter grew between two places, and by how much a second.
Growth(k, i, j) == SeenAt(k, "counter", i) - SeenAt(k, "counter", j)
Speed(k, i, j)  == (Growth(k, i, j) * PerSecond) \div (At(i) - At(j))

\* The places among the first n at which a metric was seen as what it is now,
\* and the last time it was.
Recent(k, n) == {i \in 1..n : SeenAt(k, Kind(k), i) # NoValue}
LastAt(k, n) == CHOOSE i \in Recent(k, n) : \A j \in Recent(k, n) : i <= j

\* The sum of several float metrics is, at every timestamp, the sum of what
\* that scan saw of them, even though they come and go and change their types;
\* it is refused when the types differ.  The thread panics if a metric was not
\* seen at or before the oldest timestamp asked for, and only if it was not
\* there at that time or was of another type then or since.
SumsAreSamples ==
    \A n \in Places, metric \in MetricName :
        LET keys  == KeysOf(metric)
            kinds == {Kind(k) : k \in keys}
            d     == Ask(metric, ByNum(n), <<Total>>)
            There(i) == {k \in keys : SeenAt(k, "float", i) # NoValue}
        IN  /\ d.type = "Incompatible" <=> Cardinality(kinds) > 1
            /\ d.type = "Panic" =>
                 \E k \in keys :
                     \/ SeenAt(k, Kind(k), n) = NoValue
                     \/ \E i \in 1..n : SeenAs(k, i) \notin {Kind(k), "nothing"}
            /\ /\ Cardinality(kinds) = 1 /\ Cardinality(keys) > 1
               /\ \E k \in keys : \A i \in n..fine.age : SeenAt(k, Kind(k), i) = NoValue
               => d.type = "Panic"
            /\ kinds = {"float"} /\ d.type = "SingleSeries" =>
                 \A s \in d.data : \A i \in 1..Len(s.vals) :
                     s.vals[i] = IF There(i) = {} THEN NoValue
                                 ELSE SumFunction([k \in There(i) |-> SeenAt(k, "float", i)])

\* Derivatives of counters are never negative, and summing them by a pair of
\* the key never panics.  Where a counter was seen by every scan its derivative
\* is the exact rate, with nothing on both sides of a sample that a later
\* decrease hides; and so is the sum of the differences of such counters.
RatesAreSamples ==
    \A n \in Places, metric \in MetricName :
        LET d == Ask(metric, ByNum(n), <<Derived>>)
            keys == KeysOf(metric)
            sum == Ask(metric, AtMost(n - 1), <<Total>>)
            Hidden(k, i) == i > 1 /\ SeenAt(k, "counter", i) > SeenAt(k, "counter", i - 1)
        IN  /\ \A by \in {"metric", "cgroup"} :
                  Ask(metric, ByNum(n), <<Derived, TotalBy(by)>>).type # "Panic"
            /\ \A s \in d.data : Kind(s.key) = "counter" => \A i \in 1..Len(s.vals) :
                  /\ s.vals[i] # NoValue => s.vals[i] >= 0
                  /\ (\A j \in 1 .. Len(s.vals) + 1 : SeenAt(s.key, "counter", j) # NoValue) =>
                       s.vals[i] = IF Hidden(s.key, i) \/ Hidden(s.key, i + 1) THEN NoValue
                                   ELSE Speed(s.key, i, i + 1)
            /\ n > 1 /\ keys # {} /\ (\A k \in keys : Steady(k, 1..n)) =>
                 /\ sum.type = "SingleTip"
                 /\ \A t \in sum.data :
                      /\ t.val = SumFunction([k \in keys |-> Growth(k, 1, n)])
                      /\ t.from = At(1) /\ t.to = At(n)

\* What carbon gets of a group.  The sizes are those of the processes some scan
\* of the window has seen, each once, as it was when it was seen last.  The
\* rate of processes that are there all the time is exact.  It is not a number
\* only if a process left during the window, and never a number if one left at
\* its beginning.
CarbonSums ==
    LET num  == Window(fine, Interval)
        sent == CGroups(fine, Interval)
        \* The metrics of a group that were seen in the window, as this kind.
        Of(g, metric, kind) ==
            {k \in InGroup(fine, g) : k["metric"] = metric /\ Kind(k) = kind
                                      /\ Recent(k, num + 1) # {}}
    IN  Len(fine.timestamps) > 1 => \A g \in DOMAIN sent :
        /\ \A m \in Sizes :
             sent[g].sizes[m] = SumFunction([k \in Of(g, m, "integer") |->
                                                SeenAt(k, "integer", LastAt(k, num + 1))])
        /\ sent[g].num_processes = Cardinality(Of(g, "num_threads", "integer"))
        /\ \A m \in Rates :
             LET rate == sent[g].rates[m]
                 timed == Of(g, m, "counter") IN
             num > 0 =>
               /\ rate = NaN => \E k \in timed : LastAt(k, num + 1) > 1
               /\ (\E k \in timed : LastAt(k, num + 1) = num + 1) => rate = NaN
               /\ (\A k \in timed : Steady(k, 1 .. num + 1)) =>
                    rate = SumFunction([k \in timed |-> Speed(k, 1, num + 1)])

\* What carbon gets of applications: their integers as they were seen last in
\* the window, the exact rates of counters that are there all the time, and
\* nothing of metrics that were not seen or have become something else.
CarbonApps ==
    LET num  == Window(fine, Interval)
        sent == AppMetrics(fine, Interval)
        Of(kind) == {s \in Named(KeysWith(fine, {"appname", "metric"})) :
                        Kind(s[1]) = kind /\ Recent(s[1], num + 1) # {}}
        Sent(s, val) == <<s[1]["appname"], UserName(s), val>>
        Last(k) == SeenAt(k, "integer", LastAt(k, num + 1))
    IN  Len(fine.timestamps) > 1 =>
        /\ \A s \in Of("integer") : Sent(s, Last(s[1])) \in sent
        /\ \A s \in Of("counter") :
             num > 0 /\ Steady(s[1], 1 .. num + 1) => Sent(s, Speed(s[1], 1, num + 1)) \in sent
        /\ \A x \in sent : \/ \E s \in Of("integer") : x = Sent(s, Last(s[1]))
                           \/ \E s \in Of("counter") : x = Sent(s, x[3])

=============================================================================
