------------------------------- MODULE Carbon -------------------------------
(***************************************************************************)
(* What is sent to carbon (src/carbon): sums over the processes of a       *)
(* control group, and the metrics of applications outside of groups.  A    *)
(* sink reads the backlog under the read lock every `interval'.            *)
(*                                                                         *)
(* Keys are those of Datasets.  How long a scan took, which the code       *)
(* subtracts from its timestamp, is less than a clock unit here.  What the *)
(* names of the sent metrics begin with is left out.                       *)
(***************************************************************************)
EXTENDS Datasets

CONSTANTS
    Shortened,  \* LITHOS_CMD: a group without the pid at the end of its name
    NaN         \* 0.0 / 0.0

Sizes == {"vsize", "rss", "swap", "num_threads"}
Rates == {"user_time", "system_time", "read_bytes", "write_bytes"}

\* The index of the first scan that is `interval' older than the newest one,
\* or else of the oldest.  The newest one is at least an interval after the
\* epoch (the code subtracts unsigned numbers).
Window(bl, interval) ==
    LET old == {i \in 1..Len(bl.timestamps) :
                   bl.timestamps[i] <= bl.timestamps[1] - interval}
    IN  IF old = {} THEN Len(bl.timestamps) - 1
        ELSE (CHOOSE i \in old : \A j \in old : i <= j) - 1

\* get_rate_from_counter, divided as its callers do.
CounterRate(bl, v, num) ==
    LET d == DiffToAtMost(bl, v, num)
    IN  IF KnownIndexes(bl, v, num) = {} THEN NoValue
        ELSE IF d.from = d.to THEN NaN
        ELSE (d.value * PerSecond) \div (d.from - d.to)

\* graphite_data: nothing for floats.
GraphiteData(bl, v, num) ==
    CASE v.kind = "counter" -> CounterRate(bl, v, num)
      [] v.kind = "integer" -> GraphiteInteger(bl, v, num)
      [] v.kind = "float"   -> NoValue

\* Fault: a process that has left counts for ever.
TipForever(v, minAge) == IF v.kind = "integer" THEN v.tip ELSE NoValue

\* tip_or_none, where an Integer is expected.
TipOrNone(v, minAge) ==
    IF v.kind = "integer" /\ v.age >= minAge THEN v.tip ELSE NoValue

\* The sum of what is there; a NaN spoils it.
SumKnown(f) ==
    LET known == {k \in DOMAIN f : f[k] # NoValue}
    IN  IF \E k \in known : f[k] = NaN THEN NaN
        ELSE SumFunctionOnSet(f, known)

\* The keys of the backlog that have all these pairs.
KeysWith(bl, names) == {k \in Key : bl.values[k] # NoValue /\ names \subseteq DOMAIN k}

InGroup(bl, g) == {k \in KeysWith(bl, {"cgroup", "metric"}) : Shortened[k["cgroup"]] = g}

\* What applications name themselves: a metric as one of the classes its key has,
\* and the name it is sent under.
Named(keys) == {s \in keys \X {"state", "group"} : s[2] \in DOMAIN s[1]}
UserName(s) == <<s[2], s[1][s[2]], s[1]["metric"]>>

\* cgroups::scan for one group.
CGroup(bl, g, num) ==
    LET cut_age == Monus(bl.age, num)
        Of(metric) == {k \in InGroup(bl, g) : k["metric"] = metric}
        Tips(metric) == [k \in Of(metric) |-> TipOrNone(bl.values[k], cut_age)]
        sent == {s \in Named(InGroup(bl, g)) : GraphiteData(bl, bl.values[s[1]], num) # NoValue}
    IN  [sizes |-> [m \in Sizes |-> SumKnown(Tips(m))],
         num_processes |-> Cardinality({k \in Of("num_threads") :
                                           Tips("num_threads")[k] # NoValue}),
         rates |-> [m \in Rates |->
                      SumKnown([k \in Of(m) |->
                          IF bl.values[k].kind = "counter"
                          THEN CounterRate(bl, bl.values[k], num) ELSE NoValue])],
         user_metrics |-> [name \in {UserName(s) : s \in sent} |->
                      SumKnown([s \in {t \in sent : UserName(t) = name} |->
                          GraphiteData(bl, bl.values[s[1]], num)])]]

CGroups(bl, interval) ==
    IF Len(bl.timestamps) < 2 THEN << >>
    ELSE [g \in {Shortened[k["cgroup"]] : k \in KeysWith(bl, {"cgroup", "metric"})} |->
             CGroup(bl, g, Window(bl, interval))]

\* appmetrics::scan: every metric by itself.
AppMetrics(bl, interval) ==
    LET num == Window(bl, interval)
        sent == {s \in Named(KeysWith(bl, {"appname", "metric"})) :
                    GraphiteData(bl, bl.values[s[1]], num) # NoValue}
    IN  IF Len(bl.timestamps) < 2 THEN {}
        ELSE {<<s[1]["appname"], UserName(s), GraphiteData(bl, bl.values[s[1]], num)>> : s \in sent}

=============================================================================
