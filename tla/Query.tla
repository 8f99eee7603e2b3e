------------------------------- MODULE Query -------------------------------
(***************************************************************************)
(* The readers of a backlog: cantal_query/src/query.rs (the web interface) *)
(* and src/carbon/util.rs (the carbon sinks).  Indexes are the code's,     *)
(* from 0; `timestamps' of index i is bl.timestamps[i + 1].                *)
(***************************************************************************)
EXTENDS Backlog

\* The index at which a value's tip stands.  The code subtracts unsigned
\* numbers and indexes the deque unchecked: Scanner!ReadsInRange is about it.
TipIndex(bl, v) == bl.age - v.age

\* `history(age).enumerate().skip(1).take(n)' without the unknown samples.
KnownIndexes(bl, v, n) ==
    LET h == History(v, bl.age)
    IN  {i \in 1..Smaller(n, Len(h) - 1) : h[i + 1] # NoValue}

\* .. and `.last()' of them: the oldest sample among the n before the newest.
LastKnown(bl, v, n) ==
    CHOOSE i \in KnownIndexes(bl, v, n) : \A j \in KnownIndexes(bl, v, n) : j <= i

\* i64 and f64 subtract (saturating at a width this model does not reach),
\* u64 saturates at zero.
Difference(v, old) == IF v.kind = "counter" THEN Monus(v.tip, old) ELSE v.tip - old

\* Extract::Tip of extract_single.
ExtractTip(bl, v) ==
    [value |-> v.tip, at |-> bl.timestamps[TipIndex(bl, v) + 1]]

\* Extract::DiffToAtMost(n) of extract_single; carbon's get_rate_from_counter
\* is the same walk and divides the difference by `from - to'.
DiffToAtMost(bl, v, n) ==
    IF KnownIndexes(bl, v, n) = {}
    THEN NoValue
    ELSE LET idx == LastKnown(bl, v, n) IN
         [value |-> Difference(v, History(v, bl.age)[idx + 1]),
          from  |-> bl.timestamps[TipIndex(bl, v) + 1],
          to    |-> bl.timestamps[idx + 1]]

\* Extract::HistoryByNum(n) of extract_multi.
HistoryByNum(bl, v, n) ==
    [values |-> Take(History(v, bl.age), n), timestamps |-> Take(bl.timestamps, n)]

\* Extract::HistoryByTime(d): everything up to and including the first scan
\* that is at least d older than the newest one.
HistoryByTime(bl, v, d) ==
    LET old == {i \in 1..Len(bl.timestamps) : bl.timestamps[1] - bl.timestamps[i] >= d}
        num == IF old = {} THEN Len(bl.timestamps)
                           ELSE CHOOSE i \in old : \A j \in old : i <= j
    IN  HistoryByNum(bl, v, num)

\* Fault: the age is compared the other way round.
GraphiteIntegerOld(bl, v, num) ==
    IF v.age <= bl.age - Smaller(num, bl.age) THEN v.tip ELSE NoValue

\* The integer branch of graphite_data: the tip, unless it is too old.
GraphiteInteger(bl, v, num) ==
    IF v.age >= bl.age - Smaller(num, bl.age) THEN v.tip ELSE NoValue

=============================================================================
