------------------------------ MODULE Backlog ------------------------------
(***************************************************************************)
(* The fine-grained history of metrics: cantal_history/src/backlog.rs.     *)
(*                                                                         *)
(* A backlog is the record [age, timestamps, values]: the number of scans  *)
(* ever pushed, the timestamps of the scans still kept (newest first), and *)
(* one Value per metric key.  A Value keeps the newest sample (`tip'), the *)
(* number of the scan that brought it (`age') and `buf', the older samples *)
(* newest first: differences for counters and integers (DeltaBuf), plain   *)
(* numbers for floats (VecDeque<f64>).  How a DeltaBuf packs its items     *)
(* into bytes is abstracted here; a buffer is the sequence of its items.   *)
(*                                                                         *)
(* This module has operators only: the state machine that pushes and       *)
(* truncates is Scanner, the readers are in Query.  An operator under a    *)
(* comment that begins with Fault is not the code: the README says how     *)
(* faults are used.                                                        *)
(***************************************************************************)
EXTENDS Integers, Sequences

CONSTANTS
    Key,         \* metric keys
    TipValue,    \* what one scan can say of one key
    NoValue,     \* a key that is not there (in a scan, or in the HashMap)
    Gap          \* Delta::Skip in a DeltaBuf, NaN in a VecDeque<f64>

FineKind == {"counter", "integer", "float"}

\* A "state" value is an opaque string (here a number that stands for it);
\* it never enters the backlog, only the tip.
ASSUME TipValueAssumption ==
    TipValue \subseteq [kind : FineKind \cup {"state"}, val : Int]

Value == [kind : FineKind, tip : Int, age : Nat, buf : Seq(Int \cup {Gap})]

\* .. and what is not there is no value of any sort (Option::None).
ASSUME AbsentAssumption ==
    /\ NoValue \notin TipValue /\ NoValue \notin Value
    /\ NoValue \notin Int /\ NoValue \notin [at : Nat, val : Int]
    /\ Gap \notin Int

BacklogRecord == [age : Nat, timestamps : Seq(Nat),
                  values : [Key -> Value \cup {NoValue}]]

\* The samples of one scan: a value per key, or nothing.
Sample == [Key -> TipValue \cup {NoValue}]

Smaller(a, b) == IF a <= b THEN a ELSE b
Monus(a, b)   == IF a >= b THEN a - b ELSE 0       \* u64::saturating_sub
Gaps(n)       == [i \in 1..n |-> Gap]

\* The first n items of a sequence, or all of it.
Take(s, n) == SubSeq(s, 1, Smaller(n, Len(s)))

-----------------------------------------------------------------------------
(* One metric                                                              *)

NewValue(tv, age) ==
    [kind |-> tv.kind, tip |-> tv.val, age |-> age, buf |-> << >>]

\* Fault: the difference the wrong way round.
DeltaPushReversed(buf, old, new, ageDiff) ==
    IF ageDiff = 0 THEN buf
                   ELSE (<<old - new>> \o Gaps(ageDiff - 1)) \o buf

\* DeltaBuf::push puts the gaps in first, so the newest item is the
\* difference and the gaps follow it; the VecDeque gets the old value first
\* and the NaNs in front of it.
DeltaPush(buf, old, new, ageDiff) ==
    IF ageDiff = 0 THEN buf
                   ELSE (<<new - old>> \o Gaps(ageDiff - 1)) \o buf

\* Fault: the gaps first, as in a DeltaBuf.
FloatPushGapsFirst(buf, old, ageDiff) == (<<old>> \o Gaps(ageDiff - 1)) \o buf

FloatPush(buf, old, ageDiff) == (Gaps(ageDiff - 1) \o <<old>>) \o buf

InnerPush(v, new, age) ==
    IF age < v.age
    THEN v
    ELSE [v EXCEPT !.tip = new,
                   !.age = age,
                   !.buf = IF v.kind = "float"
                           THEN FloatPush(v.buf, v.tip, age - v.age)
                           ELSE DeltaPush(v.buf, v.tip, new, age - v.age)]

\* Fault: the types are not compared.
ValueAcceptsAny(v, tv) == v # NoValue

\* Value::push accepts a sample of its own type only.
ValueAccepts(v, tv) == v # NoValue /\ v.kind = tv.kind

\* Fault: a value of exactly that age is kept.
InnerTruncateKeeping(v, trimAge) ==
    IF v.age < trimAge
    THEN NoValue
    ELSE [v EXCEPT !.buf = Take(v.buf, (v.age - trimAge) - 1)]

\* Both buffers keep `limit - 1' items: the tip is counted as one.
InnerTruncate(v, trimAge) ==
    IF v.age <= trimAge
    THEN NoValue
    ELSE [v EXCEPT !.buf = Take(v.buf, (v.age - trimAge) - 1)]

-----------------------------------------------------------------------------
(* The backlog                                                             *)

EmptyBacklog ==
    [age |-> 0, timestamps |-> << >>, values |-> [k \in Key |-> NoValue]]

\* Fault: no assertion.
PushableAlways(bl, ts) == TRUE

\* The assertion at the head of Backlog::push.
Pushable(bl, ts) == bl.timestamps # << >> => ts > bl.timestamps[1]

Push(bl, ts, sample) ==
    LET newAge == bl.age + 1 IN
    [age        |-> newAge,
     timestamps |-> <<ts>> \o bl.timestamps,
     values     |-> [k \in Key |->
         IF sample[k] = NoValue THEN bl.values[k]
         ELSE IF ValueAccepts(bl.values[k], sample[k])
              THEN InnerPush(bl.values[k], sample[k].val, newAge)
              ELSE NewValue(sample[k], newAge)]]

TruncateByNum(bl, idx) ==
    [age        |-> bl.age,
     timestamps |-> Take(bl.timestamps, idx),
     values     |-> [k \in Key |->
         IF bl.values[k] = NoValue
         THEN NoValue
         ELSE InnerTruncate(bl.values[k], Monus(bl.age, idx))]]

\* Fault: `ts <= timestamp'.
TruncateByTimeEarly(bl, ts) ==
    LET older == {i \in 1..Len(bl.timestamps) : bl.timestamps[i] <= ts} IN
    IF older = {}
    THEN bl
    ELSE LET first == CHOOSE i \in older : \A j \in older : i <= j
         IN  TruncateByNum(bl, first - 1)

\* Fault: the first timestamp that is too old is kept.
TruncateByTimeLate(bl, ts) ==
    LET older == {i \in 1..Len(bl.timestamps) : bl.timestamps[i] < ts} IN
    IF older = {}
    THEN bl
    ELSE LET first == CHOOSE i \in older : \A j \in older : i <= j
         IN  TruncateByNum(bl, first)

\* Keeps the timestamps before the first one that is older than `ts'.
TruncateByTime(bl, ts) ==
    LET older == {i \in 1..Len(bl.timestamps) : bl.timestamps[i] < ts} IN
    IF older = {}
    THEN bl
    ELSE LET first == CHOOSE i \in older : \A j \in older : i <= j
         IN  TruncateByNum(bl, first - 1)

-----------------------------------------------------------------------------
(* Reading the history of a metric: DeltaHistory and FloatHistory.  The    *)
(* answer lines up with `timestamps': item i is about timestamps[i].       *)

\* The running value of DeltaHistory after i items of the buffer.
Rewound(v) ==
    LET f[i \in 0..Len(v.buf)] ==
            IF i = 0 THEN v.tip
            ELSE IF v.buf[i] = Gap THEN f[i - 1] ELSE f[i - 1] - v.buf[i]
    IN  f

\* Fault: the value before a decrease is shown.
BufItemShown(v, i) ==
    IF v.buf[i] = Gap THEN NoValue ELSE IF v.kind = "float" THEN v.buf[i] ELSE Rewound(v)[i]

\* A negative difference ("probably counter reset") hides the value it leads
\* to, whatever the type; floats are stored as they are.
BufItem(v, i) ==
    CASE v.buf[i] = Gap                        -> NoValue
      [] v.buf[i] # Gap /\ v.kind = "float"    -> v.buf[i]
      [] v.buf[i] # Gap /\ v.kind # "float"    ->
             IF v.buf[i] < 0 THEN NoValue ELSE Rewound(v)[i]

History(v, currentAge) ==
    LET skipped == Monus(currentAge, v.age) IN
    [i \in 1..(skipped + 1 + Len(v.buf)) |->
        IF i <= skipped THEN NoValue
        ELSE IF i = skipped + 1 THEN v.tip
        ELSE BufItem(v, i - skipped - 1)]

-----------------------------------------------------------------------------
(* The tip: the last value of what is a state                              *)

EmptyTip == [k \in Key |-> NoValue]

\* Which values of a sample go to the backlog, and which to the tip.
FinePart(sample) ==
    [k \in Key |-> IF sample[k] # NoValue /\ sample[k].kind # "state"
                   THEN sample[k] ELSE NoValue]
StatePart(sample) ==
    [k \in Key |-> IF sample[k] # NoValue /\ sample[k].kind = "state"
                   THEN sample[k] ELSE NoValue]

\* Fault: a key that is there already keeps its first value.
TipPushOnce(old, ts, states) ==
    [k \in Key |-> IF states[k] = NoValue \/ old[k] # NoValue THEN old[k]
                   ELSE [at |-> ts, val |-> states[k].val]]

\* Tip::push and Tip::truncate_by_time.
TipPush(old, ts, states) ==
    [k \in Key |-> IF states[k] = NoValue THEN old[k]
                   ELSE [at |-> ts, val |-> states[k].val]]
TipTruncate(old, ts) ==
    [k \in Key |-> IF old[k] # NoValue /\ old[k].at < ts THEN NoValue ELSE old[k]]

-----------------------------------------------------------------------------
(* What the readers rely on                                                *)

\* A value speaks of scans that are in the backlog only: its newest sample is
\* not newer than the last scan, its oldest item not older than the oldest
\* timestamp.
ValueInWindow(bl, v) ==
    /\ v.age <= bl.age
    /\ bl.age - Len(bl.timestamps) < v.age - Len(v.buf)

WindowOK(bl) ==
    /\ Len(bl.timestamps) <= bl.age
    /\ \A k \in Key : bl.values[k] # NoValue => ValueInWindow(bl, bl.values[k])

Descending(ts) == \A i, j \in 1..Len(ts) : i < j => ts[i] > ts[j]

-----------------------------------------------------------------------------
(* What a history tells of a log of scans, where log[a] is when scan       *)
(* number a was and what it read: [at, sample].                            *)

\* What scan a saw of a key, as a value of this kind.
SampleAt(log, k, kind, a) ==
    LET tv == log[a].sample[k]
    IN  IF tv # NoValue /\ tv.kind = kind THEN tv.val ELSE NoValue

\* The tip is the newest sample: after it no scan saw the metric as anything
\* that goes to the backlog.
NewestTold(log, k, v, age) ==
    /\ SampleAt(log, k, v.kind, v.age) = v.tip
    /\ \A a \in v.age + 1 .. age : FinePart(log[a].sample)[k] = NoValue

\* A number in a buffer of floats is at the place of the scan that saw it, and
\* a gap at that of one that did not.
FloatsTold(log, k, v) ==
    v.kind = "float" =>
        \A i \in 1..Len(v.buf) :
            SampleAt(log, k, "float", v.age - i) = IF v.buf[i] = Gap THEN NoValue ELSE v.buf[i]

\* A buffer does not begin before the first sample.
StartTold(log, k, v) ==
    \E a \in 1 .. v.age - Len(v.buf) : SampleAt(log, k, v.kind, a) # NoValue

\* As long as every scan saw a metric, its differences are at their places.
RunsTold(log, k, v) ==
    v.kind # "float" =>
        \A n \in 1..Len(v.buf) :
            (\A a \in v.age - n .. v.age : SampleAt(log, k, v.kind, a) # NoValue) =>
                /\ v.buf[n] # Gap
                /\ v.buf[n] = SampleAt(log, k, v.kind, v.age - n + 1)
                                - SampleAt(log, k, v.kind, v.age - n)

\* The places of the samples in a buffer; the tip is at place 0.
SamplePlaces(buf) == {0} \cup {i \in 1..Len(buf) : buf[i] # Gap}

\* `src' has the scan of each sample: the newest ones, in order, and none is
\* left out.
Sources(log, k, v, src) ==
    LET Seen(a) == SampleAt(log, k, v.kind, a) # NoValue
        places == SamplePlaces(v.buf)
    IN  /\ src \in [places -> 1..v.age]
        /\ src[0] = v.age
        /\ \A i \in places : Seen(src[i])
        /\ \A i, j \in places : i < j => src[j] < src[i]
        /\ \A i \in places : \A a \in src[i]..v.age :
               Seen(a) => \E j \in places : j <= i /\ src[j] = a

\* Two samples of a buffer with none between them.
Neighbours(buf, i, j) ==
    /\ i < j
    /\ \A m \in SamplePlaces(buf) : m <= i \/ j <= m

\* With gaps, each difference is still that of two successive samples.
OrderTold(log, k, v) ==
    v.kind # "float" =>
        \E src \in [SamplePlaces(v.buf) -> 1..v.age] :
            /\ Sources(log, k, v, src)
            /\ \A i, j \in SamplePlaces(v.buf) :
                  Neighbours(v.buf, i, j) =>
                      v.buf[j] = SampleAt(log, k, v.kind, src[i])
                                 - SampleAt(log, k, v.kind, src[j])

ValueTells(log, k, v, age) ==
    /\ NewestTold(log, k, v, age) /\ FloatsTold(log, k, v)
    /\ RunsTold(log, k, v) /\ OrderTold(log, k, v) /\ StartTold(log, k, v)

BacklogTells(log, bl) ==
    \A k \in Key : bl.values[k] # NoValue => ValueTells(log, k, bl.values[k], bl.age)

\* As long as scan a has its timestamp, a metric that it saw is there, and goes
\* back to that scan unless it was of another type since.
SeenKept(log, k, v, age, a) ==
    LET Fine(b) == FinePart(log[b].sample)[k] IN
    Fine(a) # NoValue =>
        /\ v # NoValue
        /\ (\A b \in a..age : Fine(b) # NoValue => Fine(b).kind = v.kind) =>
              v.age - Len(v.buf) <= a

MetricsKept(log, bl) ==
    \A k \in Key : \A a \in bl.age - Len(bl.timestamps) + 1 .. bl.age :
        SeenKept(log, k, bl.values[k], bl.age, a)

\* Scans up to `time' before the newest one have their timestamps.
TimeKept(log, bl, time) ==
    \A a \in 1..bl.age :
        log[a].at >= log[bl.age].at - time => a > bl.age - Len(bl.timestamps)

\* The tip has the last state of a key, or nothing when that is older than
\* `time'.
TipTells(log, tip, age, time) ==
    \A k \in Key :
        /\ tip[k] # NoValue =>
             \E a \in 1..age :
                /\ SampleAt(log, k, "state", a) # NoValue
                /\ \A b \in a + 1 .. age : SampleAt(log, k, "state", b) = NoValue
                /\ tip[k] = [at |-> log[a].at, val |-> SampleAt(log, k, "state", a)]
        /\ tip[k] = NoValue =>
             \A a \in 1..age : SampleAt(log, k, "state", a) # NoValue =>
                log[a].at < log[age].at - time

=============================================================================
