------------------------------ MODULE Scanner ------------------------------
(***************************************************************************)
(* The scan thread (src/scanner.rs) with the history it fills              *)
(* (cantal_history), the snapshot of it that survives the process, and the *)
(* wall clock it trusts.                                                   *)
(*                                                                         *)
(* One iteration of scan_loop is one action: the machine is read into a    *)
(* fresh sample, and everything after that happens under one write lock of *)
(* Stats, so readers (the web interface and the carbon sinks, under the    *)
(* read lock) see the state between two actions.  The storage thread is    *)
(* abstracted to its effect on current.cbor, which is replaced as a whole  *)
(* or not at all; module Storage has its steps.                            *)
(*                                                                         *)
(* Time is a number of clock units; a sleep ends when the clock has gone   *)
(* forward.  The clock is the wall clock of time_ms(): the environment may *)
(* also set it back, at most MaxSteps times.                               *)
(***************************************************************************)
EXTENDS Query

CONSTANTS
    Samples,           \* what one scan may read: any of the metrics
    Start,             \* the first reading of the clock
    MaxClock,          \* bound of the model: the clock stops here
    MaxSteps,          \* bound of the model: how often it is set back
    MaxCrashes,        \* bound of the model: how often the process is killed
    SnapshotInterval,  \* SNAPSHOT_INTERVAL
    TipTime,           \* how long a state value is kept: one minute
    BacklogTimes,      \* the values --keep-history may have
    Hour,              \* 3 600 000 ms
    LargeOffset,       \* 10 000 ms
    NoHistory          \* nothing queued, or no current.cbor yet

ASSUME SamplesAssumption == Samples \subseteq Sample

ASSUME TimeAssumption ==
    /\ {Start, MaxClock, MaxSteps, MaxCrashes, SnapshotInterval, TipTime,
        LargeOffset} \subseteq Nat
    /\ Hour \in Nat \ {0}
    /\ BacklogTimes \subseteq 0..Start

VARIABLES
    backlog_time, \* --keep-history of this installation
    clock,        \* what time_ms() returns
    proc,         \* "up", "down" (killed) or "panicked" (exit code 82)
    asleep,       \* the scan thread is in sleep(interval)
    last_scan, last_store, last_hourly,    \* locals of scan_loop
    fine,         \* stats.history.fine
    tip,          \* stats.history.tip
    slot,         \* the encoded history waiting in Storage.value.metrics
    disk,         \* the history in current.cbor
    scans,        \* history variable: when scan number a was, and what it read
    steps,        \* how often the clock was set back
    crashes       \* how often the process was killed

vars == <<backlog_time, clock, proc, asleep, last_scan, last_store, last_hourly,
          fine, tip, slot, disk, scans, steps, crashes>>

Init ==
    /\ backlog_time \in BacklogTimes
    /\ clock = Start
    /\ proc = "up" /\ asleep = FALSE
    /\ last_scan = Start - 1
    /\ last_store = Start
    /\ last_hourly = Start \div Hour
    /\ fine = EmptyBacklog /\ tip = EmptyTip
    /\ slot = NoHistory /\ disk = NoHistory
    /\ scans = << >>
    /\ steps = 0 /\ crashes = 0

-----------------------------------------------------------------------------
(* The scan loop                                                           *)

\* Hourly snapshots are kept, and the backlog cut, once an hour when the
\* history is longer than that; otherwise it is cut at every store.
Hourly == backlog_time > Hour

NewHour == clock \div Hour > last_hourly

\* Fault: the thread does not sleep between two scans.
ScannedSleepless ==
    /\ proc = "up" /\ ~asleep
    /\ clock >= last_scan
    /\ Pushable(fine, clock)
    /\ last_scan' = clock
    /\ asleep' = FALSE
    /\ UNCHANGED <<backlog_time, clock, proc, disk, steps, crashes>>

\* The part of an iteration every scan has.
Scanned ==
    /\ proc = "up" /\ ~asleep
    /\ clock >= last_scan
    /\ Pushable(fine, clock)
    /\ last_scan' = clock
    /\ asleep' = TRUE
    /\ UNCHANGED <<backlog_time, clock, proc, disk, steps, crashes>>

StoreDue == Monus(clock, last_store) > SnapshotInterval

\* A scan between two stores.
ScanOnly(sample) ==
    /\ Scanned
    /\ ~StoreDue
    /\ fine' = Push(fine, clock, FinePart(sample))
    /\ tip' = TipPush(tip, clock, StatePart(sample))
    /\ scans' = Append(scans, [at |-> clock, sample |-> sample])
    /\ UNCHANGED <<last_store, last_hourly, slot>>

\* A scan after which the history is handed to the storage thread.  `slot' is
\* one place: what the storage thread did not take yet is replaced.
ScanAndStore(sample) ==
    /\ Scanned
    /\ StoreDue
    /\ LET pushed == Push(fine, clock, FinePart(sample))
           cut    == TruncateByTime(pushed, clock - backlog_time)
       IN  \/ /\ Hourly /\ ~NewHour
              /\ fine' = pushed
              /\ UNCHANGED last_hourly
           \/ /\ Hourly /\ NewHour
              /\ fine' = cut
              /\ last_hourly' = clock \div Hour
           \/ /\ ~Hourly
              /\ fine' = cut
              /\ UNCHANGED last_hourly
    /\ tip' = TipTruncate(TipPush(tip, clock, StatePart(sample)),
                          clock - Smaller(backlog_time, TipTime))
    /\ last_store' = clock
    /\ slot' = [fine |-> fine', tip |-> tip']
    /\ scans' = Append(scans, [at |-> clock, sample |-> sample])

\* The clock is behind the previous scan.  The code computes
\* `start.saturating_sub(last_scan)', which is 0, so it always sleeps.
WaitForClock ==
    /\ proc = "up" /\ ~asleep
    /\ clock < last_scan
    /\ LET diff == Monus(clock, last_scan) IN diff < LargeOffset
    /\ asleep' = TRUE
    /\ UNCHANGED <<backlog_time, clock, proc, last_scan, last_store, last_hourly, fine, tip,
                   slot, disk, scans, steps, crashes>>

\* What the process held in memory is gone; the scans that current.cbor does
\* not have are forgotten.
Forget ==
    /\ asleep' = FALSE
    /\ last_scan' = 0 /\ last_store' = 0 /\ last_hourly' = 0
    /\ fine' = EmptyBacklog /\ tip' = EmptyTip
    /\ slot' = NoHistory
    /\ scans' = IF disk = NoHistory THEN << >> ELSE Take(scans, disk.fine.age)
    /\ UNCHANGED <<backlog_time, clock, disk, steps>>

\* The assertion of Backlog::push fails, or the clock is behind by more than
\* the code accepts: the thread unwinds and the watchdog exits the process.
ScanPanics ==
    /\ proc = "up" /\ ~asleep
    /\ \/ clock >= last_scan /\ ~Pushable(fine, clock)
       \/ clock < last_scan /\ Monus(clock, last_scan) >= LargeOffset
    /\ proc' = "panicked"
    /\ Forget
    /\ UNCHANGED crashes

-----------------------------------------------------------------------------
(* The storage thread, the process and the clock                           *)

\* The storage thread takes the buffer and replaces current.cbor, or fails.
StorageTakes ==
    /\ proc = "up" /\ slot # NoHistory
    /\ disk' \in {disk, slot}
    /\ slot' = NoHistory
    /\ UNCHANGED <<backlog_time, clock, proc, asleep, last_scan, last_store, last_hourly,
                   fine, tip, scans, steps, crashes>>

Crash ==
    /\ proc = "up" /\ crashes < MaxCrashes
    /\ proc' = "down" /\ crashes' = crashes + 1
    /\ Forget

\* main: current.cbor is decoded and taken as it is.  Starting up takes time,
\* so the first scan is not in the clock unit of the last one.
Restart ==
    /\ proc # "up"
    /\ proc' = "up" /\ asleep' = TRUE
    /\ last_store' = clock
    /\ last_scan' = clock - 1
    /\ last_hourly' = clock \div Hour
    /\ fine' = IF disk = NoHistory THEN EmptyBacklog ELSE disk.fine
    /\ tip' = IF disk = NoHistory THEN EmptyTip ELSE disk.tip
    /\ UNCHANGED <<backlog_time, clock, slot, disk, scans, steps, crashes>>

Tick ==
    /\ \E t \in clock + 1 .. MaxClock : clock' = t
    /\ asleep' = FALSE
    /\ UNCHANGED <<backlog_time, proc, last_scan, last_store, last_hourly, fine, tip, slot,
                   disk, scans, steps, crashes>>

StepBack ==
    /\ steps < MaxSteps
    /\ \E t \in Start .. clock - 1 : clock' = t
    /\ steps' = steps + 1
    /\ UNCHANGED <<backlog_time, proc, asleep, last_scan, last_store, last_hourly, fine, tip,
                   slot, disk, scans, crashes>>

Next ==
    \/ \E sample \in Samples : ScanOnly(sample) \/ ScanAndStore(sample)
    \/ WaitForClock
    \/ ScanPanics
    \/ StorageTakes
    \/ Crash
    \/ Restart
    \/ Tick
    \/ StepBack

Spec == Init /\ [][Next]_vars

-----------------------------------------------------------------------------
(* Properties                                                              *)

\* Every backlog there is: in memory, on its way to the disk, on the disk.
Backlogs == {fine} \cup {h.fine : h \in {slot, disk} \ {NoHistory}}

TipHistory == [Key -> [at : Nat, val : Int] \cup {NoValue}]
Saved == [fine : BacklogRecord, tip : TipHistory]

\* Type invariant.
TypeOK ==
    /\ backlog_time \in BacklogTimes
    /\ clock \in Nat /\ steps \in Nat /\ crashes \in Nat
    /\ proc \in {"up", "down", "panicked"} /\ asleep \in BOOLEAN
    /\ last_scan \in Int /\ last_store \in Nat /\ last_hourly \in Int
    /\ fine \in BacklogRecord /\ tip \in TipHistory
    /\ slot \in Saved \cup {NoHistory} /\ disk \in Saved \cup {NoHistory}
    /\ scans \in Seq([at : Nat, sample : Sample])

\* No value of any backlog reaches outside its timestamps (WindowOK).  Push,
\* the truncations and the decoding of a snapshot keep this; nothing in the
\* code checks it, and the readers index by it.
HistoryInWindow == \A bl \in Backlogs : WindowOK(bl)

\* The timestamps of a backlog are the times of the scans it counts, and go
\* strictly back in time, across clock adjustments and restarts.
Aligned(bl) ==
    /\ bl.age <= Len(scans)
    /\ \A i \in 1..Len(bl.timestamps) : bl.timestamps[i] = scans[bl.age + 1 - i].at

TimestampsOK == \A bl \in Backlogs : Aligned(bl) /\ Descending(bl.timestamps)

\* What the readers of the history take for granted: no index leaves the
\* deque, `assert!(idx >= cur)' holds, the time difference of a rate does not
\* wrap around, and every value of a history has its timestamp.
ReadsInRange ==
    \A k \in Key : fine.values[k] # NoValue =>
        LET v == fine.values[k] IN
        /\ TipIndex(fine, v) \in 0 .. Len(fine.timestamps) - 1
        /\ \A n \in 1 .. Len(fine.timestamps) :
              /\ KnownIndexes(fine, v, n) # {} =>
                   /\ LastKnown(fine, v, n) \in TipIndex(fine, v) .. Len(fine.timestamps) - 1
                   /\ LET d == DiffToAtMost(fine, v, n) IN d.from >= d.to
              /\ LET h == HistoryByNum(fine, v, n)
                 IN  Len(h.values) <= Len(h.timestamps)
              /\ LET h == HistoryByTime(fine, v, n)
                 IN  Len(h.values) <= Len(h.timestamps)

\* What scan a saw of a key, as a value of this kind.
SampleOf(k, kind, a) == SampleAt(scans, k, kind, a)

\* A counter or an integer that every scan saw, since the first one its
\* history tells of, is exact too, but for the samples before a decrease,
\* which are hidden.
GaplessExact ==
    \A k \in Key : LET v == fine.values[k] IN
        v # NoValue /\ v.kind # "float" =>
            LET h == History(v, fine.age)
                newest == fine.age - v.age + 1
                Seen(i) == SampleOf(k, v.kind, fine.age + 1 - i)
                IsReset(i) == i > newest /\ Seen(i) > Seen(i - 1)
            IN  (\A i \in newest..Len(h) : Seen(i) # NoValue) =>
                    \A i \in 1..Len(h) :
                        h[i] = IF IsReset(i) THEN NoValue ELSE Seen(i)

\* With gaps the places are lost, but not the samples nor their order: the tip
\* is the newest sample, and what the buffer holds are the previous samples of
\* the metric, newest first, with none left out; one before a decrease is hidden.
SamplesInOrder ==
    \A k \in Key : LET v == fine.values[k] IN
        v # NoValue /\ v.kind # "float" =>
            /\ NewestTold(scans, k, v, fine.age)
            /\ \E src \in [SamplePlaces(v.buf) -> 1..v.age] :
                  /\ Sources(scans, k, v, src)
                  /\ \A i \in SamplePlaces(v.buf) \ {0} :
                        BufItem(v, i) = IF v.buf[i] < 0 THEN NoValue
                                        ELSE SampleOf(k, v.kind, src[i])

Latest(numbers) == CHOOSE a \in numbers : \A b \in numbers : b <= a

\* The answers of the readers are samples of scans: the newest sample with the
\* time of its scan, carbon's integer if one of the last scans saw it, and for
\* floats the difference of two samples with the times of both.
AnswersAreSamples ==
    \A k \in Key : fine.values[k] # NoValue =>
        LET v == fine.values[k]
            Saw(a) == SampleOf(k, v.kind, a) IN
        /\ ExtractTip(fine, v) = [value |-> Saw(v.age), at |-> scans[v.age].at]
        /\ v.kind = "integer" => \A n \in 1..fine.age :
               LET recent == {a \in 1..fine.age : a >= fine.age - n /\ Saw(a) # NoValue}
               IN  GraphiteInteger(fine, v, n) =
                       IF recent = {} THEN NoValue ELSE Saw(Latest(recent))
        /\ v.kind = "float" => \A n \in 1..Len(fine.timestamps) :
               LET d == DiffToAtMost(fine, v, n) IN
               d # NoValue => \E a, b \in {c \in 1..fine.age : Saw(c) # NoValue} :
                      d = [value |-> Saw(a) - Saw(b),
                            from |-> scans[a].at, to |-> scans[b].at]

\* The tip has the last state of a key with its time, or nothing when that is
\* older than a minute (or the whole history, if that is shorter).
TipIsLatest ==
    proc = "up" => \A k \in Key :
        LET seen == {a \in 1..Len(scans) : SampleOf(k, "state", a) # NoValue}
            last == Latest(seen)
        IN  /\ tip[k] # NoValue =>
                 /\ seen # {}
                 /\ tip[k] = [at |-> scans[last].at, val |-> SampleOf(k, "state", last)]
            /\ tip[k] = NoValue /\ seen # {} =>
                 scans[last].at < scans[Len(scans)].at - Smaller(backlog_time, TipTime)

\* Nothing within the configured time is dropped: a scan that is not older
\* than backlog_time before the newest one is still there.
BacklogTimeKept ==
    proc = "up" => \A a \in 1..fine.age :
        scans[a].at >= scans[fine.age].at - backlog_time =>
            a > fine.age - Len(fine.timestamps)

\* And the history does not grow without bound: where it is cut nothing older
\* than backlog_time is left.
HistoryBounded ==
    [][proc = "up" /\ slot' # slot /\ slot' # NoHistory
          /\ (Hourly => last_hourly' # last_hourly)
       => \A i \in 1..Len(fine'.timestamps) :
              fine'.timestamps[i] >= clock - backlog_time]_vars

\* The scan thread panics only if the wall clock was set back: neither
\* sleeping, truncation nor a restart from a snapshot can make it fail alone.
PanicNeedsClockStep == proc = "panicked" => steps > 0

-----------------------------------------------------------------------------
(* The inductive invariant of ScannerProofs                                *)

\* The history variable has as many scans as the backlog counts; a process
\* that is not running has only what is on the disk.
ScanCount ==
    IF proc = "up"
    THEN fine.age = Len(scans)
    ELSE /\ fine = EmptyBacklog /\ slot = NoHistory
         /\ Len(scans) = IF disk = NoHistory THEN 0 ELSE disk.fine.age

\* While the clock only goes forward no scan is in the future, and a thread
\* that is about to scan finds its last scan in the past.
ClockOK ==
    steps = 0 =>
        /\ proc # "panicked"
        /\ last_scan <= clock
        /\ \A bl \in Backlogs : \A i \in 1..Len(bl.timestamps) :
               bl.timestamps[i] <= clock
        /\ ~asleep => \A i \in 1..Len(fine.timestamps) : fine.timestamps[i] < clock

IInv == TypeOK /\ HistoryInWindow /\ TimestampsOK /\ ScanCount /\ ClockOK

\* A history: in memory, on its way to the disk, on the disk.
Histories == {[fine |-> fine, tip |-> tip]} \cup ({slot, disk} \ {NoHistory})

\* The clock may go back, but not from scan to scan.
ScansInOrder == \A a, b \in 1..Len(scans) : a < b => scans[a].at < scans[b].at

\* Every history tells of the scans it counts, and has the time it should.
HistoriesTell ==
    \A h \in Histories :
        /\ h.fine.age > 0 => h.fine.timestamps # << >>
        /\ BacklogTells(scans, h.fine) /\ MetricsKept(scans, h.fine)
        /\ TimeKept(scans, h.fine, backlog_time)
        /\ TipTells(scans, h.tip, h.fine.age, Smaller(backlog_time, TipTime))

TInv == IInv /\ ScansInOrder /\ HistoriesTell

-----------------------------------------------------------------------------
(* What the repository says and the code does not do                       *)

\* docs/concepts.rst: "Preserves one hour history of all metrics data with
\* 100% precision": a number in a history is the one seen at its timestamp.
FullPrecision ==
    \A k \in Key : LET v == fine.values[k] IN
        v # NoValue =>
            LET h == History(v, fine.age) IN
            \A i \in 1..Len(h) :
                h[i] # NoValue => h[i] = SampleOf(k, v.kind, fine.age + 1 - i)

\* scanner.rs: a clock that went back by LargeOffset or more is an error
\* ("Time offset is too large in the past"), not something to wait out.
LargeOffsetIsFatal ==
    [][proc = "up" /\ ~asleep /\ last_scan - clock >= LargeOffset /\ asleep'
       => proc' = "panicked"]_vars

=============================================================================
