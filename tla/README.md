# A verification project for cantal

cantal is a monitoring daemon: every host of a cluster runs one.  It scans the
machine (processes, cgroups, `/proc`, files of values that applications map),
keeps an hour or more of history in memory, answers queries of a web interface
and of clients, sends aggregates to carbon, writes snapshots of its history to
the disk, and finds the other daemons of the cluster by UDP gossip.

This directory has TLA+ modules that model the parts of it in which state
lives long and things happen in an order nobody wrote down, the configurations
with which TLC checks them, and theorems with proofs that TLAPS checks.  All
paths below are relative to `src/` of the repository unless they begin with
another crate's name (`cantal_history`, `cantal_query`, `cantal_values`).

    tlasany M.tla                      parse
    tlc -config MCScanner.cfg MCScanner   model-check (see the table of runs)
    tlapm ScannerProofs.tla            check proofs

Contents: 1 the system, 2 the plan, 3 the modules and the code, 4 the runs,
5 bounds, 6 fairness, 7 the proofs, 8 what the code does not do, 9 what is not
modelled.

## 1. The system

One process, three threads that matter:

- the **scan thread** (`scanner.rs`) reads the machine every 2 seconds and, under
  the write lock of `Stats`, pushes the samples to the history;
- the **storage thread** (`storage.rs`) waits on a condition variable for a
  buffer and writes it to the storage directory;
- the **main thread** runs an event loop (tk-easyloop) with everything else: the
  HTTP server and its websockets (`frontend/`, `incoming/`), the gossip future
  (`gossip/proto.rs`), the carbon sinks (`carbon/`).

A thread that returns or panics takes the process with it (`watchdog.rs`); the
next start reads `current.cbor` and `peers.json`.

| component | state | operations | hard behaviour | what makes it correct |
|---|---|---|---|---|
| history (`cantal_history`: `backlog.rs`, `deltabuf.rs`, `tip.rs`) | `age`, `timestamps`, a `Value` per metric (tip, age, buffer of differences or numbers); `Tip` of states | push, truncate by number and by time, iterate | values appear, miss scans, change type, are reset and truncated at different ages; readers index by ages without a check | no value reaches outside the timestamps; what is read back is what was sampled |
| queries (`cantal_query`) | none | conditions on keys; tip, difference, history by number and time; sums, sums by a pair, derivatives | unsigned index arithmetic over the history; series of different lengths and types put together | answers are samples of scans and sums of them, no index leaves the deque |
| carbon (`carbon/`) | none | window of scans, rates, sums per control group, metrics of applications | processes that left stay in the history; divisions by a time that may be zero | what is sent is the sum of what the scans of the window saw |
| scan thread (`scanner.rs`, `main.rs`) | `last_scan`, `last_store`, `last_hourly` | a scan, waiting for the clock, handing over a snapshot | the wall clock is set back; a restart restores an older (or future) history; an assertion ends the process | order of timestamps, bounded history, nothing recent dropped, no panic of its own |
| storage (`storage.rs`) | the slot (`Mutex` + `Condvar`), the files of the directory | take a buffer, create, write, link, rename, clean up | any call fails; the process dies between two; the slot is replaced while the thread writes | nothing torn is read, no wake-up lost, files go forward |
| gossip, new hosts (`gossip/proto.rs`, `config.rs`) | `addr_status`, `add_queue`, timers | AddHost, retry with back-off, answer | commands, packets and time in any order; a timer re-armed by hand | one retry per address, bounded pings, nobody given up early, everybody in the end |
| gossip, peers (`gossip/proto.rs`, `peer.rs`, `info.rs`) | `peers` (reports with time stamps), `ping_queue`, `next_gc` | ping, pong, friends, garbage collection, storing | clocks of different hosts compared; lossy packets; dead hosts recommended | dead hosts are forgotten everywhere and stay forgotten, live ones are kept and found |
| subscriptions (`incoming/`) | two tables of subscriptions under two locks, a channel of triggers | connect, start, stop, trigger, disconnect | scan thread and main thread; triggers while the receiver gathers, sends, rests | tables agree, no trigger lost, every change shown |
| processes, groups, value files (`scan/processes.rs`, `scan/cgroups.rs`, `scan/values.rs`, `cantal_values`) | the cache of metadata and, within a scan, the files visited | walk the groups, list `/proc` twice, read each process, read its file of values | processes start, end and move, applications make their files anew while the scan is between two system calls | values are decoded with their own metadata, each file is told of once, a quiet scan tells all |
| connections (`scan/connections.rs`) | two maps and two sets within a scan | classify each line of `/proc/net/tcp` | a later line decides about earlier ones, through either of two maps | each socket counted once, direction by address, lists whole or absent |
| other scans, HTTP routing, configuration, web interface | little or none | parsing, formatting, I/O | | not modelled, section 9 |

How they interact: the scan thread writes `Stats`, hands a buffer to the slot,
and sends a trigger to the receiver of `incoming`; gossip sends the same kind of
trigger, and hands the other kind of buffer to the slot; websockets call
`Gossip::add_host`; the main function restores both files before the threads run.

`PROJECT.json` lists the hazards of the code, each at its line, with the
properties that would catch it.

## 2. The plan

In this order, the most important behaviour first:

1. `Backlog`, `Query` (operators) and `Scanner` (the machine over them): done,
   proved in `ScannerProofs`.
2. `SnapshotStore` (abstract) and `Storage` (detailed, implements it): done,
   proved, the refinement included.
3. `AddHost`: done, proved.
4. `Incoming`: done, proved.
5. `Peers`: done, proved.
6. `Metric` (abstract) and `DeltaBytes` (the bytes of `deltabuf.rs` and the widths
   of its numbers, implements it): done, the refinement proved.
7. `Datasets` (conditions, rules and functions of `cantal_query`), `Carbon`, and
   `Series`, what they make of the history that `Scanner` fills: done, proved in
   `ScannerProofs`.
8. `Connections` and `ScanRound`: done, proved.
9. Left: the choice of an address to ping (`ping_primary_address`,
   `random_ping_addr`), `ping_queue`, and `Peers` composed with `Storage` (what a
   restarted node finds in `peers.json`).
10. Every safety property of the runs has a theorem.  Left to state and prove: that a
    history restored from the disk answers queries as the one stored did.

Compositions: `Scanner` EXTENDS `Query` EXTENDS `Backlog`; `Carbon` EXTENDS
`Datasets` EXTENDS `Query`; and `Series` EXTENDS `Scanner` and `Carbon`: it has no
machine of its own, its properties ask the queries and the sinks about the history
that the scan thread of `Scanner` fills, cuts, stores and restores.
`ScanRound` is the inside of what is the atomic
reading of a sample in both.  `Metric` EXTENDS `Backlog` too, so that what
`DeltaBytes` is shown to implement is what `Scanner` and `Series` compute with.
`Scanner` has the
storage thread as one step that `Storage` refines: the register of
`SnapshotStore` is what `Scanner` relies on (a restart reads what was handed
over, whole, never older than before).  `AddHost` and `Peers` are two views of
the gossip future that share no variable but the socket: the first has
addresses nobody knows yet, the second hosts that are known.

## 3. The modules and the code

Every definition that stands for code is in the `map` of `PROJECT.json` with its
lines.  A definition whose comment begins with *Fault* is not the code: it is
the definition below it with a plausible mistake.  `PROJECT.json` (`mutants`)
pairs each with a property TLC finds violated when the mistake is put in, so
that no property holds for lack of anything that could break it.

**Backlog, Query.**  A backlog is a record of `age`, `timestamps`, `values`, as
in `backlog.rs`.  A `DeltaBuf` is the sequence of its items (differences and
gaps) in the order the packed bytes give them back; a `VecDeque<f64>` the
sequence of its numbers with NaN as a gap.  `Push`, `TruncateByNum`,
`TruncateByTime` and `History` are the methods of those names; `Query` has the
extractions with the code's own index arithmetic.

`EmptyTip`, `TipPush` and `TipTruncate` are the methods of `tip.rs`.

**Metric, DeltaBytes.**  `Metric` is one counter or integer with its buffer as a
sequence of items, the definitions being those of `Backlog`; a difference the type
cannot hold may leave anything in its place, and nothing else may change.
`DeltaBytes` has the deque of bytes: the layout is that of `deltabuf.rs` with the
powers of two as constants (`SIGN_BIT` is 32 in the code, `Half` 2 to the 63rd), so
that runs that are too long for a byte and differences of several bytes occur with
small numbers.  Subtraction wraps
around, as in a release build.  `BytesTruncate` is both passes of `truncate`;
`Deltas` is the iterator.  `kept`, how many scans the backlog keeps, is what
`Backlog` knows and the buffer does not.

**Datasets, Carbon, Series.**  A key is a function from names to values; a condition
is the sequence of its parts, each a record with the constructor of `condition.rs`
as `op` and behind the parts it is made of (a tree without recursion, which could not
be proved about); a dataset has its variant as `type` and the Vec as a set, since its
order is that of a `HashMap`.  A panic (an index out of range, `unimplemented!`) is a
dataset of its own.  Which of several groups that cannot be summed is found first is
the order of a `HashMap`, too; the model takes any one.  `Carbon` is `cgroups::scan`
and `appmetrics::scan` for what is sent, without the prefix of the names; NaN is a
model value that spoils sums.  `Series` has only properties and the queries they ask,
in every state of `Scanner`; a sample there has a value for each of several metrics.

**Connections.**  A socket is the number of its line; `Stats` is the set of the
lines added, of which the code keeps counts.  `ReadLine` is one turn of the loop; its
branches are disjuncts in the order the code tries them.  `Finish` is the loop
over `remote_unknown`, `Fail` an error of the file at any line.

**ScanRound.**  Every system call of the scan whose answer may differ a moment later
is an action, and so is every call of an application that makes (`UnlinkMeta` ..
`RenameMeta`), removes (`CloseMeta`, `CloseValues`) or leaves half-made
(`WriterKilled`) its two files.  A file is the number of its making, which stands
for what `Stat` and `FileId` compare.  Assumed: a pid is not given to another process
while its file is being read; a process is read whole (its four files at once); no
two makings have the same inode, size and mtime; one application at a time writes a
file.  `calm` is a history variable: scans begun since anything outside changed.

**Scanner.**  One iteration of `scan_loop` is one action, because it holds the
write lock from the first push to the last assignment: `ScanOnly`,
`ScanAndStore` (with the hourly and the short-history branch), `WaitForClock`,
`ScanPanics`.  Around it: `StorageTakes`, `Crash`, `Restart`, a clock that goes
on (`Tick`) and is set back (`StepBack`).  `scans` is a history variable: when
scan number *a* was and what it read; the properties compare the history with it.

**SnapshotStore, Storage.**  The abstract register: hand over, begin, commit or
give up, crash, expire.  `Storage` has every system call of the thread as an
action, in the order of `storage.rs`, with `Fail` (the call returns an error and
the rest of the `and_then` chain is skipped) and `Crash` between any two;
`current.cbor` may be a file or a link to an hourly file, which `Resolve`
follows.  The refinement maps `pending` to the slot, `writing` to the task while
the thread is before its commit, `stored` to what `open("current.cbor")` finds.
Whether buffers are asked for hourly is a constant, as it is fixed by
`--keep-history`.  The clock does not go back in this module; it does in
`Scanner`.

**AddHost.**  `Proto::poll` step by step (`phase`): commands from the channel,
packets from the socket, retries, pings, and the timer.  Time is relative (how
long until a deadline) and goes by between any two steps, as do packets.
`add_queue` is a set with `OnTop` for what the `BinaryHeap` has on top.  The
random factor of the back-off is a choice over the whole range of `gen_range`.

**Incoming.**  `subscribers` and `subscriptions` are the two tables of
`incoming/mod.rs`; `phase`, `buf`, `topic`, `todo` are the future of
`Receiver::start` (wait, gather 10 ms, send, rest 100 ms).  The scan thread has
two steps, the update under the lock and the trigger after it.  `missed` is a
history variable: which requests have not been shown the last change.  Ids of
requests are used once per connection, as the clients do.

**Peers.**  One host that is monitored, and the nodes that know it.  The entries
of a peer table are independent of each other, so one host stands for all.
Reports carry time stamps of the clock of whoever heard the host; a stamp is
modelled as an age relative to a clock without offset, and every node adds its
own `Offset`: that is what comparing stamps of different clocks does.  Packets
arrive within `MaxDelay` or never, in any order.  `ReceiveDirect` is a ping or
pong of the host, `SendFriend`/`ReceiveFriend` are `get_friends`/`apply_friends`,
`GarbageCollector` is the function of that name.  `heard` is a history variable.

## 4. The runs

All of these pass; the last column names what would be wrong otherwise.

| run | module, cfg | properties | shows |
|---|---|---|---|
| scanner | MCScanner.cfg | TimestampsOK, ReadsInRange, AnswersAreSamples, GaplessExact, SamplesInOrder, BacklogTimeKept, PanicNeedsClockStep, TipIsLatest, HistoryBounded | a metric that is an integer, a float or a state, with gaps, changes of type, a clock set back, a crash: no index out of range, no sample shown that was not taken, nothing kept too long or dropped too early |
| storage | MCStorage.cfg | FilesWhole, NoLostWakeup, NewestStored, PeersForward, HourlyKept, Taken, ImplementsStore | a failure and a kill anywhere: no torn file is read, no buffer slept through, and the files are the abstract register |
| add_host | MCAddHost.cfg | OneRetry, PingBudget, GivesUpLate, BacksOff, Settled | the retry queue in any interleaving: bounded, fair to every host, and empty in the end |
| subscriptions | MCIncoming.cfg | Registered, NoTriggerLost, Stopped, Shown | two clients, two threads: the tables agree and every change is shown |
| peers | MCPeers.cfg | RemovedInTime, NotBack, KeptWhileHeard, Discovered | two nodes with different clocks: a dead host is gone in the time `constants.rs` promises and not learnt again, a live one is kept and found |
| connections | MCConnections.cfg | EverySocketOnce, Classified, DetailsWhole | any table of four sockets: each is counted once, under its user and port, as incoming or outgoing by the addresses it shares; no list of details is a part of itself |
| scan_round | MCScanRound.cfg | OwnMetadata, FileOnce, Reported | scans interleaved with processes and applications: no values decoded with other metadata, no file told of twice, and nothing missed when nothing changes |
| delta_bytes | MCDeltaBytes.cfg | ImplementsMetric | every sequence of numbers, gaps and cuts: the bytes read back are the items of `Backlog` |
| series | MCSeries.cfg | SumsAreSamples, RatesAreSamples, CarbonSums, CarbonApps | the scan thread of `Scanner` with the metrics of two processes that come, go and change their types: sums, derivatives, differences and what carbon is sent are those of what scans saw, panics and NaN happen only where stated |

The type invariants are not among the properties of the runs: they are theorems, for
every value of the constants (section 7).

The remaining runs check one property each, which states what the repository
says of itself, and TLC finds it violated; section 8.

What the less obvious properties are about:

- *ReadsInRange* is what `extract_single`, `extract_multi` and
  `get_rate_from_counter` assume without a check: they index a `VecDeque` with a
  difference of ages, in the thread that serves everybody.  `HistoryInWindow`, the part
  of the invariant it follows from, is about the snapshots as well and a theorem
  (`WindowKept`).
- *GaplessExact* and *SamplesInOrder* together say how much of the history of a
  counter can be trusted: it is exact while no scan is missed; after a gap only the
  numbers and their order are, not their places.  *SumsAreSamples* says of floats
  that they are exact, gaps included.
- *BacklogTimeKept* and *HistoryBounded* are the two sides of truncation.
- *NewestStored* allows one thing: `current.cbor` links to an hourly file that is
  removed 36 hours later when no newer history came.
- *NoTriggerLost* is a safety property that *Shown* (liveness) rests on: an
  answer that is out of date has a trigger in the channel, in the buffer, in the
  list being served, or coming from the scan thread.
- *Stopped* is for queries of one field: `unsubscribe_id` removes the request
  from the first topic it finds it in.  The web interface sends queries of one
  field.
- *ImplementsMetric* is a refinement: `DeltaBytes` steps are steps of `Metric` under
  the mapping that reads the bytes back.  It holds for differences that overflow in
  the sense that only that item is spoiled; the older numbers a reader rebuilds
  are then shifted by the lost part.
- *SumsAreSamples* has the panic of `vec_sum` in it.  A series starts at the newest
  scan and ends with the oldest sample its metric has, so it is shorter than the
  timestamps when its metric appeared within the range asked for, and summing it with
  another panics in the thread that serves the request.  The property says when
  that must happen and when it cannot.
- *CarbonSums* says the same of NaN: the rate of a process that left is taken
  between its last sample and itself when that was the last scan of the window, and
  0/0 is then added to the sum of its group.  `docs/carbon.rst:79` says that
  all metrics "represent the sum for all processes in the group".  It holds for sizes:
  a process counts if some scan of the window saw it, once.
- *CarbonApps* is said of classes of applications, a metric of which is named after its
  `state` or its `group`: each is sent by itself, exactly those that were seen in the
  window.
- *OwnMetadata* rests on the order of calls of `py3/cantal.py`, which takes the
  metadata away before it touches the values; `docs/mmap.rst` asks applications for
  a rename only.
- *Reported* is what a scan may miss: processes and groups are right after one
  undisturbed scan, values after two.  In the first one the values of a file that
  was made anew are read with the old metadata, and count as a duplicate of
  themselves when they are read again with the new.
- *Classified* has two parts, since the code trusts the order of lines: a
  connection on an address that an earlier line listens on is incoming in any
  table; in tables where no socket shares both of its addresses with others the order
  does not matter.
- *NotBack* says that a host which is failing by all clocks cannot come back by
  recommendation.  Without the filter of `get_friends` two nodes pass it to each
  other forever.

## 5. Bounds, and why they are enough

- *Scanner*: one key (keys are independent: `Push` and the truncations treat each
  by itself), an integer of two values, a float and a state, so that both kinds of
  buffers and the tip occur and the metric turns from each into each; the clock from
  4 to 8, so four scans at most with as many snapshots as fit, a history of 2 or 3
  units around an "hour" of 2, so that both branches of `Hourly` occur; one step
  back, one crash.  Values of two numbers give differences of both signs; four
  scans give a gap of two between two samples.
- *Connections*: three addresses, two of one port, two users, four lines, a list of
  one socket at most: a socket that decides about an earlier one, through either
  map, with a line before and after; lists at, below and past their limit.
- *ScanRound*: two pids, two roots with a path each, a group that is visited and one
  that is not; files are made twice (new ones in the middle of a scan and
  old metadata in the cache), processes change three times (one forks, moves, ends).
  2.6 million states.
- *DeltaBytes*: two low bits in a byte, so runs of three fill one, and the six scans
  make runs that overflow it; numbers of eight bits from which differences of one,
  two and three bytes and one that does not fit an `i64` arise; every cut.  A
  `u64` cannot overflow, the code subtracts the smaller from the larger.
- *Series*: two processes of one group, the second with an application, with seven
  metrics; four scans within five clock units, which may miss either process, a window
  and a history of two units, snapshots in between: gaps, processes that leave at every
  place of the window, a float that becomes an integer.  The clock is not set back and
  nothing crashes in this run (it does in that of *Scanner*; the theorems are about
  all of it).  A second has 12 units,
  which every time between two scans divides, so that rates are exact in integers.  How
  long a scan took (the second half of a timestamp) is less than a unit.  Sums that
  do not fit 64 bits are not reached.
- *Storage*: three histories, two peer lists, four hours of which one is kept, one
  failure and one kill.  Peers are taken before metrics; in the code peer lists
  come once per `garbage_collector_interval`, not without end, for which
  `MaxPeerLists` stands: `Taken` would not hold if peer lists came faster than they
  can be written.
- *AddHost*: two addresses, one with nobody there; two retries; the back-off
  doubles from 2 with a factor between 0.5 and 1.5, capped at 3, so that the cap
  is reached; two commands.
- *Incoming*: two connections and two ids, at most two requests open at once, a
  query of one field and one of two: the last request of a connection for a topic
  and one that is not the last both occur.
- *Peers*: two nodes with clocks one unit apart, all intervals as small as the
  assumption allows, so that all of its inequalities are tight but one; one packet
  under way, one death, one restart.  The safety properties and the inductive
  invariant were also checked with two packets (1.8 million states).

`CHECK_DEADLOCK FALSE` is in the configurations of `Scanner` and `Series` (the clock of the
model ends at `MaxClock`, where nothing is left to do), of `Storage` (the
thread waits, and the bounds on buffers are used up), of `Connections` (the scan
ends) and of `DeltaBytes` (a bounded number of scans).  The other specifications
never stop.

## 6. Fairness

- `Scanner` (and `Series` with it), `Connections`, `ScanRound` and `DeltaBytes` have
  none: their properties are about safety.
- `Storage`: `WF(StoreStep)`.  The thread does nothing else, and its steps end.
  Nothing is assumed of producers, failures or restarts.
- `AddHost`: `WF(Poll)`, the reactor polls a future that was woken, and
  `WF(Tick)`, time passes.  Nothing is assumed about packets: hosts are given up
  without any.
- `Incoming`: `WF(ReceiverStep)`, timeouts fire and ready futures are polled;
  `WF(ScanTriggers)`, the scan thread gets from its update to its trigger.
- `Peers`: `WF(Tick)` and `WF(GarbageCollector)` of some node, as `poll` looks at
  both timers in every round.  `SF(SendFriend)` to a node and `SF(ReceiveFriend)`
  at it: friends are drawn at random again and again, and of packets that are sent
  again and again one arrives.  That is an assumption about the network and the
  random numbers, and *Discovered* needs it.

## 7. The proofs

All proofs are for every value of the constants that the assumptions admit.

**Scanner, Series** (`ScannerProofs`): every property of both runs.  Two inductive
invariants carry them.

- `IInv` gives `TypeCorrect`, `WindowKept`, `TimestampsKept`,
  `NoPanicWithoutClockStep` and `Bounded`.  It is the type invariant;
  `HistoryInWindow`; `TimestampsOK`; `ScanCount`, which ties the age of the backlog
  to the history variable and says that a process that is down has nothing but the
  disk; `ClockOK`, which says that as long as the clock was not set back no timestamp
  anywhere is in the future and a thread about to scan is past its last one.
  `ScanCount` is needed because alignment is by age, `ClockOK` because the assertion
  of `push` can only be discharged from where all timestamps are, the ones on the
  disk included.
- `TInv` gives `AnswersTrue`, `GaplessShown`, `OrderShown`, `ReadersInRange`,
  `HistoryKept`, `TipShown` and the theorems about `Series`.  It adds what every history, in memory, in the slot
  and on the disk, tells of the scans it counts (`HistoriesTell`; the snapshot of a
  crash comes back as the history, so it has to be true of all of them).  Of a metric
  (`ValueTells` of `Backlog`): its tip is the newest sample and nothing came after;
  a float in the buffer is at the place of the scan that saw it; the differences of
  an unbroken run are at their places; and, since after a gap they are not, there is
  an assignment of scans to the places of the buffer (`Sources`) that goes back in
  time, leaves out no sample, and of which successive ones differ by what the
  buffer has between them.  The assignment is existential: a push puts one in front of
  it, a truncation cuts it.  For `Series` it has two parts more.  `StartTold`: a
  scan at the place of the oldest item of a buffer, or an older one, saw the metric,
  so a metric that was seen nowhere back to the oldest timestamp asked for makes a
  series too short to be summed.  `MetricsKept`: a metric that a scan of the window
  saw is in the history and goes back to that scan, unless it was of another kind
  since; so nothing is missing from a sum, and a query that panics can be traced to
  such a metric.

The lemmas in its first part, about the operators of `Backlog` and `Query`, say what push and the truncations do to a backlog and
to what it tells (`PushTells`, `TruncateTells`, and the same of tips and of the time
that is kept), and what the readers make of it (`HistoryItems`, `LastKnownProperties`,
`DiffProperties`, ..).  Numbers are rebuilt from differences by a function that is
recursive over the place in the buffer.  There is no induction theorem to use for it;
where one is needed (`RewoundRuns`, `RewoundOrder`) the proof takes the least place at
which the claim is false and derives a contradiction from the place before.

The theorems about several metrics, `SumsTrue`, `RatesTrue`, `CarbonSumsTrue` and
`CarbonAppsTrue`, come from the same `TInv`:

- Place *i* of what a reader shows is about the scan with the *i*-th timestamp:
  the *placing* lemmas say so of floats (gaps or not), of counters that no scan missed
  and of the difference of two samples, in terms of `SeenAt`, what the scan saw.
- `SumFunction` folds over a set in the order of an arbitrary choice.  Part of the file
  shows that the order does not matter: a sum over a finite set is that over the set
  without one element and that element, whichever it is (`SumProperties`); sums over two
  sets between which a bijection goes are equal (series of metrics and the metrics
  themselves); elements that are left out because they have no value add nothing.  In
  place of an induction over sets, the proofs take a smallest set of which the claim
  is false.
- That the panic of `vec_sum` happens only where stated, and always there, is about
  how far back a history goes: `StartTold` and `MetricsKept`.
  `SumByNeverPanics` is one of the conjuncts of *RatesAreSamples*: a
  derivative has a value for each of its timestamps (`Full`), whatever series it is
  made of.

Assumptions: `TipValue` has the four kinds; what stands for nothing is no value;
`backlog_time` is not longer than the time the clock starts at; of `Series`: there are
finitely many keys, and NaN is no number.

**DeltaBytes** (`DeltaBytesProofs`): `BytesAreItems`, that `Spec` implements `Metric`
(*ImplementsMetric*), for any numbers, any number of scans and any widths.  The
mapping reads the bytes back, so the inductive invariant needs only say what
kind of bytes there are and that no age is ahead of the backlog (`IInv`); what
has to be shown is what the iterator makes of each thing that is done to the deque.

- The reader has no state between two items but what continuation bytes add up to.
  So bytes that end with none (`Whole`) may be put together, and their items are put
  together (`JoinedItems`), and what is read of the first bytes depends on them only
  (`SamePrefix`).
- What `push` puts in front reads as what it stands for: `SkipBytesItems`,
  `PushZeroItems` (the count in the first byte goes up, or a new byte is made),
  `DifferenceItems`.  The last rests on `ContinuationBytesItems`: the bytes of a number
  add up to it again, and nothing overflows on the way if the number fits.  If the
  subtraction wrapped around, there is still one item and the rest is what it was.
- `_truncate_bytes` counts what the iterator yields (`CountIsLength`), and the byte at
  the limit, shortened, yields the first of its items (`BytesTruncateItems`).

`Deltas`, `CountOf` and `Rest` are recursive functions on `0..n` and not operators,
which the prover has no rule for.  That such a function exists is a lemma
(`RecursionExists`); both it and the facts above go by the least place at which they
would fail (`Upto`).  Assumptions: `SIGN_BIT` is at least 2 (a run byte can count to
one), `Half` at least 1, the numbers are those of the type, and what stands for a gap or
for no value is no number and no value.

**AddHost** (`AddHostProofs`): `TypeCorrect`, `OneRetryEach`, `PingsBounded`,
`NotGivenUpEarly`, `BackOffGrows`.  `IInv` adds `RetryOK`: an entry of the queue has
at most as many attempts as the address had pings, and pings are paid for by
commands or attempts; addresses nothing is known of were never pinged.  Type
correctness needs the arithmetic of the jitter: `RandomHigh * RetryMin <= 100 *
RetryCap`, since the first sleep is not capped in the code; `BackOffGrows` needs
`RandomLow * RetryExponent >= 100`.  The defaults, which nothing overrides, satisfy
both.

**Incoming** (`IncomingProofs`): `TypeCorrect`, `TablesAgree`, `TriggersKept`,
`StoppedIsSilent`, for any number of connections, requests and queries.  `IInv` adds
that a request has one query under its own fields only (`QueryOK`), that nothing is
left of a closed connection (`ClosedOK`), that the receiver is done with what it
gathered when it waits (`ReceiverOK`), and that only subscriptions miss changes.

**Peers** (`PeersProofs`): `TypeCorrect`, `AllForget`, `NeverBack`, `HeardIsKept`, for
any number of nodes.  The argument: while a host is dead, no report of it is younger
than its death by more than a delay and the skew of two clocks (`ReportsOK`: the
report itself may have been made by any node, which is why it is said for every
offset); so a node that keeps the host at a garbage collection does it early enough
(`GarbageOK`), and the time until the next one is less than `FailTime`.  A node that
learns of the host was told by one that did not think it failing, a packet's delay
before (in `TypeOK`), which is early enough by the same inequality.  `HeardOK` says
that the report of a node is not older than the last packet, because only younger
reports are applied.  Assumptions: clocks differ by at most `MaxSkew`; garbage is
collected, and clocks agree, better than `FailTime` (an hour by default); `FailTime +
MaxDelay <= RemoveTime`, which is the expectation at the end of `constants.rs`.

**Storage** (`StorageProofs`): `TypeCorrect`, `NothingTorn`, `AwakeForBuffers`,
`PeersGoForward`, `SnapshotsKept`, `StoreImplemented`, `NewestReachesDisk`.  `IInv` adds to the type
invariant and `NoLostWakeup`: what the thread works at and which of the temporary
files is complete by then (`TaskOK`); that no file that is read holds part of a
buffer or one that was not handed over (`HistoriesOK`, `PeersOK`); and that there is
one snapshot of an hour (`OneAnHour`).  The last is needed for the refinement:
between the two renames `current.cbor` is still the old link while a new file takes
the name of its hour, and what a restart reads only stays the same because the old
link names an earlier hour.  A restart does not write the hour of its start again
(`scanner.rs` starts with the current hour as `last_hourly`), which keeps this true
across kills.  `NewestReachesDisk` (*NewestStored*) needs two more parts that
relate what the thread works at to the history variables: `NewestTaken`, the newest
buffer is in the slot or was taken from it, and `NewestKept`, without failures and
kills each file holds what was stored last or will when the task at hand is done.
It holds although the snapshot behind `current.cbor` may be removed as old, because
such a link is what the property allows.  `SnapshotsKept`, `StoreImplemented` and
`NewestReachesDisk` assume `StartHour >= KeepHours`; section 8 says what happens
without it.

**Connections** (`ConnectionsProofs`): `TypeCorrect`, `SocketsCountedOnce`,
`ListsWhole`, `DirectionByAddress`, for any addresses, users and number of lines.
`IInv` adds to the properties what the two sets of addresses are good for
(`AddressesKnown`: whoever is incoming has its address in the set and shares it, and
an address in the set has nobody waiting on it) and that whoever waits or is outgoing
is alone on its local address unless the table is ambiguous (`AloneOrAmbiguous`).
That the two maps agree is part of `EverySocketOnce` itself: it is what makes the
removal of the older socket from the other map remove that socket and no other.

**ScanRound** (`ScanRoundProofs`): `TypeCorrect`, `DecodedRight`, `NoDuplicates`,
`ReportedRight`, for any processes, roots, paths and groups.  The argument for `OwnMetadata`: metadata is
in place only when it belongs to the values in place (`FilesOK`); so if the reader
has values that do not belong to the metadata it holds, the values in place now are
later ones than the metadata held, and stay so, since makings only grow (`NotInPlace`
with `HeldOK`); then the second look does not find the metadata it holds and the
values are not published.  For `FileOnce`: what was published is in `visited`, and
what is about to be is not among it (`Once`).

`ReportedRight` has an invariant of its own, `CalmInv`, on top of `IInv`.  What holds
always: lists of an earlier scan are empty (`ListsOK`) and no two files have the same
values (`FilesDiffer`).  While nothing has changed since a scan began: the lists are
right as far as the scan is (`ListsRight`), which gives processes and groups; what
`read_values` holds is what is in place (`ReadingRight`); and the metadata of every
whole file it is done with is in the cache (`CacheRight`), whether its values could
be read or not.  So in the next such scan all metadata is known, values are
read at once, and `ValuesRight` holds: `visited` has the files of the processes
`read_values` has been at.  Since they are sorted by pid, those are the smaller
pids, and a file is found in `visited` exactly if it is not the first process
that has it.  `ScanRound` counts undisturbed scans in a history variable (`calm`)
that stops at two, since from the second on nothing improves.

Only model-checked: all liveness (`Taken`, `Settled`, `Shown`, `Discovered`), which is
out of reach of the prover.  Every safety property of the passing runs is a theorem.

## 8. What the code does not do

Each has a run whose counterexample shows it, and a finding in `PROJECT.json`.

| run | property | what happens |
|---|---|---|
| scanner_precision | FullPrecision | `DeltaBuf::push` stores the gaps under the difference: after a scan that missed a counter, its old value is shown at the wrong timestamp.  `docs/concepts.rst` promises 100% precision |
| scanner_offset | LargeOffsetIsFatal | the offset is computed as `start.saturating_sub(last_scan)` where `start < last_scan`: always 0, so the error for a large offset is never raised and the thread waits for as long as it takes |
| add_host_order | FirstRetryInTime | the heap has the latest deadline on top, so a retry that is due waits for all later ones |

Other behaviour of the code that a reader of the models should know of; it is in
the statements and assumptions of properties that hold:

- The assertion of `Backlog::push` fails when the clock, set back, reads the time of
  the last scan again, and on every restart while the clock is behind a restored
  history.  `PanicNeedsClockStep` says that the clock must have been set back for it.
- With a clock within 36 hours of 1970 the cut-off of `store_metrics`
  (`storage.rs:110`) wraps around, and the snapshot just written is removed.
  `SnapshotsKept` and `StoreImplemented` assume that the clock is later, and so does the
  run.
- An address that was given up stays `PingSent`: asking for it again sends one ping and
  schedules no retry (`proto.rs:209` says it keeps "same timestamp for the next
  retry").  `GivesUpLate` and `PingBudget` hold with that.
- A query that sums series panics when one of the metrics appeared within the
  range, and a group's rates are NaN when a process left it at the beginning of the
  window: section 4, `SumsAreSamples` and `CarbonSums`.
- `graphite_data` sends no floats; the code sends `write_bps` where `docs/carbon.rst:88`
  says `writes_bps`.  `SumBy` on a tip, `Expect` and `StateChart` are `unimplemented!`.
- A file of values that is made anew during a scan may be missing from it and, if
  its old metadata was cached, from the next one.

## 9. What is not modelled, and why

- `compare_timestamps` (`tstamp.rs`) and the chunk iterator are called by their tests
  only.
- `machine.rs`: one pass over files of `/proc` without state.  `carbon/myself.rs`: the
  process's own metrics, sent as they are.
- `ReadCache.metadata` of the values reader is never cleared: an entry per process and
  path stays for the life of the daemon.  `ScanRound` has the cache, whose size is
  bounded by the sets of pids and paths of the model.
- Addresses of a peer, names, round-trip times, the order of `ping_queue`, the gauges
  for the number of peers: `Peers` has hosts with one address, pinged in any order.
- A peer that is removed by the garbage collection triggers no subscription: clients
  see it with the next packet.  `Incoming` has the changes that packets make.
- Parsing of `/proc`, cgroups and CBOR, HTTP routing, configuration, carbon's line
  format: I/O and formatting without state of their own.
- Poisoned locks: a panic under a lock ends the process by the watchdog of the thread
  or by the `expect` of the next user, which is `Crash`.
- `remote/`: mostly commented out; what it did is now in `incoming/`.
- The web interface (JavaScript); of `py3/cantal.py`, all but the order in which it
  makes and removes its files.
