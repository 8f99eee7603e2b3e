------------------------------ MODULE Storage ------------------------------
(***************************************************************************)
(* The storage thread (src/storage.rs): the slot through which the scan    *)
(* thread and the gossip future hand it their buffers, and every system    *)
(* call it makes on the storage directory.  Any call may fail (a full      *)
(* disk, say), and the process may be killed between any two.              *)
(*                                                                         *)
(* Histories are numbered in the order in which they are handed over, and  *)
(* so are peer lists.  Time goes by in hours, the unit of the names of     *)
(* hourly snapshots; it does not go back here (Scanner has such clocks).   *)
(***************************************************************************)
EXTENDS Naturals

CONSTANTS
    Nothing,
    KeepHours,       \* 36
    Wrap,            \* 2^64
    StartHour,       \* the time the model begins at, in hours since 1970
    HourlySnapshots, \* --keep-history is more than an hour
    MaxHour, MaxHistories, MaxPeerLists, MaxFailures, MaxCrashes  \* bounds

ASSUME StorageAssumption ==
    /\ {KeepHours, Wrap, StartHour, MaxHour, MaxHistories, MaxPeerLists,
        MaxFailures, MaxCrashes} \subseteq Nat
    /\ StartHour <= MaxHour /\ MaxHour + KeepHours < Wrap
    /\ HourlySnapshots \in BOOLEAN

VARIABLES
    hour,           \* time_ms() / 3 600 000
    last_hourly,    \* of scan_loop
    last_history, last_peers,  \* history variables: the numbers handed over last
    metrics, peers, \* Items, under Storage.value
    pc,             \* where the storage thread is
    task,           \* the buffer it has taken
    start_hour,     \* the local start_time of store_metrics
    tmp, tmplink, current,  \* current.tmp, current.tmp.link, current.cbor
    hourly,         \* hourly-<h>.cbor
    peers_tmp, peers_json,  \* peers.json.tmp, peers.json
    failures, crashes

handed == <<last_hourly, last_history, last_peers>>
items  == <<metrics, peers>>
thread == <<pc, task, start_hour>>
files  == <<tmp, tmplink, current, hourly, peers_tmp, peers_json>>
vars   == <<hour, handed, items, thread, files, failures, crashes>>

Hours == StartHour..MaxHour

MetricBuffer == [data : Nat, hour : Nat, snapshot : BOOLEAN]
PeersBuffer  == [data : Nat]

\* A regular file holds a buffer, or the beginning of it.
FileOf(buf, whole) == [type |-> "file", buf |-> buf, whole |-> whole]
LinkTo(h)          == [type |-> "link", to |-> h]

File(buf) == [type : {"file"}, buf : buf, whole : BOOLEAN]
Symlink   == [type : {"link"}, to : Hours]

ASSUME NothingAssumption ==
    Nothing \notin MetricBuffer \cup PeersBuffer \cup File(MetricBuffer) \cup File(PeersBuffer)
                     \cup Symlink \cup [data : Nat, hour : Nat]

\* What open("current.cbor") finds: symbolic links are followed.
Resolve(f) == IF f # Nothing /\ f.type = "link" THEN hourly[f.to] ELSE f

Init ==
    /\ hour = StartHour /\ last_hourly = StartHour
    /\ last_history = 0 /\ last_peers = 0
    /\ metrics = Nothing /\ peers = Nothing
    /\ pc = "get" /\ task = Nothing /\ start_hour = StartHour
    /\ tmp = Nothing /\ tmplink = Nothing /\ current = Nothing
    /\ hourly = [h \in Hours |-> Nothing]
    /\ peers_tmp = Nothing /\ peers_json = Nothing
    /\ failures = 0 /\ crashes = 0

-----------------------------------------------------------------------------
(* The two producers                                                       *)

\* Fault: no notification.
NotifyNone == UNCHANGED pc

\* notify_all wakes the storage thread if it waits in get().
Notify == pc' = IF pc = "wait" THEN "get" ELSE pc

\* Fault: a buffer that waits is not replaced.
StoreMetricsOnce ==
    /\ pc # "down" /\ last_history < MaxHistories
    /\ metrics' = IF metrics # Nothing THEN metrics
                  ELSE [data |-> last_history + 1, hour |-> hour, snapshot |-> FALSE]
    /\ last_history' = last_history + 1
    /\ Notify
    /\ UNCHANGED <<hour, last_hourly, last_peers, peers, task, start_hour, files, failures,
                   crashes>>

\* Storage::store_metrics, called by scan_loop, which asks for a snapshot in
\* the first store of an hour.
StoreMetrics ==
    /\ pc # "down" /\ last_history < MaxHistories
    /\ LET new_hour == HourlySnapshots /\ hour > last_hourly IN
       /\ metrics' = [data |-> last_history + 1, hour |-> hour, snapshot |-> new_hour]
       /\ last_hourly' = IF new_hour THEN hour ELSE last_hourly
    /\ last_history' = last_history + 1
    /\ Notify
    /\ UNCHANGED <<hour, last_peers, peers, task, start_hour, files, failures, crashes>>

\* Storage::store_peers, called by the garbage collector of gossip.
StorePeers ==
    /\ pc # "down" /\ last_peers < MaxPeerLists
    /\ peers' = [data |-> last_peers + 1] /\ last_peers' = last_peers + 1
    /\ Notify
    /\ UNCHANGED <<hour, last_hourly, last_history, metrics, task, start_hour, files,
                   failures, crashes>>

-----------------------------------------------------------------------------
(* Storage::get                                                            *)

TakePeers ==
    /\ pc = "get" /\ peers # Nothing
    /\ task' = peers /\ peers' = Nothing /\ pc' = "create_peers"
    /\ UNCHANGED <<hour, handed, metrics, start_hour, files, failures, crashes>>

TakeMetrics ==
    /\ pc = "get" /\ peers = Nothing /\ metrics # Nothing
    /\ task' = metrics /\ metrics' = Nothing /\ pc' = "create"
    /\ start_hour' = hour
    /\ UNCHANGED <<hour, handed, peers, files, failures, crashes>>

Wait ==
    /\ pc = "get" /\ peers = Nothing /\ metrics = Nothing
    /\ pc' = "wait"
    /\ UNCHANGED <<hour, handed, items, task, start_hour, files, failures, crashes>>

-----------------------------------------------------------------------------
(* store_metrics and store_peers: one step per system call                 *)

Goto(from, to) ==
    /\ pc = from /\ pc' = to
    /\ UNCHANGED <<hour, handed, items, task, start_hour, failures, crashes>>

\* Fault: no temporary file.
CreateInPlace ==
    /\ Goto("create", "write")
    /\ current' = FileOf(task, FALSE)
    /\ UNCHANGED <<tmp, tmplink, hourly, peers_tmp, peers_json>>

Create ==
    /\ Goto("create", "write")
    /\ tmp' = FileOf(task, FALSE)
    /\ UNCHANGED <<tmplink, current, hourly, peers_tmp, peers_json>>

Write ==
    /\ Goto("write", IF task.snapshot THEN "link" ELSE "rename")
    /\ tmp' = FileOf(task, TRUE)
    /\ UNCHANGED <<tmplink, current, hourly, peers_tmp, peers_json>>

\* Fault: current.cbor is made a link at once.
LinkCurrent ==
    /\ Goto("link", "rename_data")
    /\ current' = LinkTo(task.hour)
    /\ UNCHANGED <<tmp, tmplink, hourly, peers_tmp, peers_json>>

\* symlink does not replace a file.
Link ==
    /\ Goto("link", IF tmplink = Nothing THEN "rename_data" ELSE "clean_up")
    /\ tmplink' = IF tmplink = Nothing THEN LinkTo(task.hour) ELSE tmplink
    /\ UNCHANGED <<tmp, current, hourly, peers_tmp, peers_json>>

RenameData ==
    /\ Goto("rename_data", "rename_link")
    /\ hourly' = [hourly EXCEPT ![task.hour] = tmp] /\ tmp' = Nothing
    /\ UNCHANGED <<tmplink, current, peers_tmp, peers_json>>

RenameLink ==
    /\ Goto("rename_link", "clean_up")
    /\ current' = tmplink /\ tmplink' = Nothing
    /\ UNCHANGED <<tmp, hourly, peers_tmp, peers_json>>

Rename ==
    /\ Goto("rename", "clean_up")
    /\ current' = tmp /\ tmp' = Nothing
    /\ UNCHANGED <<tmplink, hourly, peers_tmp, peers_json>>

\* Fault: one hour less.
CutOffEarly == IF start_hour >= KeepHours THEN (start_hour - KeepHours) + 1 ELSE 0

\* u64 subtraction of a release build.
CutOff == IF start_hour >= KeepHours THEN start_hour - KeepHours
                                     ELSE start_hour + Wrap - KeepHours

\* One turn of the loop over the directory.
RemoveOld ==
    /\ \E h \in Hours :
          /\ h < CutOff /\ hourly[h] # Nothing
          /\ hourly' = [hourly EXCEPT ![h] = Nothing]
    /\ Goto("clean_up", "clean_up")
    /\ UNCHANGED <<tmp, tmplink, current, peers_tmp, peers_json>>

CleanedUp ==
    /\ \A h \in Hours : h < CutOff => hourly[h] = Nothing
    /\ pc = "clean_up" /\ pc' = "get" /\ task' = Nothing
    /\ UNCHANGED <<hour, handed, items, start_hour, files, failures, crashes>>

\* Fault: the old list is removed first.
CreatePeersRemoving ==
    /\ Goto("create_peers", "write_peers")
    /\ peers_tmp' = FileOf(task, FALSE) /\ peers_json' = Nothing
    /\ UNCHANGED <<tmp, tmplink, current, hourly>>

CreatePeers ==
    /\ Goto("create_peers", "write_peers")
    /\ peers_tmp' = FileOf(task, FALSE)
    /\ UNCHANGED <<tmp, tmplink, current, hourly, peers_json>>

WritePeers ==
    /\ Goto("write_peers", "rename_peers")
    /\ peers_tmp' = FileOf(task, TRUE)
    /\ UNCHANGED <<tmp, tmplink, current, hourly, peers_json>>

RenamePeers ==
    /\ pc = "rename_peers" /\ pc' = "get" /\ task' = Nothing
    /\ peers_json' = peers_tmp /\ peers_tmp' = Nothing
    /\ UNCHANGED <<hour, handed, items, start_hour, tmp, tmplink, current, hourly,
                   failures, crashes>>

\* A call returns an error: the rest of the chain is skipped.  An error of
\* read_dir or remove_file ends (this part of) the cleaning up.
Fail ==
    /\ failures < MaxFailures /\ failures' = failures + 1
    /\ \/ /\ pc \in {"create", "write", "link", "rename_data", "rename_link", "rename"}
          /\ pc' = "clean_up" /\ UNCHANGED task
       \/ /\ pc \in {"clean_up", "create_peers", "write_peers", "rename_peers"}
          /\ pc' = "get" /\ task' = Nothing
    /\ UNCHANGED <<hour, handed, items, start_hour, files, crashes>>

-----------------------------------------------------------------------------
(* The process and the time                                                *)

Crash ==
    /\ pc # "down" /\ crashes < MaxCrashes
    /\ pc' = "down" /\ crashes' = crashes + 1
    /\ task' = Nothing /\ metrics' = Nothing /\ peers' = Nothing
    /\ UNCHANGED <<hour, handed, start_hour, files, failures>>

Restart ==
    /\ pc = "down" /\ pc' = "get"
    /\ last_hourly' = hour
    /\ UNCHANGED <<hour, last_history, last_peers, items, task, start_hour, files, failures,
                   crashes>>

HourPasses ==
    /\ hour < MaxHour /\ hour' = hour + 1
    /\ UNCHANGED <<handed, items, thread, files, failures, crashes>>

StoreStep ==
    \/ TakePeers \/ TakeMetrics \/ Wait
    \/ Create \/ Write \/ Link \/ RenameData \/ RenameLink \/ Rename
    \/ RemoveOld \/ CleanedUp
    \/ CreatePeers \/ WritePeers \/ RenamePeers

Next ==
    \/ StoreMetrics \/ StorePeers
    \/ StoreStep
    \/ Fail \/ Crash \/ Restart \/ HourPasses

\* The storage thread runs; nothing else has to happen.
Spec == Init /\ [][Next]_vars /\ WF_vars(StoreStep)

-----------------------------------------------------------------------------
(* Properties                                                              *)

\* The history a restart reads, peers included.
Stored == Resolve(current)

\* Type invariant.
TypeOK ==
    /\ hour \in Hours /\ last_hourly \in Hours /\ start_hour \in Hours
    /\ last_history \in Nat /\ last_peers \in Nat
    /\ metrics \in MetricBuffer \cup {Nothing} /\ peers \in PeersBuffer \cup {Nothing}
    /\ pc \in {"get", "wait", "create", "write", "link", "rename_data", "rename_link",
               "rename", "clean_up", "create_peers", "write_peers", "rename_peers", "down"}
    /\ task \in MetricBuffer \cup PeersBuffer \cup {Nothing}
    /\ tmp \in File(MetricBuffer) \cup {Nothing}
    /\ tmplink \in Symlink \cup {Nothing}
    /\ current \in File(MetricBuffer) \cup Symlink \cup {Nothing}
    /\ hourly \in [Hours -> File(MetricBuffer) \cup {Nothing}]
    /\ peers_tmp \in File(PeersBuffer) \cup {Nothing}
    /\ peers_json \in File(PeersBuffer) \cup {Nothing}
    /\ failures \in Nat /\ crashes \in Nat

\* Wherever the process is killed and whatever fails, what it reads at its
\* next start was written to the end: current.cbor, each hourly snapshot and
\* peers.json are complete, or not there.
FilesWhole ==
    \A f \in {Stored, peers_json} \cup {hourly[h] : h \in Hours} : f # Nothing => f.whole

\* The storage thread does not sleep through a buffer.
NoLostWakeup == pc = "wait" => metrics = Nothing /\ peers = Nothing

\* When it sleeps, and nothing ever failed, the files are the newest buffers;
\* or the history is that of an hourly snapshot which is not kept any longer.
NewestStored ==
    pc = "wait" /\ failures = 0 /\ crashes = 0 =>
        /\ last_history > 0 =>
             \/ Stored # Nothing /\ Stored.buf.data = last_history
             \/ Stored = Nothing /\ current # Nothing /\ current.to + KeepHours < hour
        /\ last_peers > 0 => peers_json # Nothing /\ peers_json.buf.data = last_peers

\* A peer list is replaced by a newer one only.
PeersForward ==
    [][peers_json' # peers_json =>
          peers_json' # Nothing /\ (peers_json # Nothing => peers_json'.buf.data > peers_json.buf.data)]_vars

\* Hourly snapshots are kept for KeepHours ("keep 36 hours").
HourlyKept ==
    [][\A h \in Hours : hourly[h] # Nothing /\ hourly'[h] = Nothing => h + KeepHours < hour]_vars

\* A history that was handed over does not wait forever: the storage thread
\* takes it (or a newer one), however peers are stored in between.
Taken == metrics # Nothing ~> metrics = Nothing

\* The register that SnapshotStore specifies.
StoringMetrics == {"create", "write", "link", "rename_data", "rename_link", "rename"}

Abstract == INSTANCE SnapshotStore WITH
    pending <- IF metrics = Nothing THEN Nothing
               ELSE [data |-> metrics.data, hour |-> metrics.hour],
    writing <- IF pc \in StoringMetrics
               THEN [data |-> task.data, hour |-> task.hour] ELSE Nothing,
    stored  <- IF Stored = Nothing THEN Nothing
               ELSE [data |-> Stored.buf.data, hour |-> Stored.buf.hour]

\* The files implement the register.
ImplementsStore == Abstract!Spec

-----------------------------------------------------------------------------
(* The inductive invariant of StorageProofs                                *)

StoringPeers == {"create_peers", "write_peers", "rename_peers"}

\* What the thread works at, and how far it is.
TaskOK ==
    /\ pc \in StoringMetrics \cup {"clean_up"} => task \in MetricBuffer
    /\ pc \in StoringPeers => task \in PeersBuffer
    /\ pc = "down" => metrics = Nothing /\ peers = Nothing
    /\ pc \in {"link", "rename_data", "rename_link"} => task.snapshot
    /\ pc \in {"link", "rename_data", "rename"} => tmp = FileOf(task, TRUE)
    /\ pc \in {"rename_data", "rename_link"} => tmplink = LinkTo(task.hour)
    /\ pc = "rename_link" => hourly[task.hour] = FileOf(task, TRUE)
    /\ pc = "rename_peers" => peers_tmp = FileOf(task, TRUE)

\* No part of a history is read, and none that was not handed over.
HistoriesOK ==
    /\ metrics # Nothing => metrics.data <= last_history /\ metrics.hour \in StartHour..hour
    /\ pc \in StoringMetrics => task.data <= last_history /\ task.hour \in StartHour..hour
    /\ current # Nothing /\ current.type = "file" =>
          current.whole /\ current.buf.data <= last_history
    /\ \A h \in Hours : hourly[h] # Nothing =>
          /\ hourly[h].whole /\ hourly[h].buf.data <= last_history
          /\ hourly[h].buf.hour = h

\* Peer lists get newer on their way to the disk.
PeersOK ==
    /\ peers # Nothing => peers.data <= last_peers
    /\ pc \in StoringPeers =>
          task.data <= last_peers /\ (peers # Nothing => task.data < peers.data)
    /\ peers_json # Nothing =>
          /\ peers_json.whole /\ peers_json.buf.data <= last_peers
          /\ peers # Nothing => peers_json.buf.data < peers.data
          /\ pc \in StoringPeers => peers_json.buf.data < task.data

\* All hourly snapshots there are, and the one that is current, are of hours
\* before h.
Before(h) ==
    /\ \A g \in Hours : hourly[g] # Nothing => g < h
    /\ current # Nothing /\ current.type = "link" => current.to < h

\* There is one snapshot of an hour.
OneAnHour ==
    /\ last_hourly <= hour /\ start_hour <= hour
    /\ Before(last_hourly + 1)
    /\ metrics # Nothing /\ metrics.snapshot =>
          /\ metrics.hour = last_hourly /\ Before(metrics.hour)
          /\ pc \in StoringMetrics /\ task.snapshot => task.hour < metrics.hour
    /\ pc \in StoringMetrics /\ task.snapshot => task.hour <= last_hourly
    /\ pc \in {"create", "write", "link", "rename_data"} /\ task.snapshot => Before(task.hour)

IInv == TypeOK /\ NoLostWakeup /\ TaskOK /\ HistoriesOK /\ PeersOK /\ OneAnHour

\* A buffer that waits is the last one handed over, and so is the one that is
\* stored when none waits.
NewestTaken ==
    /\ metrics # Nothing => metrics.data = last_history
    /\ pc \in StoringMetrics /\ metrics = Nothing => task.data = last_history
    /\ peers # Nothing => peers.data = last_peers
    /\ pc \in StoringPeers /\ peers = Nothing => task.data = last_peers

\* With nothing on the way, and nothing that failed, the files have it, and no
\* link is in the way of the next one.
NewestKept ==
    failures = 0 /\ crashes = 0 =>
        /\ tmplink # Nothing => pc \in {"rename_data", "rename_link"}
        /\ metrics = Nothing /\ pc \notin StoringMetrics /\ last_history > 0 =>
             \/ Stored # Nothing /\ Stored.buf.data = last_history
             \/ /\ Stored = Nothing /\ current # Nothing /\ current.type = "link"
                /\ current.to + KeepHours < hour
        /\ peers = Nothing /\ pc \notin StoringPeers /\ last_peers > 0 =>
             peers_json # Nothing /\ peers_json.buf.data = last_peers

NInv == IInv /\ NewestTaken /\ NewestKept

=============================================================================
