----------------------------- MODULE ScanRound -----------------------------
(***************************************************************************)
(* What one scan reads of the processes of the machine: the control groups *)
(* (src/scan/cgroups.rs), the process table (src/scan/processes.rs) and    *)
(* the metrics applications keep in files (src/scan/values.rs and          *)
(* cantal_values), while processes come and go and applications replace    *)
(* their files (py3/cantal.py).                                            *)
(*                                                                         *)
(* Scanner has one atomic scan; here is the inside of it.  Every system    *)
(* call of the scan thread whose answer may differ a moment later is an    *)
(* action.  A file of metrics is two files: `.values' with the numbers and *)
(* `.meta', which tells how to decode them.  They are told apart by the    *)
(* number of their making, 0 when there is no file; a reader knows it as   *)
(* the inode.  The content of a file is abstracted to that number.         *)
(***************************************************************************)
EXTENDS Integers, Sequences, FiniteSets

CONSTANTS
    Pid,           \* process ids
    Root,          \* root directories of processes (/proc/PID/root)
    Path,          \* what CANTAL_PATH may say
    NoPath,        \* .. when it is not there
    Dir,           \* directories of control groups
    Walked,        \* those that cgroups::read visits, in order
    GroupOf,       \* make_name: the name of a visited directory
    NoGroup,       \* no control group, as far as the scan can see
    NoProcess,     \* a pid nobody has
    InitTables,    \* the process tables to begin with
    MaxStarts,     \* bound: how often files are made
    MaxEvents      \* bound: processes that come, go or change their group

ASSUME ScanRoundAssumption ==
    /\ Pid \subseteq Nat /\ IsFiniteSet(Pid)
    /\ NoPath \notin Path
    /\ Walked \in Seq(Dir)
    /\ MaxStarts \in Nat /\ MaxEvents \in Nat
    /\ NoProcess \notin [root : Root, path : Path \cup {NoPath}, dir : Dir]
    /\ InitTables \subseteq
          [Pid -> [root : Root, path : Path \cup {NoPath}, dir : Dir] \cup {NoProcess}]

Process == [root : Root, path : Path \cup {NoPath}, dir : Dir]
Group   == {GroupOf[Walked[i]] : i \in 1 .. Len(Walked)} \cup {NoGroup}
File    == Root \X Path
Making  == 0 .. MaxStarts

Phase == {"idle", "cgroups", "list", "relist", "read", "values"}
Step  == {"next", "cached", "recheck", "meta", "data", "check"}

VARIABLES
    table,      \* the processes that run
    meta,       \* the .meta files
    values,     \* the .values files
    writer,     \* where start() or close() of a file is
    starts,     \* makings so far
    events,     \* changes of `table' so far
    phase,      \* what the scan does
    cgroups,    \* pid to group (CGroups), of this scan
    walk,       \* directories of groups visited so far
    pids,       \* the pids of the two listings of /proc
    processes,  \* the pids that could be read, until they are sorted
    queue,      \* .. and sorted, those whose values are still to read
    step,       \* where read_values of the first of them is
    path,       \* its CANTAL_PATH
    held,       \* the metadata in use
    data,       \* what read_data made of the values, or nothing
    cache,      \* ReadCache.metadata, by /proc/PID/root and path
    visited,    \* ReadCache.visited
    tip,        \* the metrics of this scan
    calm        \* history variable: scans begun since anything changed

environment == <<table, meta, values, writer, starts, events>>
listing     == <<cgroups, walk, pids, processes>>
reading     == <<queue, step, path, held, data>>
vars == <<environment, phase, listing, reading, cache, visited, tip, calm>>

NoData == [meta |-> 0, values |-> 0]

\* The metrics of a process, and those of a file it has.
ProcessMetrics(p, g)   == [pid |-> p, group |-> g, read |-> NoData]
ValueMetrics(p, g, d)  == [pid |-> p, group |-> g, read |-> d]

Init ==
    /\ table \in InitTables
    /\ meta = [f \in File |-> 0] /\ values = [f \in File |-> 0]
    /\ writer = [f \in File |-> "none"]
    /\ starts = 0 /\ events = 0
    /\ phase = "idle"
    /\ cgroups = [p \in Pid |-> NoGroup] /\ walk = 0
    /\ pids = {} /\ processes = {}
    /\ queue = << >> /\ step = "next" /\ path = NoPath
    /\ held = 0 /\ data = NoData
    /\ cache = [c \in Pid \X Path |-> 0]
    /\ visited = {} /\ tip = {}
    /\ calm = 0

-----------------------------------------------------------------------------
(* Applications                                                            *)

Scanning == <<phase, listing, reading, cache, visited, tip>>

\* The files of a process that tells where they are.
FileOf(pr) == <<pr.root, pr.path>>
Used(f) == \E p \in Pid : table[p] # NoProcess /\ FileOf(table[p]) = f

\* Collection.start, one system call after another; what is written to the
\* temporary file shows when it is renamed.
UnlinkMeta(f) ==
    /\ Used(f) /\ writer[f] = "none" /\ starts < MaxStarts
    /\ meta' = [meta EXCEPT ![f] = 0]
    /\ writer' = [writer EXCEPT ![f] = "no_meta"]
    /\ UNCHANGED <<table, values, starts, events>>

UnlinkValues(f) ==
    /\ writer[f] = "no_meta"
    /\ values' = [values EXCEPT ![f] = 0]
    /\ writer' = [writer EXCEPT ![f] = "no_values"]
    /\ UNCHANGED <<table, meta, starts, events>>

RenameValues(f) ==
    /\ writer[f] = "no_values" /\ starts < MaxStarts
    /\ values' = [values EXCEPT ![f] = starts + 1]
    /\ starts' = starts + 1
    /\ writer' = [writer EXCEPT ![f] = "values"]
    /\ UNCHANGED <<table, meta, events>>

RenameMeta(f) ==
    /\ writer[f] = "values"
    /\ meta' = [meta EXCEPT ![f] = values[f]]
    /\ writer' = [writer EXCEPT ![f] = "none"]
    /\ UNCHANGED <<table, values, starts, events>>

\* ActiveCollection.close: the metadata first here too.
CloseMeta(f) ==
    /\ Used(f) /\ writer[f] = "none" /\ meta[f] # 0
    /\ meta' = [meta EXCEPT ![f] = 0]
    /\ writer' = [writer EXCEPT ![f] = "closing"]
    /\ UNCHANGED <<table, values, starts, events>>

CloseValues(f) ==
    /\ writer[f] = "closing"
    /\ values' = [values EXCEPT ![f] = 0]
    /\ writer' = [writer EXCEPT ![f] = "none"]
    /\ UNCHANGED <<table, meta, starts, events>>

\* The application is killed and leaves the files as they are.
WriterKilled(f) ==
    /\ writer[f] # "none"
    /\ writer' = [writer EXCEPT ![f] = "none"]
    /\ UNCHANGED <<table, meta, values, starts, events>>

\* The kernel hands out pids in a circle: the one that is just being read is
\* not given to another process.
BeingRead(p) == phase = "values" /\ step # "next" /\ Head(queue) = p

Spawn(p, pr) ==
    /\ events < MaxEvents /\ events' = events + 1
    /\ table[p] = NoProcess /\ ~BeingRead(p)
    /\ table' = [table EXCEPT ![p] = pr]
    /\ UNCHANGED <<meta, values, writer, starts>>

Exit(p) ==
    /\ events < MaxEvents /\ events' = events + 1
    /\ table[p] # NoProcess
    /\ table' = [table EXCEPT ![p] = NoProcess]
    /\ UNCHANGED <<meta, values, writer, starts>>

\* A process is moved to another control group.
Move(p, d) ==
    /\ events < MaxEvents /\ events' = events + 1
    /\ table[p] # NoProcess /\ table[p].dir # d
    /\ table' = [table EXCEPT ![p].dir = d]
    /\ UNCHANGED <<meta, values, writer, starts>>

Environment ==
    /\ \/ \E f \in File :
             \/ UnlinkMeta(f) \/ UnlinkValues(f) \/ RenameValues(f) \/ RenameMeta(f)
             \/ CloseMeta(f) \/ CloseValues(f) \/ WriterKilled(f)
       \/ \E p \in Pid :
             \/ Exit(p)
             \/ \E pr \in Process : Spawn(p, pr)
             \/ \E d \in Dir : Move(p, d)
    /\ calm' = 0
    /\ UNCHANGED Scanning

-----------------------------------------------------------------------------
(* Control groups and processes                                            *)

\* A new map of groups and a new tip; the cache is all that is kept.
BeginScan ==
    /\ phase = "idle"
    /\ phase' = "cgroups"
    /\ walk' = 0 /\ cgroups' = [p \in Pid |-> NoGroup]
    /\ tip' = {}
    /\ calm' = IF calm < 2 THEN calm + 1 ELSE calm
    /\ UNCHANGED <<environment, pids, processes, reading, cache, visited>>

\* One cgroup.procs: its pids get the name, whatever they had.
VisitDir ==
    /\ phase = "cgroups" /\ walk < Len(Walked)
    /\ walk' = walk + 1
    /\ LET d == Walked[walk + 1] IN
       cgroups' = [p \in Pid |-> IF table[p] # NoProcess /\ table[p].dir = d
                                 THEN GroupOf[d] ELSE cgroups[p]]
    /\ UNCHANGED <<environment, phase, pids, processes, reading, cache, visited, tip, calm>>

\* /proc is listed twice and the pids of both are read.
Running == {p \in Pid : table[p] # NoProcess}

ListProc ==
    /\ \/ phase = "cgroups" /\ walk = Len(Walked) /\ phase' = "list"
       \/ phase = "list" /\ phase' = "relist"
    /\ pids' = pids \cup Running
    /\ UNCHANGED <<environment, cgroups, walk, processes, reading, cache, visited, tip, calm>>

\* Four files are read of a process; here at once, and nothing is wrong with
\* them.  A process that is gone is left out.
ReadProcess(p) ==
    /\ phase = "relist" /\ p \in pids
    /\ pids' = pids \ {p}
    /\ processes' = processes \cup ({p} \cap Running)
    /\ UNCHANGED <<environment, phase, cgroups, walk, reading, cache, visited, tip, calm>>

\* processes.sort_unstable_by_key(|p| p.pid)
InOrder(ps) ==
    {s \in [1 .. Cardinality(ps) -> ps] : \A i, j \in DOMAIN s : i < j => s[i] < s[j]}

\* processes::write_tip, then values::read begins.
WriteTip ==
    /\ phase = "relist" /\ pids = {}
    /\ phase' = "values"
    /\ queue' \in InOrder(processes)
    /\ tip' = {ProcessMetrics(p, cgroups[p]) : p \in processes}
    /\ processes' = {}
    /\ UNCHANGED <<environment, cgroups, walk, pids, step, path, held, data,
                   cache, visited, calm>>

-----------------------------------------------------------------------------
(* The files of one process after the other: values::read                  *)

ThisPid == Head(queue)
Realpath == <<ThisPid, path>>

\* What the path of a process under its root has now; nothing when it is gone.
At(files) == IF table[ThisPid] = NoProcess THEN 0 ELSE files[<<table[ThisPid].root, path>>]

Finished ==
    /\ queue' = Tail(queue)
    /\ step' = "next" /\ path' = NoPath /\ held' = 0 /\ data' = NoData

Publish(d) ==
    tip' = IF d = NoData THEN tip ELSE tip \cup {ValueMetrics(ThisPid, cgroups[ThisPid], d)}

\* get_env_vars: a process that is gone has no environment.  Metadata that was
\* read for this path before is tried first.
ReadEnviron ==
    /\ phase = "values" /\ queue # << >> /\ step = "next"
    /\ IF table[ThisPid] = NoProcess \/ table[ThisPid].path = NoPath
       THEN Finished
       ELSE /\ path' = table[ThisPid].path
            /\ held' = cache[<<ThisPid, path'>>]
            /\ step' = IF held' # 0 THEN "cached" ELSE "meta"
            /\ UNCHANGED <<queue, data>>
    /\ UNCHANGED <<environment, phase, listing, cache, visited, tip, calm>>

\* Fault: files are not remembered.
ReadDataAgain ==
    LET v == At(values) IN
    /\ visited' = visited
    /\ IF v = 0 THEN data' = NoData
       ELSE data' \in {[meta |-> held, values |-> v]}
                          \cup (IF v = held THEN {} ELSE {NoData})

\* Metadata::read_data: a file that was read in this scan is a Duplicate; one
\* that does not fit the metadata may come to its end too early.
ReadData ==
    LET v == At(values) IN
    /\ visited' = visited \cup ({v} \ {0})
    /\ IF v = 0 \/ v \in visited THEN data' = NoData
       ELSE data' \in {[meta |-> held, values |-> v]}
                          \cup (IF v = held THEN {} ELSE {NoData})

\* The values are read with the metadata of an earlier scan ..
ReadCached ==
    /\ phase = "values" /\ step = "cached"
    /\ ReadData
    /\ step' = "recheck"
    /\ UNCHANGED <<environment, phase, listing, queue, path, held, cache, tip, calm>>

\* Fault: the metadata is not looked at again ("check mtime of metadata").
RecheckNever ==
    /\ phase = "values" /\ step = "recheck"
    /\ Publish(data) /\ Finished
    /\ UNCHANGED <<environment, phase, listing, cache, visited, calm>>

\* .. and are good if it is still in place.
Recheck ==
    /\ phase = "values" /\ step = "recheck"
    /\ IF At(meta) = held
       THEN Publish(data) /\ Finished
       ELSE step' = "meta" /\ held' = 0 /\ data' = NoData /\ UNCHANGED <<queue, path, tip>>
    /\ UNCHANGED <<environment, phase, listing, cache, visited, calm>>

\* Metadata::read; with no file there the process has no metrics.
ReadMeta ==
    /\ phase = "values" /\ step = "meta"
    /\ IF At(meta) = 0
       THEN Finished
       ELSE held' = At(meta) /\ step' = "data" /\ UNCHANGED <<queue, path, data>>
    /\ UNCHANGED <<environment, phase, listing, cache, visited, tip, calm>>

ReadNew ==
    /\ phase = "values" /\ step = "data"
    /\ ReadData
    /\ step' = "check"
    /\ UNCHANGED <<environment, phase, listing, queue, path, held, cache, tip, calm>>

\* Fault: metadata is kept only if the values could be read with it.
CheckWithData ==
    /\ phase = "values" /\ step = "check"
    /\ IF At(meta) = held
       THEN /\ Publish(data)
            /\ cache' = IF data = NoData THEN cache ELSE [cache EXCEPT ![Realpath] = held]
       ELSE UNCHANGED <<tip, cache>>
    /\ Finished
    /\ UNCHANGED <<environment, phase, listing, visited, calm>>

\* Metadata that is still in place is kept, whether or not the values could be
\* read with it.  When it changed the loop `for _ in 0..1' has no second turn.
Check ==
    /\ phase = "values" /\ step = "check"
    /\ IF At(meta) = held
       THEN Publish(data) /\ cache' = [cache EXCEPT ![Realpath] = held]
       ELSE UNCHANGED <<tip, cache>>
    /\ Finished
    /\ UNCHANGED <<environment, phase, listing, visited, calm>>

EndScan ==
    /\ phase = "values" /\ queue = << >>
    /\ phase' = "idle"
    /\ visited' = {}
    /\ UNCHANGED <<environment, listing, reading, cache, tip, calm>>

Next ==
    \/ Environment
    \/ BeginScan \/ VisitDir \/ ListProc \/ (\E p \in Pid : ReadProcess(p)) \/ WriteTip
    \/ ReadEnviron \/ ReadCached \/ Recheck \/ ReadMeta \/ ReadNew \/ Check
    \/ EndScan

Spec == Init /\ [][Next]_vars

-----------------------------------------------------------------------------
(* Properties                                                              *)

\* Type invariant.
TypeOK ==
    /\ table \in [Pid -> Process \cup {NoProcess}]
    /\ meta \in [File -> Making] /\ values \in [File -> Making]
    /\ writer \in [File -> {"none", "no_meta", "no_values", "values", "closing"}]
    /\ starts \in Making /\ events \in 0 .. MaxEvents
    /\ phase \in Phase
    /\ cgroups \in [Pid -> Group] /\ walk \in 0 .. Len(Walked)
    /\ pids \subseteq Pid /\ processes \subseteq Pid
    /\ queue \in Seq(Pid) /\ step \in Step /\ path \in Path \cup {NoPath}
    /\ held \in Making /\ data \in [meta : Making, values : Making]
    /\ cache \in [Pid \X Path -> Making]
    /\ visited \subseteq Making
    /\ tip \subseteq [pid : Pid, group : Group, read : [meta : Making, values : Making]]
    /\ calm \in 0 .. 2

\* The metrics that came from files.
FromFiles == {m \in tip : m.read # NoData}

\* No values are decoded with the metadata of another file, whatever the
\* applications and the scan do at the same time: the values are read between
\* two looks at the metadata, and an application takes its metadata away before
\* it touches its values (docs/mmap.rst asks for a rename only).
OwnMetadata == \A m \in FromFiles : m.read.meta = m.read.values

\* A file of values is reported of one process only, and of each process one
\* file, however many processes inherited the same CANTAL_PATH, and by whatever
\* root directory they see it (changelog 0.6.6).
FileOnce ==
    \A m, n \in FromFiles :
        m.pid = n.pid \/ m.read.values = n.read.values => m = n

\* What the scan that just ended should say when nothing changed while it ran:
\* every process with its control group ..
VisitedGroup(d) ==
    LET at == {i \in 1 .. Len(Walked) : Walked[i] = d} IN
    IF at = {} THEN NoGroup ELSE GroupOf[d]

ExpectedProcesses == {ProcessMetrics(p, VisitedGroup(table[p].dir)) : p \in Running}

\* .. and every file that is whole, of the first process that has it.
Whole(p) ==
    /\ table[p].path # NoPath
    /\ meta[FileOf(table[p])] # 0

ExpectedValues ==
    {LET v == values[FileOf(table[p])]
     IN  ValueMetrics(p, VisitedGroup(table[p].dir), [meta |-> v, values |-> v]) :
        p \in {q \in Running : /\ Whole(q)
                               /\ \A o \in Running : o < q => FileOf(table[o]) # FileOf(table[q])}}

\* One undisturbed scan has the processes and their groups right, the second
\* the metrics of applications too.  The first may miss a file of which the
\* metadata is new: its values were read with the old metadata, and are then a
\* Duplicate of themselves.
Reported ==
    /\ phase = "idle" /\ calm >= 1 => tip \ FromFiles = ExpectedProcesses
    /\ phase = "idle" /\ calm = 2 => FromFiles = ExpectedValues

-----------------------------------------------------------------------------
(* The inductive invariant of ScanRoundProofs                              *)

\* The metadata of a file is that of its values, or is not there; it is not
\* there while an application works on the file.
FilesOK ==
    \A f \in File :
        /\ meta[f] \in {0, values[f]} /\ values[f] <= starts
        /\ writer[f] # "none" => meta[f] = 0

\* Metadata the scan knows was made before now.
HeldOK == held <= starts /\ \A c \in Pid \X Path : cache[c] <= starts

\* Where read_values is.
StepOK ==
    /\ phase # "values" => queue = << >>
    /\ step # "next" => queue # << >> /\ path \in Path
    /\ step \in {"cached", "recheck", "data", "check"} => held # 0
    /\ step \in {"recheck", "check"} /\ data # NoData =>
           data.meta = held /\ data.values # 0 /\ data.values \in visited
    /\ step \notin {"recheck", "check"} => data = NoData

\* Values that do not belong to the metadata in use are in the way of it: it
\* cannot be in place, now or later.
NotInPlace ==
    step \in {"recheck", "check"} /\ data # NoData /\ data.values # held
        /\ table[ThisPid] # NoProcess => values[<<table[ThisPid].root, path>>] # held

\* Each process is read once, each file at most once.
Once ==
    /\ \A i, j \in DOMAIN queue : i # j => queue[i] # queue[j]
    /\ phase \notin {"values", "idle"} => tip = {}
    /\ phase = "values" => \A m \in FromFiles :
           /\ m.read.values \in visited
           /\ \A i \in DOMAIN queue : m.pid # queue[i]
           /\ data # NoData => m.read.values # data.values

IInv ==
    /\ TypeOK /\ FilesOK /\ HeldOK /\ StepOK /\ NotInPlace
    /\ Once /\ OwnMetadata /\ FileOnce

-----------------------------------------------------------------------------
(* .. and for Reported: how far an undisturbed scan is                     *)

\* Between the scans, and where nothing was listed yet, nothing is left over.
ListsOK ==
    /\ phase \notin {"list", "relist"} => pids = {}
    /\ phase # "relist" => processes = {}
    /\ phase \notin {"idle", "cgroups"} => walk = Len(Walked)
    /\ phase # "values" => visited = {}

\* No two files have the same values.
FilesDiffer ==
    \A f, g \in File : values[f] = values[g] /\ values[f] # 0 => f = g

\* The processes whose values are still to read.
Left == {queue[i] : i \in DOMAIN queue}

GroupSoFar(d) == IF \E i \in 1 .. walk : Walked[i] = d THEN GroupOf[d] ELSE NoGroup

\* The lists of an undisturbed scan are right, as far as it is; those that were
\* read are the first of all that run.
ListsRight ==
    /\ phase # "idle" => \A p \in Running : cgroups[p] = GroupSoFar(table[p].dir)
    /\ phase = "list" => pids = Running
    /\ phase = "relist" => pids \cup processes = Running
    /\ phase \in {"values", "idle"} => tip \ FromFiles = ExpectedProcesses
    /\ \A i, j \in DOMAIN queue : i < j => queue[i] < queue[j]
    /\ Left \subseteq Running
    /\ phase = "values" => \A p \in Running \ Left, q \in Left : p < q

\* What read_values works with is what is there.
ReadingRight ==
    /\ step # "next" => path = table[ThisPid].path
    /\ step \in {"cached", "recheck"} => held = cache[Realpath]
    /\ step \in {"data", "check"} => held = At(meta)

\* The metadata of a file that is whole is in the cache.
Known(p) == Whole(p) => cache[<<p, table[p].path>>] = meta[FileOf(table[p])]

CacheRight ==
    /\ phase \in {"values", "idle"} => \A p \in Running \ Left : Known(p)
    /\ calm = 2 => \A p \in Running : Known(p)

\* The processes that read_values has been at.
BeenAt == (Running \ Left) \cup (IF step \in {"recheck", "meta"} THEN {ThisPid} ELSE {})

FirstOf(p) == \A o \in Running : o < p => FileOf(table[o]) # FileOf(table[p])

Expected(p) ==
    LET v == values[FileOf(table[p])]
    IN  ValueMetrics(p, VisitedGroup(table[p].dir), [meta |-> v, values |-> v])

\* With all metadata known, values are read at once, and each file by the first
\* process that has it.
ValuesRight ==
    /\ step \notin {"data", "check"}
    /\ step = "meta" => At(meta) = 0
    /\ phase = "values" =>
         /\ \A v \in visited : \E p \in BeenAt :
               table[p].path # NoPath /\ v = values[FileOf(table[p])]
         /\ \A p \in BeenAt : Whole(p) => values[FileOf(table[p])] \in visited
    /\ step = "recheck" /\ At(meta) = held =>
         data = IF FirstOf(ThisPid) THEN [meta |-> held, values |-> held] ELSE NoData
    /\ phase \in {"values", "idle"} =>
         FromFiles = {Expected(p) : p \in {q \in Running \ Left : Whole(q) /\ FirstOf(q)}}

CalmInv ==
    /\ IInv /\ ListsOK /\ FilesDiffer
    /\ calm >= 1 => ListsRight /\ ReadingRight /\ CacheRight
    /\ calm = 2 => ValuesRight

=============================================================================
