-------------------------- MODULE ScanRoundProofs --------------------------
(***************************************************************************)
(* Theorems about ScanRound: no values are decoded with the metadata of    *)
(* another file, and no file is reported twice, for any number of          *)
(* processes, roots, paths and restarts of applications, whichever way     *)
(* their system calls and those of the scan are interleaved; and scans     *)
(* that nothing disturbs report all there is.                              *)
(***************************************************************************)
EXTENDS ScanRound, TLAPS, FiniteSetTheorems, SequenceTheorems

LEMMA InitIInv == Init => IInv
<1> SUFFICES ASSUME Init PROVE IInv
  OBVIOUS
<1> USE ScanRoundAssumption
<1>1. TypeOK
  BY DEF Init, TypeOK, Process, Group, File, Making, Phase, Step, NoData
<1>2. FilesOK /\ HeldOK /\ StepOK /\ NotInPlace /\ Once /\ OwnMetadata /\ FileOnce
  BY DEF Init, FilesOK, HeldOK, StepOK, NotInPlace, Once, OwnMetadata, FileOnce,
         FromFiles, NoData
<1> QED
  BY <1>1, <1>2 DEF IInv

LEMMA PidsAreNumbers == \A p \in Pid : p \in Int
  BY ScanRoundAssumption

\* The sequences processes may be sorted into.
LEMMA InOrderTypeOK ==
  ASSUME NEW ps \in SUBSET Pid, NEW s \in InOrder(ps)
  PROVE  /\ s \in Seq(Pid)
         /\ \A i, j \in DOMAIN s : i # j => s[i] # s[j]
<1>1. IsFiniteSet(ps)
  BY ScanRoundAssumption, FS_Subset
<1>2. Cardinality(ps) \in Nat
  BY <1>1, FS_CardinalityType
<1>3. s \in [1 .. Cardinality(ps) -> ps] /\ \A i, j \in DOMAIN s : i < j => s[i] < s[j]
  BY Zenon DEF InOrder
<1>4. s \in Seq(Pid)
  <2>1. s \in [1 .. Cardinality(ps) -> Pid]
    BY <1>3
  <2>2. s \in UNION {[1 .. n -> Pid] : n \in Nat}
    BY <1>2, <2>1
  <2> QED
    BY <2>2, SeqDef, Zenon
<1>5. ASSUME NEW i \in DOMAIN s, NEW j \in DOMAIN s, i # j
      PROVE  s[i] # s[j]
  <2>1. i \in Int /\ j \in Int /\ s[i] \in Int /\ s[j] \in Int
    <3>1. DOMAIN s = 1 .. Cardinality(ps)
      BY <1>3
    <3>2. s[i] \in Pid /\ s[j] \in Pid
      BY <1>3, <1>5, <3>1
    <3>3. i \in Int /\ j \in Int
      BY <1>2, <1>5, <3>1
    <3> QED
      BY <3>2, <3>3, PidsAreNumbers, Zenon
  <2>2. i < j \/ j < i
    BY <2>1, <1>5
  <2> QED
    BY <1>3, <2>1, <2>2
<1> QED
  BY <1>4, <1>5 DEF InOrder

-----------------------------------------------------------------------------
(* Types                                                                   *)

\* The two halves of TypeOK.
FilesType ==
    /\ table \in [Pid -> Process \cup {NoProcess}]
    /\ meta \in [File -> Making] /\ values \in [File -> Making]
    /\ writer \in [File -> {"none", "no_meta", "no_values", "values", "closing"}]
    /\ starts \in Making /\ events \in 0 .. MaxEvents

ScanType ==
    /\ phase \in Phase
    /\ cgroups \in [Pid -> Group] /\ walk \in 0 .. Len(Walked)
    /\ pids \subseteq Pid /\ processes \subseteq Pid
    /\ queue \in Seq(Pid) /\ step \in Step /\ path \in Path \cup {NoPath}
    /\ held \in Making /\ data \in [meta : Making, values : Making]
    /\ cache \in [Pid \X Path -> Making]
    /\ visited \subseteq Making
    /\ tip \subseteq [pid : Pid, group : Group, read : [meta : Making, values : Making]]
    /\ calm \in 0 .. 2

LEMMA Halves == TypeOK <=> FilesType /\ ScanType
  BY DEF TypeOK, FilesType, ScanType

LEMMA EnvironmentType ==
  FilesType /\ Environment => FilesType'
<1> SUFFICES ASSUME FilesType, Environment PROVE FilesType'
  OBVIOUS
<1> USE ScanRoundAssumption DEF FilesType, Process, Making, File
<1>1. ASSUME NEW f \in File,
             UnlinkMeta(f) \/ UnlinkValues(f) \/ CloseMeta(f) \/ CloseValues(f)
             \/ WriterKilled(f) \/ RenameValues(f) \/ RenameMeta(f)
      PROVE  FilesType'
  <2>1. UnlinkMeta(f) => FilesType'
    BY DEF UnlinkMeta
  <2>2. UnlinkValues(f) => FilesType'
    BY DEF UnlinkValues
  <2>3. RenameValues(f) => FilesType'
    BY DEF RenameValues
  <2>4. RenameMeta(f) => FilesType'
    BY DEF RenameMeta
  <2>5. CloseMeta(f) => FilesType'
    BY DEF CloseMeta
  <2>6. CloseValues(f) => FilesType'
    BY DEF CloseValues
  <2>7. WriterKilled(f) => FilesType'
    BY DEF WriterKilled
  <2> QED
    BY <1>1, <2>1, <2>2, <2>3, <2>4, <2>5, <2>6, <2>7
<1>2. ASSUME NEW p \in Pid, Exit(p) \/ \E pr \in Process : Spawn(p, pr)
      PROVE  FilesType'
  BY <1>2 DEF Exit, Spawn
<1>3. ASSUME NEW p \in Pid, NEW d \in Dir, Move(p, d)
      PROVE  FilesType'
  <2>1. table[p] \in Process
    BY <1>3 DEF Move
  <2>2. [table[p] EXCEPT !.dir = d] \in Process
    BY <2>1
  <2>3. table' \in [Pid -> Process \cup {NoProcess}]
    BY <1>3, <2>2 DEF Move
  <2> QED
    BY <1>3, <2>3 DEF Move
<1> QED
  BY <1>1, <1>2, <1>3 DEF Environment

LEMMA ScanUnchanged ==
  ScanType /\ UNCHANGED Scanning /\ calm' \in 0 .. 2 => ScanType'
  BY DEF ScanType, Scanning, listing, reading

LEMMA FilesUnchanged ==
  FilesType /\ UNCHANGED environment => FilesType'
  BY DEF FilesType, environment

LEMMA GroupType == NoGroup \in Group /\ \A i \in 1 .. Len(Walked) : GroupOf[Walked[i]] \in Group
  BY DEF Group

\* What read_values reads.
LEMMA AtType ==
  ASSUME TypeOK, queue # << >>, path \in Path
  PROVE  /\ ThisPid \in Pid
         /\ At(meta) \in Making /\ At(values) \in Making
         /\ table[ThisPid] # NoProcess =>
                /\ <<table[ThisPid].root, path>> \in File
                /\ At(meta) = meta[<<table[ThisPid].root, path>>]
                /\ At(values) = values[<<table[ThisPid].root, path>>]
<1>1. ThisPid \in Pid
  BY DEF ThisPid, TypeOK
<1>2. table[ThisPid] # NoProcess => <<table[ThisPid].root, path>> \in File
  BY <1>1 DEF TypeOK, Process, File
<1> QED
  BY <1>1, <1>2, ScanRoundAssumption DEF TypeOK, At, Making

LEMMA ReadDataType ==
  ASSUME TypeOK, StepOK, step \in {"cached", "data"}, ReadData
  PROVE  /\ visited' \subseteq Making /\ data' \in [meta : Making, values : Making]
         /\ data' # NoData =>
                /\ data'.meta = held /\ data'.values = At(values)
                /\ At(values) # 0 /\ At(values) \notin visited
         /\ visited' = visited \cup ({At(values)} \ {0})
<1>1. queue # << >> /\ path \in Path
  BY DEF StepOK
<1>2. At(values) \in Making /\ held \in Making /\ 0 \in Making
  BY <1>1, AtType, ScanRoundAssumption DEF TypeOK, Making
<1>3. visited' = visited \cup ({At(values)} \ {0})
  BY DEF ReadData
<1>4. \/ data' = NoData
      \/ /\ data' = [meta |-> held, values |-> At(values)]
         /\ At(values) # 0 /\ At(values) \notin visited
  BY DEF ReadData
<1> QED
  BY <1>2, <1>3, <1>4 DEF TypeOK, NoData

LEMMA FinishedType ==
  ASSUME TypeOK, queue # << >>, Finished
  PROVE  /\ queue' \in Seq(Pid) /\ step' \in Step /\ path' \in Path \cup {NoPath}
         /\ held' \in Making /\ data' \in [meta : Making, values : Making]
  BY ScanRoundAssumption DEF TypeOK, Finished, Step, Making, NoData

\* A metric of the process being read is added to the tip, or nothing.
LEMMA PublishType ==
  ASSUME TypeOK, queue # << >>, path \in Path, Publish(data)
  PROVE  /\ tip' \subseteq [pid : Pid, group : Group, read : [meta : Making, values : Making]]
         /\ \A m \in tip' : m \in tip \/ (data # NoData
                                          /\ m = ValueMetrics(ThisPid, cgroups[ThisPid], data))
  BY AtType DEF TypeOK, Publish, ValueMetrics

LEMMA ScanTypeStep ==
  ASSUME TypeOK, StepOK,
         \/ BeginScan \/ VisitDir \/ ListProc \/ (\E p \in Pid : ReadProcess(p)) \/ WriteTip
         \/ ReadEnviron \/ ReadCached \/ Recheck \/ ReadMeta \/ ReadNew \/ Check \/ EndScan
  PROVE  ScanType'
<1>0. ScanType
  BY DEF TypeOK, ScanType
<1>1. CASE BeginScan
  BY <1>0, <1>1, GroupType, ScanRoundAssumption
     DEF ScanType, BeginScan, Phase, reading
<1>2. CASE VisitDir
  <2>1. walk + 1 \in 1 .. Len(Walked) /\ walk' = walk + 1
    BY <1>0, <1>2, ScanRoundAssumption DEF ScanType, VisitDir
  <2>2. GroupOf[Walked[walk + 1]] \in Group
    BY <2>1, GroupType
  <2>3. cgroups' \in [Pid -> Group] /\ walk' \in 0 .. Len(Walked)
    BY <1>0, <1>2, <2>1, <2>2, ScanRoundAssumption DEF ScanType, VisitDir
  <2> QED
    BY <1>0, <1>2, <2>3 DEF ScanType, VisitDir, reading
<1>3. CASE ListProc
  BY <1>0, <1>3 DEF ScanType, ListProc, Phase, Running, reading
<1>4. CASE \E p \in Pid : ReadProcess(p)
  BY <1>0, <1>4 DEF ScanType, ReadProcess, Running, reading
<1>5. CASE WriteTip
  <2>1. queue' \in Seq(Pid)
    BY <1>0, <1>5, InOrderTypeOK DEF ScanType, WriteTip
  <2>2. NoData \in [meta : Making, values : Making]
    BY ScanRoundAssumption DEF NoData, Making
  <2>3. tip' \subseteq [pid : Pid, group : Group, read : [meta : Making, values : Making]]
    BY <1>0, <1>5, <2>2 DEF ScanType, WriteTip, ProcessMetrics
  <2> QED
    BY <1>0, <1>5, <2>1, <2>3 DEF ScanType, WriteTip, Phase
<1>6. CASE ReadEnviron
  <2>1. queue # << >> /\ ThisPid \in Pid
    BY <1>0, <1>6 DEF ScanType, ReadEnviron, ThisPid
  <2>2. CASE Finished
    BY <1>0, <1>6, <2>1, <2>2, FinishedType DEF ScanType, ReadEnviron, listing
  <2>3. CASE ~Finished
    <3>1. /\ table[ThisPid] # NoProcess /\ table[ThisPid].path # NoPath
          /\ path' = table[ThisPid].path /\ held' = cache[<<ThisPid, path'>>]
          /\ step' \in {"cached", "meta"} /\ UNCHANGED <<queue, data>>
      BY <1>6, <2>3 DEF ReadEnviron
    <3>2. path' \in Path
      BY <2>1, <3>1 DEF TypeOK, Process
    <3>3. held' \in Making
      BY <1>0, <2>1, <3>1, <3>2 DEF ScanType
    <3> QED
      BY <1>0, <1>6, <3>1, <3>2, <3>3 DEF ScanType, ReadEnviron, listing, Step
  <2> QED
    BY <2>2, <2>3
<1>7. CASE ReadCached
  <2>1. visited' \subseteq Making /\ data' \in [meta : Making, values : Making]
    BY <1>7, ReadDataType DEF ReadCached
  <2> QED
    BY <1>0, <1>7, <2>1 DEF ScanType, ReadCached, listing, Step
<1>8. CASE Recheck
  <2>1. queue # << >> /\ path \in Path
    BY <1>8 DEF Recheck, StepOK
  <2>2. CASE Publish(data) /\ Finished
    BY <1>0, <1>8, <2>1, <2>2, FinishedType, PublishType DEF ScanType, Recheck, listing
  <2>3. CASE step' = "meta" /\ held' = 0 /\ data' = NoData /\ UNCHANGED <<queue, path, tip>>
    BY <1>0, <1>8, <2>3, ScanRoundAssumption
       DEF ScanType, Recheck, listing, Step, Making, NoData
  <2> QED
    BY <1>8, <2>2, <2>3 DEF Recheck
<1>9. CASE ReadMeta
  <2>1. queue # << >> /\ path \in Path
    BY <1>9 DEF ReadMeta, StepOK
  <2>2. CASE Finished
    BY <1>0, <1>9, <2>1, <2>2, FinishedType DEF ScanType, ReadMeta, listing
  <2>3. CASE held' = At(meta) /\ step' = "data" /\ UNCHANGED <<queue, path, data>>
    BY <1>0, <1>9, <2>1, <2>3, AtType DEF ScanType, ReadMeta, listing, Step
  <2> QED
    BY <1>9, <2>2, <2>3 DEF ReadMeta
<1>10. CASE ReadNew
  <2>1. visited' \subseteq Making /\ data' \in [meta : Making, values : Making]
    BY <1>10, ReadDataType DEF ReadNew
  <2> QED
    BY <1>0, <1>10, <2>1 DEF ScanType, ReadNew, listing, Step
<1>11. CASE Check
  <2>1. queue # << >> /\ path \in Path /\ ThisPid \in Pid
    BY <1>11, AtType DEF Check, StepOK
  <2>2. /\ tip' \subseteq [pid : Pid, group : Group, read : [meta : Making, values : Making]]
        /\ cache' \in [Pid \X Path -> Making]
    BY <1>0, <1>11, <2>1, PublishType DEF ScanType, Check, Realpath
  <2> QED
    BY <1>0, <1>11, <2>1, <2>2, FinishedType DEF ScanType, Check, listing
<1>12. CASE EndScan
  BY <1>0, <1>12 DEF ScanType, EndScan, listing, reading, Phase
<1> QED
  BY <1>1, <1>2, <1>3, <1>4, <1>5, <1>6, <1>7, <1>8, <1>9, <1>10, <1>11, <1>12

LEMMA TypeStep ==
  ASSUME TypeOK, StepOK, [Next]_vars
  PROVE  TypeOK'
<1>0. FilesType /\ ScanType
  BY Halves
<1>1. CASE Environment
  <2>1. UNCHANGED Scanning /\ calm' \in 0 .. 2
    BY <1>1 DEF Environment
  <2> QED
    BY <1>0, <1>1, <2>1, EnvironmentType, ScanUnchanged DEF TypeOK, FilesType, ScanType
<1>2. CASE \/ BeginScan \/ VisitDir \/ ListProc \/ (\E p \in Pid : ReadProcess(p)) \/ WriteTip
           \/ ReadEnviron \/ ReadCached \/ Recheck \/ ReadMeta \/ ReadNew \/ Check \/ EndScan
  <2>1. UNCHANGED environment
    BY <1>2 DEF BeginScan, VisitDir, ListProc, ReadProcess, WriteTip, ReadEnviron,
                ReadCached, Recheck, ReadMeta, ReadNew, Check, EndScan
  <2>2. ScanType'
    BY <1>2, ScanTypeStep
  <2> QED
    BY <1>0, <2>1, <2>2, FilesUnchanged DEF TypeOK, FilesType, ScanType
<1>3. CASE UNCHANGED vars
  BY <1>0, <1>3 DEF vars, environment, listing, reading, TypeOK, FilesType, ScanType
<1> QED
  BY <1>1, <1>2, <1>3 DEF Next

-----------------------------------------------------------------------------
(* The files                                                               *)

LEMMA FilesStep ==
  ASSUME TypeOK, FilesOK, Environment
  PROVE  FilesOK' /\ starts <= starts'
         /\ \A f \in File : values'[f] \in {values[f], 0, starts + 1}
<1> USE ScanRoundAssumption DEF Making
<1> DEFINE Good == FilesOK' /\ starts <= starts'
                   /\ \A f \in File : values'[f] \in {values[f], 0, starts + 1}
<1>1. ASSUME NEW f \in File PROVE UnlinkMeta(f) => Good
  BY DEF TypeOK, FilesOK, UnlinkMeta
<1>2. ASSUME NEW f \in File PROVE UnlinkValues(f) => Good
  BY DEF TypeOK, FilesOK, UnlinkValues
<1>3. ASSUME NEW f \in File PROVE RenameValues(f) => Good
  BY DEF TypeOK, FilesOK, RenameValues
<1>4. ASSUME NEW f \in File PROVE RenameMeta(f) => Good
  BY DEF TypeOK, FilesOK, RenameMeta
<1>5. ASSUME NEW f \in File PROVE CloseMeta(f) => Good
  BY DEF TypeOK, FilesOK, CloseMeta
<1>6. ASSUME NEW f \in File PROVE CloseValues(f) => Good
  BY DEF TypeOK, FilesOK, CloseValues
<1>7. ASSUME NEW f \in File PROVE WriterKilled(f) => Good
  BY DEF TypeOK, FilesOK, WriterKilled
<1>8. ASSUME NEW p \in Pid,
             Exit(p) \/ (\E pr \in Process : Spawn(p, pr)) \/ (\E d \in Dir : Move(p, d))
      PROVE  Good
  BY <1>8 DEF TypeOK, FilesOK, Exit, Spawn, Move
<1> QED
  BY <1>1, <1>2, <1>3, <1>4, <1>5, <1>6, <1>7, <1>8, Zenon DEF Environment

\* The process that is being read keeps its root, until it is gone.
LEMMA RootKept ==
  ASSUME TypeOK, StepOK, step # "next", Environment
  PROVE  table'[ThisPid] # NoProcess =>
            table[ThisPid] # NoProcess /\ table'[ThisPid].root = table[ThisPid].root
<1>1. phase = "values" /\ queue # << >> /\ ThisPid \in Pid
  BY DEF StepOK, TypeOK, ThisPid
<1>2. ASSUME NEW f \in File,
             UnlinkMeta(f) \/ UnlinkValues(f) \/ CloseMeta(f) \/ CloseValues(f)
             \/ WriterKilled(f) \/ RenameValues(f) \/ RenameMeta(f)
      PROVE  table' = table
  BY <1>2 DEF UnlinkMeta, UnlinkValues, CloseMeta, CloseValues, WriterKilled,
              RenameValues, RenameMeta
<1>3. ASSUME NEW p \in Pid, Exit(p)
      PROVE  table'[ThisPid] \in {table[ThisPid], NoProcess}
  BY <1>1, <1>3 DEF Exit, TypeOK
<1>4. ASSUME NEW p \in Pid, NEW pr \in Process, Spawn(p, pr)
      PROVE  table'[ThisPid] = table[ThisPid]
  BY <1>1, <1>4 DEF Spawn, TypeOK, BeingRead, ThisPid
<1>5. ASSUME NEW p \in Pid, NEW d \in Dir, Move(p, d)
      PROVE  table[p] # NoProcess /\ table'[ThisPid] =
                IF ThisPid = p THEN [table[p] EXCEPT !.dir = d] ELSE table[ThisPid]
  BY <1>1, <1>5 DEF Move, TypeOK
<1>6. ASSUME NEW p \in Pid, NEW d \in Dir, Move(p, d), ThisPid = p
      PROVE  table[ThisPid] # NoProcess /\ table'[ThisPid].root = table[ThisPid].root
  <2>1. table[p] \in Process
    BY <1>6 DEF Move, TypeOK
  <2>2. table'[ThisPid] = [table[p] EXCEPT !.dir = d]
    BY <1>5, <1>6
  <2> QED
    BY <1>6, <2>1, <2>2 DEF Process, Move
<1> QED
  BY <1>2, <1>3, <1>4, <1>5, <1>6 DEF Environment

\* What applications do leaves the invariant.
LEMMA EnvironmentKeeps ==
  ASSUME IInv, Environment
  PROVE  IInv'
<1> USE DEF IInv
<1>1. UNCHANGED Scanning
  BY DEF Environment
<1>2. /\ UNCHANGED phase /\ UNCHANGED queue /\ UNCHANGED step /\ UNCHANGED path
      /\ UNCHANGED held /\ UNCHANGED data /\ UNCHANGED cache /\ UNCHANGED visited
      /\ UNCHANGED tip
  BY <1>1 DEF Scanning, reading
<1>3. TypeOK'
  BY TypeStep DEF Next
<1>4. FilesOK' /\ starts <= starts' /\ starts \in Int /\ starts' \in Int
  <2>1. TypeOK /\ FilesOK
    OBVIOUS
  <2>2. FilesOK' /\ starts <= starts'
    BY ONLY <2>1, Environment, FilesStep
  <2>3. Making \subseteq Int
    BY ScanRoundAssumption DEF Making
  <2>4. starts \in Making /\ starts' \in Making
    BY ONLY <2>1, <1>3 DEF TypeOK
  <2> QED
    BY ONLY <2>2, <2>3, <2>4
<1>5. HeldOK'
  <2>1. held \in Int /\ \A c \in Pid \X Path : cache[c] \in Int
    BY ScanRoundAssumption DEF TypeOK, Making
  <2> QED
    BY <1>2, <1>4, <2>1 DEF HeldOK
<1>6. StepOK' /\ Once' /\ OwnMetadata' /\ FileOnce'
  BY <1>2 DEF StepOK, Once, OwnMetadata, FileOnce, FromFiles
<1>7. NotInPlace'
  <2> SUFFICES ASSUME step \in {"recheck", "check"}, data # NoData, data.values # held,
                      table'[ThisPid] # NoProcess
               PROVE  values'[<<table'[ThisPid].root, path>>] # held
    BY <1>2 DEF NotInPlace, ThisPid
  <2>1. table[ThisPid] # NoProcess /\ table'[ThisPid].root = table[ThisPid].root
    BY RootKept
  <2>2. queue # << >> /\ path \in Path /\ held # 0
    BY DEF StepOK
  <2> DEFINE f == <<table[ThisPid].root, path>>
  <2>3. f \in File
    BY <2>1, <2>2, AtType
  <2>4. values[f] # held
    BY <2>1 DEF NotInPlace
  <2>5. values'[f] \in {values[f], 0, starts + 1}
    BY <2>3, FilesStep
  <2>6. held <= starts /\ held \in Int
    BY ScanRoundAssumption DEF HeldOK, TypeOK, Making
  <2>7. values'[f] # held
    BY <1>4, <2>2, <2>4, <2>5, <2>6
  <2> QED
    BY <2>1, <2>7
<1> QED
  BY <1>3, <1>4, <1>5, <1>6, <1>7

-----------------------------------------------------------------------------
(* The scan                                                                *)

\* What is left of the queue when a process is done.
LEMMA TailFacts ==
  ASSUME queue \in Seq(Pid), queue # << >>,
         \A i, j \in DOMAIN queue : i # j => queue[i] # queue[j],
         queue' = Tail(queue)
  PROVE  /\ \A i, j \in DOMAIN queue' : i # j => queue'[i] # queue'[j]
         /\ \A i \in DOMAIN queue' : queue'[i] # ThisPid
         /\ \A i \in DOMAIN queue' : i + 1 \in DOMAIN queue /\ queue'[i] = queue[i + 1]
<1>1. Len(queue) \in Nat \ {0} /\ DOMAIN queue = 1 .. Len(queue)
  OBVIOUS
<1>2. DOMAIN queue' = 1 .. Len(queue) - 1
  BY <1>1
<1>3. \A i \in DOMAIN queue' : i \in Nat /\ i + 1 \in DOMAIN queue /\ 1 # i + 1
                               /\ queue'[i] = queue[i + 1]
  BY <1>1, <1>2
<1>4. 1 \in DOMAIN queue /\ ThisPid = queue[1]
  BY <1>1 DEF ThisPid
<1>5. \A i, j \in DOMAIN queue' : i # j => i + 1 # j + 1
  BY <1>3
<1> QED
  BY <1>3, <1>4, <1>5

\* A process is done, and nothing of it is reported.
LEMMA FinishedKeeps ==
  ASSUME IInv, phase = "values", queue # << >>, Finished,
         UNCHANGED <<environment, phase, tip, visited>>,
         \A c \in Pid \X Path : cache'[c] <= starts
  PROVE  FilesOK' /\ HeldOK' /\ StepOK' /\ NotInPlace' /\ Once' /\ OwnMetadata' /\ FileOnce'
<1> USE DEF IInv
<1>1. FilesOK' /\ OwnMetadata' /\ FileOnce'
  BY DEF FilesOK, OwnMetadata, FileOnce, FromFiles, environment
<1>2. HeldOK'
  BY ScanRoundAssumption DEF HeldOK, Finished, environment, TypeOK, Making
<1>3. StepOK' /\ NotInPlace'
  BY DEF StepOK, NotInPlace, Finished
<1>4. Once'
  <2>1. /\ \A i, j \in DOMAIN queue' : i # j => queue'[i] # queue'[j]
        /\ \A i \in DOMAIN queue' : i + 1 \in DOMAIN queue /\ queue'[i] = queue[i + 1]
    BY TailFacts DEF TypeOK, Once, Finished
  <2> QED
    BY <2>1 DEF Once, FromFiles, Finished
<1> QED
  BY <1>1, <1>2, <1>3, <1>4

\* A process is done, and its values are reported.
LEMMA PublishedKeeps ==
  ASSUME IInv, phase = "values", step \in {"recheck", "check"}, At(meta) = held,
         Finished, Publish(data),
         UNCHANGED <<environment, phase, visited>>,
         \A c \in Pid \X Path : cache'[c] <= starts
  PROVE  FilesOK' /\ HeldOK' /\ StepOK' /\ NotInPlace' /\ Once' /\ OwnMetadata' /\ FileOnce'
<1> USE DEF IInv
<1>1. queue # << >> /\ path \in Path /\ held # 0
  BY DEF StepOK
<1>2. CASE data = NoData
  <2>1. UNCHANGED tip
    BY <1>2 DEF Publish
  <2> QED
    BY <1>1, <2>1, FinishedKeeps
<1>3. CASE data # NoData
  <2> DEFINE new == ValueMetrics(ThisPid, cgroups[ThisPid], data)
             f == <<table[ThisPid].root, path>>
  <2>1. tip' = tip \cup {new} /\ new.pid = ThisPid /\ new.read = data
    BY <1>3 DEF Publish, ValueMetrics
  <2>2. FromFiles' = FromFiles \cup {new}
    BY <1>3, <2>1 DEF FromFiles, NoData
  <2>3. table[ThisPid] # NoProcess
    BY <1>1 DEF At
  <2>4. f \in File /\ meta[f] = held
    BY <1>1, <2>3, AtType
  <2>5. values[f] = held
    BY <1>1, <2>4 DEF FilesOK
  <2>6. data.meta = held /\ data.values \in visited
    BY <1>3 DEF StepOK
  <2>7. data.values = held
    BY <1>3, <2>3, <2>5 DEF NotInPlace
  <2>8. OwnMetadata'
    BY <2>1, <2>2, <2>6, <2>7 DEF OwnMetadata
  <2>9. \A m \in FromFiles : m.pid # ThisPid /\ m.read.values # data.values
    <3>1. 1 \in DOMAIN queue /\ ThisPid = queue[1]
      BY <1>1 DEF TypeOK, ThisPid
    <3> QED
      BY <1>3, <3>1 DEF Once
  <2>10. FileOnce'
    BY <2>1, <2>2, <2>9 DEF FileOnce
  <2>11. Once'
    <3>1. /\ \A i, j \in DOMAIN queue' : i # j => queue'[i] # queue'[j]
          /\ \A i \in DOMAIN queue' : queue'[i] # ThisPid
          /\ \A i \in DOMAIN queue' : i + 1 \in DOMAIN queue /\ queue'[i] = queue[i + 1]
      BY <1>1, TailFacts DEF TypeOK, Once, Finished
    <3>2. \A m \in FromFiles' : /\ m.read.values \in visited
                                /\ \A i \in DOMAIN queue' : m.pid # queue'[i]
      BY <2>1, <2>2, <2>6, <3>1 DEF Once
    <3> QED
      BY <3>1, <3>2 DEF Once, Finished
  <2>12. FilesOK' /\ HeldOK' /\ StepOK' /\ NotInPlace'
    BY ScanRoundAssumption
       DEF FilesOK, HeldOK, StepOK, NotInPlace, Finished, environment, TypeOK, Making
  <2> QED
    BY <2>8, <2>10, <2>11, <2>12
<1> QED
  BY <1>2, <1>3

\* The values are read: they are new to this scan, and where they do not belong
\* to the metadata in use, that was replaced.
LEMMA ReadKeeps ==
  ASSUME IInv, phase = "values", step \in {"cached", "data"}, ReadData,
         step' \in {"recheck", "check"},
         UNCHANGED <<environment, phase, queue, path, held, cache, tip>>
  PROVE  FilesOK' /\ HeldOK' /\ StepOK' /\ NotInPlace' /\ Once' /\ OwnMetadata' /\ FileOnce'
<1> USE DEF IInv
<1>1. queue # << >> /\ path \in Path /\ held # 0
  BY DEF StepOK
<1>2. /\ data' # NoData =>
             /\ data'.meta = held /\ data'.values = At(values)
             /\ At(values) # 0 /\ At(values) \notin visited
      /\ visited' = visited \cup ({At(values)} \ {0})
  BY ReadDataType
<1>3. FilesOK' /\ HeldOK' /\ OwnMetadata' /\ FileOnce'
  BY DEF FilesOK, HeldOK, OwnMetadata, FileOnce, FromFiles, environment
<1>4. StepOK'
  BY <1>1, <1>2 DEF StepOK
<1>5. NotInPlace'
  BY <1>1, <1>2, AtType DEF NotInPlace, ThisPid, environment
<1>6. Once'
  BY <1>2 DEF Once, FromFiles
<1> QED
  BY <1>3, <1>4, <1>5, <1>6

LEMMA ScanKeeps ==
  ASSUME IInv,
         \/ BeginScan \/ VisitDir \/ ListProc \/ (\E p \in Pid : ReadProcess(p)) \/ WriteTip
         \/ ReadEnviron \/ ReadCached \/ Recheck \/ ReadMeta \/ ReadNew \/ Check \/ EndScan
  PROVE  FilesOK' /\ HeldOK' /\ StepOK' /\ NotInPlace' /\ Once' /\ OwnMetadata' /\ FileOnce'
<1> USE DEF IInv
<1> DEFINE Kept == FilesOK' /\ HeldOK' /\ StepOK' /\ NotInPlace' /\ Once'
                   /\ OwnMetadata' /\ FileOnce'
<1>0. phase # "values" => queue = << >> /\ step = "next" /\ data = NoData
  BY DEF StepOK
<1>1. CASE BeginScan
  BY <1>0, <1>1 DEF BeginScan, FilesOK, HeldOK, StepOK, NotInPlace, Once, OwnMetadata,
                    FileOnce, FromFiles, environment, reading
<1>2. CASE VisitDir \/ ListProc \/ (\E p \in Pid : ReadProcess(p))
  <2>1. /\ phase \notin {"values", "idle"} /\ phase' \notin {"values", "idle"}
        /\ UNCHANGED <<environment, reading, cache, visited, tip>>
    BY <1>2 DEF VisitDir, ListProc, ReadProcess
  <2> QED
    BY <1>0, <2>1 DEF FilesOK, HeldOK, StepOK, NotInPlace, Once, OwnMetadata,
                      FileOnce, FromFiles, environment, reading
<1>3. CASE WriteTip
  <2>1. FromFiles' = {}
    BY <1>3 DEF WriteTip, FromFiles, ProcessMetrics, NoData
  <2>2. /\ step' = "next" /\ data' = NoData /\ held' = held
        /\ UNCHANGED <<environment, cache>> /\ phase' = "values"
    BY <1>0, <1>3 DEF WriteTip
  <2>3. \A i, j \in DOMAIN queue' : i # j => queue'[i] # queue'[j]
    BY <1>3, InOrderTypeOK DEF WriteTip, TypeOK
  <2>4. Once' /\ OwnMetadata' /\ FileOnce'
    BY <2>1, <2>2, <2>3 DEF Once, OwnMetadata, FileOnce
  <2> QED
    BY <2>2, <2>4 DEF FilesOK, HeldOK, StepOK, NotInPlace, environment
<1>4. CASE ReadEnviron
  <2>1. /\ phase = "values" /\ queue # << >> /\ step = "next"
        /\ UNCHANGED <<environment, phase, cache, visited, tip>>
    BY <1>4 DEF ReadEnviron
  <2>2. CASE Finished
    BY <2>1, <2>2, FinishedKeeps DEF HeldOK, environment
  <2>3. CASE ~Finished
    <3>1. /\ table[ThisPid] # NoProcess /\ table[ThisPid].path # NoPath
          /\ path' = table[ThisPid].path /\ held' = cache[<<ThisPid, path'>>]
          /\ step' \in {"cached", "meta"} /\ UNCHANGED <<queue, data>>
          /\ step' = "cached" => held' # 0
      BY <1>4, <2>3 DEF ReadEnviron
    <3>2. ThisPid \in Pid /\ path' \in Path
      BY <2>1, <3>1 DEF TypeOK, Process, ThisPid
    <3>3. data = NoData
      BY <2>1 DEF StepOK
    <3>4. HeldOK' /\ StepOK'
      BY <2>1, <3>1, <3>2, <3>3 DEF HeldOK, StepOK, environment
    <3>5. NotInPlace' /\ Once' /\ OwnMetadata' /\ FileOnce' /\ FilesOK'
      BY <2>1, <3>1, <3>3
         DEF NotInPlace, Once, OwnMetadata, FileOnce, FromFiles, FilesOK, environment
    <3> QED
      BY <3>4, <3>5
  <2> QED
    BY <2>2, <2>3
<1>5. CASE ReadCached
  BY <1>5, ReadKeeps DEF ReadCached
<1>6. CASE Recheck
  <2>1. /\ phase = "values" /\ step = "recheck" /\ queue # << >>
        /\ UNCHANGED <<environment, phase, cache, visited>>
    BY <1>6 DEF Recheck, StepOK
  <2>2. CASE At(meta) = held
    BY <1>6, <2>1, <2>2, PublishedKeeps DEF Recheck, HeldOK, environment
  <2>3. CASE At(meta) # held
    <3>1. step' = "meta" /\ held' = 0 /\ data' = NoData /\ UNCHANGED <<queue, path, tip>>
      BY <1>6, <2>3 DEF Recheck
    <3> QED
      BY <2>1, <3>1, ScanRoundAssumption
         DEF FilesOK, HeldOK, StepOK, NotInPlace, Once, OwnMetadata, FileOnce, FromFiles,
             environment, TypeOK, Making
  <2> QED
    BY <2>2, <2>3
<1>7. CASE ReadMeta
  <2>1. /\ phase = "values" /\ step = "meta" /\ queue # << >> /\ path \in Path
        /\ UNCHANGED <<environment, phase, cache, visited, tip>>
    BY <1>7 DEF ReadMeta, StepOK
  <2>2. CASE At(meta) = 0
    BY <1>7, <2>1, <2>2, FinishedKeeps DEF ReadMeta, HeldOK, environment
  <2>3. CASE At(meta) # 0
    <3>1. held' = At(meta) /\ step' = "data" /\ UNCHANGED <<queue, path, data>>
      BY <1>7, <2>3 DEF ReadMeta
    <3>2. table[ThisPid] # NoProcess
      BY <2>3 DEF At
    <3>3. At(meta) <= starts
      <4> DEFINE f == <<table[ThisPid].root, path>>
      <4>1. f \in File /\ At(meta) = meta[f]
        BY <2>1, <3>2, AtType
      <4>2. meta[f] = values[f] /\ values[f] <= starts
        BY <2>3, <4>1 DEF FilesOK
      <4> QED
        BY <4>1, <4>2
    <3>4. data = NoData
      BY <2>1 DEF StepOK
    <3> QED
      BY <2>1, <2>3, <3>1, <3>3, <3>4
         DEF FilesOK, HeldOK, StepOK, NotInPlace, Once, OwnMetadata, FileOnce, FromFiles,
             environment
  <2> QED
    BY <2>2, <2>3
<1>8. CASE ReadNew
  BY <1>8, ReadKeeps DEF ReadNew
<1>9. CASE Check
  <2>1. /\ phase = "values" /\ step = "check" /\ queue # << >>
        /\ UNCHANGED <<environment, phase, visited>> /\ Finished
    BY <1>9 DEF Check, StepOK
  <2>2. CASE At(meta) = held
    <3>1. \A c \in Pid \X Path : cache'[c] \in {cache[c], held}
      BY <1>9, <2>2 DEF Check, TypeOK
    <3> QED
      BY <1>9, <2>1, <2>2, <3>1, PublishedKeeps DEF Check, HeldOK, environment
  <2>3. CASE At(meta) # held
    BY <1>9, <2>1, <2>3, FinishedKeeps DEF Check, HeldOK, environment
  <2> QED
    BY <2>2, <2>3
<1>10. CASE EndScan
  BY <1>10 DEF EndScan, FilesOK, HeldOK, StepOK, NotInPlace, Once, OwnMetadata, FileOnce,
               FromFiles, environment, reading
<1> QED
  BY <1>1, <1>2, <1>3, <1>4, <1>5, <1>6, <1>7, <1>8, <1>9, <1>10

LEMMA Inductive == IInv /\ [Next]_vars => IInv'
<1> SUFFICES ASSUME IInv, [Next]_vars PROVE IInv'
  OBVIOUS
<1>1. TypeOK'
  BY TypeStep DEF IInv
<1>2. CASE Environment
  BY <1>2, EnvironmentKeeps
<1>3. CASE \/ BeginScan \/ VisitDir \/ ListProc \/ (\E p \in Pid : ReadProcess(p)) \/ WriteTip
           \/ ReadEnviron \/ ReadCached \/ Recheck \/ ReadMeta \/ ReadNew \/ Check \/ EndScan
  BY <1>1, <1>3, ScanKeeps DEF IInv
<1>4. CASE UNCHANGED vars
  BY <1>1, <1>4 DEF IInv, vars, environment, reading, FilesOK, HeldOK, StepOK, NotInPlace,
                    Once, OwnMetadata, FileOnce, FromFiles, ThisPid
<1> QED
  BY <1>2, <1>3, <1>4 DEF Next

THEOREM Invariance == Spec => []IInv
<1> QED
  BY InitIInv, Inductive, PTL DEF Spec

\* The variables keep their types.
THEOREM TypeCorrect == Spec => []TypeOK
<1>1. IInv => TypeOK
  BY DEF IInv
<1> QED
  BY Invariance, <1>1, PTL

\* Whatever applications do between any two system calls of the scan, metrics
\* are decoded with the metadata they were written for (read_values and
\* Collection.start together).
THEOREM DecodedRight == Spec => []OwnMetadata
<1>1. IInv => OwnMetadata
  BY DEF IInv
<1> QED
  BY Invariance, <1>1, PTL

\* No file is reported of two processes, and no process twice (`visited').
THEOREM NoDuplicates == Spec => []FileOnce
<1>1. IInv => FileOnce
  BY DEF IInv
<1> QED
  BY Invariance, <1>1, PTL

-----------------------------------------------------------------------------
(* An undisturbed scan                                                     *)

ScanStep ==
    \/ BeginScan \/ VisitDir \/ ListProc \/ (\E p \in Pid : ReadProcess(p)) \/ WriteTip
    \/ ReadEnviron \/ ReadCached \/ Recheck \/ ReadMeta \/ ReadNew \/ Check \/ EndScan

LEMMA InitCalmInv == Init => CalmInv
  BY InitIInv DEF Init, CalmInv, ListsOK, FilesDiffer

LEMMA FilesDifferStep ==
  ASSUME TypeOK, FilesOK, FilesDiffer, Environment
  PROVE  FilesDiffer'
<1> USE ScanRoundAssumption
<1>1. \A g \in File : values[g] \in Int /\ values[g] # starts + 1 /\ starts + 1 # 0
  BY DEF TypeOK, FilesOK, Making
<1>2. \/ values' = values
      \/ \E f \in File : values' = [values EXCEPT ![f] = 0]
      \/ \E f \in File : values' = [values EXCEPT ![f] = starts + 1]
  <2>1. ASSUME NEW f \in File,
               UnlinkMeta(f) \/ RenameMeta(f) \/ CloseMeta(f) \/ WriterKilled(f)
        PROVE  values' = values
    BY <2>1 DEF UnlinkMeta, RenameMeta, CloseMeta, WriterKilled
  <2>2. ASSUME NEW f \in File, UnlinkValues(f) \/ CloseValues(f)
        PROVE  values' = [values EXCEPT ![f] = 0]
    BY <2>2 DEF UnlinkValues, CloseValues
  <2>3. ASSUME NEW f \in File, RenameValues(f)
        PROVE  values' = [values EXCEPT ![f] = starts + 1]
    BY <2>3 DEF RenameValues
  <2>4. ASSUME NEW p \in Pid,
               Exit(p) \/ (\E pr \in Process : Spawn(p, pr)) \/ (\E d \in Dir : Move(p, d))
        PROVE  values' = values
    BY <2>4 DEF Exit, Spawn, Move
  <2> QED
    BY <2>1, <2>2, <2>3, <2>4, Zenon DEF Environment
<1>3. values \in [File -> Making]
  BY DEF TypeOK
<1> QED
  BY <1>1, <1>2, <1>3 DEF FilesDiffer

LEMMA ListsOKStep ==
  ASSUME IInv, ListsOK, [Next]_vars
  PROVE  ListsOK'
<1> USE DEF ListsOK
<1>1. CASE Environment
  BY <1>1 DEF Environment, Scanning, listing
<1>2. CASE BeginScan
  BY <1>2 DEF BeginScan
<1>3. CASE VisitDir
  BY <1>3 DEF VisitDir
<1>4. CASE ListProc
  BY <1>4 DEF ListProc
<1>5. CASE \E p \in Pid : ReadProcess(p)
  BY <1>5 DEF ReadProcess
<1>6. CASE WriteTip
  BY <1>6 DEF WriteTip
<1>7. CASE ReadEnviron \/ ReadCached \/ Recheck \/ ReadMeta \/ ReadNew \/ Check
  BY <1>7 DEF ReadEnviron, ReadCached, Recheck, ReadMeta, ReadNew, Check, listing
<1>8. CASE EndScan
  BY <1>8 DEF EndScan, listing
<1>9. CASE UNCHANGED vars
  BY <1>9 DEF vars, listing
<1> QED
  BY <1>1, <1>2, <1>3, <1>4, <1>5, <1>6, <1>7, <1>8, <1>9 DEF Next

\* What a process that runs has.
LEMMA RunningFacts ==
  ASSUME TypeOK, FilesOK, NEW p \in Running
  PROVE  /\ p \in Pid /\ p \in Int /\ table[p] \in Process
         /\ table[p].path # NoPath =>
                /\ table[p].path \in Path /\ FileOf(table[p]) \in File
                /\ FileOf(table[p]) = <<table[p].root, table[p].path>>
         /\ Whole(p) => /\ meta[FileOf(table[p])] = values[FileOf(table[p])]
                        /\ values[FileOf(table[p])] # 0
<1>1. p \in Pid /\ p \in Int /\ table[p] \in Process
  BY PidsAreNumbers DEF Running, TypeOK
<1>2. table[p].path # NoPath => table[p].path \in Path /\ FileOf(table[p]) \in File
  BY <1>1 DEF Process, FileOf, File
<1> QED
  BY <1>1, <1>2 DEF FileOf, Whole, FilesOK

\* Nothing that is expected changes with a step of the scan.
LEMMA ExpectedUnchanged ==
  ASSUME UNCHANGED environment
  PROVE  /\ Running' = Running /\ ExpectedProcesses' = ExpectedProcesses
         /\ \A p \in Running : /\ Whole(p)' = Whole(p) /\ FirstOf(p)' = FirstOf(p)
                               /\ Expected(p)' = Expected(p)
<1>1. table' = table /\ meta' = meta /\ values' = values
  BY DEF environment
<1> QED
  BY <1>1 DEF Running, ExpectedProcesses, ProcessMetrics, VisitedGroup, Whole, FirstOf,
              Expected, ValueMetrics, FileOf

LEMMA ScanStepUnchanged == ScanStep => UNCHANGED environment
  BY DEF ScanStep, BeginScan, VisitDir, ListProc, ReadProcess, WriteTip, ReadEnviron,
         ReadCached, Recheck, ReadMeta, ReadNew, Check, EndScan

\* The process that is being read is the first of those that are left.
LEMMA HeadFacts ==
  ASSUME TypeOK, FilesOK, ListsRight, phase = "values", queue # << >>
  PROVE  /\ ThisPid \in Left /\ ThisPid \in Running
         /\ \A p \in Running \ Left : p < ThisPid
         /\ \A q \in Left \ {ThisPid} : ThisPid < q
<1>1. queue \in Seq(Pid) /\ DOMAIN queue = 1 .. Len(queue) /\ Len(queue) \in Nat \ {0}
  BY DEF TypeOK
<1>2. 1 \in DOMAIN queue /\ ThisPid = queue[1]
  BY <1>1 DEF ThisPid
<1>3. ThisPid \in Left
  BY <1>2 DEF Left
<1>4. \A p \in Running \ Left : p < ThisPid
  BY <1>3 DEF ListsRight
<1>5. ASSUME NEW q \in Left \ {ThisPid} PROVE ThisPid < q
  <2>1. PICK i \in DOMAIN queue : q = queue[i]
    BY DEF Left
  <2>2. 1 < i
    BY <1>1, <1>2, <2>1
  <2> QED
    BY <1>2, <2>1, <2>2 DEF ListsRight
<1> QED
  BY <1>3, <1>4, <1>5 DEF ListsRight

\* .. and the others are left when it is done.
LEMMA DoneFacts ==
  ASSUME IInv, ListsRight, phase = "values", queue # << >>, Finished
  PROVE  /\ Left' = Left \ {ThisPid}
         /\ Running \ Left' = (Running \ Left) \cup {ThisPid}
         /\ \A i, j \in DOMAIN queue' : i < j => queue'[i] < queue'[j]
<1> USE DEF IInv
<1>1. queue \in Seq(Pid) /\ DOMAIN queue = 1 .. Len(queue) /\ Len(queue) \in Nat \ {0}
  BY DEF TypeOK
<1>2. 1 \in DOMAIN queue /\ ThisPid = queue[1]
  BY <1>1 DEF ThisPid
<1>3. DOMAIN queue' = 1 .. Len(queue) - 1
  BY <1>1 DEF Finished
<1>4. /\ \A i \in DOMAIN queue' : queue'[i] # ThisPid
      /\ \A i \in DOMAIN queue' : i + 1 \in DOMAIN queue /\ queue'[i] = queue[i + 1]
  BY <1>1, TailFacts DEF Once, Finished
<1>5. Left' = Left \ {ThisPid}
  <2>1. ASSUME NEW q \in Left' PROVE q \in Left \ {ThisPid}
    BY <1>4 DEF Left
  <2>2. ASSUME NEW q \in Left \ {ThisPid} PROVE q \in Left'
    <3>1. PICK i \in DOMAIN queue : q = queue[i]
      BY DEF Left
    <3>2. i - 1 \in DOMAIN queue' /\ (i - 1) + 1 = i
      BY <1>1, <1>2, <1>3, <3>1
    <3>3. queue'[i - 1] = q
      BY <1>4, <3>1, <3>2
    <3> QED
      BY <3>2, <3>3 DEF Left
  <2> QED
    BY <2>1, <2>2
<1>6. ASSUME NEW i \in DOMAIN queue', NEW j \in DOMAIN queue', i < j
      PROVE  queue'[i] < queue'[j]
  <2>1. i + 1 \in DOMAIN queue /\ j + 1 \in DOMAIN queue /\ i + 1 < j + 1
    BY <1>3, <1>4, <1>6
  <2> QED
    BY <1>4, <2>1 DEF ListsRight
<1>7. ThisPid \in Running /\ ThisPid \in Left
  BY HeadFacts
<1> QED
  BY <1>5, <1>6, <1>7

\* Every process is in the list that is sorted by their pids.
LEMMA InOrderComplete ==
  ASSUME NEW ps \in SUBSET Pid, NEW s \in InOrder(ps)
  PROVE  {s[i] : i \in DOMAIN s} = ps
<1>1. IsFiniteSet(ps)
  BY ScanRoundAssumption, FS_Subset
<1> DEFINE n == Cardinality(ps)
<1>2. n \in Nat
  BY <1>1, FS_CardinalityType
<1>3. s \in [1 .. n -> ps]
  BY Zenon DEF InOrder
<1>4. \A i, j \in DOMAIN s : i # j => s[i] # s[j]
  BY InOrderTypeOK
<1>5. IsFiniteSet(1 .. n) /\ Cardinality(1 .. n) = n
  BY <1>2, FS_Interval
<1>6. s \in Injection(1 .. n, ps)
  BY <1>3, <1>4 DEF Injection, IsInjective
<1>7. s \in Surjection(1 .. n, ps)
  BY <1>1, <1>5, <1>6, FS_Injection, Zenon
<1> QED
  BY <1>3, <1>7 DEF Surjection

LEMMA ListsRightStep ==
  ASSUME IInv, ListsOK, IInv', ListsRight, ScanStep, phase # "idle"
  PROVE  ListsRight'
<1> USE DEF IInv
<1>1. /\ Running' = Running /\ ExpectedProcesses' = ExpectedProcesses
      /\ UNCHANGED environment /\ table' = table
  BY ScanStepUnchanged, ExpectedUnchanged DEF environment
<1>2. phase # "values" => queue = << >> /\ Left = {}
  BY DEF StepOK, Left
<1>3. CASE VisitDir
  <2>1. /\ phase = "cgroups" /\ phase' = "cgroups" /\ walk' = walk + 1 /\ walk \in Nat
        /\ queue' = queue /\ tip' = tip
        /\ \A p \in Pid : cgroups'[p] = IF table[p] # NoProcess /\ table[p].dir = Walked[walk + 1]
                                 THEN GroupOf[Walked[walk + 1]] ELSE cgroups[p]
    BY <1>3, ScanRoundAssumption DEF VisitDir, TypeOK, reading
  <2>2. \A d : GroupSoFar(d)' = IF d = Walked[walk + 1] THEN GroupOf[d] ELSE GroupSoFar(d)
    BY <2>1 DEF GroupSoFar
  <2>3. ASSUME NEW p \in Running PROVE cgroups'[p] = GroupSoFar(table[p].dir)'
    BY <1>1, <2>1, <2>2 DEF ListsRight, Running
  <2> QED
    BY <1>1, <1>2, <2>1, <2>3 DEF ListsRight, Left
<1>4. CASE ListProc
  <2>1. /\ UNCHANGED <<cgroups, walk, processes, queue, tip>> /\ pids' = pids \cup Running
        /\ phase \in {"cgroups", "list"}
        /\ phase' = IF phase = "cgroups" THEN "list" ELSE "relist"
    BY <1>4 DEF ListProc, reading
  <2>2. \A d : GroupSoFar(d)' = GroupSoFar(d)
    BY <2>1 DEF GroupSoFar
  <2>3. pids' = Running /\ processes = {}
    BY <2>1 DEF ListsOK, ListsRight
  <2> QED
    BY <1>1, <1>2, <2>1, <2>2, <2>3 DEF ListsRight, Left
<1>5. CASE \E p \in Pid : ReadProcess(p)
  <2>1. PICK p \in Pid : ReadProcess(p)
    BY <1>5
  <2>2. /\ UNCHANGED <<phase, cgroups, walk, queue, tip>> /\ phase = "relist" /\ p \in pids
        /\ pids' = pids \ {p} /\ processes' = processes \cup ({p} \cap Running)
    BY <2>1 DEF ReadProcess, reading
  <2>3. \A d : GroupSoFar(d)' = GroupSoFar(d)
    BY <2>2 DEF GroupSoFar
  <2>4. pids' \cup processes' = Running
    BY <2>2 DEF ListsRight
  <2> QED
    BY <1>1, <1>2, <2>2, <2>3, <2>4 DEF ListsRight, Left
<1>6. CASE WriteTip
  <2>1. /\ phase = "relist" /\ phase' = "values" /\ pids = {} /\ queue' \in InOrder(processes)
        /\ tip' = {ProcessMetrics(p, cgroups[p]) : p \in processes}
        /\ UNCHANGED <<cgroups, walk>>
    BY <1>6 DEF WriteTip
  <2>2. processes = Running /\ processes \in SUBSET Pid
    BY <2>1 DEF ListsRight, TypeOK
  <2>3. Left' = Running
    BY <2>1, <2>2, InOrderComplete DEF Left
  <2>4. \A i, j \in DOMAIN queue' : i < j => queue'[i] < queue'[j]
    BY <2>1 DEF InOrder
  <2>5. \A d : GroupSoFar(d)' = GroupSoFar(d) /\ GroupSoFar(d) = VisitedGroup(d)
    BY <2>1 DEF GroupSoFar, VisitedGroup, ListsOK
  <2>6. tip' = ExpectedProcesses
    BY <2>1, <2>2, <2>5 DEF ListsRight, ExpectedProcesses
  <2>7. FromFiles' = {}
    BY <2>1 DEF FromFiles, ProcessMetrics
  <2> QED
    BY <1>1, <2>1, <2>3, <2>4, <2>5, <2>6, <2>7 DEF ListsRight
<1>7. CASE /\ phase = "values" /\ phase' \in {"values", "idle"} /\ queue' = queue
           /\ UNCHANGED listing /\ tip' = tip /\ (phase' = "idle" => queue = << >>)
  <2>1. Left' = Left /\ FromFiles' = FromFiles /\ \A d : GroupSoFar(d)' = GroupSoFar(d)
    BY <1>7 DEF Left, FromFiles, GroupSoFar, listing
  <2> QED
    BY <1>1, <1>7, <2>1 DEF ListsRight, listing
<1>8. CASE /\ phase = "values" /\ phase' = "values" /\ queue # << >> /\ Finished
           /\ UNCHANGED listing /\ (tip' = tip \/ Publish(data))
  <2>1. /\ Left' = Left \ {ThisPid} /\ Running \ Left' = (Running \ Left) \cup {ThisPid}
        /\ \A i, j \in DOMAIN queue' : i < j => queue'[i] < queue'[j]
    BY <1>8, DoneFacts
  <2>2. tip' \ FromFiles' = tip \ FromFiles
    BY <1>8 DEF Publish, FromFiles, ValueMetrics
  <2>3. \A d : GroupSoFar(d)' = GroupSoFar(d)
    BY <1>8 DEF GroupSoFar, listing
  <2>4. \A p \in Running \ Left', q \in Left' : p < q
    BY <1>8, <2>1, HeadFacts DEF ListsRight
  <2> QED
    BY <1>1, <1>8, <2>1, <2>2, <2>3, <2>4 DEF ListsRight, listing
<1>9. CASE ReadEnviron
  BY <1>7, <1>8, <1>9 DEF ReadEnviron
<1>10. CASE ReadCached \/ ReadNew
  BY <1>7, <1>10 DEF ReadCached, ReadNew
<1>11. CASE Recheck
  BY <1>7, <1>8, <1>11 DEF Recheck, StepOK
<1>12. CASE ReadMeta
  BY <1>7, <1>8, <1>12 DEF ReadMeta, StepOK
<1>13. CASE Check
  BY <1>8, <1>13 DEF Check, StepOK
<1>14. CASE EndScan
  BY <1>7, <1>14 DEF EndScan, reading
<1>15. ~BeginScan
  BY DEF BeginScan
<1> QED
  BY <1>3, <1>4, <1>5, <1>6, <1>9, <1>10, <1>11, <1>12, <1>13, <1>14, <1>15 DEF ScanStep

\* The files of the process that is being read.
LEMMA ThisFile ==
  ASSUME IInv, ListsRight, ReadingRight, step # "next"
  PROVE  /\ queue # << >> /\ phase = "values" /\ ThisPid \in Running
         /\ path = table[ThisPid].path /\ path # NoPath
         /\ FileOf(table[ThisPid]) \in File
         /\ At(meta) = meta[FileOf(table[ThisPid])]
         /\ At(values) = values[FileOf(table[ThisPid])]
         /\ Whole(ThisPid) <=> At(meta) # 0
         /\ At(meta) # 0 => At(meta) = At(values)
         /\ Realpath = <<ThisPid, table[ThisPid].path>>
<1> USE DEF IInv
<1>1. queue # << >> /\ phase = "values" /\ path \in Path
  BY DEF StepOK
<1>2. ThisPid \in Running
  BY <1>1, HeadFacts
<1>3. path = table[ThisPid].path /\ path # NoPath /\ table[ThisPid] # NoProcess
  BY <1>1, <1>2, ScanRoundAssumption DEF ReadingRight, Running
<1>4. /\ FileOf(table[ThisPid]) \in File
      /\ FileOf(table[ThisPid]) = <<table[ThisPid].root, path>>
      /\ Whole(ThisPid) =>
            meta[FileOf(table[ThisPid])] = values[FileOf(table[ThisPid])]
  BY <1>2, <1>3, RunningFacts
<1> QED
  BY <1>1, <1>2, <1>3, <1>4 DEF At, Whole, Realpath

LEMMA ReadingRightStep ==
  ASSUME IInv, IInv', ListsRight, ReadingRight, ScanStep, phase # "idle"
  PROVE  ReadingRight'
<1> USE DEF IInv
<1>1. table' = table /\ meta' = meta
  BY ScanStepUnchanged DEF environment
<1>2. phase # "values" => step = "next"
  BY DEF StepOK
<1>3. CASE VisitDir \/ ListProc \/ (\E p \in Pid : ReadProcess(p)) \/ WriteTip \/ EndScan
  <2>1. step' = step /\ step = "next"
    BY <1>2, <1>3 DEF VisitDir, ListProc, ReadProcess, WriteTip, EndScan, reading, StepOK
  <2> QED
    BY <2>1 DEF ReadingRight
<1>4. CASE Finished
  BY <1>4 DEF Finished, ReadingRight
<1>5. CASE ReadEnviron /\ ~Finished
  <2>1. /\ queue' = queue /\ path' = table[ThisPid].path /\ cache' = cache
        /\ held' = cache[<<ThisPid, path'>>] /\ step' \in {"cached", "meta"}
    BY <1>5 DEF ReadEnviron
  <2> QED
    BY <1>1, <2>1 DEF ReadingRight, ThisPid, Realpath
<1>6. CASE ReadCached \/ ReadNew
  <2>1. /\ UNCHANGED <<queue, path, held, cache>>
        /\ \/ step = "cached" /\ step' = "recheck"
           \/ step = "data" /\ step' = "check"
    BY <1>6 DEF ReadCached, ReadNew
  <2> QED
    BY <1>1, <2>1 DEF ReadingRight, ThisPid, Realpath, At
<1>7. CASE Recheck /\ ~Finished
  <2>1. step = "recheck" /\ step' = "meta" /\ UNCHANGED <<queue, path>>
    BY <1>7 DEF Recheck
  <2> QED
    BY <1>1, <2>1 DEF ReadingRight, ThisPid
<1>8. CASE ReadMeta /\ ~Finished
  <2>1. step = "meta" /\ held' = At(meta) /\ step' = "data" /\ UNCHANGED <<queue, path>>
    BY <1>8 DEF ReadMeta
  <2> QED
    BY <1>1, <2>1 DEF ReadingRight, ThisPid, At
<1>9. CASE Check
  BY <1>4, <1>9 DEF Check
<1>10. ~BeginScan
  BY DEF BeginScan
<1> QED
  BY <1>3, <1>4, <1>5, <1>6, <1>7, <1>8, <1>9, <1>10 DEF ScanStep

\* Metadata of this process gets into the cache, or it is done with, and then
\* that of its file is there.
LEMMA CacheRightStep ==
  ASSUME IInv, IInv', ListsRight, ReadingRight, CacheRight, ScanStep, phase # "idle"
  PROVE  CacheRight'
<1> USE DEF IInv
<1>1. Running' = Running /\ table' = table /\ meta' = meta
  BY ScanStepUnchanged, ExpectedUnchanged DEF environment
<1>2. calm' = calm
  BY DEF ScanStep, BeginScan, VisitDir, ListProc, ReadProcess, WriteTip, ReadEnviron,
         ReadCached, Recheck, ReadMeta, ReadNew, Check, EndScan
<1>3. CASE cache' = cache /\ (phase' \in {"values", "idle"} =>
                                \A p \in Running \ Left' : Known(p))
  <2>1. \A p \in Running : Known(p)' = Known(p)
    BY <1>1, <1>3 DEF Known, Whole, FileOf
  <2> QED
    BY <1>1, <1>2, <1>3, <2>1 DEF CacheRight
<1>4. CASE /\ phase = "values" /\ queue # << >> /\ Finished /\ Known(ThisPid) /\ cache' = cache
  <2>1. Running \ Left' = (Running \ Left) \cup {ThisPid}
    BY <1>4, DoneFacts
  <2>2. \A p \in Running \ Left' : Known(p)
    BY <1>4, <2>1 DEF CacheRight
  <2> QED
    BY <1>3, <1>4, <2>2
<1>5. CASE VisitDir \/ ListProc \/ (\E p \in Pid : ReadProcess(p))
  BY <1>3, <1>5 DEF VisitDir, ListProc, ReadProcess
<1>6. CASE WriteTip
  <2>1. processes = Running /\ processes \in SUBSET Pid
        /\ queue' \in InOrder(processes) /\ cache' = cache
    BY <1>6 DEF WriteTip, ListsRight, TypeOK
  <2>2. Left' = Running
    BY <2>1, InOrderComplete DEF Left
  <2> QED
    BY <1>3, <2>1, <2>2
<1>7. CASE EndScan
  BY <1>3, <1>7 DEF EndScan, reading, Left, CacheRight
<1>8. CASE ReadEnviron
  <2>1. phase = "values" /\ queue # << >> /\ cache' = cache /\ phase' = phase
        /\ (Finished \/ queue' = queue)
        /\ (Finished => table[ThisPid] = NoProcess \/ table[ThisPid].path = NoPath \/ queue' = queue)
    BY <1>8 DEF ReadEnviron
  <2>2. CASE queue' = queue
    BY <1>3, <2>1, <2>2 DEF Left, CacheRight
  <2>3. CASE queue' # queue
    <3>1. ThisPid \in Running
      BY <2>1, HeadFacts
    <3>2. Finished /\ Known(ThisPid)
      BY <2>1, <2>3, <3>1 DEF Running, Known, Whole
    <3> QED
      BY <1>4, <2>1, <3>2
  <2> QED
    BY <2>2, <2>3
<1>9. CASE ReadCached \/ ReadNew
  BY <1>3, <1>9 DEF ReadCached, ReadNew, Left, CacheRight
<1>10. CASE Recheck
  <2>1. phase = "values" /\ step = "recheck" /\ cache' = cache /\ phase' = phase
    BY <1>10 DEF Recheck
  <2>2. CASE At(meta) = held
    <3>1. Finished /\ held = cache[Realpath]
      BY <1>10, <2>1, <2>2 DEF Recheck, ReadingRight
    <3>2. Known(ThisPid) /\ queue # << >>
      BY <2>1, <2>2, <3>1, ThisFile DEF Known
    <3> QED
      BY <1>4, <2>1, <3>1, <3>2
  <2>3. CASE At(meta) # held
    BY <1>3, <1>10, <2>1, <2>3 DEF Recheck, Left, CacheRight
  <2> QED
    BY <2>2, <2>3
<1>11. CASE ReadMeta
  <2>1. phase = "values" /\ step = "meta" /\ cache' = cache /\ phase' = phase
    BY <1>11 DEF ReadMeta
  <2>2. CASE At(meta) = 0
    <3>1. Known(ThisPid) /\ queue # << >>
      BY <2>1, <2>2, ThisFile DEF Known
    <3> QED
      BY <1>4, <1>11, <2>1, <2>2, <3>1 DEF ReadMeta
  <2>3. CASE At(meta) # 0
    BY <1>3, <1>11, <2>1, <2>3 DEF ReadMeta, Left, CacheRight
  <2> QED
    BY <2>2, <2>3
<1>12. CASE Check
  <2>1. /\ phase = "values" /\ step = "check" /\ phase' = phase /\ Finished
        /\ At(meta) = held
        /\ cache' = [cache EXCEPT ![Realpath] = held]
    BY <1>12 DEF Check, ReadingRight
  <2>2. /\ queue # << >> /\ ThisPid \in Running /\ At(meta) = meta[FileOf(table[ThisPid])]
        /\ Realpath = <<ThisPid, table[ThisPid].path>>
        /\ table[ThisPid].path # NoPath
    BY <2>1, ThisFile
  <2>3. Realpath \in Pid \X Path
    BY <2>2, RunningFacts
  <2>4. ASSUME NEW p \in Running, p = ThisPid \/ Known(p)
        PROVE  Known(p)'
    <3>1. CASE p = ThisPid
      <4>1. cache'[<<p, table[p].path>>] = meta[FileOf(table[p])]
        BY <2>1, <2>2, <2>3, <3>1 DEF TypeOK
      <4> QED
        BY <1>1, <4>1 DEF Known, FileOf
    <3>2. CASE p # ThisPid
      <4>1. ASSUME Whole(p) PROVE <<p, table[p].path>> \in Pid \X Path
        BY <4>1, RunningFacts DEF Whole
      <4>2. ASSUME Whole(p) PROVE cache'[<<p, table[p].path>>] = cache[<<p, table[p].path>>]
        BY <2>1, <2>2, <3>2, <4>1, <4>2 DEF TypeOK
      <4>3. Known(p)
        BY <2>4, <3>2
      <4> QED
        BY <1>1, <4>2, <4>3 DEF Known, FileOf, Whole
    <3> QED
      BY <3>1, <3>2
  <2>5. Running \ Left' = (Running \ Left) \cup {ThisPid}
    BY <2>1, <2>2, DoneFacts
  <2> QED
    BY <1>1, <1>2, <2>1, <2>2, <2>4, <2>5 DEF CacheRight
<1>13. ~BeginScan
  BY DEF BeginScan
<1> QED
  BY <1>5, <1>6, <1>7, <1>8, <1>9, <1>10, <1>11, <1>12, <1>13 DEF ScanStep

\* The values are read with the metadata that was known: the first process of
\* a file gets them, the others find that it was read.
LEMMA ReadInOrder ==
  ASSUME IInv, FilesDiffer, ListsRight, ReadingRight, ValuesRight,
         step = "cached", ReadData, At(meta) = held
  PROVE  data' = IF FirstOf(ThisPid) THEN [meta |-> held, values |-> held] ELSE NoData
<1> USE DEF IInv
<1> DEFINE me == FileOf(table[ThisPid])
<1>1. /\ queue # << >> /\ phase = "values" /\ ThisPid \in Running
      /\ me \in File /\ table[ThisPid].path # NoPath
      /\ At(meta) = meta[me] /\ At(values) = values[me]
  BY ThisFile
<1>2. held # 0 /\ values[me] = held /\ At(values) = held
  BY <1>1, ThisFile DEF StepOK
<1>3. /\ ThisPid \in Left /\ ThisPid \in Int
      /\ \A p \in Running \ Left : p < ThisPid
      /\ \A q \in Left \ {ThisPid} : ThisPid < q
      /\ \A q \in Running : q \in Int
  BY <1>1, HeadFacts, RunningFacts
<1>4. BeenAt = Running \ Left
  BY DEF BeenAt
<1>5. data' = IF held \in visited THEN NoData ELSE [meta |-> held, values |-> held]
  BY <1>2 DEF ReadData
<1>6. ASSUME held \in visited PROVE ~FirstOf(ThisPid)
  <2>1. PICK p \in Running \ Left : table[p].path # NoPath /\ held = values[FileOf(table[p])]
    BY <1>1, <1>4, <1>6 DEF ValuesRight
  <2>2. FileOf(table[p]) \in File
    BY <2>1, RunningFacts
  <2>3. FileOf(table[p]) = me
    BY <1>1, <1>2, <2>1, <2>2 DEF FilesDiffer
  <2> QED
    BY <1>3, <2>1, <2>3 DEF FirstOf
<1>7. ASSUME ~FirstOf(ThisPid) PROVE held \in visited
  <2>1. PICK o \in Running : o < ThisPid /\ FileOf(table[o]) = me
    BY <1>7 DEF FirstOf
  <2>2. o \in Running \ Left
    BY <1>3, <2>1
  <2>3. Whole(o)
    <3>1. table[o] \in Process /\ table[ThisPid] \in Process
      BY <1>1, RunningFacts
    <3>2. table[o].path # NoPath
      BY <1>1, <2>1, <3>1 DEF FileOf
    <3> QED
      BY <1>1, <1>2, <2>1, <3>2 DEF Whole
  <2> QED
    BY <1>1, <1>2, <1>4, <2>1, <2>2, <2>3 DEF ValuesRight
<1> QED
  BY <1>5, <1>6, <1>7

\* The files that were read, when this process is done with or looked at.
VisitedRight ==
    /\ \A v \in visited : \E p \in BeenAt :
          table[p].path # NoPath /\ v = values[FileOf(table[p])]
    /\ \A p \in BeenAt : Whole(p) => values[FileOf(table[p])] \in visited

\* .. and those that are reported.
FilesRight ==
    FromFiles = {Expected(p) : p \in {q \in Running \ Left : Whole(q) /\ FirstOf(q)}}

LEMMA FilesRightKept ==
  ASSUME FilesRight, UNCHANGED environment, tip' = tip, UNCHANGED queue
  PROVE  FilesRight'
<1>1. Left' = Left /\ FromFiles' = FromFiles
  BY DEF Left, FromFiles
<1> QED
  BY <1>1, ExpectedUnchanged DEF FilesRight

\* When a process is done: its file is added if it is whole and not that of
\* another before it.
LEMMA FilesRightDone ==
  ASSUME IInv, ListsRight, FilesRight, UNCHANGED environment,
         phase = "values", queue # << >>, Finished,
         FromFiles' = FromFiles \cup (IF Whole(ThisPid) /\ FirstOf(ThisPid)
                                      THEN {Expected(ThisPid)} ELSE {})
  PROVE  FilesRight'
<1>1. Running \ Left' = (Running \ Left) \cup {ThisPid} /\ ThisPid \in Running
  BY DoneFacts, HeadFacts DEF IInv
<1>2. /\ Running' = Running
      /\ \A p \in Running : /\ Whole(p)' = Whole(p) /\ FirstOf(p)' = FirstOf(p)
                            /\ Expected(p)' = Expected(p)
  BY ExpectedUnchanged
<1> DEFINE E(S) == {Expected(p) : p \in {q \in S : Whole(q) /\ FirstOf(q)}}
<1>3. FromFiles' = E(Running \ Left')
  BY <1>1 DEF FilesRight
<1>4. {Expected(p)' : p \in {q \in Running' \ Left' : Whole(q)' /\ FirstOf(q)'}}
        = E(Running \ Left')
  BY <1>1, <1>2
<1> QED
  BY <1>3, <1>4 DEF FilesRight

LEMMA VisitedKept ==
  ASSUME VisitedRight, UNCHANGED environment, visited' = visited, BeenAt' = BeenAt
  PROVE  VisitedRight'
  BY DEF VisitedRight, environment, Whole, FileOf

LEMMA ValuesRightStep ==
  ASSUME IInv, IInv', ListsOK, FilesDiffer, ListsRight, ReadingRight, ReadingRight',
         CacheRight, ValuesRight, ScanStep, phase # "idle", calm = 2
  PROVE  ValuesRight'
<1> USE DEF IInv
<1>1. /\ Running' = Running /\ table' = table /\ meta' = meta /\ values' = values
      /\ UNCHANGED environment
      /\ \A p \in Running : /\ Whole(p)' = Whole(p) /\ FirstOf(p)' = FirstOf(p)
                            /\ Expected(p)' = Expected(p)
  BY ScanStepUnchanged, ExpectedUnchanged DEF environment
<1>2. phase # "values" => step = "next"
  BY DEF StepOK
<1>3. phase = "values" => VisitedRight /\ FilesRight
  BY DEF ValuesRight, VisitedRight, FilesRight
<1>4. CASE VisitDir \/ ListProc \/ (\E p \in Pid : ReadProcess(p))
  <2>1. phase' \notin {"values", "idle"} /\ step' = "next"
    BY <1>2, <1>4 DEF VisitDir, ListProc, ReadProcess, reading
  <2> QED
    BY <2>1 DEF ValuesRight
<1>5. CASE WriteTip
  <2>1. /\ processes = Running /\ processes \in SUBSET Pid /\ queue' \in InOrder(processes)
        /\ visited' = {} /\ step' = "next"
        /\ tip' = {ProcessMetrics(p, cgroups[p]) : p \in processes}
    BY <1>2, <1>5 DEF WriteTip, ListsRight, ListsOK, TypeOK
  <2>2. Running' \ Left' = {} /\ BeenAt' = {}
    BY <1>1, <2>1, InOrderComplete DEF Left, BeenAt
  <2>3. FromFiles' = {}
    BY <2>1 DEF FromFiles, ProcessMetrics
  <2> QED
    BY <2>1, <2>2, <2>3 DEF ValuesRight
<1>6. CASE ReadEnviron
  <2>1. /\ phase = "values" /\ phase' = "values" /\ queue # << >> /\ step = "next"
        /\ UNCHANGED <<visited, tip>>
    BY <1>6 DEF ReadEnviron
  <2>2. ThisPid \in Running /\ table[ThisPid] # NoProcess
    BY <2>1, HeadFacts DEF Running
  <2>3. BeenAt = Running \ Left
    BY <2>1 DEF BeenAt
  <2>4. CASE table[ThisPid].path = NoPath
    <3>1. Finished /\ ~Whole(ThisPid)
      BY <1>6, <2>4 DEF ReadEnviron, Whole
    <3>2. Running \ Left' = (Running \ Left) \cup {ThisPid} /\ step' = "next"
      BY <2>1, <3>1, DoneFacts DEF Finished
    <3>3. BeenAt' = BeenAt \cup {ThisPid}
      BY <1>1, <2>3, <3>2 DEF BeenAt
    <3>4. VisitedRight'
      BY <1>1, <1>3, <2>1, <3>1, <3>3 DEF VisitedRight, Whole, FileOf
    <3>5. FilesRight'
      <4>1. FromFiles' = FromFiles
        BY <2>1 DEF FromFiles
      <4> QED
        BY <1>1, <1>3, <2>1, <3>1, <4>1, FilesRightDone
    <3> QED
      BY <3>2, <3>4, <3>5 DEF ValuesRight, VisitedRight, FilesRight
  <2>5. CASE table[ThisPid].path # NoPath
    <3>1. /\ UNCHANGED <<queue>> /\ path' = table[ThisPid].path
          /\ held' = cache[<<ThisPid, path'>>]
          /\ step' = IF held' # 0 THEN "cached" ELSE "meta"
      BY <1>6, <2>2, <2>5 DEF ReadEnviron
    <3>2. Left' = Left /\ ThisPid' = ThisPid
      BY <3>1 DEF Left, ThisPid
    <3>3. At(meta)' = meta[FileOf(table[ThisPid])]
      BY <1>1, <2>2, <3>1, <3>2 DEF At, FileOf, ThisPid
    <3>4. Known(ThisPid)
      BY <2>2 DEF CacheRight
    <3>5. step' = "meta" => ~Whole(ThisPid) /\ At(meta)' = 0
      BY <2>5, <3>1, <3>3, <3>4 DEF Known, Whole
    <3>6. BeenAt' = BeenAt \cup (IF step' = "meta" THEN {ThisPid} ELSE {})
      BY <1>1, <2>3, <3>1, <3>2 DEF BeenAt
    <3>7. VisitedRight'
      BY <1>1, <1>3, <2>1, <3>5, <3>6 DEF VisitedRight, Whole, FileOf
    <3>8. FilesRight'
      BY <1>1, <1>3, <2>1, <3>1, FilesRightKept
    <3> QED
      BY <3>1, <3>5, <3>7, <3>8 DEF ValuesRight, VisitedRight, FilesRight
  <2> QED
    BY <2>4, <2>5
<1>7. CASE ReadCached
  <2>1. /\ phase = "values" /\ phase' = "values" /\ step = "cached" /\ step' = "recheck"
        /\ ReadData /\ UNCHANGED <<queue, path, held, tip>>
    BY <1>7 DEF ReadCached
  <2>2. /\ ThisPid \in Running /\ path # NoPath /\ path = table[ThisPid].path
        /\ At(values) = values[FileOf(table[ThisPid])]
        /\ Whole(ThisPid) => At(values) # 0
    BY <2>1, ThisFile
  <2>3. Left' = Left /\ ThisPid' = ThisPid /\ At(meta)' = At(meta)
    BY <1>1, <2>1 DEF Left, ThisPid, At
  <2>4. BeenAt' = BeenAt \cup {ThisPid} /\ BeenAt = Running \ Left
    BY <1>1, <2>1, <2>3 DEF BeenAt
  <2>5. VisitedRight'
    <3>1. visited' = visited \cup ({At(values)} \ {0})
      BY <2>1 DEF ReadData
    <3> QED
      BY <1>1, <1>3, <2>1, <2>2, <2>4, <3>1 DEF VisitedRight, Whole, FileOf
  <2>6. FilesRight'
    BY <1>1, <1>3, <2>1, FilesRightKept
  <2>7. At(meta)' = held' => data' = IF FirstOf(ThisPid)
                                     THEN [meta |-> held, values |-> held] ELSE NoData
    BY <2>1, <2>3, ReadInOrder
  <2>8. FirstOf(ThisPid)' = FirstOf(ThisPid)
    BY <1>1, <2>3 DEF FirstOf
  <2> QED
    BY <2>1, <2>3, <2>5, <2>6, <2>7, <2>8 DEF ValuesRight, VisitedRight, FilesRight
<1>8. CASE Recheck
  <2>1. /\ phase = "values" /\ phase' = "values" /\ step = "recheck" /\ visited' = visited
    BY <1>8 DEF Recheck
  <2>2. /\ ThisPid \in Running /\ queue # << >> /\ path = table[ThisPid].path
        /\ At(meta) = meta[FileOf(table[ThisPid])]
        /\ (Whole(ThisPid) <=> At(meta) # 0) /\ (At(meta) # 0 => At(meta) = At(values))
        /\ At(values) = values[FileOf(table[ThisPid])]
        /\ held = cache[Realpath] /\ Realpath = <<ThisPid, table[ThisPid].path>> /\ held # 0
    BY <2>1, ThisFile DEF ReadingRight, StepOK
  <2>3. BeenAt = (Running \ Left) \cup {ThisPid}
    BY <2>1 DEF BeenAt
  <2>4. CASE At(meta) = held
    <3>1. Publish(data) /\ Finished
      BY <1>8, <2>4 DEF Recheck
    <3>2. /\ Running \ Left' = (Running \ Left) \cup {ThisPid} /\ step' = "next"
      BY <2>1, <2>2, <3>1, DoneFacts DEF Finished
    <3>3. BeenAt' = BeenAt
      BY <1>1, <2>3, <3>2 DEF BeenAt
    <3>4. VisitedRight'
      BY <1>1, <1>3, <2>1, <3>3, VisitedKept
    <3>5. data = IF FirstOf(ThisPid) THEN [meta |-> held, values |-> held] ELSE NoData
      BY <2>1, <2>4 DEF ValuesRight
    <3>6. cgroups[ThisPid] = VisitedGroup(table[ThisPid].dir)
      BY <2>1, <2>2 DEF ListsRight, ListsOK, GroupSoFar, VisitedGroup
    <3>7. Whole(ThisPid) /\ Expected(ThisPid) =
              ValueMetrics(ThisPid, cgroups[ThisPid], [meta |-> held, values |-> held])
      BY <2>2, <2>4, <3>6 DEF Expected
    <3>8. [meta |-> held, values |-> held] # NoData
      BY <2>2 DEF NoData
    <3>9. FromFiles' = FromFiles \cup (IF Whole(ThisPid) /\ FirstOf(ThisPid)
                                       THEN {Expected(ThisPid)} ELSE {})
      <4>1. CASE FirstOf(ThisPid)
        <5>1. tip' = tip \cup {Expected(ThisPid)} /\ Expected(ThisPid).read # NoData
          BY <3>1, <3>5, <3>7, <3>8, <4>1 DEF Publish, ValueMetrics
        <5> QED
          BY <3>7, <4>1, <5>1 DEF FromFiles
      <4>2. CASE ~FirstOf(ThisPid)
        BY <3>1, <3>5, <4>2 DEF Publish, FromFiles
      <4> QED
        BY <4>1, <4>2
    <3>10. FilesRight'
      BY <1>1, <1>3, <2>1, <2>2, <3>1, <3>9, FilesRightDone
    <3> QED
      BY <3>2, <3>4, <3>10 DEF ValuesRight, VisitedRight, FilesRight
  <2>5. CASE At(meta) # held
    <3>1. step' = "meta" /\ UNCHANGED <<queue, path, tip>>
      BY <1>8, <2>5 DEF Recheck
    <3>2. Known(ThisPid)
      BY <2>2 DEF CacheRight
    <3>3. At(meta) = 0
      BY <2>2, <2>5, <3>2 DEF Known
    <3>4. At(meta)' = At(meta) /\ BeenAt' = BeenAt
      BY <1>1, <2>1, <3>1 DEF At, ThisPid, BeenAt, Left
    <3>5. VisitedRight'
      BY <1>1, <1>3, <2>1, <3>4, VisitedKept
    <3>6. FilesRight'
      BY <1>1, <1>3, <2>1, <3>1, FilesRightKept
    <3> QED
      BY <3>1, <3>3, <3>4, <3>5, <3>6 DEF ValuesRight, VisitedRight, FilesRight
  <2> QED
    BY <2>4, <2>5
<1>9. CASE ReadMeta
  <2>1. /\ phase = "values" /\ phase' = "values" /\ step = "meta" /\ visited' = visited
        /\ tip' = tip /\ At(meta) = 0 /\ Finished
    BY <1>9 DEF ReadMeta, ValuesRight
  <2>2. ThisPid \in Running /\ queue # << >> /\ ~Whole(ThisPid)
    BY <2>1, ThisFile
  <2>3. Running \ Left' = (Running \ Left) \cup {ThisPid} /\ step' = "next"
    BY <2>1, <2>2, DoneFacts DEF Finished
  <2>4. BeenAt' = BeenAt
    BY <1>1, <2>1, <2>3 DEF BeenAt
  <2>5. VisitedRight'
    BY <1>1, <1>3, <2>1, <2>4, VisitedKept
  <2>6. FilesRight'
    <3>1. FromFiles' = FromFiles
      BY <2>1 DEF FromFiles
    <3> QED
      BY <1>1, <1>3, <2>1, <2>2, <3>1, FilesRightDone
  <2> QED
    BY <2>3, <2>5, <2>6 DEF ValuesRight, VisitedRight, FilesRight
<1>10. CASE EndScan
  <2>1. /\ phase = "values" /\ phase' = "idle" /\ step' = "next" /\ UNCHANGED <<queue, tip>>
    BY <1>10 DEF EndScan, reading, StepOK
  <2>2. FilesRight'
    BY <1>1, <1>3, <2>1, FilesRightKept
  <2> QED
    BY <2>1, <2>2 DEF ValuesRight, FilesRight
<1>11. ~BeginScan /\ ~ReadNew /\ ~Check
  BY DEF BeginScan, ReadNew, Check, ValuesRight
<1> QED
  BY <1>4, <1>5, <1>6, <1>7, <1>8, <1>9, <1>10, <1>11 DEF ScanStep

\* A scan begins with nothing read, and with the metadata the scan before found.
LEMMA CalmBegin ==
  ASSUME CalmInv, IInv', ListsOK', FilesDiffer', BeginScan
  PROVE  CalmInv'
<1>1. /\ phase = "idle" /\ phase' = "cgroups" /\ walk' = 0
      /\ cgroups' = [p \in Pid |-> NoGroup]
      /\ UNCHANGED <<environment, queue, step, cache>>
      /\ calm' = IF calm < 2 THEN calm + 1 ELSE calm
  BY DEF BeginScan, reading
<1>2. Left = {} /\ Left' = {} /\ queue = << >> /\ step' = "next"
  BY <1>1 DEF CalmInv, IInv, StepOK, Left
<1>3. Running' = Running /\ table' = table /\ meta' = meta
  BY <1>1, ExpectedUnchanged DEF environment
<1>4. ListsRight'
  <2>1. \A d : GroupSoFar(d)' = NoGroup
    BY <1>1 DEF GroupSoFar
  <2>2. \A p \in Running' : cgroups'[p] = GroupSoFar(table[p].dir)'
    BY <1>1, <1>3, <2>1 DEF Running
  <2> QED
    BY <1>1, <1>2, <1>3, <2>2 DEF ListsRight
<1>5. ReadingRight'
  BY <1>2 DEF ReadingRight
<1>6. CacheRight'
  <2>1. calm' = 2 => calm >= 1 /\ calm \in {1, 2}
    BY <1>1 DEF CalmInv, IInv, TypeOK
  <2>2. calm' = 2 => \A p \in Running : Known(p)
    BY <1>1, <1>2, <2>1 DEF CalmInv, CacheRight
  <2>3. \A p \in Running : Known(p)' = Known(p)
    BY <1>1, <1>3 DEF Known, Whole, FileOf
  <2> QED
    BY <1>1, <1>3, <2>2, <2>3 DEF CacheRight
<1>7. ValuesRight'
  BY <1>1, <1>2 DEF ValuesRight
<1> QED
  BY <1>4, <1>5, <1>6, <1>7 DEF CalmInv

LEMMA CalmInductive == CalmInv /\ [Next]_vars => CalmInv'
<1> SUFFICES ASSUME CalmInv, [Next]_vars PROVE CalmInv'
  OBVIOUS
<1>1. IInv /\ IInv' /\ ListsOK /\ ListsOK'
  BY Inductive, ListsOKStep DEF CalmInv
<1>2. CASE Environment
  <2>1. FilesDiffer' /\ calm' = 0
    BY <1>1, <1>2, FilesDifferStep DEF CalmInv, IInv, Environment
  <2> QED
    BY <1>1, <2>1 DEF CalmInv
<1>3. CASE BeginScan
  <2>1. FilesDiffer'
    BY <1>3 DEF BeginScan, environment, CalmInv, FilesDiffer
  <2> QED
    BY <1>1, <1>3, <2>1, CalmBegin
<1>4. CASE ScanStep /\ ~BeginScan
  <2>1. calm' = calm /\ phase # "idle"
    BY <1>4 DEF ScanStep, VisitDir, ListProc, ReadProcess, WriteTip, ReadEnviron,
                ReadCached, Recheck, ReadMeta, ReadNew, Check, EndScan
  <2>2. FilesDiffer'
    BY <1>4, ScanStepUnchanged DEF environment, CalmInv, FilesDiffer
  <2>3. ASSUME calm >= 1 PROVE ListsRight' /\ ReadingRight' /\ CacheRight'
    <3>1. ListsRight /\ ReadingRight /\ CacheRight
      BY <2>3 DEF CalmInv
    <3> QED
      BY <1>1, <1>4, <2>1, <3>1, ListsRightStep, ReadingRightStep, CacheRightStep
  <2>4. ASSUME calm = 2 PROVE ValuesRight'
    <3>1. ListsRight /\ ReadingRight /\ CacheRight /\ ValuesRight /\ FilesDiffer
      BY <2>4 DEF CalmInv
    <3>2. ReadingRight'
      BY <2>3, <2>4
    <3> QED
      BY <1>1, <1>4, <2>1, <2>4, <3>1, <3>2, ValuesRightStep
  <2> QED
    BY <1>1, <2>1, <2>2, <2>3, <2>4 DEF CalmInv
<1>5. CASE UNCHANGED vars
  <2>1. UNCHANGED <<table, meta, values, starts, phase, cgroups, walk, pids, processes, queue,
                    step, path, held, data, cache, visited, tip, calm>>
    BY <1>5 DEF vars, environment, listing, reading
  <2>2. UNCHANGED environment
    BY <1>5 DEF vars
  <2>3. FilesDiffer'
    BY <2>1 DEF CalmInv, FilesDiffer
  <2>4. ListsRight => ListsRight'
    BY <2>1, <2>2, ExpectedUnchanged DEF ListsRight, GroupSoFar, FromFiles, Left
  <2>5. ReadingRight => ReadingRight'
    BY <2>1 DEF ReadingRight, ThisPid, Realpath, At
  <2>6. CacheRight => CacheRight'
    BY <2>1 DEF CacheRight, Known, Whole, FileOf, Running, Left
  <2>7. ValuesRight => ValuesRight'
    <3>1. /\ BeenAt' = BeenAt /\ At(meta)' = At(meta) /\ ThisPid' = ThisPid
          /\ FirstOf(ThisPid)' = FirstOf(ThisPid)
      BY <2>1 DEF BeenAt, At, ThisPid, FirstOf, Running, Left, FileOf
    <3>2. VisitedRight => VisitedRight'
      BY <2>1, <2>2, <3>1, VisitedKept
    <3>3. FilesRight => FilesRight'
      BY <2>1, <2>2, FilesRightKept
    <3> QED
      BY <2>1, <3>1, <3>2, <3>3 DEF ValuesRight, VisitedRight, FilesRight
  <2> QED
    BY <1>1, <2>1, <2>3, <2>4, <2>5, <2>6, <2>7 DEF CalmInv
<1> QED
  BY <1>2, <1>3, <1>4, <1>5 DEF Next, ScanStep

\* A scan while nothing changes has every process, with its control group; the
\* second in a row has every file of metrics that is whole, of the first process
\* that shows it (cgroups::read, processes::write_tip and values::read together).
THEOREM ReportedRight == Spec => []Reported
<1>1. CalmInv => Reported
  <2> SUFFICES ASSUME CalmInv PROVE Reported
    OBVIOUS
  <2>1. calm \in 0 .. 2 /\ (phase = "idle" => Left = {})
    BY DEF CalmInv, IInv, TypeOK, StepOK, Left
  <2>2. phase = "idle" /\ calm >= 1 => tip \ FromFiles = ExpectedProcesses
    BY DEF CalmInv, ListsRight
  <2>3. phase = "idle" /\ calm = 2 => FromFiles = ExpectedValues
    <3> SUFFICES ASSUME phase = "idle", calm = 2 PROVE FromFiles = ExpectedValues
      OBVIOUS
    <3>1. FromFiles = {Expected(p) : p \in {q \in Running : Whole(q) /\ FirstOf(q)}}
      BY <2>1 DEF CalmInv, ValuesRight
    <3> QED
      BY <3>1 DEF ExpectedValues, Expected, FirstOf
  <2> QED
    BY <2>2, <2>3 DEF Reported
<1> QED
  BY InitCalmInv, CalmInductive, <1>1, PTL DEF Spec

=============================================================================
