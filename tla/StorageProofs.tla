--------------------------- MODULE StorageProofs ---------------------------
(***************************************************************************)
(* Proofs about Storage, for any number of histories, peer lists, hours,   *)
(* failures and kills: nothing torn is read, no wake-up is lost, files go  *)
(* forward, the newest buffers get to the disk, and the files implement    *)
(* the register of SnapshotStore.                                          *)
(***************************************************************************)
EXTENDS Storage, TLAPS

USE DEF handed, items, thread, files, Goto

-----------------------------------------------------------------------------
(* The type invariant                                                      *)

\* What the constants are.
LEMMA Constants ==
    /\ StartHour \in Nat /\ MaxHour \in Nat /\ KeepHours \in Nat /\ Wrap \in Nat
    /\ StartHour <= MaxHour /\ MaxHour + KeepHours < Wrap
    /\ Hours \subseteq Nat /\ \A h : h \in Hours <=> h \in Nat /\ StartHour <= h /\ h <= MaxHour
BY StorageAssumption DEF Hours

\* Files and links, and that they are not Nothing.
LEMMA FileType ==
    /\ \A buf \in MetricBuffer, whole \in BOOLEAN :
          FileOf(buf, whole) \in File(MetricBuffer) /\ FileOf(buf, whole) # Nothing
    /\ \A buf \in PeersBuffer, whole \in BOOLEAN :
          FileOf(buf, whole) \in File(PeersBuffer) /\ FileOf(buf, whole) # Nothing
    /\ \A h \in Hours : LinkTo(h) \in Symlink /\ LinkTo(h) # Nothing
BY NothingAssumption DEF FileOf, File, LinkTo, Symlink

\* The next hour a history is of, once it is being stored.
LEMMA TaskHour ==
    ASSUME IInv, pc \in StoringMetrics
    PROVE  task \in MetricBuffer /\ task.hour \in Hours
<1>1. task \in MetricBuffer /\ task.hour \in StartHour..hour /\ hour \in Hours
  BY DEF IInv, TypeOK, TaskOK, HistoriesOK
<1> QED BY <1>1, Constants DEF MetricBuffer

LEMMA InitInv == Init => IInv
<1> SUFFICES ASSUME Init PROVE IInv
  OBVIOUS
<1>1. StartHour \in Hours
  BY Constants
<1>2. TypeOK
  BY <1>1 DEF Init, TypeOK
<1>3. NoLostWakeup /\ TaskOK /\ PeersOK
  BY DEF Init, NoLostWakeup, TaskOK, PeersOK, StoringMetrics, StoringPeers
<1>4. HistoriesOK /\ OneAnHour
  BY Constants DEF Init, HistoriesOK, OneAnHour, Before, StoringMetrics
<1> QED BY <1>2, <1>3, <1>4 DEF IInv

LEMMA TypeStep == IInv /\ [Next]_vars => TypeOK'
<1> SUFFICES ASSUME IInv, [Next]_vars PROVE TypeOK'
  OBVIOUS
<1> USE DEF TypeOK
<1>0. TypeOK
  BY DEF IInv
<1>1. CASE StoreMetrics
  <2> DEFINE new_hour == HourlySnapshots /\ hour > last_hourly
  <2>1. new_hour \in BOOLEAN
    BY StorageAssumption
  <2>2. [data |-> last_history + 1, hour |-> hour, snapshot |-> new_hour] \in MetricBuffer
    BY <1>0, <2>1, Constants DEF MetricBuffer
  <2> QED BY <1>0, <1>1, <2>2 DEF StoreMetrics, Notify
<1>2. CASE StorePeers
  BY <1>0, <1>2 DEF StorePeers, Notify, PeersBuffer
<1>3. CASE TakePeers \/ TakeMetrics \/ Wait
  BY <1>0, <1>3 DEF TakePeers, TakeMetrics, Wait
<1>4. CASE Create
  <2>1. FileOf(task, FALSE) \in File(MetricBuffer)
    BY <1>4, TaskHour, FileType DEF Create, StoringMetrics
  <2> QED BY <1>0, <1>4, <2>1 DEF Create
<1>5. CASE Write
  <2>1. FileOf(task, TRUE) \in File(MetricBuffer)
    BY <1>5, TaskHour, FileType DEF Write, StoringMetrics
  <2> QED BY <1>0, <1>5, <2>1 DEF Write
<1>6. CASE Link
  <2>1. LinkTo(task.hour) \in Symlink
    BY <1>6, TaskHour, FileType DEF Link, StoringMetrics
  <2> QED BY <1>0, <1>6, <2>1 DEF Link
<1>7. CASE RenameData
  <2>1. task.hour \in Hours
    BY <1>7, TaskHour DEF RenameData, StoringMetrics
  <2> QED BY <1>0, <1>7, <2>1 DEF RenameData
<1>8. CASE RenameLink \/ Rename \/ RemoveOld \/ CleanedUp
  BY <1>0, <1>8 DEF RenameLink, Rename, RemoveOld, CleanedUp
<1>9. CASE CreatePeers \/ WritePeers
  <2>1. FileOf(task, FALSE) \in File(PeersBuffer) /\ FileOf(task, TRUE) \in File(PeersBuffer)
    BY <1>9, FileType DEF CreatePeers, WritePeers, IInv, TaskOK, StoringPeers
  <2> QED BY <1>0, <1>9, <2>1 DEF CreatePeers, WritePeers
<1>10. CASE RenamePeers
  BY <1>0, <1>10 DEF RenamePeers
<1>11. CASE Fail \/ Crash \/ Restart
  BY <1>0, <1>11 DEF Fail, Crash, Restart
<1>12. CASE HourPasses
  BY <1>0, <1>12, Constants DEF HourPasses
<1>13. CASE UNCHANGED vars
  BY <1>0, <1>13 DEF vars
<1> QED
  BY <1>1, <1>2, <1>3, <1>4, <1>5, <1>6, <1>7, <1>8, <1>9, <1>10, <1>11, <1>12, <1>13
  DEF Next, StoreStep

\* The thread does not go to sleep on a buffer, and is woken by one.
LEMMA WakeupStep == IInv /\ [Next]_vars => NoLostWakeup'
<1> SUFFICES ASSUME IInv, [Next]_vars PROVE NoLostWakeup'
  OBVIOUS
<1> USE DEF NoLostWakeup
<1>0. NoLostWakeup
  BY DEF IInv
<1>1. CASE StoreMetrics \/ StorePeers
  BY <1>1 DEF StoreMetrics, StorePeers, Notify
<1>2. CASE TakePeers \/ TakeMetrics \/ Wait
  BY <1>2 DEF TakePeers, TakeMetrics, Wait
<1>3. CASE StoreStep /\ ~(TakePeers \/ TakeMetrics \/ Wait)
  BY <1>3
  DEF StoreStep, Create, Write, Link, RenameData, RenameLink, Rename, RemoveOld, CleanedUp,
      CreatePeers, WritePeers, RenamePeers
<1>4. CASE Fail \/ Crash \/ Restart
  BY <1>4 DEF Fail, Crash, Restart
<1>5. CASE HourPasses \/ UNCHANGED vars
  BY <1>0, <1>5 DEF HourPasses, vars
<1> QED BY <1>1, <1>2, <1>3, <1>4, <1>5 DEF Next, StoreStep

-----------------------------------------------------------------------------
(* The other parts of the inductive invariant                              *)

\* What the thread works at.
LEMMA TaskStep == IInv /\ [Next]_vars => TaskOK'
<1> SUFFICES ASSUME IInv, [Next]_vars PROVE TaskOK'
  OBVIOUS
<1> USE DEF TaskOK, StoringMetrics, StoringPeers
<1>0. TaskOK /\ pc \in StoringMetrics \cup StoringPeers \cup {"get", "wait", "clean_up", "down"}
      /\ metrics \in MetricBuffer \cup {Nothing} /\ peers \in PeersBuffer \cup {Nothing}
  BY DEF IInv, TypeOK
<1>1. CASE StoreMetrics
  BY <1>0, <1>1 DEF StoreMetrics, Notify
<1>2. CASE StorePeers
  BY <1>0, <1>2 DEF StorePeers, Notify
<1>3. CASE TakePeers \/ TakeMetrics \/ Wait
  BY <1>0, <1>3 DEF TakePeers, TakeMetrics, Wait
<1>4. CASE Create \/ Write \/ Link
  BY <1>0, <1>4 DEF Create, Write, Link
<1>5. CASE RenameData
  <2>1. task.hour \in Hours /\ hourly \in [Hours -> File(MetricBuffer) \cup {Nothing}]
    BY <1>5, TaskHour DEF RenameData, IInv, TypeOK
  <2> QED BY <1>0, <1>5, <2>1 DEF RenameData
<1>6. CASE RenameLink \/ Rename \/ RemoveOld \/ CleanedUp
  BY <1>0, <1>6 DEF RenameLink, Rename, RemoveOld, CleanedUp
<1>7. CASE CreatePeers \/ WritePeers \/ RenamePeers
  BY <1>0, <1>7 DEF CreatePeers, WritePeers, RenamePeers
<1>8. CASE Fail
  BY <1>0, <1>8 DEF Fail
<1>9. CASE Crash \/ Restart
  BY <1>0, <1>9 DEF Crash, Restart
<1>10. CASE HourPasses \/ UNCHANGED vars
  BY <1>0, <1>10 DEF HourPasses, vars
<1> QED
  BY <1>1, <1>2, <1>3, <1>4, <1>5, <1>6, <1>7, <1>8, <1>9, <1>10 DEF Next, StoreStep

\* Histories on their way, and on the disk.
LEMMA HistoriesStep == IInv /\ [Next]_vars => HistoriesOK'
<1> SUFFICES ASSUME IInv, [Next]_vars PROVE HistoriesOK'
  OBVIOUS
<1> USE DEF HistoriesOK
<1>0. HistoriesOK /\ TaskOK /\ TypeOK
  BY DEF IInv
<1>1. CASE StoreMetrics
  <2>1. /\ metrics'.data = last_history + 1 /\ metrics'.hour = hour /\ last_history \in Nat
        /\ last_history' = last_history + 1
        /\ pc' \in StoringMetrics => pc \in StoringMetrics
        /\ UNCHANGED <<hour, task, current, hourly>>
    BY <1>0, <1>1 DEF StoreMetrics, Notify, StoringMetrics, TypeOK
  <2>2. hour \in StartHour..hour
    BY <1>0, Constants DEF TypeOK
  <2>3. pc \in StoringMetrics => task.data \in Nat
    BY TaskHour DEF MetricBuffer
  <2>4. /\ current # Nothing /\ current.type = "file" => current.buf.data \in Nat
        /\ \A h \in Hours : hourly[h] # Nothing => hourly[h].buf.data \in Nat
    BY <1>0 DEF TypeOK, File, Symlink, MetricBuffer
  <2> QED BY <1>0, <2>1, <2>2, <2>3, <2>4
<1>2. CASE StorePeers
  BY <1>0, <1>2 DEF StorePeers, Notify, StoringMetrics
<1>3. CASE TakePeers \/ TakeMetrics \/ Wait
  BY <1>0, <1>3 DEF TakePeers, TakeMetrics, Wait, StoringMetrics
<1>4. CASE Create \/ Write \/ Link
  BY <1>0, <1>4 DEF Create, Write, Link, StoringMetrics
<1>5. CASE RenameData
  <2>1. task.hour \in Hours /\ hourly' = [hourly EXCEPT ![task.hour] = tmp]
        /\ tmp = FileOf(task, TRUE) /\ hourly \in [Hours -> File(MetricBuffer) \cup {Nothing}]
    BY <1>0, <1>5, TaskHour DEF RenameData, TaskOK, TypeOK, StoringMetrics
  <2>2. UNCHANGED <<hour, last_history, metrics, task, current>> /\ pc \in StoringMetrics
    BY <1>5 DEF RenameData, StoringMetrics
  <2>3. \A h \in Hours : hourly'[h] = IF h = task.hour THEN FileOf(task, TRUE) ELSE hourly[h]
    BY <2>1
  <2> QED BY <1>0, <2>2, <2>3 DEF FileOf
<1>6. CASE RenameLink
  <2>1. current' = LinkTo(task.hour) /\ UNCHANGED <<hour, last_history, metrics, task, hourly>>
        /\ pc' = "clean_up"
    BY <1>0, <1>6 DEF RenameLink, TaskOK
  <2> QED BY <1>0, <2>1 DEF LinkTo, StoringMetrics
<1>7. CASE Rename
  <2>1. current' = FileOf(task, TRUE) /\ UNCHANGED <<hour, last_history, metrics, task, hourly>>
        /\ pc' = "clean_up" /\ pc \in StoringMetrics
    BY <1>0, <1>7 DEF Rename, TaskOK, StoringMetrics
  <2> QED BY <1>0, <2>1 DEF FileOf, StoringMetrics
<1>8. CASE RemoveOld
  <2>1. PICK g \in Hours : hourly' = [hourly EXCEPT ![g] = Nothing]
    BY <1>8 DEF RemoveOld
  <2>2. \A h \in Hours : hourly'[h] = IF h = g THEN Nothing ELSE hourly[h]
    BY <1>0, <2>1 DEF TypeOK
  <2> QED BY <1>0, <1>8, <2>2 DEF RemoveOld, StoringMetrics
<1>9. CASE CleanedUp \/ CreatePeers \/ WritePeers \/ RenamePeers
  BY <1>0, <1>9 DEF CleanedUp, CreatePeers, WritePeers, RenamePeers, StoringMetrics
<1>10. CASE Fail \/ Crash \/ Restart
  BY <1>0, <1>10 DEF Fail, Crash, Restart, StoringMetrics
<1>11. CASE HourPasses
  <2>1. hour \in Nat /\ hour' = hour + 1
        /\ UNCHANGED <<last_history, metrics, pc, task, current, hourly>>
    BY <1>0, <1>11, Constants DEF HourPasses, TypeOK
  <2>2. \A h \in StartHour..hour : h \in StartHour..hour'
    BY <2>1, Constants
  <2> QED BY <1>0, <2>1, <2>2
<1>12. CASE UNCHANGED vars
  BY <1>0, <1>12 DEF vars
<1> QED
  BY <1>1, <1>2, <1>3, <1>4, <1>5, <1>6, <1>7, <1>8, <1>9, <1>10, <1>11, <1>12
  DEF Next, StoreStep

\* Peer lists on their way, and on the disk.
LEMMA PeersStep == IInv /\ [Next]_vars => PeersOK'
<1> SUFFICES ASSUME IInv, [Next]_vars PROVE PeersOK'
  OBVIOUS
<1> USE DEF PeersOK, StoringPeers
<1>0. PeersOK /\ TaskOK /\ TypeOK
  BY DEF IInv
<1>1. CASE StorePeers
  <2>1. /\ peers'.data = last_peers + 1 /\ last_peers' = last_peers + 1 /\ last_peers \in Nat
        /\ pc' \in StoringPeers => pc \in StoringPeers
        /\ UNCHANGED <<task, peers_json>>
    BY <1>0, <1>1 DEF StorePeers, Notify, TypeOK
  <2>2. /\ pc \in StoringPeers => task.data \in Nat
        /\ peers_json # Nothing => peers_json.buf.data \in Nat
    BY <1>0 DEF TaskOK, TypeOK, PeersBuffer, File
  <2> QED BY <1>0, <2>1, <2>2
<1>2. CASE StoreMetrics
  BY <1>0, <1>2 DEF StoreMetrics, Notify
<1>3. CASE TakePeers \/ TakeMetrics \/ Wait
  BY <1>0, <1>3 DEF TakePeers, TakeMetrics, Wait
<1>4. CASE Create \/ Write \/ Link \/ RenameData \/ RenameLink \/ Rename \/ RemoveOld \/ CleanedUp
  BY <1>0, <1>4
  DEF Create, Write, Link, RenameData, RenameLink, Rename, RemoveOld, CleanedUp
<1>5. CASE CreatePeers \/ WritePeers
  BY <1>0, <1>5 DEF CreatePeers, WritePeers
<1>6. CASE RenamePeers
  <2>1. peers_json' = FileOf(task, TRUE) /\ pc' = "get" /\ pc \in StoringPeers
        /\ UNCHANGED <<last_peers, peers>>
    BY <1>0, <1>6 DEF RenamePeers, TaskOK
  <2> QED BY <1>0, <2>1 DEF FileOf
<1>7. CASE Fail \/ Crash \/ Restart
  BY <1>0, <1>7 DEF Fail, Crash, Restart
<1>8. CASE HourPasses \/ UNCHANGED vars
  BY <1>0, <1>8 DEF HourPasses, vars
<1> QED BY <1>1, <1>2, <1>3, <1>4, <1>5, <1>6, <1>7, <1>8 DEF Next, StoreStep

\* What is before an hour is before later ones.
LEMMA BeforeLater ==
    ASSUME TypeOK, NEW h \in Nat, NEW i \in Nat, h <= i, Before(h)
    PROVE  Before(i)
<1>1. \A g \in Hours : g \in Nat
  BY Constants
<1>2. current # Nothing /\ current.type = "link" => current.to \in Nat
  BY Constants DEF TypeOK, File, Symlink
<1> QED BY <1>1, <1>2 DEF Before

\* There is one snapshot of an hour.
LEMMA OneAnHourStep == IInv /\ [Next]_vars => OneAnHour'
<1> SUFFICES ASSUME IInv, [Next]_vars PROVE OneAnHour'
  OBVIOUS
<1> USE DEF OneAnHour, StoringMetrics
<1>0. OneAnHour /\ TaskOK /\ TypeOK /\ hour \in Nat /\ last_hourly \in Nat /\ start_hour \in Nat
  BY Constants DEF IInv, TypeOK
<1>a. pc \in StoringMetrics => task.hour \in Nat
  BY TaskHour, Constants
<1>b. metrics # Nothing => metrics.hour \in Nat
  BY <1>0 DEF TypeOK, MetricBuffer
<1>1. CASE StoreMetrics
  <2>1. /\ pc' \in StoringMetrics => pc' = pc
        /\ UNCHANGED <<hour, task, start_hour, current, hourly>>
    BY <1>1 DEF StoreMetrics, Notify
  <2>2. CASE ~(HourlySnapshots /\ hour > last_hourly)
    <3>1. last_hourly' = last_hourly /\ metrics'.snapshot = FALSE
      BY <1>1, <2>2 DEF StoreMetrics
    <3> QED BY <1>0, <2>1, <3>1 DEF Before
  <2>3. CASE HourlySnapshots /\ hour > last_hourly
    <3>1. last_hourly' = hour /\ metrics'.hour = hour
      BY <1>1, <2>3 DEF StoreMetrics
    <3>2. Before(hour) /\ Before(hour + 1)
      BY <1>0, <2>3, BeforeLater
    <3>3. Before(last_hourly + 1)' /\ Before(metrics.hour)'
      BY <2>1, <3>1, <3>2 DEF Before
    <3> QED BY <1>0, <1>a, <2>1, <2>3, <3>1, <3>3 DEF Before
  <2> QED BY <2>2, <2>3
<1>2. CASE StorePeers
  BY <1>0, <1>2 DEF StorePeers, Notify, Before
<1>3. CASE TakeMetrics
  BY <1>0, <1>3 DEF TakeMetrics, Before
<1>4. CASE TakePeers \/ Wait
  BY <1>0, <1>4 DEF TakePeers, Wait, Before
<1>5. CASE Create \/ Write \/ Link
  BY <1>0, <1>5 DEF Create, Write, Link, Before
<1>6. CASE RenameData
  <2>1. /\ task.snapshot /\ pc = "rename_data" /\ pc' = "rename_link"
        /\ UNCHANGED <<hour, last_hourly, start_hour, metrics, task, current>>
    BY <1>0, <1>6 DEF RenameData, TaskOK
  <2>2. \A g \in Hours : hourly'[g] # Nothing => hourly[g] # Nothing \/ g = task.hour
    BY <1>0, <1>6 DEF RenameData, TypeOK
  <2>3. Before(last_hourly + 1)'
    <3>1. task.hour < last_hourly + 1
      BY <1>0, <1>a, <2>1
    <3> QED BY <1>0, <2>1, <2>2, <3>1 DEF Before
  <2>4. metrics # Nothing /\ metrics.snapshot => Before(metrics.hour)'
    BY <1>0, <2>1, <2>2 DEF Before
  <2> QED BY <1>0, <2>1, <2>3, <2>4
<1>7. CASE RenameLink
  <2>1. /\ task.snapshot /\ pc = "rename_link" /\ pc' = "clean_up" /\ current' = LinkTo(task.hour)
        /\ UNCHANGED <<hour, last_hourly, start_hour, metrics, task, hourly>>
    BY <1>0, <1>7 DEF RenameLink, TaskOK
  <2>2. Before(last_hourly + 1)'
    <3>1. task.hour < last_hourly + 1
      BY <1>0, <1>a, <2>1
    <3> QED BY <1>0, <2>1, <3>1 DEF Before, LinkTo
  <2>3. metrics # Nothing /\ metrics.snapshot => Before(metrics.hour)'
    BY <1>0, <2>1 DEF Before, LinkTo
  <2> QED BY <1>0, <2>1, <2>2, <2>3
<1>8. CASE Rename
  <2>1. /\ pc' = "clean_up" /\ current' = FileOf(task, TRUE)
        /\ UNCHANGED <<hour, last_hourly, start_hour, metrics, task, hourly>>
    BY <1>0, <1>8 DEF Rename, TaskOK
  <2> QED BY <1>0, <2>1 DEF Before, FileOf
<1>9. CASE RemoveOld
  <2>1. \A g \in Hours : hourly'[g] # Nothing => hourly[g] # Nothing
    BY <1>0, <1>9 DEF RemoveOld, TypeOK
  <2> QED BY <1>0, <1>9, <2>1 DEF RemoveOld, Before
<1>10. CASE CleanedUp \/ CreatePeers \/ WritePeers \/ RenamePeers
  BY <1>0, <1>10 DEF CleanedUp, CreatePeers, WritePeers, RenamePeers, Before
<1>11. CASE Fail \/ Crash
  BY <1>0, <1>11 DEF Fail, Crash, Before
<1>12. CASE Restart
  <2>1. /\ last_hourly' = hour /\ pc' = "get" /\ metrics = Nothing
        /\ UNCHANGED <<hour, start_hour, metrics, current, hourly>>
    BY <1>0, <1>12 DEF Restart, TaskOK
  <2>2. Before(hour + 1)
    BY <1>0, BeforeLater
  <2> QED BY <1>0, <2>1, <2>2 DEF Before
<1>13. CASE HourPasses
  <2>1. hour' = hour + 1 /\ UNCHANGED <<last_hourly, metrics, pc, task, start_hour, current, hourly>>
    BY <1>13 DEF HourPasses
  <2> QED BY <1>0, <2>1 DEF Before
<1>14. CASE UNCHANGED vars
  BY <1>0, <1>14 DEF vars, Before
<1> QED
  BY <1>1, <1>2, <1>3, <1>4, <1>5, <1>6, <1>7, <1>8, <1>9, <1>10, <1>11, <1>12, <1>13, <1>14
  DEF Next, StoreStep

-----------------------------------------------------------------------------
(* Theorems about the files                                                *)

\* The conjunction of all parts is an invariant.
THEOREM Invariant == Spec => []IInv
<1>1. IInv /\ [Next]_vars => IInv'
  BY TypeStep, WakeupStep, TaskStep, HistoriesStep, PeersStep, OneAnHourStep DEF IInv
<1> QED BY InitInv, <1>1, PTL DEF Spec

\* Type correctness: files of metrics never hold peers, nor the other way round.
THEOREM TypeCorrect == Spec => []TypeOK
<1>1. IInv => TypeOK
  BY DEF IInv
<1> QED BY Invariant, <1>1, PTL

\* Whichever calls fail and wherever the process is killed, what the next start
\* reads is complete, or not there.
THEOREM NothingTorn == Spec => []FilesWhole
<1>1. IInv => FilesWhole
  <2> SUFFICES ASSUME IInv PROVE FilesWhole
    OBVIOUS
  <2>1. Stored # Nothing => Stored.whole
    BY DEF IInv, TypeOK, HistoriesOK, Stored, Resolve, File, Symlink
  <2> QED BY <2>1 DEF IInv, HistoriesOK, PeersOK, FilesWhole
<1> QED BY Invariant, <1>1, PTL

\* However the producers and the storage thread interleave, the thread does not
\* wait while there is a buffer.
THEOREM AwakeForBuffers == Spec => []NoLostWakeup
<1>1. IInv => NoLostWakeup
  BY DEF IInv
<1> QED BY Invariant, <1>1, PTL

\* Across failures, kills and restarts peers.json is replaced by newer lists only.
THEOREM PeersGoForward == Spec => PeersForward
<1> DEFINE Forward ==
      peers_json' # peers_json =>
          peers_json' # Nothing /\ (peers_json # Nothing => peers_json'.buf.data > peers_json.buf.data)
<1>1. ASSUME IInv, [Next]_vars PROVE [Forward]_vars
  <2> SUFFICES ASSUME Next PROVE Forward
    BY <1>1
  <2>1. CASE RenamePeers
    <3>1. peers_json' = FileOf(task, TRUE) /\ task \in PeersBuffer /\ pc \in StoringPeers
      BY <1>1, <2>1 DEF RenamePeers, IInv, TaskOK, StoringPeers
    <3>2. peers_json # Nothing => peers_json.buf.data < task.data /\ peers_json.buf.data \in Nat
      BY <1>1, <3>1 DEF IInv, PeersOK, TypeOK, File, PeersBuffer
    <3>3. peers_json' # Nothing /\ peers_json'.buf.data = task.data /\ task.data \in Nat
      BY <3>1, FileType DEF FileOf, PeersBuffer
    <3> QED BY <3>2, <3>3
  <2>2. CASE ~RenamePeers
    BY <2>2
    DEF Next, StoreStep, StoreMetrics, StorePeers, TakePeers, TakeMetrics, Wait, Create, Write,
        Link, RenameData, RenameLink, Rename, RemoveOld, CleanedUp, CreatePeers, WritePeers,
        Fail, Crash, Restart, HourPasses
  <2> QED BY <2>1, <2>2
<1> QED BY Invariant, <1>1, PTL DEF Spec, PeersForward

\* A snapshot that the clean-up finds old is.  (With a clock before the hour
\* KeepHours the subtraction wraps around.)
LEMMA OldEnough ==
    ASSUME IInv, StartHour >= KeepHours, NEW h \in Hours, h < CutOff
    PROVE  h + KeepHours < hour
<1>1. start_hour \in Nat /\ start_hour >= StartHour /\ hour \in Nat /\ h \in Nat /\ start_hour <= hour
  BY Constants DEF IInv, TypeOK, OneAnHour
<1>2. CutOff = start_hour - KeepHours
  BY <1>1, Constants DEF CutOff
<1> QED BY <1>1, <1>2, Constants

\* Hourly snapshots are kept as long as the comment says, if the clock is not
\* within KeepHours of 1970.
THEOREM SnapshotsKept ==
    ASSUME StartHour >= KeepHours
    PROVE  Spec => HourlyKept
<1> DEFINE Kept == \A h \in Hours : hourly[h] # Nothing /\ hourly'[h] = Nothing => h + KeepHours < hour
<1>1. ASSUME IInv, [Next]_vars PROVE [Kept]_vars
  <2> SUFFICES ASSUME Next, NEW h \in Hours, hourly[h] # Nothing, hourly'[h] = Nothing
               PROVE  h + KeepHours < hour
    BY <1>1
  <2>0. hourly \in [Hours -> File(MetricBuffer) \cup {Nothing}]
    BY <1>1 DEF IInv, TypeOK
  <2>1. CASE RenameData
    <3>1. hourly' = [hourly EXCEPT ![task.hour] = FileOf(task, TRUE)] /\ task \in MetricBuffer
      BY <1>1, <2>1 DEF RenameData, IInv, TaskOK, StoringMetrics
    <3> QED BY <2>0, <3>1, FileType
  <2>2. CASE RemoveOld
    <3>1. h < CutOff
      BY <2>0, <2>2 DEF RemoveOld
    <3> QED BY <1>1, <3>1, OldEnough
  <2>3. CASE ~RenameData /\ ~RemoveOld
    BY <2>3
    DEF Next, StoreStep, StoreMetrics, StorePeers, TakePeers, TakeMetrics, Wait, Create, Write,
        Link, RenameLink, Rename, CleanedUp, CreatePeers, WritePeers, RenamePeers, Fail, Crash,
        Restart, HourPasses
  <2> QED BY <2>1, <2>2, <2>3
<1> QED BY Invariant, <1>1, PTL DEF Spec, HourlyKept

-----------------------------------------------------------------------------
(* The files implement the register                                        *)

\* The variables of SnapshotStore.
Pending == IF metrics = Nothing THEN Nothing
           ELSE [data |-> metrics.data, hour |-> metrics.hour]
Writing == IF pc \in StoringMetrics THEN [data |-> task.data, hour |-> task.hour] ELSE Nothing
Read    == IF Stored = Nothing THEN Nothing
           ELSE [data |-> Stored.buf.data, hour |-> Stored.buf.hour]

\* What a restart reads depends on the two kinds of files alone, and only on
\* one hourly file.
LEMMA ReadUnchanged ==
    ASSUME TypeOK, current' = current,
           current # Nothing /\ current.type = "link" => hourly'[current.to] = hourly[current.to]
    PROVE  Read' = Read
BY DEF Read, Stored, Resolve

\* A step of the storage thread, or a kill, that is none of the register, or
\* gives up what is being written.
LEMMA GivesUp ==
    ASSUME UNCHANGED <<hour, Pending, Read>>, Writing' = Writing \/ Writing' = Nothing
    PROVE  [Abstract!Next]_(Abstract!vars)
<1>1. CASE Writing' = Writing
  BY <1>1 DEF Abstract!vars, Pending, Writing, Read
<1>2. CASE Writing' = Nothing
  <2>1. Abstract!GiveUp
    BY <1>2 DEF Abstract!GiveUp, Pending, Writing, Read
  <2> QED BY <2>1 DEF Abstract!Next
<1> QED BY <1>1, <1>2

\* A history that is handed over is newer than all.
LEMMA StoreMetricsHandsOver ==
    ASSUME IInv, StoreMetrics
    PROVE  Abstract!HandOver
<1>0. TypeOK /\ HistoriesOK /\ last_history \in Nat /\ hour \in Nat
  BY Constants DEF IInv, TypeOK
<1>1. Pending' = [data |-> last_history + 1, hour |-> hour] /\ hour' = hour
  <2>1. /\ metrics'.data = last_history + 1 /\ metrics'.hour = hour /\ metrics' \in MetricBuffer
        /\ hour' = hour
    BY <1>0, TypeStep, StorageAssumption DEF StoreMetrics, MetricBuffer
  <2>2. metrics' # Nothing
    BY <2>1, NothingAssumption
  <2> QED BY <2>1, <2>2 DEF Pending
<1>2. Writing' = Writing /\ Read' = Read
  BY <1>0, ReadUnchanged DEF StoreMetrics, Notify, Writing, StoringMetrics
<1>3. Pending # Nothing => Pending.data < last_history + 1
  BY <1>0 DEF Pending, HistoriesOK, TypeOK, MetricBuffer
<1>4. Writing # Nothing => Writing.data < last_history + 1
  <2>1. pc \in StoringMetrics => task.data \in Nat /\ task.data <= last_history
    BY <1>0, TaskHour DEF HistoriesOK, MetricBuffer
  <2> QED BY <1>0, <2>1 DEF Writing
<1>5. Read # Nothing => Read.data < last_history + 1
  <2>1. Stored # Nothing => Stored.buf.data \in Nat /\ Stored.buf.data <= last_history
    BY <1>0 DEF Stored, Resolve, HistoriesOK, TypeOK, File, Symlink, MetricBuffer
  <2> QED BY <1>0, <2>1 DEF Read
<1>6. Pending' \in Abstract!Buffer /\ Pending'.hour = hour /\ Pending'.data = last_history + 1
  BY <1>0, <1>1 DEF Abstract!Buffer
<1>7. \A old \in {Pending, Writing, Read} \ {Nothing} : old.data < Pending'.data
  BY <1>3, <1>4, <1>5, <1>6
<1> QED BY <1>1, <1>2, <1>6, <1>7 DEF Abstract!HandOver, Pending, Writing, Read

\* The history that is written becomes the one that is read.
LEMMA Commits ==
    ASSUME Writing # Nothing, Read' = Writing, Writing' = Nothing, UNCHANGED <<hour, Pending>>
    PROVE  Abstract!Commit
BY DEF Abstract!Commit, Pending, Writing, Read

\* Every step of the storage is one of the register, or none.
LEMMA RegisterStep ==
    ASSUME IInv, [Next]_vars, StartHour >= KeepHours
    PROVE  [Abstract!Next]_(Abstract!vars)
<1>0. TypeOK /\ TaskOK /\ OneAnHour /\ hour \in Nat
  BY Constants DEF IInv, TypeOK
<1>a. pc \in StoringMetrics => /\ task \in MetricBuffer /\ task.hour \in Hours
                               /\ Writing = [data |-> task.data, hour |-> task.hour]
                               /\ Writing # Nothing
  BY TaskHour, NothingAssumption DEF Writing, MetricBuffer
<1>1. CASE StoreMetrics
  BY <1>1, StoreMetricsHandsOver DEF Abstract!Next
<1>2. CASE TakeMetrics
  <2>1. Pending # Nothing /\ Pending' = Nothing /\ Writing = Nothing /\ Writing' = Pending
    BY <1>0, <1>2, NothingAssumption
    DEF TakeMetrics, Pending, Writing, StoringMetrics, TypeOK, MetricBuffer
  <2>2. UNCHANGED <<hour, Read>>
    BY <1>0, <1>2, ReadUnchanged DEF TakeMetrics
  <2>3. Abstract!Begin
    BY <2>1, <2>2 DEF Abstract!Begin, Pending, Writing, Read
  <2> QED BY <2>3 DEF Abstract!Next
<1>3. CASE StorePeers \/ TakePeers \/ Wait
  <2>1. UNCHANGED <<hour, metrics, current, hourly>>
    BY <1>3 DEF StorePeers, TakePeers, Wait
  <2>2. Writing' = Writing
    BY <1>3 DEF StorePeers, TakePeers, Wait, Notify, Writing, StoringMetrics
  <2> QED BY <1>0, <2>1, <2>2, ReadUnchanged, GivesUp DEF Pending
<1>4. CASE Create \/ Write \/ Link \/ CleanedUp \/ CreatePeers \/ WritePeers \/ RenamePeers \/ Fail
  <2>1. UNCHANGED <<hour, metrics, current, hourly>>
    BY <1>4 DEF Create, Write, Link, CleanedUp, CreatePeers, WritePeers, RenamePeers, Fail
  <2>2. Writing' = Writing \/ Writing' = Nothing
    BY <1>4
    DEF Create, Write, Link, CleanedUp, CreatePeers, WritePeers, RenamePeers, Fail, Writing,
        StoringMetrics
  <2> QED BY <1>0, <2>1, <2>2, ReadUnchanged, GivesUp DEF Pending
<1>5. CASE RenameData
  <2>1. pc = "rename_data" /\ pc' = "rename_link" /\ task.snapshot
        /\ UNCHANGED <<hour, metrics, task, current>> /\ hourly' = [hourly EXCEPT ![task.hour] = tmp]
    BY <1>0, <1>5 DEF RenameData, TaskOK
  <2>2. current # Nothing /\ current.type = "link" => current.to # task.hour
    BY <1>0, <1>a, <2>1, Constants DEF OneAnHour, Before, StoringMetrics
  <2>3. current # Nothing /\ current.type = "link" => hourly'[current.to] = hourly[current.to]
    BY <1>0, <2>1, <2>2 DEF TypeOK, File, Symlink
  <2>4. Writing' = Writing
    BY <2>1 DEF Writing, StoringMetrics
  <2> QED BY <1>0, <2>1, <2>3, <2>4, ReadUnchanged, GivesUp DEF Pending
<1>6. CASE RenameLink
  <2>1. pc = "rename_link" /\ pc' = "clean_up" /\ current' = LinkTo(task.hour)
        /\ hourly[task.hour] = FileOf(task, TRUE) /\ UNCHANGED <<hour, metrics, task, hourly>>
    BY <1>0, <1>6 DEF RenameLink, TaskOK
  <2>2. pc \in StoringMetrics /\ Writing' = Nothing /\ Pending' = Pending
    BY <2>1 DEF Writing, StoringMetrics, Pending
  <2>3. Stored' = FileOf(task, TRUE) /\ Stored' # Nothing
    BY <1>a, <2>1, <2>2, FileType DEF Stored, Resolve, LinkTo
  <2>4. Read' = Writing
    BY <1>a, <2>2, <2>3 DEF Read, FileOf
  <2> QED BY <1>a, <2>1, <2>2, <2>4, Commits DEF Abstract!Next
<1>7. CASE Rename
  <2>1. pc = "rename" /\ pc' = "clean_up" /\ current' = FileOf(task, TRUE)
        /\ UNCHANGED <<hour, metrics, task, hourly>>
    BY <1>0, <1>7 DEF Rename, TaskOK
  <2>2. pc \in StoringMetrics /\ Writing' = Nothing /\ Pending' = Pending
    BY <2>1 DEF Writing, StoringMetrics, Pending
  <2>3. Stored' = FileOf(task, TRUE) /\ Stored' # Nothing
    BY <1>a, <2>1, <2>2, FileType DEF Stored, Resolve, FileOf
  <2>4. Read' = Writing
    BY <1>a, <2>2, <2>3 DEF Read, FileOf
  <2> QED BY <1>a, <2>1, <2>2, <2>4, Commits DEF Abstract!Next
<1>8. CASE RemoveOld
  <2>1. PICK h \in Hours : /\ h < CutOff /\ hourly[h] # Nothing
                           /\ hourly' = [hourly EXCEPT ![h] = Nothing]
    BY <1>8 DEF RemoveOld
  <2>2. UNCHANGED <<hour, metrics, pc, task, current>>
    BY <1>8 DEF RemoveOld
  <2>3. UNCHANGED <<Pending, Writing>>
    BY <2>2 DEF Pending, Writing
  <2>4. CASE current = LinkTo(h)
    <3>1. Stored = hourly[h] /\ Stored' = Nothing
      BY <1>0, <2>1, <2>2, <2>4, FileType DEF Stored, Resolve, LinkTo, TypeOK
    <3>2. Stored # Nothing /\ Stored.buf.hour = h /\ Stored.buf \in MetricBuffer
      BY <1>0, <2>1, <3>1 DEF IInv, HistoriesOK, TypeOK, File
    <3>3. Read = [data |-> Stored.buf.data, hour |-> h] /\ Read' = Nothing /\ Read # Nothing
      BY <3>1, <3>2, NothingAssumption DEF Read, MetricBuffer
    <3>4. Read.hour + KeepHours < hour
      BY <2>1, <3>3, OldEnough
    <3>5. Abstract!Expire
      BY <2>2, <2>3, <3>3, <3>4 DEF Abstract!Expire, Pending, Writing, Read
    <3> QED BY <3>5 DEF Abstract!Next
  <2>5. CASE current # LinkTo(h)
    <3>1. current # Nothing /\ current.type = "link" => current.to # h /\ current.to \in Hours
      BY <1>0, <2>5 DEF TypeOK, File, Symlink, LinkTo
    <3>2. current # Nothing /\ current.type = "link" => hourly'[current.to] = hourly[current.to]
      BY <1>0, <2>1, <3>1 DEF TypeOK
    <3> QED BY <1>0, <2>2, <2>3, <3>2, ReadUnchanged, GivesUp
  <2> QED BY <2>4, <2>5
<1>9. CASE Crash
  <2>1. Pending' = Nothing /\ Writing' = Nothing /\ UNCHANGED <<hour, current, hourly>>
    BY <1>9 DEF Crash, Pending, Writing, StoringMetrics
  <2>2. Abstract!Crash
    BY <1>0, <2>1, ReadUnchanged DEF Abstract!Crash, Pending, Writing, Read
  <2> QED BY <2>2 DEF Abstract!Next
<1>10. CASE Restart
  <2>1. UNCHANGED <<hour, metrics, current, hourly>> /\ Writing' = Writing
    BY <1>10 DEF Restart, Writing, StoringMetrics
  <2> QED BY <1>0, <2>1, ReadUnchanged, GivesUp DEF Pending
<1>11. CASE HourPasses
  <2>1. hour' = hour + 1 /\ UNCHANGED <<metrics, pc, task, current, hourly>>
    BY <1>11 DEF HourPasses
  <2>2. Abstract!Pass
    BY <1>0, <2>1, ReadUnchanged DEF Abstract!Pass, Pending, Writing, Read
  <2> QED BY <2>2 DEF Abstract!Next
<1>12. CASE UNCHANGED vars
  <2>1. UNCHANGED <<hour, metrics, pc, task, current, hourly>>
    BY <1>12 DEF vars
  <2> QED BY <1>0, <2>1, ReadUnchanged, GivesUp DEF Pending, Writing
<1> QED
  BY <1>1, <1>2, <1>3, <1>4, <1>5, <1>6, <1>7, <1>8, <1>9, <1>10, <1>11, <1>12
  DEF Next, StoreStep

\* Whichever calls fail and wherever the process is killed, the slot, the thread
\* and the files are the register SnapshotStore specifies: a history is stored
\* as a whole or not at all, never replaced by an older one, and lost only when
\* it is older than KeepHours.
THEOREM StoreImplemented ==
    ASSUME StartHour >= KeepHours
    PROVE  Spec => ImplementsStore
<1>1. Init => Abstract!Init
  BY Constants DEF Init, Abstract!Init, Stored, Resolve, StoringMetrics
<1>2. IInv /\ [Next]_vars => [Abstract!Next]_(Abstract!vars)
  BY RegisterStep
<1> QED BY Invariant, <1>1, <1>2, PTL DEF Spec, ImplementsStore, Abstract!Spec

-----------------------------------------------------------------------------
(* The newest buffers get to the disk                                      *)

\* The buffers on their way are the newest ones, whatever fails.
LEMMA NewestTakenStep == IInv /\ NewestTaken /\ [Next]_vars => NewestTaken'
<1> SUFFICES ASSUME IInv, NewestTaken, [Next]_vars PROVE NewestTaken'
  OBVIOUS
<1> USE DEF NewestTaken, StoringMetrics, StoringPeers
<1>0. TypeOK /\ TaskOK
  BY DEF IInv
<1>1. CASE StoreMetrics
  <2>1. metrics'.data = last_history' /\ last_history' = last_history + 1
        /\ UNCHANGED <<last_peers, peers, task>> /\ (pc' = pc \/ pc' = "get")
        /\ metrics' # Nothing
    <3> DEFINE new_hour == HourlySnapshots /\ hour > last_hourly
               buf == [data |-> last_history + 1, hour |-> hour, snapshot |-> new_hour]
    <3>1. new_hour \in BOOLEAN
      BY StorageAssumption
    <3>2. buf \in MetricBuffer
      BY <1>0, <3>1, Constants DEF MetricBuffer, TypeOK
    <3>3. buf # Nothing
      BY <3>2, NothingAssumption
    <3> QED BY <1>1, <3>3 DEF StoreMetrics, Notify
  <2> QED BY <2>1
<1>2. CASE StorePeers
  <2>1. peers'.data = last_peers' /\ peers' # Nothing
        /\ UNCHANGED <<last_history, metrics, task>> /\ (pc' = pc \/ pc' = "get")
    <3>1. [data |-> last_peers + 1] \in PeersBuffer
      BY <1>0 DEF PeersBuffer, TypeOK
    <3>2. [data |-> last_peers + 1] # Nothing
      BY <3>1, NothingAssumption
    <3> QED BY <1>2, <3>2 DEF StorePeers, Notify
  <2> QED BY <2>1
<1>3. CASE TakePeers \/ TakeMetrics \/ Wait
  BY <1>3 DEF TakePeers, TakeMetrics, Wait
<1>4. CASE Create \/ Write \/ Link \/ RenameData \/ RenameLink \/ Rename
  BY <1>4 DEF Create, Write, Link, RenameData, RenameLink, Rename
<1>5. CASE RemoveOld \/ CleanedUp \/ CreatePeers \/ WritePeers \/ RenamePeers
  BY <1>5 DEF RemoveOld, CleanedUp, CreatePeers, WritePeers, RenamePeers
<1>6. CASE Fail \/ Crash \/ Restart
  BY <1>6 DEF Fail, Crash, Restart
<1>7. CASE HourPasses \/ UNCHANGED vars
  BY <1>7 DEF HourPasses, vars
<1> QED BY <1>1, <1>2, <1>3, <1>4, <1>5, <1>6, <1>7 DEF Next, StoreStep

\* The three parts of NewestKept.
LinkFree == tmplink # Nothing => pc \in {"rename_data", "rename_link"}

HistoryStored ==
    metrics = Nothing /\ pc \notin StoringMetrics /\ last_history > 0 =>
        \/ Stored # Nothing /\ Stored.buf.data = last_history
        \/ /\ Stored = Nothing /\ current # Nothing /\ current.type = "link"
           /\ current.to + KeepHours < hour

PeersStored ==
    peers = Nothing /\ pc \notin StoringPeers /\ last_peers > 0 =>
        peers_json # Nothing /\ peers_json.buf.data = last_peers

\* Without a failure the chain of calls goes to its end, so no link is left.
LEMMA LinkFreeStep ==
    ASSUME IInv, LinkFree, Next, ~Fail, ~Crash
    PROVE  LinkFree'
BY DEF LinkFree, Next, StoreStep, StoreMetrics, StorePeers, Notify, TakePeers, TakeMetrics, Wait,
       Create, Write, Link, RenameData, RenameLink, Rename, RemoveOld, CleanedUp, CreatePeers,
       WritePeers, RenamePeers, Restart, HourPasses

LEMMA PeersStoredStep ==
    ASSUME IInv, NewestTaken, PeersStored, Next, ~Fail, ~Crash
    PROVE  PeersStored'
<1> USE DEF PeersStored, StoringPeers
<1>0. TypeOK /\ TaskOK
  BY DEF IInv
<1>1. CASE StoreMetrics \/ TakeMetrics \/ Wait
  BY <1>1 DEF StoreMetrics, TakeMetrics, Wait, Notify
<1>2. CASE StorePeers
  <2>1. [data |-> last_peers + 1] \in PeersBuffer
    BY <1>0 DEF PeersBuffer, TypeOK
  <2>2. peers' # Nothing
    BY <1>2, <2>1, NothingAssumption DEF StorePeers
  <2> QED BY <2>2
<1>3. CASE TakePeers \/ CreatePeers \/ WritePeers
  BY <1>3 DEF TakePeers, CreatePeers, WritePeers
<1>4. CASE RenamePeers
  <2>1. /\ pc = "rename_peers" /\ peers_json' = FileOf(task, TRUE) /\ task \in PeersBuffer
        /\ UNCHANGED <<peers, last_peers>>
    BY <1>0, <1>4 DEF RenamePeers, TaskOK
  <2>2. peers_json' # Nothing /\ peers_json'.buf.data = task.data
    BY <2>1, FileType DEF FileOf
  <2>3. peers = Nothing => task.data = last_peers
    BY <2>1 DEF NewestTaken
  <2> QED BY <2>1, <2>2, <2>3
<1>5. CASE Create \/ Write \/ Link \/ RenameData \/ RenameLink \/ Rename \/ RemoveOld \/ CleanedUp
  BY <1>5 DEF Create, Write, Link, RenameData, RenameLink, Rename, RemoveOld, CleanedUp
<1>6. CASE Restart \/ HourPasses
  BY <1>6 DEF Restart, HourPasses
<1> QED BY <1>1, <1>2, <1>3, <1>4, <1>5, <1>6 DEF Next, StoreStep

\* What is read depends on one of the hourly files at most.
LEMMA StoredUnchanged ==
    ASSUME current' = current,
           current # Nothing /\ current.type = "link" => hourly'[current.to] = hourly[current.to]
    PROVE  Stored' = Stored
BY DEF Stored, Resolve

LEMMA HistoryStoredStep ==
    ASSUME IInv, NewestTaken, LinkFree, HistoryStored, Next, ~Fail, ~Crash,
           StartHour >= KeepHours
    PROVE  HistoryStored'
<1> USE DEF HistoryStored, StoringMetrics
<1>0. TypeOK /\ TaskOK /\ hour \in Nat
  BY Constants DEF IInv, TypeOK
<1>1. CASE StoreMetrics
  <2> DEFINE new_hour == HourlySnapshots /\ hour > last_hourly
             buf == [data |-> last_history + 1, hour |-> hour, snapshot |-> new_hour]
  <2>1. new_hour \in BOOLEAN
    BY StorageAssumption
  <2>2. buf \in MetricBuffer
    BY <1>0, <2>1, Constants DEF MetricBuffer, TypeOK
  <2>3. metrics' # Nothing
    BY <1>1, <2>2, NothingAssumption DEF StoreMetrics
  <2> QED BY <2>3
<1>2. CASE StorePeers \/ TakePeers \/ Wait \/ CleanedUp \/ CreatePeers \/ WritePeers \/ RenamePeers
           \/ Restart
  <2>1. UNCHANGED <<hour, last_history, metrics, current, hourly>>
    BY <1>2 DEF StorePeers, TakePeers, Wait, CleanedUp, CreatePeers, WritePeers, RenamePeers,
                Restart
  <2>2. pc' \notin StoringMetrics => pc \notin StoringMetrics
    BY <1>2 DEF StorePeers, TakePeers, Wait, CleanedUp, CreatePeers, WritePeers, RenamePeers,
                Restart, Notify
  <2>3. Stored' = Stored
    BY <2>1, StoredUnchanged
  <2> QED BY <2>1, <2>2, <2>3
<1>3. CASE TakeMetrics \/ Create \/ Write \/ RenameData
  BY <1>0, <1>3 DEF TakeMetrics, Create, Write, RenameData, TaskOK
<1>4. CASE Link
  <2>1. tmplink = Nothing
    BY <1>4 DEF Link, LinkFree
  <2> QED BY <1>4, <2>1 DEF Link
<1>5. CASE RenameLink \/ Rename
  <2>1. /\ pc \in StoringMetrics /\ UNCHANGED <<last_history, metrics>>
        /\ task \in MetricBuffer /\ task.hour \in Hours
    BY <1>5, TaskHour DEF RenameLink, Rename
  <2>2. Stored' = FileOf(task, TRUE)
    <3>1. CASE RenameLink
      <4>1. current' = LinkTo(task.hour) /\ hourly' = hourly
            /\ hourly[task.hour] = FileOf(task, TRUE)
        BY <1>0, <3>1 DEF RenameLink, TaskOK
      <4> QED BY <2>1, <4>1, FileType DEF Stored, Resolve, LinkTo
    <3>2. CASE Rename
      <4>1. current' = FileOf(task, TRUE)
        BY <1>0, <3>2 DEF Rename, TaskOK
      <4> QED BY <4>1 DEF Stored, Resolve, FileOf
    <3> QED BY <1>5, <3>1, <3>2
  <2>3. Stored' # Nothing /\ Stored'.buf.data = task.data
    BY <2>1, <2>2, FileType DEF FileOf
  <2> QED BY <2>1, <2>3 DEF NewestTaken
<1>6. CASE RemoveOld
  <2>1. PICK h \in Hours : /\ h < CutOff /\ hourly[h] # Nothing
                           /\ hourly' = [hourly EXCEPT ![h] = Nothing]
    BY <1>6 DEF RemoveOld
  <2>2. UNCHANGED <<hour, last_history, metrics, pc, current>>
    BY <1>6 DEF RemoveOld
  <2>3. CASE current = LinkTo(h)
    <3>1. Stored' = Nothing /\ current # Nothing /\ current.type = "link" /\ current.to = h
      BY <1>0, <2>1, <2>2, <2>3, FileType DEF Stored, Resolve, LinkTo, TypeOK
    <3>2. h + KeepHours < hour
      BY <2>1, OldEnough
    <3> QED BY <2>2, <3>1, <3>2
  <2>4. CASE current # LinkTo(h)
    <3>1. current # Nothing /\ current.type = "link" => current.to # h /\ current.to \in Hours
      BY <1>0, <2>4 DEF TypeOK, File, Symlink, LinkTo
    <3>2. current # Nothing /\ current.type = "link" => hourly'[current.to] = hourly[current.to]
      BY <1>0, <2>1, <3>1 DEF TypeOK
    <3>3. Stored' = Stored
      BY <2>2, <3>2, StoredUnchanged
    <3> QED BY <2>2, <3>3
  <2> QED BY <2>3, <2>4
<1>7. CASE HourPasses
  <2>1. hour' = hour + 1 /\ UNCHANGED <<last_history, metrics, pc, current, hourly>>
    BY <1>7 DEF HourPasses
  <2>2. Stored' = Stored
    BY <2>1, StoredUnchanged
  <2>3. current # Nothing /\ current.type = "link" => current.to \in Nat
    BY <1>0, Constants DEF TypeOK, File, Symlink
  <2> QED BY <1>0, <2>1, <2>2, <2>3, Constants
<1> QED BY <1>1, <1>2, <1>3, <1>4, <1>5, <1>6, <1>7 DEF Next, StoreStep

LEMMA NewestKeptIs == NewestKept <=> (failures = 0 /\ crashes = 0 =>
                                         LinkFree /\ HistoryStored /\ PeersStored)
BY DEF NewestKept, LinkFree, HistoryStored, PeersStored

LEMMA NewestKeptStep ==
    ASSUME IInv, NewestTaken, NewestKept, [Next]_vars, StartHour >= KeepHours
    PROVE  NewestKept'
<1>1. CASE Fail \/ Crash
  <2>1. failures \in Nat /\ crashes \in Nat
    BY DEF IInv, TypeOK
  <2>2. failures' = failures + 1 \/ crashes' = crashes + 1
    BY <1>1 DEF Fail, Crash
  <2>3. ~ (failures' = 0 /\ crashes' = 0)
    BY <1>1, <2>1, <2>2 DEF Fail, Crash
  <2> QED BY <2>3 DEF NewestKept
<1>2. CASE Next /\ ~Fail /\ ~Crash
  <2>1. failures' = failures /\ crashes' = crashes
    BY <1>2 DEF Next, StoreStep, StoreMetrics, StorePeers, TakePeers, TakeMetrics, Wait, Create,
                Write, Link, RenameData, RenameLink, Rename, RemoveOld, CleanedUp, CreatePeers,
                WritePeers, RenamePeers, Restart, HourPasses
  <2>2. SUFFICES ASSUME failures = 0 /\ crashes = 0
                 PROVE  LinkFree' /\ HistoryStored' /\ PeersStored'
    BY <2>1 DEF NewestKept, LinkFree, HistoryStored, PeersStored
  <2>3. LinkFree /\ HistoryStored /\ PeersStored
    BY <2>2, NewestKeptIs
  <2> QED BY <1>2, <2>3, LinkFreeStep, HistoryStoredStep, PeersStoredStep
<1>3. CASE UNCHANGED vars
  BY <1>3 DEF vars, NewestKept, Stored, Resolve
<1> QED BY <1>1, <1>2, <1>3

\* Whatever was handed over last is in the files when the thread sleeps, as long
\* as no call failed and nothing was killed: however buffers replaced each other
\* in the slot and hours went by meanwhile.  An hourly snapshot may have expired.
THEOREM NewestReachesDisk ==
    ASSUME StartHour >= KeepHours
    PROVE  Spec => []NewestStored
<1>1. Init => NInv
  BY InitInv DEF NInv, Init, NewestTaken, NewestKept, StoringMetrics, StoringPeers
<1>2. NInv /\ [Next]_vars => NInv'
  BY TypeStep, WakeupStep, TaskStep, HistoriesStep, PeersStep, OneAnHourStep,
     NewestTakenStep, NewestKeptStep
  DEF NInv, IInv
<1>3. NInv => NewestStored
  BY DEF NInv, IInv, NoLostWakeup, NewestKept, NewestStored, StoringMetrics, StoringPeers
<1> QED BY <1>1, <1>2, <1>3, PTL DEF Spec

=============================================================================
