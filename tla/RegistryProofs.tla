--------------------------- MODULE RegistryProofs ---------------------------
(***************************************************************************)
(* Proofs about Registry, for any number of uploads and retrains.  The     *)
(* properties except runs that were in flight together, so the argument is *)
(* what a run without company (Alone) can rely on: nobody writes the       *)
(* export (HandlesItsDataset), nobody touches its file (FileSaved), nobody *)
(* becomes active between its UPDATE and its report (OldOrMet).            *)
(***************************************************************************)
EXTENDS Registry, IngestionProofs

LEMMA RegistryInitInv == Init => RegistryInv
<1> SUFFICES ASSUME Init PROVE RegistryInv OBVIOUS
<1> USE RegistryAssumption
<1>1. IngestionInv BY IngestionInitInv DEF Init
<1>2. \A r \in Runs : run[r] = NewRun /\ run[r].pc = "idle" /\ run[r].met = {} /\ run[r].path = None
        /\ run[r].label = None /\ run[r].old = {} /\ model[r] = "none" /\ del[r] = "none" /\ disk[r] = None
  BY DEF Init, NewRun
<1>3. RegistryTypeOK
  <2>1. NewRun \in Run BY DEF NewRun, Run, Live, Early, Ended
  <2> QED BY <2>1 DEF Init, RegistryTypeOK
<1>4. RunsFormed BY <1>2 DEF RunsFormed, RunFormed, Live, Early
<1>5. Meeting BY <1>2 DEF Meeting, Running, Live, Early
<1>6. OldOrMet /\ OneActive /\ ServesAModel /\ ReportsItsOwn
  BY <1>2 DEF OldOrMet, OneActive, ServesAModel, ReportsItsOwn, ActiveModels
<1>7. PathOfOneMet /\ FileSaved /\ FileAtItsPath /\ RemovedIsGone /\ OrphanIsExplained
  BY <1>2 DEF PathOfOneMet, FileSaved, FileAtItsPath, RemovedIsGone, OrphanIsExplained
<1>8. HandlesItsDataset BY <1>2 DEF HandlesItsDataset, HandlesDataset
<1> QED BY <1>1, <1>3, <1>4, <1>5, <1>6, <1>7, <1>8 DEF RegistryInv

\* The fields of a run.
LEMMA RunFields ==
  ASSUME RegistryTypeOK, NEW r \in Runs
  PROVE  /\ run[r] \in Run
         /\ run[r].pc \in {"idle"} \cup Live \cup Ended
         /\ run[r].rows \subseteq Row /\ run[r].data \subseteq Row /\ run[r].clean \in BOOLEAN
         /\ run[r].label \in Uploads \cup {None} /\ run[r].path \in Runs \cup {None}
         /\ run[r].old \subseteq Runs /\ run[r].reported \in Runs \cup {None}
         /\ run[r].met \subseteq Runs
BY DEF RegistryTypeOK, Run

-----------------------------------------------------------------------------
(* What an action must leave alone for each part of the invariant *)

\* Part by part: the fields of the runs that it reads.
MetGrows == \A r \in Runs : run[r].met \subseteq run'[r].met

LEMMA MeetingFrame ==
  ASSUME Meeting, \A r \in Runs : run'[r].met = run[r].met, Running' \subseteq Running
  PROVE  Meeting'
BY DEF Meeting, Running

LEMMA ModelFrame ==
  ASSUME OldOrMet, OneActive, ServesAModel, ReportsItsOwn, UNCHANGED model, MetGrows,
         \A r \in Runs :
           /\ run'[r].pc = "persisting" => run[r].pc = "persisting" /\ run'[r].old = run[r].old
           /\ run'[r].pc = "committed" => run[r].pc = "committed"
           /\ run'[r].pc = "answered" => run[r].pc = "answered" /\ run'[r].reported = run[r].reported
  PROVE  (OldOrMet /\ OneActive /\ ServesAModel /\ ReportsItsOwn)'
<1>1. ActiveModels' = ActiveModels /\ ActiveModels \subseteq Runs BY DEF ActiveModels
<1>2. OldOrMet' BY <1>1 DEF OldOrMet, MetGrows
<1>3. OneActive' BY <1>1 DEF OneActive, MetGrows
<1>4. ServesAModel' BY <1>1 DEF ServesAModel
<1>5. ReportsItsOwn' BY DEF ReportsItsOwn, Alone, MetGrows
<1> QED BY <1>2, <1>3, <1>4, <1>5

LEMMA FileFrame ==
  ASSUME RegistryTypeOK, PathOfOneMet, FileSaved, FileAtItsPath, RemovedIsGone, OrphanIsExplained,
         UNCHANGED <<disk, model, del>>, MetGrows,
         \A r \in Runs :
           /\ run'[r].path = run[r].path \/ run'[r].path = None
           /\ run'[r].pc = "abandoned" \/ run'[r].path = run[r].path
           /\ run[r].pc \in {"saved", "persisting", "abandoned"} =>
                run'[r].pc \in {"saved", "persisting", "abandoned"}
           /\ run[r].pc = "abandoned" => run'[r].pc = "abandoned"
  PROVE  (PathOfOneMet /\ FileSaved /\ FileAtItsPath /\ RemovedIsGone /\ OrphanIsExplained)'
<1>1. Rows' = Rows BY DEF Rows
<1>2. \A p \in Runs : disk[p] # None => disk[p] \in Runs BY DEF RegistryTypeOK
<1>3. PathOfOneMet' BY DEF PathOfOneMet, MetGrows
<1>4. FileSaved' BY DEF FileSaved, Alone, MetGrows
<1>5. FileAtItsPath' BY <1>2 DEF FileAtItsPath
<1>6. RemovedIsGone' BY DEF RemovedIsGone
<1>7. OrphanIsExplained' BY <1>1, <1>2 DEF OrphanIsExplained
<1> QED BY <1>3, <1>4, <1>5, <1>6, <1>7

LEMMA DatasetFrame ==
  ASSUME RegistryTypeOK, RunsFormed, MetGrows,
         \A u \in Uploads : up[u].pc = "success" => up'[u] = up[u] /\ snapshots'[u] = snapshots[u],
         NEW r \in Runs, HandlesDataset(r),
         run'[r].label \in {None, run[r].label},
         run'[r].label # None /\ Alone(r)' =>
           /\ run'[r].pc = run[r].pc /\ run'[r].rows = run[r].rows /\ run'[r].clean = run[r].clean
           /\ run'[r].data = run[r].data
           /\ run[r].pc = "written" => export' = export
           /\ model'[r] # "none" => model[r] # "none"
  PROVE  HandlesDataset(r)'
<1> SUFFICES ASSUME run'[r].label # None, Alone(r)', up'[run'[r].label].met = {}
             PROVE  /\ run'[r].pc \in {"selected", "writing"} => run'[r].rows = Dataset(run[r].label)'
                    /\ run'[r].pc = "writing" => run'[r].clean
                    /\ run'[r].pc = "written" => export' = Dataset(run[r].label)'
                    /\ run'[r].pc \in {"trained", "saved", "persisting"} => ShowsItsDataset(r)'
                    /\ model'[r] # "none" => ShowsItsDataset(r)'
  BY DEF HandlesDataset
<1>1. run'[r].label = run[r].label /\ run[r].label \in Uploads BY RunFields
<1>2. up[run[r].label].pc = "success" BY <1>1 DEF RunsFormed, RunFormed
<1>3. Dataset(run[r].label)' = Dataset(run[r].label) /\ up[run[r].label].met = {}
  BY <1>1, <1>2 DEF Dataset
<1>4. Alone(r) BY DEF Alone, MetGrows
<1>5. ShowsItsDataset(r)' <=> ShowsItsDataset(r) BY <1>3 DEF ShowsItsDataset
<1> QED BY <1>1, <1>3, <1>4, <1>5 DEF HandlesDataset

-----------------------------------------------------------------------------
(* Uploads *)

LEMMA UploadsAreFinal ==
  ASSUME IngestionTypeOK, IngestionNext
  PROVE  \A u \in Uploads : up[u].pc = "success" => up'[u] = up[u] /\ snapshots'[u] = snapshots[u]
<1> SUFFICES ASSUME NEW u \in Uploads, up[u].pc = "success"
             PROVE  up'[u] = up[u] /\ snapshots'[u] = snapshots[u]
  OBVIOUS
<1>1. u \notin InFlight BY DEF InFlight
<1>2. ASSUME NEW v \in Uploads, Delete(v) PROVE up'[u] = up[u] /\ snapshots'[u] = snapshots[u]
  BY <1>1, <1>2 DEF Delete
<1>3. ASSUME NEW v \in Uploads, CommitDelete(v) PROVE up'[u] = up[u] /\ snapshots'[u] = snapshots[u]
  BY <1>3 DEF CommitDelete, IngestionTypeOK
<1>4. ASSUME NEW v \in Uploads, NEW weeks \in Files, Deduplicate(v, weeks)
      PROVE  up'[u] = up[u] /\ snapshots'[u] = snapshots[u]
  BY <1>4 DEF Deduplicate, IngestionTypeOK
<1>5. ASSUME NEW v \in Uploads, Insert(v) PROVE up'[u] = up[u] /\ snapshots'[u] = snapshots[u]
  BY <1>5 DEF Insert, IngestionTypeOK
<1>6. ASSUME NEW v \in Uploads, Fail(v) PROVE up'[u] = up[u] /\ snapshots'[u] = snapshots[u]
  BY <1>1, <1>6 DEF Fail, IngestionTypeOK
<1> QED BY <1>2, <1>3, <1>4, <1>5, <1>6 DEF IngestionNext

LEMMA UploadPreserves ==
  ASSUME RegistryInv, IngestionNext, UNCHANGED registryVars
  PROVE  RegistryInv'
<1>0. /\ IngestionInv /\ IngestionTypeOK /\ RegistryTypeOK /\ RunsFormed /\ Meeting /\ HandlesItsDataset
      /\ OldOrMet /\ OneActive /\ ServesAModel /\ ReportsItsOwn
      /\ PathOfOneMet /\ FileSaved /\ FileAtItsPath /\ RemovedIsGone /\ OrphanIsExplained
  BY DEF RegistryInv, IngestionInv
<1>1. export' = export /\ disk' = disk /\ model' = model /\ run' = run /\ del' = del
  BY DEF registryVars
<1>2. \A u \in Uploads : up[u].pc = "success" => up'[u] = up[u] /\ snapshots'[u] = snapshots[u]
  BY <1>0, UploadsAreFinal
<1>3. IngestionInv' BY <1>0, IngestionStepPreserves
<1>4. MetGrows BY <1>1 DEF MetGrows
<1>5. RegistryTypeOK' BY <1>0, <1>1 DEF RegistryTypeOK
<1>6. \A r \in Runs : run[r].label \in Uploads \cup {None} BY <1>0, RunFields
<1>7. RunsFormed' BY <1>0, <1>1, <1>2, <1>6 DEF RunsFormed, RunFormed
<1>8. Meeting' BY <1>0, <1>1, MeetingFrame DEF Running
<1>9. (OldOrMet /\ OneActive /\ ServesAModel /\ ReportsItsOwn)' BY <1>0, <1>1, <1>4, ModelFrame
<1>10. (PathOfOneMet /\ FileSaved /\ FileAtItsPath /\ RemovedIsGone /\ OrphanIsExplained)'
  BY <1>0, <1>1, <1>4, FileFrame
<1>11. HandlesItsDataset'
  <2> SUFFICES ASSUME NEW r \in Runs PROVE HandlesDataset(r)' BY DEF HandlesItsDataset
  <2>1. HandlesDataset(r) BY <1>0 DEF HandlesItsDataset
  <2> QED BY <1>0, <1>1, <1>2, <1>4, <2>1, DatasetFrame
<1> QED BY <1>3, <1>5, <1>7, <1>8, <1>9, <1>10, <1>11 DEF RegistryInv

-----------------------------------------------------------------------------
(* Runs *)

LEMMA Parts ==
  ASSUME RegistryInv
  PROVE  /\ IngestionInv /\ IngestionTypeOK /\ OneBatch /\ SnapshotIsTheBatch
         /\ RegistryTypeOK /\ RunsFormed /\ Meeting /\ HandlesItsDataset
         /\ OldOrMet /\ OneActive /\ ServesAModel /\ ReportsItsOwn
         /\ PathOfOneMet /\ FileSaved /\ FileAtItsPath /\ RemovedIsGone /\ OrphanIsExplained
BY DEF RegistryInv, IngestionInv

LEMMA IngestionUntouched ==
  ASSUME RegistryInv, UNCHANGED ingestionVars
  PROVE  /\ IngestionInv' /\ log' = log
         /\ \A u \in Uploads : up'[u] = up[u] /\ snapshots'[u] = snapshots[u]
<1>1. IngestionInv BY DEF RegistryInv
<1> QED BY <1>1, IngestionStutter DEF ingestionVars

\* Who is in flight while r is has met it.
LEMMA AloneInFlight ==
  ASSUME Meeting, NEW r \in Running, NEW s \in Running, r # s
  PROVE  ~Alone(r) /\ ~Alone(s)
BY DEF Meeting, Alone

LEMMA SelectPreserves ==
  ASSUME RegistryInv, NEW r \in Runs, Select(r), UNCHANGED ingestionVars
  PROVE  RegistryInv'
<1> USE RegistryAssumption
<1>0. Running \subseteq Runs BY DEF Running
<1> PICK label \in IF Cardinality(log) < MinRows THEN {None} ELSE LatestBatches :
    run' = [s \in Runs |->
      IF s = r THEN [run[r] EXCEPT !.pc = IF label = None THEN "failed" ELSE "selected",
                                   !.rows = IF label = None THEN {} ELSE log,
                                   !.label = label, !.met = Running]
      ELSE IF s \in Running THEN [run[s] EXCEPT !.met = @ \cup {r}]
      ELSE run[s]]
  BY DEF Select
<1>1. label = None \/ \E x \in log : label = x.batch BY DEF LatestBatches
<1>2. label \in Uploads \cup {None} /\ (label # None => up[label].pc = "success")
  BY <1>1, Parts, RowFields DEF IngestionInv, InsertedOnSuccess
<1>3. /\ run[r].pc = "idle" /\ run[r].met = {} /\ run[r].path = None /\ model[r] = "none" /\ del[r] = "none"
      /\ UNCHANGED <<export, disk, model, del>>
  BY Parts DEF Select, RunsFormed, RunFormed
<1>4. /\ run'[r].pc = IF label = None THEN "failed" ELSE "selected"
      /\ run'[r].rows = IF label = None THEN {} ELSE log
      /\ run'[r].label = label /\ run'[r].met = Running /\ run'[r].path = None
      /\ run'[r] \in Run
  <2>1. run[r] \in Run /\ log \subseteq Row BY Parts, RunFields DEF IngestionTypeOK
  <2>2. run'[r] = [run[r] EXCEPT !.pc = IF label = None THEN "failed" ELSE "selected",
                                 !.rows = IF label = None THEN {} ELSE log,
                                 !.label = label, !.met = Running]
    OBVIOUS
  <2>3. {"failed", "selected"} \subseteq {"idle"} \cup Live \cup Ended BY DEF Live, Early, Ended
  <2>4. CASE label = None BY ONLY <2>1, <2>2, <2>3, <2>4, <1>0, <1>2, <1>3 DEF Run
  <2>5. CASE label # None
    <3>1. run'[r] = [run[r] EXCEPT !.pc = "selected", !.rows = log, !.label = label, !.met = Running]
      BY <2>2, <2>5
    <3>2. label \in Uploads BY <2>5, <1>2
    <3> QED BY ONLY <2>1, <2>3, <2>5, <3>1, <3>2, <1>0, <1>3 DEF Run
  <2> QED BY <2>4, <2>5
<1>5. ASSUME NEW s \in Runs, s # r
      PROVE  /\ run'[s].pc = run[s].pc /\ run'[s].rows = run[s].rows /\ run'[s].clean = run[s].clean
             /\ run'[s].label = run[s].label /\ run'[s].data = run[s].data /\ run'[s].path = run[s].path
             /\ run'[s].old = run[s].old /\ run'[s].reported = run[s].reported
             /\ s \in Running => run'[s].met = run[s].met \cup {r}
             /\ s \notin Running => run'[s].met = run[s].met
             /\ run'[s] \in Run
  <2>1. run[s] \in Run BY Parts, RunFields
  <2>2. run'[s] = IF s \in Running THEN [run[s] EXCEPT !.met = @ \cup {r}] ELSE run[s]
    BY <1>5
  <2> QED BY ONLY <2>1, <2>2, r \in Runs DEF Run
<1>6. MetGrows BY <1>3, <1>4, <1>5 DEF MetGrows
<1>7. RegistryTypeOK'
  <2>1. run' \in [Runs -> Run] BY <1>4, <1>5
  <2> QED BY <2>1, <1>3, Parts DEF RegistryTypeOK
<1>8. RunsFormed'
  <2>1. ASSUME NEW s \in Runs, s # r PROVE RunFormed(s)'
    <3>1. RunFormed(s) BY Parts DEF RunsFormed
    <3>2. run[s].label \in Uploads \cup {None} BY Parts, RunFields
    <3>3. run[s].pc = "idle" => s \notin Running BY DEF Running, Live, Early
    <3>4. /\ run'[s].pc = run[s].pc /\ run'[s].label = run[s].label /\ run'[s].path = run[s].path
          /\ run[s].pc = "idle" => run'[s].met = run[s].met
      BY <2>1, <3>3, <1>5
    <3> QED BY <3>1, <3>2, <3>4, <1>3, IngestionUntouched DEF RunFormed
  <2>2. RunFormed(r)' BY <1>2, <1>3, <1>4, IngestionUntouched DEF RunFormed, Live, Early
  <2> QED BY <2>1, <2>2 DEF RunsFormed
<1>9. Running' \subseteq Running \cup {r} BY <1>5 DEF Running
<1>10. r \notin Running BY <1>3 DEF Running, Live, Early
<1>11. Meeting'
  <2>1. ASSUME NEW s \in Runs, NEW t \in Runs, t \in run'[s].met PROVE s \in run'[t].met
    <3>1. CASE s = r BY <3>1, <2>1, <1>4, <1>5, <1>10
    <3>2. CASE s # r /\ t = r
      <4>1. r \notin run[s].met BY <1>3, Parts DEF Meeting
      <4> QED BY <3>2, <4>1, <2>1, <1>4, <1>5
    <3>3. CASE s # r /\ t # r
      <4>1. t \in run[s].met BY <3>3, <2>1, <1>5
      <4>2. s \in run[t].met BY <4>1, Parts DEF Meeting
      <4> QED BY <4>2, <1>6 DEF MetGrows
    <3> QED BY <3>1, <3>2, <3>3
  <2>2. ASSUME NEW s \in Running', NEW t \in Running', s # t PROVE t \in run'[s].met
    <3>1. CASE s = r BY <3>1, <2>2, <1>4, <1>9
    <3>2. CASE t = r BY <3>2, <2>2, <1>0, <1>5, <1>9
    <3>3. CASE s # r /\ t # r
      <4>1. t \in run[s].met BY <3>3, <2>2, <1>9, Parts DEF Meeting
      <4> QED BY <4>1, <2>2, <1>0, <1>6, <1>9, <3>3 DEF MetGrows
    <3> QED BY <3>1, <3>2, <3>3
  <2> QED BY <2>1, <2>2 DEF Meeting
<1>12. (OldOrMet /\ OneActive /\ ServesAModel /\ ReportsItsOwn)'
  <2>1. run'[r].pc \in {"failed", "selected"} BY <1>4
  <2> QED BY <2>1, <1>3, <1>5, <1>6, Parts, ModelFrame
<1>13. (PathOfOneMet /\ FileSaved /\ FileAtItsPath /\ RemovedIsGone /\ OrphanIsExplained)'
  BY <1>3, <1>4, <1>5, <1>6, Parts, FileFrame
<1>14. HandlesItsDataset'
  <2> SUFFICES ASSUME NEW s \in Runs PROVE HandlesDataset(s)' BY DEF HandlesItsDataset
  <2>1. CASE s # r
    BY <2>1, <1>3, <1>5, <1>6, Parts, IngestionUntouched, DatasetFrame DEF HandlesItsDataset
  <2>2. CASE s = r
    <3> SUFFICES ASSUME label # None, up[label].met = {} PROVE log = Dataset(label)
      BY <2>2, <1>2, <1>3, <1>4, IngestionUntouched DEF HandlesDataset, Dataset
    <3>1. PICK x \in log : label = x.batch BY <1>1
    <3>2. \A y \in log : y \in Row /\ y.batch = label BY <3>1, Parts DEF OneBatch, IngestionTypeOK
    <3>3. {y \in log : y.batch = x.batch} = log BY <3>1, <3>2
    <3>4. {row.week : row \in log} = snapshots[label] BY <3>1, <3>3, Parts DEF SnapshotIsTheBatch
    <3>5. \A y \in log : y = [week |-> y.week, batch |-> label] BY <3>2 DEF Row
    <3> QED BY <3>4, <3>5 DEF Dataset
  <2> QED BY <2>1, <2>2
<1> QED BY <1>7, <1>8, <1>11, <1>12, <1>13, <1>14, IngestionUntouched DEF RegistryInv

-----------------------------------------------------------------------------
(* Steps of one run in flight *)

\* Another run writes at most `clean` of a run, and only while it writes.
Unmoved(s) ==
  /\ run'[s].pc = run[s].pc /\ run'[s].rows = run[s].rows /\ run'[s].label = run[s].label
  /\ run'[s].data = run[s].data /\ run'[s].path = run[s].path /\ run'[s].old = run[s].old
  /\ run'[s].reported = run[s].reported /\ run'[s].met = run[s].met
  /\ s \notin Writing => run'[s].clean = run[s].clean

LEMMA SameDataset ==
  ASSUME RegistryInv, UNCHANGED ingestionVars, NEW r \in Runs,
         run'[r].label = run[r].label, run[r].label \in Uploads
  PROVE  Dataset(run[r].label)' = Dataset(run[r].label)
BY IngestionUntouched DEF Dataset

\* What is common to them; the models and the files remain to be shown.
LEMMA OwnStep ==
  ASSUME RegistryInv, UNCHANGED ingestionVars, NEW r \in Running,
         RunFormed(r)', HandlesDataset(r)',
         run'[r].met = run[r].met, run'[r].pc # "idle",
         \A s \in Runs \ {r} : Unmoved(s) /\ del'[s] = del[s] /\ (model'[s] = "none" <=> model[s] = "none")
  PROVE  MetGrows /\ IngestionInv' /\ RunsFormed' /\ Meeting' /\ HandlesItsDataset'
<1>0. r \in Runs /\ run[r].pc \in Live BY DEF Running
<1>1. \A s \in Runs : run'[s].met = run[s].met BY DEF Unmoved
<1>2. MetGrows BY <1>1 DEF MetGrows
<1>3. RunsFormed'
  <2> SUFFICES ASSUME NEW s \in Runs, s # r PROVE RunFormed(s)' BY DEF RunsFormed
  <2>1. RunFormed(s) BY Parts DEF RunsFormed
  <2>2. run[s].label \in Uploads \cup {None} BY Parts, RunFields
  <2> QED BY <2>1, <2>2, IngestionUntouched DEF RunFormed, Unmoved
<1>4. Meeting'
  <2>1. Running' \subseteq Running BY <1>0 DEF Running, Unmoved
  <2> QED BY <2>1, <1>1, Parts, MeetingFrame
<1>5. HandlesItsDataset'
  <2> SUFFICES ASSUME NEW s \in Runs, s # r PROVE HandlesDataset(s)' BY DEF HandlesItsDataset
  <2>1. Alone(s)' => s \notin Running BY <1>1, AloneInFlight, Parts DEF Alone
  <2>2. s \notin Running => s \notin Writing /\ run[s].pc # "written"
    BY DEF Running, Writing, Live, Early
  <2>3. HandlesDataset(s) /\ RegistryTypeOK /\ RunsFormed BY Parts DEF HandlesItsDataset
  <2>4. run'[s].label = run[s].label BY DEF Unmoved
  <2>5. Alone(s)' =>
          /\ run'[s].pc = run[s].pc /\ run'[s].rows = run[s].rows /\ run'[s].clean = run[s].clean
          /\ run'[s].data = run[s].data /\ run[s].pc # "written"
          /\ model'[s] # "none" => model[s] # "none"
    BY <2>1, <2>2 DEF Unmoved
  <2> QED BY <1>2, <2>3, <2>4, <2>5, IngestionUntouched, DatasetFrame
<1> QED BY <1>2, <1>3, <1>4, <1>5, IngestionUntouched

\* A step that moves neither models nor files.
LEMMA QuietStep ==
  ASSUME RegistryInv, UNCHANGED ingestionVars, NEW r \in Running, UNCHANGED <<disk, model, del>>,
         RegistryTypeOK', RunFormed(r)', HandlesDataset(r)',
         run'[r].met = run[r].met, run'[r].pc \notin {"idle", "persisting", "committed", "answered"},
         \A s \in Runs \ {r} : Unmoved(s),
         run'[r].pc = "abandoned" \/ run'[r].path = run[r].path,
         run'[r].path \in {None, run[r].path},
         run[r].pc \in {"saved", "persisting"} => run'[r].pc = "abandoned"
  PROVE  RegistryInv'
<1>0. r \in Runs /\ run[r].pc # "abandoned" BY DEF Running, Live, Early
<1>1. MetGrows /\ IngestionInv' /\ RunsFormed' /\ Meeting' /\ HandlesItsDataset' BY OwnStep
<1>2. (OldOrMet /\ OneActive /\ ServesAModel /\ ReportsItsOwn)'
  BY <1>1, Parts, ModelFrame DEF Unmoved
<1>3. (PathOfOneMet /\ FileSaved /\ FileAtItsPath /\ RemovedIsGone /\ OrphanIsExplained)'
  BY <1>0, <1>1, Parts, FileFrame DEF Unmoved
<1> QED BY <1>1, <1>2, <1>3 DEF RegistryInv

LEMMA OpenExportPreserves ==
  ASSUME RegistryInv, NEW r \in Runs, OpenExport(r), UNCHANGED ingestionVars
  PROVE  RegistryInv'
<1>1. run[r].pc = "selected" /\ export' = {} /\ UNCHANGED <<disk, model, del>> BY DEF OpenExport
<1>2. r \in Running BY <1>1 DEF Running, Live, Early
<1>3. /\ run'[r].pc = "writing" /\ run'[r].clean = (Writing = {}) /\ run'[r] \in Run
      /\ run'[r].rows = run[r].rows /\ run'[r].label = run[r].label /\ run'[r].path = run[r].path
      /\ run'[r].data = run[r].data /\ run'[r].met = run[r].met
  <2>1. run[r] \in Run BY Parts, RunFields
  <2>2. run'[r] = [run[r] EXCEPT !.pc = "writing", !.clean = Writing = {}] BY DEF OpenExport
  <2> QED BY ONLY <2>1, <2>2 DEF Run, Live, Early
<1>4. ASSUME NEW s \in Runs, s # r PROVE Unmoved(s) /\ run'[s] \in Run
  <2>1. run[s] \in Run BY Parts, RunFields
  <2>2. run'[s] = IF s \in Writing THEN [run[s] EXCEPT !.clean = FALSE] ELSE run[s]
    BY <1>4 DEF OpenExport
  <2> QED BY ONLY <2>1, <2>2 DEF Run, Unmoved
<1>5. RegistryTypeOK'
  <2>1. run' \in [Runs -> Run] BY <1>3, <1>4 DEF OpenExport
  <2> QED BY <2>1, <1>1, Parts DEF RegistryTypeOK
<1>6. RunFormed(r) /\ HandlesDataset(r) BY Parts DEF RunsFormed, HandlesItsDataset
<1>7. run[r].label \in Uploads /\ run[r].path = None /\ model[r] = "none" /\ del[r] = "none"
  BY <1>1, <1>6 DEF RunFormed, Live, Early
<1>8. RunFormed(r)' BY <1>1, <1>3, <1>6, <1>7, IngestionUntouched DEF RunFormed, Live, Early
<1>9. HandlesDataset(r)'
  <2>1. Alone(r) => Writing = {}
    <3> SUFFICES ASSUME NEW s \in Writing PROVE ~Alone(r) OBVIOUS
    <3>1. s \in Running /\ s # r BY <1>1 DEF Writing, Running, Live, Early
    <3> QED BY <3>1, <1>2, AloneInFlight, Parts
  <2> SUFFICES ASSUME Alone(r)', up'[run'[r].label].met = {}
               PROVE  run'[r].rows = Dataset(run[r].label)' /\ run'[r].clean
    BY <1>1, <1>3, <1>7 DEF HandlesDataset
  <2>2. Alone(r) /\ up[run[r].label].met = {} BY <1>3, <1>7, IngestionUntouched DEF Alone
  <2>3. run[r].rows = Dataset(run[r].label) BY <1>1, <1>6, <1>7, <2>2, RegistryAssumption DEF HandlesDataset
  <2> QED BY <2>1, <2>2, <2>3, <1>3, <1>7, SameDataset
<1> QED BY <1>1, <1>2, <1>3, <1>4, <1>5, <1>8, <1>9, QuietStep

LEMMA CloseExportPreserves ==
  ASSUME RegistryInv, NEW r \in Runs, CloseExport(r), UNCHANGED ingestionVars
  PROVE  RegistryInv'
<1>1. /\ run[r].pc = "writing" /\ UNCHANGED <<disk, model, del>>
      /\ run[r].clean => export' = run[r].rows
      /\ ~run[r].clean => export' \in SUBSET (export \cup run[r].rows)
  BY DEF CloseExport
<1>2. r \in Running BY <1>1 DEF Running, Live, Early
<1>3. /\ run'[r].pc = "written" /\ run'[r] \in Run /\ run'[r].label = run[r].label
      /\ run'[r].path = run[r].path /\ run'[r].data = run[r].data /\ run'[r].met = run[r].met
  <2>1. run[r] \in Run BY Parts, RunFields
  <2>2. run'[r] = [run[r] EXCEPT !.pc = "written", !.rows = {}, !.clean = TRUE]
    BY Parts DEF CloseExport, RegistryTypeOK
  <2> QED BY ONLY <2>1, <2>2 DEF Run, Live, Early
<1>4. ASSUME NEW s \in Runs, s # r PROVE run'[s] = run[s]
  BY <1>4, Parts DEF CloseExport, RegistryTypeOK
<1>5. RegistryTypeOK'
  <2>1. run' \in [Runs -> Run] BY <1>3, Parts DEF CloseExport, RegistryTypeOK
  <2>2. export' \subseteq Row
    <3>1. run[r].rows \subseteq Row /\ export \subseteq Row /\ run[r].clean \in BOOLEAN
      BY Parts, RunFields DEF RegistryTypeOK
    <3> QED BY <3>1, <1>1
  <2> QED BY <2>1, <2>2, <1>1, Parts DEF RegistryTypeOK
<1>6. RunFormed(r) /\ HandlesDataset(r) BY Parts DEF RunsFormed, HandlesItsDataset
<1>7. run[r].label \in Uploads /\ run[r].path = None /\ model[r] = "none" /\ del[r] = "none"
  BY <1>1, <1>6 DEF RunFormed, Live, Early
<1>8. RunFormed(r)' BY <1>1, <1>3, <1>6, <1>7, IngestionUntouched DEF RunFormed, Live, Early
<1>9. HandlesDataset(r)'
  <2> SUFFICES ASSUME Alone(r)', up'[run'[r].label].met = {}
               PROVE  export' = Dataset(run[r].label)'
    BY <1>1, <1>3, <1>7 DEF HandlesDataset
  <2>1. Alone(r) /\ up[run[r].label].met = {} BY <1>3, <1>7, IngestionUntouched DEF Alone
  <2>2. run[r].clean /\ run[r].rows = Dataset(run[r].label)
    BY <1>1, <1>6, <1>7, <2>1, RegistryAssumption DEF HandlesDataset
  <2> QED BY <2>2, <1>1, <1>3, <1>7, SameDataset
<1>10. \A s \in Runs \ {r} : Unmoved(s) BY <1>4 DEF Unmoved
<1> QED BY <1>1, <1>2, <1>3, <1>5, <1>8, <1>9, <1>10, QuietStep

LEMMA TrainPreserves ==
  ASSUME RegistryInv, NEW r \in Runs, Train(r), UNCHANGED ingestionVars
  PROVE  RegistryInv'
<1> PICK rows \in Contents :
      run' = [run EXCEPT ![r].pc = IF rows = {} THEN "failed" ELSE "trained", ![r].data = rows]
  BY DEF Train
<1>1. run[r].pc = "written" /\ UNCHANGED <<export, disk, model, del>> BY DEF Train
<1>2. r \in Running BY <1>1 DEF Running, Live, Early
<1>3. rows \subseteq Row
  <2>1. \A s \in Runs : run[s].rows \subseteq Row BY Parts, RunFields
  <2>2. export \subseteq Row BY Parts DEF RegistryTypeOK
  <2> QED BY <2>1, <2>2 DEF Contents, Writing
<1>4. /\ run'[r].pc \in {"failed", "trained"} /\ run'[r].data = rows /\ run'[r] \in Run
      /\ run'[r].label = run[r].label /\ run'[r].path = run[r].path /\ run'[r].met = run[r].met
  <2>1. run[r] \in Run BY Parts, RunFields
  <2>2. run'[r] = [run[r] EXCEPT !.pc = IF rows = {} THEN "failed" ELSE "trained", !.data = rows]
    BY Parts DEF RegistryTypeOK
  <2> QED BY ONLY <2>1, <2>2, <1>3 DEF Run, Live, Early, Ended
<1>5. ASSUME NEW s \in Runs, s # r PROVE run'[s] = run[s]
  BY <1>5, Parts DEF RegistryTypeOK
<1>6. RegistryTypeOK'
  <2>1. run' \in [Runs -> Run] BY <1>4, Parts DEF RegistryTypeOK
  <2> QED BY <2>1, <1>1, Parts DEF RegistryTypeOK
<1>7. RunFormed(r) /\ HandlesDataset(r) BY Parts DEF RunsFormed, HandlesItsDataset
<1>8. run[r].label \in Uploads /\ run[r].path = None /\ model[r] = "none" /\ del[r] = "none"
  BY <1>1, <1>7 DEF RunFormed, Live, Early
<1>9. RunFormed(r)' BY <1>1, <1>4, <1>7, <1>8, IngestionUntouched DEF RunFormed, Live, Early
<1>10. HandlesDataset(r)'
  <2> SUFFICES ASSUME Alone(r)', up'[run'[r].label].met = {}
               PROVE  rows = Dataset(run[r].label)'
    BY <1>1, <1>4, <1>8 DEF HandlesDataset, ShowsItsDataset
  <2>1. Alone(r) /\ up[run[r].label].met = {} BY <1>4, <1>8, IngestionUntouched DEF Alone
  <2>2. export = Dataset(run[r].label)
    BY <1>1, <1>7, <1>8, <2>1, RegistryAssumption DEF HandlesDataset
  <2>3. Writing = {}
    <3> SUFFICES ASSUME NEW s \in Writing PROVE FALSE OBVIOUS
    <3>1. s \in Running /\ s # r BY <1>1 DEF Writing, Running, Live, Early
    <3> QED BY <3>1, <2>1, <1>2, AloneInFlight, Parts
  <2> QED BY <2>2, <2>3, <1>4, <1>8, SameDataset DEF Contents
<1>11. \A s \in Runs \ {r} : Unmoved(s) BY <1>5 DEF Unmoved
<1> QED BY <1>1, <1>2, <1>4, <1>6, <1>9, <1>10, <1>11, QuietStep

LEMMA DeactivatePreserves ==
  ASSUME RegistryInv, NEW r \in Runs, Deactivate(r), UNCHANGED ingestionVars
  PROVE  RegistryInv'
<1>1. run[r].pc = "saved" /\ UNCHANGED <<export, disk, model, del>> BY DEF Deactivate
<1>2. r \in Running BY <1>1 DEF Running, Live, Early
<1>3. /\ run'[r].pc = "persisting" /\ run'[r].old = ActiveModels /\ run'[r] \in Run
      /\ run'[r].label = run[r].label /\ run'[r].data = run[r].data
      /\ run'[r].path = run[r].path /\ run'[r].met = run[r].met
  <2>1. run[r] \in Run /\ ActiveModels \subseteq Runs BY Parts, RunFields DEF ActiveModels
  <2>2. run'[r] = [run[r] EXCEPT !.pc = "persisting", !.old = ActiveModels]
    BY Parts DEF Deactivate, RegistryTypeOK
  <2> QED BY ONLY <2>1, <2>2 DEF Run, Live, Early
<1>4. ASSUME NEW s \in Runs, s # r PROVE run'[s] = run[s]
  BY <1>4, Parts DEF Deactivate, RegistryTypeOK
<1>5. RegistryTypeOK'
  <2>1. run' \in [Runs -> Run] BY <1>3, Parts DEF Deactivate, RegistryTypeOK
  <2> QED BY <2>1, <1>1, Parts DEF RegistryTypeOK
<1>6. RunFormed(r) /\ HandlesDataset(r) BY Parts DEF RunsFormed, HandlesItsDataset
<1>7. run[r].label \in Uploads /\ run[r].path \in Runs /\ model[r] = "none" /\ del[r] = "none"
  BY <1>1, <1>6 DEF RunFormed, Live, Early
<1>8. RunFormed(r)' BY <1>1, <1>3, <1>6, <1>7, IngestionUntouched DEF RunFormed, Live, Early
<1>9. HandlesDataset(r)'
  <2> SUFFICES ASSUME Alone(r)', up'[run'[r].label].met = {}
               PROVE  run[r].data = Dataset(run[r].label)'
    BY <1>1, <1>3, <1>7 DEF HandlesDataset, ShowsItsDataset
  <2>1. Alone(r) /\ up[run[r].label].met = {} BY <1>3, <1>7, IngestionUntouched DEF Alone
  <2>2. run[r].data = Dataset(run[r].label)
    BY <1>1, <1>6, <1>7, <2>1, RegistryAssumption DEF HandlesDataset, ShowsItsDataset
  <2> QED BY <2>2, <1>3, <1>7, SameDataset
<1>10. \A s \in Runs \ {r} : Unmoved(s) BY <1>4 DEF Unmoved
<1>11. MetGrows /\ IngestionInv' /\ RunsFormed' /\ Meeting' /\ HandlesItsDataset'
  BY <1>1, <1>2, <1>3, <1>8, <1>9, <1>10, OwnStep
<1>12. OldOrMet'
  <2>1. ActiveModels' = ActiveModels BY <1>1 DEF ActiveModels
  <2> QED BY <2>1, <1>3, <1>4, Parts DEF OldOrMet
<1>13. (OneActive /\ ServesAModel /\ ReportsItsOwn)'
  <2>1. ActiveModels' = ActiveModels /\ ActiveModels \subseteq Runs BY <1>1 DEF ActiveModels
  <2>2. OneActive' BY <2>1, <1>11, Parts DEF OneActive, MetGrows
  <2>3. ServesAModel' BY <2>1, <1>1, Parts DEF ServesAModel
  <2>4. ReportsItsOwn' BY <1>3, <1>4, Parts DEF ReportsItsOwn, Alone
  <2> QED BY <2>2, <2>3, <2>4
<1>14. (PathOfOneMet /\ FileSaved /\ FileAtItsPath /\ RemovedIsGone /\ OrphanIsExplained)'
  BY <1>1, <1>3, <1>4, <1>11, Parts, FileFrame
<1> QED BY <1>5, <1>11, <1>12, <1>13, <1>14 DEF RegistryInv

LEMMA SaveModelPreserves ==
  ASSUME RegistryInv, NEW r \in Runs, SaveModel(r), UNCHANGED ingestionVars
  PROVE  RegistryInv'
<1> USE RegistryAssumption
<1> PICK p \in {r} \cup {s \in Running : run[s].path = s} :
      /\ run' = [run EXCEPT ![r].pc = "saved", ![r].path = p]
      /\ disk' = [disk EXCEPT ![p] = r]
  BY DEF SaveModel
<1>1. run[r].pc = "trained" /\ UNCHANGED <<export, model, del>> BY DEF SaveModel
<1>2. r \in Running /\ p \in Runs /\ p \in Running BY <1>1 DEF Running, Live, Early
<1>3. /\ run'[r].pc = "saved" /\ run'[r].path = p /\ run'[r] \in Run
      /\ run'[r].label = run[r].label /\ run'[r].data = run[r].data /\ run'[r].met = run[r].met
  <2>1. run[r] \in Run BY Parts, RunFields
  <2>2. run'[r] = [run[r] EXCEPT !.pc = "saved", !.path = p] BY Parts DEF RegistryTypeOK
  <2> QED BY ONLY <2>1, <2>2, <1>2 DEF Run, Live, Early
<1>4. ASSUME NEW s \in Runs, s # r PROVE run'[s] = run[s]
  BY <1>4, Parts DEF RegistryTypeOK
<1>5. /\ disk'[p] = r /\ \A q \in Runs \ {p} : disk'[q] = disk[q]
  BY <1>2, Parts DEF RegistryTypeOK
<1>6. RegistryTypeOK'
  <2>1. run' \in [Runs -> Run] BY <1>3, Parts DEF RegistryTypeOK
  <2>2. disk' \in [Runs -> Runs \cup {None}] BY <1>2, Parts DEF RegistryTypeOK
  <2> QED BY <2>1, <2>2, <1>1, Parts DEF RegistryTypeOK
<1>7. RunFormed(r) /\ HandlesDataset(r) BY Parts DEF RunsFormed, HandlesItsDataset
<1>8. run[r].label \in Uploads /\ run[r].path = None /\ model[r] = "none" /\ del[r] = "none"
  BY <1>1, <1>7 DEF RunFormed, Live, Early
<1>9. RunFormed(r)' BY <1>1, <1>2, <1>3, <1>7, <1>8, IngestionUntouched DEF RunFormed, Live, Early
<1>10. HandlesDataset(r)'
  <2> SUFFICES ASSUME Alone(r)', up'[run'[r].label].met = {}
               PROVE  run[r].data = Dataset(run[r].label)'
    BY <1>1, <1>3, <1>8 DEF HandlesDataset, ShowsItsDataset
  <2>1. Alone(r) /\ up[run[r].label].met = {} BY <1>3, <1>8, IngestionUntouched DEF Alone
  <2>2. run[r].data = Dataset(run[r].label)
    BY <1>1, <1>7, <1>8, <2>1 DEF HandlesDataset, ShowsItsDataset
  <2> QED BY <2>2, <1>3, <1>8, SameDataset
<1>11. \A s \in Runs \ {r} : Unmoved(s) BY <1>4 DEF Unmoved
<1>12. MetGrows /\ IngestionInv' /\ RunsFormed' /\ Meeting' /\ HandlesItsDataset'
  BY <1>1, <1>2, <1>3, <1>9, <1>10, <1>11, OwnStep
<1>13. (OldOrMet /\ OneActive /\ ServesAModel /\ ReportsItsOwn)'
  BY <1>1, <1>3, <1>4, <1>12, Parts, ModelFrame
<1>14. p = r \/ p \in run[r].met BY <1>2, Parts DEF Meeting
<1>15. \A q \in Runs : run'[q].met = run[q].met BY <1>3, <1>4
<1>16. PathOfOneMet' BY <1>3, <1>4, <1>14, <1>15, Parts DEF PathOfOneMet
<1>17. FileSaved'
  <2> SUFFICES ASSUME NEW q \in Runs, run'[q].path # None, Alone(q)', del[q] = "none"
               PROVE  disk'[q] = q
    BY <1>1 DEF FileSaved
  <2>1. CASE q = r BY <2>1, <1>3, <1>5, <1>14 DEF Alone
  <2>2. CASE q # r
    <3>1. run[q].path # None /\ Alone(q) BY <2>2, <1>4 DEF Alone
    <3>2. disk[q] = q BY <3>1, Parts DEF FileSaved
    <3>3. q # p BY <2>2, <3>1, <1>2, AloneInFlight, Parts
    <3> QED BY <3>2, <3>3, <1>5
  <2> QED BY <2>1, <2>2
<1>18. \A q \in Runs : disk[q] # r
  <2> SUFFICES ASSUME NEW q \in Runs, disk[q] = r PROVE FALSE OBVIOUS
  <2>1. r # None BY Parts, <1>2
  <2>2. run[r].path = q BY <2>1, <1>1, Parts DEF FileAtItsPath
  <2> QED BY <2>2, <1>8
<1>19. FileAtItsPath'
  BY <1>2, <1>3, <1>4, <1>5, <1>18, Parts DEF FileAtItsPath, RegistryTypeOK
<1>20. RemovedIsGone' BY <1>1, <1>2, <1>5, <1>8, Parts DEF RemovedIsGone
<1>21. OrphanIsExplained'
  <2> SUFFICES ASSUME NEW q \in Runs, disk'[q] # None
               PROVE  LET s == disk'[q]
                      IN \/ run'[s].pc \in {"saved", "persisting", "abandoned"}
                         \/ s \in Rows
                         \/ model[s] = "deleted" /\ del[s] = "kept"
    BY <1>1 DEF OrphanIsExplained, Rows
  <2>1. CASE q = p BY <2>1, <1>3, <1>5
  <2>2. CASE q # p BY <2>2, <1>4, <1>5, <1>18, Parts DEF OrphanIsExplained, RegistryTypeOK
  <2> QED BY <2>1, <2>2
<1> QED BY <1>6, <1>12, <1>13, <1>16, <1>17, <1>19, <1>20, <1>21 DEF RegistryInv

LEMMA PersistPreserves ==
  ASSUME RegistryInv, NEW r \in Runs, Persist(r), UNCHANGED ingestionVars
  PROVE  RegistryInv'
<1> USE RegistryAssumption
<1>1. run[r].pc = "persisting" /\ UNCHANGED <<export, disk, del>> BY DEF Persist
<1>2. r \in Running BY <1>1 DEF Running, Live, Early
<1>3. /\ run'[r].pc = "committed" /\ run'[r] \in Run
      /\ run'[r].label = run[r].label /\ run'[r].data = run[r].data
      /\ run'[r].path = run[r].path /\ run'[r].met = run[r].met
  <2>1. run[r] \in Run BY Parts, RunFields
  <2>2. run'[r] = [run[r] EXCEPT !.pc = "committed", !.old = {}]
    BY Parts DEF Persist, RegistryTypeOK
  <2> QED BY ONLY <2>1, <2>2 DEF Run, Live, Early
<1>4. ASSUME NEW s \in Runs, s # r PROVE run'[s] = run[s]
  BY <1>4, Parts DEF Persist, RegistryTypeOK
<1>5. /\ model'[r] = "active"
      /\ \A s \in Runs \ {r} :
           /\ s \in run[r].old /\ model[s] = "active" => model'[s] = "inactive"
           /\ ~(s \in run[r].old /\ model[s] = "active") => model'[s] = model[s]
  BY DEF Persist, ActiveModels
<1>6. RegistryTypeOK'
  <2>1. run' \in [Runs -> Run] BY <1>3, Parts DEF Persist, RegistryTypeOK
  <2>2. model' \in [Runs -> {"none", "active", "inactive", "deleted"}]
    BY Parts DEF Persist, RegistryTypeOK
  <2> QED BY <2>1, <2>2, <1>1, Parts DEF RegistryTypeOK
<1>7. RunFormed(r) /\ HandlesDataset(r) BY Parts DEF RunsFormed, HandlesItsDataset
<1>8. run[r].label \in Uploads /\ run[r].path \in Runs /\ model[r] = "none" /\ del[r] = "none"
  BY <1>1, <1>7 DEF RunFormed, Live, Early
<1>9. RunFormed(r)' BY <1>1, <1>3, <1>7, <1>8, IngestionUntouched DEF RunFormed, Live, Early
<1>10. HandlesDataset(r)'
  <2> SUFFICES ASSUME Alone(r)', up'[run'[r].label].met = {}
               PROVE  run[r].data = Dataset(run[r].label)'
    BY <1>1, <1>3, <1>8 DEF HandlesDataset, ShowsItsDataset
  <2>1. Alone(r) /\ up[run[r].label].met = {} BY <1>3, <1>8, IngestionUntouched DEF Alone
  <2>2. run[r].data = Dataset(run[r].label)
    BY <1>1, <1>7, <1>8, <2>1 DEF HandlesDataset, ShowsItsDataset
  <2> QED BY <2>2, <1>3, <1>8, SameDataset
<1>11. \A s \in Runs \ {r} : Unmoved(s) BY <1>4 DEF Unmoved
<1>12. \A s \in Runs \ {r} : model'[s] = "none" <=> model[s] = "none" BY <1>5
<1>13. MetGrows /\ IngestionInv' /\ RunsFormed' /\ Meeting' /\ HandlesItsDataset'
  BY <1>1, <1>2, <1>3, <1>9, <1>10, <1>11, <1>12, OwnStep
<1>14. \A q \in Runs : run'[q].met = run[q].met BY <1>3, <1>4
<1>15. \A s \in ActiveModels' : s = r \/ (s \in ActiveModels /\ s # r /\ s \in run[r].met /\ s \in Runs)
  BY <1>1, <1>5, Parts DEF ActiveModels, OldOrMet
<1>16. \A s \in run[r].met : r \in run[s].met
  BY Parts, RunFields DEF Meeting
<1>17. OneActive' BY <1>14, <1>15, <1>16, Parts DEF OneActive
<1>18. OldOrMet'
  <2> SUFFICES ASSUME NEW q \in Runs, NEW s \in ActiveModels'
               PROVE  /\ run'[q].pc = "persisting" => s \in run'[q].old \cup run[q].met
                      /\ run'[q].pc = "committed" => s \in {q} \cup run[q].met
    BY <1>14 DEF OldOrMet
  <2>1. CASE q = r BY <2>1, <1>3, <1>15
  <2>2. CASE q # r /\ s = r
    <3>1. run[q].pc \in {"persisting", "committed"} => q \in Running BY DEF Running, Live
    <3> QED BY <2>2, <3>1, <1>2, <1>4, Parts DEF Meeting
  <2>3. CASE q # r /\ s # r BY <2>3, <1>4, <1>15, Parts DEF OldOrMet
  <2> QED BY <2>1, <2>2, <2>3
<1>19. ServesAModel' BY <1>5 DEF ServesAModel, ActiveModels
<1>20. ReportsItsOwn' BY <1>3, <1>4, Parts DEF ReportsItsOwn, Alone
<1>21. PathOfOneMet' /\ FileSaved'
  BY <1>1, <1>3, <1>4, Parts DEF PathOfOneMet, FileSaved, Alone
<1>22. \A p \in Runs : disk[p] # None => disk[p] \in Runs BY Parts DEF RegistryTypeOK
<1>23. FileAtItsPath' BY <1>1, <1>3, <1>4, <1>22, Parts DEF FileAtItsPath
<1>24. RemovedIsGone' BY <1>1, Parts DEF RemovedIsGone
<1>25. OrphanIsExplained'
  <2>1. \A s \in Runs : s \in Rows => s \in Rows' BY <1>5 DEF Rows
  <2>2. r \in Rows' BY <1>5 DEF Rows
  <2> QED BY <2>1, <2>2, <1>1, <1>4, <1>5, <1>22, Parts DEF OrphanIsExplained
<1> QED BY <1>6, <1>13, <1>17, <1>18, <1>19, <1>20, <1>21, <1>23, <1>24, <1>25 DEF RegistryInv

\* A committed run keeps its row, its label and its data when it ends.
LEMMA EndOfCommitted ==
  ASSUME RegistryInv, NEW r \in Runs, run[r].pc = "committed", UNCHANGED ingestionVars,
         UNCHANGED <<export, disk, model, del>>, run'[r].pc \in {"answered", "failed"},
         run'[r].label = run[r].label, run'[r].data = run[r].data, run'[r].path = run[r].path,
         run'[r].met = run[r].met
  PROVE  r \in Running /\ RunFormed(r)' /\ HandlesDataset(r)'
<1> USE RegistryAssumption
<1>1. RunFormed(r) /\ HandlesDataset(r) BY Parts DEF RunsFormed, HandlesItsDataset
<1>2. r \in Running /\ run[r].label \in Uploads BY <1>1 DEF Running, Live, Early, RunFormed
<1>3. RunFormed(r)' BY <1>1, <1>2, IngestionUntouched DEF RunFormed, Live, Early
<1>4. HandlesDataset(r)'
  <2> SUFFICES ASSUME Alone(r)', up'[run'[r].label].met = {}, model[r] # "none"
               PROVE  run[r].data = Dataset(run[r].label)'
    BY DEF HandlesDataset, ShowsItsDataset
  <2>1. Alone(r) /\ up[run[r].label].met = {} BY <1>2, IngestionUntouched DEF Alone
  <2>2. run[r].data = Dataset(run[r].label)
    BY <1>1, <1>2, <2>1 DEF HandlesDataset, ShowsItsDataset
  <2> QED BY <2>2, <1>2, SameDataset
<1> QED BY <1>2, <1>3, <1>4

LEMMA ReportPreserves ==
  ASSUME RegistryInv, NEW r \in Runs, Report(r), UNCHANGED ingestionVars
  PROVE  RegistryInv'
<1> PICK m \in IF ActiveModels = {} THEN {None} ELSE ActiveModels :
      run' = [run EXCEPT ![r].pc = IF m = None THEN "failed" ELSE "answered", ![r].reported = m]
  BY DEF Report
<1>1. run[r].pc = "committed" /\ UNCHANGED <<export, disk, model, del>> BY DEF Report
<1>2. m = None \/ m \in ActiveModels OBVIOUS
<1>3. /\ run'[r].pc \in {"answered", "failed"} /\ run'[r] \in Run /\ run'[r].reported = m
      /\ run'[r].pc = "answered" => m # None
      /\ run'[r].label = run[r].label /\ run'[r].data = run[r].data
      /\ run'[r].path = run[r].path /\ run'[r].met = run[r].met
  <2>1. run[r] \in Run BY Parts, RunFields
  <2>2. run'[r] = [run[r] EXCEPT !.pc = IF m = None THEN "failed" ELSE "answered", !.reported = m]
    BY Parts DEF RegistryTypeOK
  <2>3. m \in Runs \cup {None} BY <1>2 DEF ActiveModels
  <2> QED BY ONLY <2>1, <2>2, <2>3 DEF Run, Ended
<1>4. ASSUME NEW s \in Runs, s # r PROVE run'[s] = run[s]
  BY <1>4, Parts DEF RegistryTypeOK
<1>5. RegistryTypeOK'
  <2>1. run' \in [Runs -> Run] BY <1>3, Parts DEF RegistryTypeOK
  <2> QED BY <2>1, <1>1, Parts DEF RegistryTypeOK
<1>6. r \in Running /\ RunFormed(r)' /\ HandlesDataset(r)' BY <1>1, <1>3, EndOfCommitted
<1>7. \A s \in Runs \ {r} : Unmoved(s) BY <1>4 DEF Unmoved
<1>8. MetGrows /\ IngestionInv' /\ RunsFormed' /\ Meeting' /\ HandlesItsDataset'
  BY <1>1, <1>3, <1>6, <1>7, OwnStep
<1>9. ActiveModels' = ActiveModels /\ ActiveModels \subseteq Runs BY <1>1 DEF ActiveModels
<1>10. OldOrMet' BY <1>3, <1>4, <1>9, Parts DEF OldOrMet
<1>11. OneActive' BY <1>8, <1>9, Parts DEF OneActive, MetGrows
<1>12. ServesAModel' BY <1>1, <1>9, Parts DEF ServesAModel
<1>13. ReportsItsOwn'
  <2>1. m = None \/ m = r \/ m \in run[r].met BY <1>1, <1>2, <1>9, Parts DEF OldOrMet
  <2> QED BY <2>1, <1>3, <1>4, Parts DEF ReportsItsOwn, Alone
<1>14. (PathOfOneMet /\ FileSaved /\ FileAtItsPath /\ RemovedIsGone /\ OrphanIsExplained)'
  BY <1>1, <1>3, <1>4, <1>8, Parts, FileFrame
<1> QED BY <1>5, <1>8, <1>10, <1>11, <1>12, <1>13, <1>14 DEF RegistryInv

LEMMA KillTooLatePreserves ==
  ASSUME RegistryInv, NEW r \in Runs, KillTooLate(r), UNCHANGED ingestionVars
  PROVE  RegistryInv'
<1>1. run[r].pc = "committed" /\ UNCHANGED <<export, disk, model, del>> BY DEF KillTooLate
<1>2. /\ run'[r].pc = "failed" /\ run'[r] \in Run
      /\ run'[r].label = run[r].label /\ run'[r].data = run[r].data
      /\ run'[r].path = run[r].path /\ run'[r].met = run[r].met
  <2>1. run[r] \in Run BY Parts, RunFields
  <2>2. run'[r] = [run[r] EXCEPT !.pc = "failed"] BY Parts DEF KillTooLate, RegistryTypeOK
  <2> QED BY ONLY <2>1, <2>2 DEF Run, Ended
<1>3. \A s \in Runs \ {r} : Unmoved(s) BY Parts DEF KillTooLate, RegistryTypeOK, Unmoved
<1>4. RegistryTypeOK'
  <2>1. run' \in [Runs -> Run] BY <1>2, Parts DEF KillTooLate, RegistryTypeOK
  <2> QED BY <2>1, <1>1, Parts DEF RegistryTypeOK
<1>5. r \in Running /\ RunFormed(r)' /\ HandlesDataset(r)' BY <1>1, <1>2, EndOfCommitted
<1> QED BY <1>1, <1>2, <1>3, <1>4, <1>5, QuietStep

\* What GiveUp leaves of a run.
LEMMA GivenUp ==
  ASSUME RegistryInv, NEW r \in Runs, NEW pc \in {"failed", "abandoned"}, GiveUp(r, pc),
         model[r] = "none", del[r] = "none", UNCHANGED <<model, del>>
  PROVE  /\ run' \in [Runs -> Run] /\ run'[r].pc = pc /\ run'[r].path = None
         /\ run'[r].met = run[r].met
         /\ \A s \in Runs \ {r} : run'[s] = run[s]
         /\ RunFormed(r)' /\ HandlesDataset(r)'
<1>1. run'[r] = [NewRun EXCEPT !.pc = pc, !.met = run[r].met] BY Parts DEF GiveUp, RegistryTypeOK
<1>2. run[r].met \subseteq Runs BY Parts, RunFields
<1>3. /\ run'[r].pc = pc /\ run'[r].path = None /\ run'[r].label = None
      /\ run'[r].met = run[r].met /\ run'[r] \in Run
  BY ONLY <1>1, <1>2, pc \in {"failed", "abandoned"} DEF NewRun, Run, Ended
<1>4. run' \in [Runs -> Run] /\ \A s \in Runs \ {r} : run'[s] = run[s]
  BY <1>3, Parts DEF GiveUp, RegistryTypeOK
<1>5. RunFormed(r)' BY <1>3 DEF RunFormed, Live, Early
<1>6. HandlesDataset(r)' BY <1>3 DEF HandlesDataset
<1> QED BY <1>3, <1>4, <1>5, <1>6

\* It leaves no file, or leaves it as an abandoned run.
LEMMA GiveUpPreserves ==
  ASSUME RegistryInv, NEW r \in Runs, NEW pc \in {"failed", "abandoned"}, GiveUp(r, pc),
         \/ run[r].pc \in Early /\ pc = "failed"
         \/ run[r].pc \in {"saved", "persisting"} /\ pc = "abandoned",
         UNCHANGED <<export, disk, model, del>>, UNCHANGED ingestionVars
  PROVE  RegistryInv'
<1>1. r \in Running BY DEF Running, Live, Early
<1>2. model[r] = "none" /\ del[r] = "none" /\ (run[r].pc \in Early => run[r].path = None)
  BY Parts DEF RunsFormed, RunFormed, Early
<1>3. /\ run' \in [Runs -> Run] /\ run'[r].pc = pc /\ run'[r].path = None /\ run'[r].met = run[r].met
      /\ \A s \in Runs \ {r} : run'[s] = run[s]
      /\ RunFormed(r)' /\ HandlesDataset(r)'
  BY <1>2, GivenUp
<1>4. \A s \in Runs \ {r} : Unmoved(s) BY <1>3 DEF Unmoved
<1>5. RegistryTypeOK' BY <1>3, Parts DEF RegistryTypeOK
<1>6. run'[r].pc = "abandoned" \/ run'[r].path = run[r].path BY <1>2, <1>3
<1>7. run[r].pc \in {"saved", "persisting"} => run'[r].pc = "abandoned" BY <1>3 DEF Early
<1> QED BY <1>1, <1>3, <1>4, <1>5, <1>6, <1>7, QuietStep

LEMMA KillPreserves ==
  ASSUME RegistryInv, NEW r \in Runs, Kill(r), UNCHANGED ingestionVars
  PROVE  RegistryInv'
BY GiveUpPreserves DEF Kill

\* persist_to_neon fails: it removes the file at the run's path.
LEMMA UnlinkPreserves ==
  ASSUME RegistryInv, NEW r \in Runs, run[r].pc = "persisting", GiveUp(r, "failed"),
         disk' = [disk EXCEPT ![run[r].path] = None],
         UNCHANGED <<export, model, del>>, UNCHANGED ingestionVars
  PROVE  RegistryInv'
<1> USE RegistryAssumption
<1>1. r \in Running BY DEF Running, Live, Early
<1>2. model[r] = "none" /\ del[r] = "none" /\ run[r].path \in Runs
  BY Parts DEF RunsFormed, RunFormed
<1>3. /\ run' \in [Runs -> Run] /\ run'[r].pc = "failed" /\ run'[r].path = None /\ run'[r].met = run[r].met
      /\ \A s \in Runs \ {r} : run'[s] = run[s]
      /\ RunFormed(r)' /\ HandlesDataset(r)'
  BY <1>2, GivenUp
<1>4. \A s \in Runs \ {r} : Unmoved(s) BY <1>3 DEF Unmoved
<1>5. disk'[run[r].path] = None /\ \A p \in Runs \ {run[r].path} : disk'[p] = disk[p]
  BY <1>2, Parts DEF RegistryTypeOK
<1>6. RegistryTypeOK' BY <1>2, <1>3, Parts DEF RegistryTypeOK
<1>7. MetGrows /\ IngestionInv' /\ RunsFormed' /\ Meeting' /\ HandlesItsDataset'
  BY <1>1, <1>3, <1>4, OwnStep
<1>8. (OldOrMet /\ OneActive /\ ServesAModel /\ ReportsItsOwn)'
  BY <1>3, <1>7, Parts, ModelFrame
<1>9. PathOfOneMet' BY <1>3, Parts DEF PathOfOneMet
<1>10. FileSaved'
  <2> SUFFICES ASSUME NEW q \in Runs, q # r, run[q].path # None, Alone(q), del[q] = "none"
               PROVE  disk'[q] = q
    BY <1>3 DEF FileSaved, Alone
  <2>1. disk[q] = q BY Parts DEF FileSaved
  <2>2. q # run[r].path
    <3> SUFFICES ASSUME q = run[r].path PROVE FALSE OBVIOUS
    <3>1. q \in run[r].met BY <1>2, Parts DEF PathOfOneMet
    <3> QED BY <3>1, Parts DEF Meeting, Alone
  <2> QED BY <2>1, <2>2, <1>5
<1>11. \A p \in Runs : disk'[p] # None => disk'[p] = disk[p] /\ disk[p] \in Runs \ {r}
  <2> SUFFICES ASSUME NEW p \in Runs, disk'[p] # None PROVE disk'[p] = disk[p] /\ disk[p] \in Runs \ {r}
    OBVIOUS
  <2>1. p # run[r].path /\ disk'[p] = disk[p] /\ disk[p] \in Runs BY <1>5, Parts DEF RegistryTypeOK
  <2>2. disk[p] # r BY <2>1, Parts DEF FileAtItsPath
  <2> QED BY <2>1, <2>2
<1>12. FileAtItsPath' BY <1>3, <1>11, Parts DEF FileAtItsPath
<1>13. RemovedIsGone' BY <1>11, Parts DEF RemovedIsGone
<1>14. OrphanIsExplained' BY <1>3, <1>11, Parts DEF OrphanIsExplained, Rows
<1> QED BY <1>6, <1>7, <1>8, <1>9, <1>10, <1>12, <1>13, <1>14 DEF RegistryInv

LEMMA RaisePreserves ==
  ASSUME RegistryInv, NEW r \in Runs, Raise(r), UNCHANGED ingestionVars
  PROVE  RegistryInv'
<1>0. UNCHANGED <<export, model, del>> BY DEF Raise
<1>1. CASE run[r].pc \in Early /\ GiveUp(r, "failed") /\ UNCHANGED disk BY <1>0, <1>1, GiveUpPreserves
<1>2. CASE run[r].pc = "saved" /\ GiveUp(r, "abandoned") /\ UNCHANGED disk BY <1>0, <1>2, GiveUpPreserves
<1>3. CASE /\ run[r].pc = "persisting" /\ GiveUp(r, "failed")
           /\ disk' = [disk EXCEPT ![run[r].path] = None]
  BY <1>0, <1>3, UnlinkPreserves
<1> QED BY <1>1, <1>2, <1>3 DEF Raise

-----------------------------------------------------------------------------
(* Deletions *)

\* A deletion changes no run, and neither makes rows nor brings them back.
LEMMA DeletionFrame ==
  ASSUME RegistryInv, UNCHANGED <<export, run>>, UNCHANGED ingestionVars,
         \A r \in Runs : model'[r] # "none" <=> model[r] # "none",
         \A r \in Runs : del'[r] # "none" => model[r] # "none",
         ActiveModels' \subseteq ActiveModels,
         ServesAModel'
  PROVE  /\ MetGrows /\ IngestionInv' /\ RunsFormed' /\ Meeting' /\ HandlesItsDataset'
         /\ (OldOrMet /\ OneActive /\ ServesAModel /\ ReportsItsOwn /\ PathOfOneMet)'
<1>1. export' = export /\ run' = run OBVIOUS
<1>2. MetGrows BY <1>1 DEF MetGrows
<1>3. IngestionInv' BY IngestionUntouched
<1>4. RunsFormed'
  <2>1. \A r \in Runs : run[r].label \in Uploads \cup {None} BY Parts, RunFields
  <2> QED BY <2>1, <1>1, Parts, IngestionUntouched DEF RunsFormed, RunFormed
<1>5. Meeting' BY <1>1, Parts, MeetingFrame DEF Running
<1>6. HandlesItsDataset'
  <2> SUFFICES ASSUME NEW r \in Runs PROVE HandlesDataset(r)' BY DEF HandlesItsDataset
  <2>1. HandlesDataset(r) BY Parts DEF HandlesItsDataset
  <2> QED BY <1>1, <1>2, <2>1, Parts, IngestionUntouched, DatasetFrame
<1>7. OldOrMet' BY <1>1, Parts DEF OldOrMet
<1>8. OneActive' BY <1>1, Parts DEF OneActive
<1>9. ReportsItsOwn' BY <1>1, Parts DEF ReportsItsOwn, Alone
<1>10. PathOfOneMet' BY <1>1, Parts DEF PathOfOneMet
<1> QED BY <1>2, <1>3, <1>4, <1>5, <1>6, <1>7, <1>8, <1>9, <1>10

\* A deletion that moves on, with the row still there or never to be there again.
LEMMA DelMoves ==
  ASSUME RegistryInv, NEW r \in Runs, NEW d \in {"read", "kept", "aborted"},
         del' = [del EXCEPT ![r] = d], model[r] # "none",
         d = "kept" \/ r \in Rows,
         UNCHANGED <<export, disk, model, run>>, UNCHANGED ingestionVars
  PROVE  RegistryInv'
<1>1. del'[r] = d /\ \A s \in Runs \ {r} : del'[s] = del[s] BY Parts DEF RegistryTypeOK
<1>2. RegistryTypeOK' BY Parts DEF RegistryTypeOK
<1>3. \A s \in Runs : del'[s] # "none" => model[s] # "none"
  BY <1>1, Parts DEF RunsFormed, RunFormed
<1>4. ActiveModels' = ActiveModels BY DEF ActiveModels
<1>5. ServesAModel' BY <1>4, Parts DEF ServesAModel
<1>6. /\ MetGrows /\ IngestionInv' /\ RunsFormed' /\ Meeting' /\ HandlesItsDataset'
      /\ (OldOrMet /\ OneActive /\ ServesAModel /\ ReportsItsOwn /\ PathOfOneMet)'
  BY <1>3, <1>4, <1>5, DeletionFrame
<1>7. FileSaved' BY <1>1, Parts DEF FileSaved, Alone
<1>8. FileAtItsPath' BY Parts DEF FileAtItsPath
<1>9. RemovedIsGone' BY <1>1, Parts DEF RemovedIsGone
<1>10. \A p \in Runs : disk[p] # None => disk[p] \in Runs BY Parts DEF RegistryTypeOK
<1>11. r \in Rows => model[r] # "deleted" BY DEF Rows
<1>12. OrphanIsExplained' BY <1>1, <1>10, <1>11, Parts DEF OrphanIsExplained, Rows
<1> QED BY <1>2, <1>6, <1>7, <1>8, <1>9, <1>12 DEF RegistryInv

LEMMA FindModelPreserves ==
  ASSUME RegistryInv, NEW r \in Runs, FindModel(r), UNCHANGED ingestionVars
  PROVE  RegistryInv'
BY DelMoves DEF FindModel, Rows

LEMMA AbortDeletePreserves ==
  ASSUME RegistryInv, NEW r \in Runs, AbortDelete(r), UNCHANGED ingestionVars
  PROVE  RegistryInv'
BY DelMoves DEF AbortDelete, Rows

LEMMA FileRemovedPreserves ==
  ASSUME RegistryInv, NEW r \in Runs, del[r] = "read",
         disk' = [disk EXCEPT ![run[r].path] = None], del' = [del EXCEPT ![r] = "removed"],
         UNCHANGED <<export, model, run>>, UNCHANGED ingestionVars
  PROVE  RegistryInv'
<1> USE RegistryAssumption
<1>1. del'[r] = "removed" /\ \A s \in Runs \ {r} : del'[s] = del[s] BY Parts DEF RegistryTypeOK
<1>2. model[r] # "none" /\ run[r].path \in Runs /\ run[r].pc # "abandoned"
  BY Parts DEF RunsFormed, RunFormed
<1>3. disk'[run[r].path] = None /\ \A p \in Runs \ {run[r].path} : disk'[p] = disk[p]
  BY <1>2, Parts DEF RegistryTypeOK
<1>4. RegistryTypeOK' BY <1>2, Parts DEF RegistryTypeOK
<1>5. \A s \in Runs : del'[s] # "none" => model[s] # "none"
  BY <1>1, <1>2, Parts DEF RunsFormed, RunFormed
<1>6. ActiveModels' = ActiveModels BY DEF ActiveModels
<1>7. ServesAModel' BY <1>6, Parts DEF ServesAModel
<1>8. /\ MetGrows /\ IngestionInv' /\ RunsFormed' /\ Meeting' /\ HandlesItsDataset'
      /\ (OldOrMet /\ OneActive /\ ServesAModel /\ ReportsItsOwn /\ PathOfOneMet)'
  BY <1>5, <1>6, <1>7, DeletionFrame
<1>9. FileSaved'
  <2> SUFFICES ASSUME NEW q \in Runs, q # r, run[q].path # None, Alone(q), del[q] = "none"
               PROVE  disk'[q] = q
    BY <1>1 DEF FileSaved, Alone
  <2>1. disk[q] = q BY Parts DEF FileSaved
  <2>2. q # run[r].path
    <3> SUFFICES ASSUME q = run[r].path PROVE FALSE OBVIOUS
    <3>1. q \in run[r].met BY <1>2, Parts DEF PathOfOneMet
    <3> QED BY <3>1, Parts DEF Meeting, Alone
  <2> QED BY <2>1, <2>2, <1>3
<1>10. \A p \in Runs : disk'[p] # None =>
          p # run[r].path /\ disk'[p] = disk[p] /\ disk[p] \in Runs
  BY <1>3, Parts DEF RegistryTypeOK
<1>11. FileAtItsPath' BY <1>10, Parts DEF FileAtItsPath
<1>12. \A p \in Runs : disk'[p] # r
  <2> SUFFICES ASSUME NEW p \in Runs, disk'[p] = r PROVE FALSE OBVIOUS
  <2>1. p # run[r].path /\ disk[p] = r BY <1>10
  <2> QED BY <2>1, <1>2, Parts DEF FileAtItsPath
<1>13. RemovedIsGone'
  <2>1. \A q, p \in Runs : disk'[p] = q => disk[p] = q BY <1>10
  <2> QED BY <2>1, <1>1, <1>12, Parts DEF RemovedIsGone
<1>14. OrphanIsExplained'
  BY <1>1, <1>10, <1>12, Parts DEF OrphanIsExplained, Rows
<1> QED BY <1>4, <1>8, <1>9, <1>11, <1>13, <1>14 DEF RegistryInv

LEMMA RemoveFilePreserves ==
  ASSUME RegistryInv, NEW r \in Runs, RemoveFile(r), UNCHANGED ingestionVars
  PROVE  RegistryInv'
<1>1. model[r] # "none" BY Parts DEF RemoveFile, RunsFormed, RunFormed
<1>2. CASE disk' = [disk EXCEPT ![run[r].path] = None] /\ del' = [del EXCEPT ![r] = "removed"]
  BY <1>2, FileRemovedPreserves DEF RemoveFile
<1>3. CASE del' = [del EXCEPT ![r] = "kept"] /\ UNCHANGED disk
  BY <1>1, <1>3, DelMoves DEF RemoveFile
<1> QED BY <1>2, <1>3 DEF RemoveFile

LEMMA DropRowPreserves ==
  ASSUME RegistryInv, NEW r \in Runs, DropRow(r), UNCHANGED ingestionVars
  PROVE  RegistryInv'
<1>1. /\ UNCHANGED <<export, disk, run, del>> /\ del[r] \in {"removed", "kept"}
      /\ model[r] # "none"
  BY DEF DropRow, Rows
<1>2. model'[r] = "deleted" /\ \A s \in Runs \ {r} : model'[s] = model[s]
  BY Parts DEF DropRow, RegistryTypeOK
<1>3. RegistryTypeOK' BY Parts DEF DropRow, RegistryTypeOK
<1>4. \A s \in Runs : model'[s] # "none" <=> model[s] # "none" BY <1>1, <1>2
<1>5. \A s \in Runs : del'[s] # "none" => model[s] # "none"
  BY <1>1, Parts DEF RunsFormed, RunFormed
<1>6. ActiveModels' \subseteq ActiveModels BY <1>2 DEF ActiveModels
<1>7. ServesAModel' BY <1>2 DEF ServesAModel
<1>8. /\ MetGrows /\ IngestionInv' /\ RunsFormed' /\ Meeting' /\ HandlesItsDataset'
      /\ (OldOrMet /\ OneActive /\ ServesAModel /\ ReportsItsOwn /\ PathOfOneMet)'
  BY <1>1, <1>4, <1>5, <1>6, <1>7, DeletionFrame
<1>9. FileSaved' /\ FileAtItsPath' /\ RemovedIsGone'
  BY <1>1, Parts DEF FileSaved, Alone, FileAtItsPath, RemovedIsGone
<1>10. OrphanIsExplained'
  <2> SUFFICES ASSUME NEW p \in Runs, disk[p] # None
               PROVE  LET s == disk[p]
                      IN \/ run[s].pc \in {"saved", "persisting", "abandoned"}
                         \/ s \in Rows'
                         \/ model'[s] = "deleted" /\ del[s] = "kept"
    BY <1>1 DEF OrphanIsExplained
  <2>1. CASE disk[p] = r BY <2>1, <1>1, <1>2, Parts DEF RemovedIsGone
  <2>2. CASE disk[p] # r
    BY <2>2, <1>2, Parts DEF OrphanIsExplained, RegistryTypeOK, Rows
  <2> QED BY <2>1, <2>2
<1> QED BY <1>3, <1>8, <1>9, <1>10 DEF RegistryInv

-----------------------------------------------------------------------------
(* The specification *)

LEMMA RegistryStutter ==
  ASSUME RegistryInv, UNCHANGED vars
  PROVE  RegistryInv'
<1>1. UNCHANGED <<export, disk, model, run, del>> /\ UNCHANGED ingestionVars
  BY DEF vars, ingestionVars
<1>2. RegistryTypeOK' BY <1>1, Parts DEF RegistryTypeOK
<1>3. \A r \in Runs : Unmoved(r) BY <1>1 DEF Unmoved
<1>4. ActiveModels' = ActiveModels BY <1>1 DEF ActiveModels
<1>5. ServesAModel' BY <1>1, <1>4, Parts DEF ServesAModel
<1>6. \A r \in Runs : del'[r] # "none" => model[r] # "none"
  BY <1>1, Parts DEF RunsFormed, RunFormed
<1>7. /\ MetGrows /\ IngestionInv' /\ RunsFormed' /\ Meeting' /\ HandlesItsDataset'
      /\ (OldOrMet /\ OneActive /\ ServesAModel /\ ReportsItsOwn /\ PathOfOneMet)'
  BY <1>1, <1>4, <1>5, <1>6, DeletionFrame
<1>8. (PathOfOneMet /\ FileSaved /\ FileAtItsPath /\ RemovedIsGone /\ OrphanIsExplained)'
  BY <1>1, <1>7, Parts, FileFrame
<1> QED BY <1>2, <1>7, <1>8 DEF RegistryInv

LEMMA RegistryStepPreserves ==
  ASSUME RegistryInv, [Next]_vars
  PROVE  RegistryInv'
<1>1. CASE UNCHANGED vars BY <1>1, RegistryStutter
<1>2. CASE IngestionNext /\ UNCHANGED registryVars BY <1>2, UploadPreserves
<1>3. ASSUME NEW r \in Runs, RunStep(r) PROVE RegistryInv'
  <2>0. UNCHANGED ingestionVars
    BY <1>3 DEF RunStep, Select, OpenExport, CloseExport, Train, SaveModel, Deactivate, Persist,
                Report, Raise, Kill, KillTooLate
  <2>1. CASE Select(r) BY <2>0, <2>1, SelectPreserves
  <2>2. CASE OpenExport(r) BY <2>0, <2>2, OpenExportPreserves
  <2>3. CASE CloseExport(r) BY <2>0, <2>3, CloseExportPreserves
  <2>4. CASE Train(r) BY <2>0, <2>4, TrainPreserves
  <2>5. CASE SaveModel(r) BY <2>0, <2>5, SaveModelPreserves
  <2>6. CASE Deactivate(r) BY <2>0, <2>6, DeactivatePreserves
  <2>7. CASE Persist(r) BY <2>0, <2>7, PersistPreserves
  <2>8. CASE Report(r) BY <2>0, <2>8, ReportPreserves
  <2>9. CASE Raise(r) BY <2>0, <2>9, RaisePreserves
  <2>10. CASE Kill(r) BY <2>0, <2>10, KillPreserves
  <2>11. CASE KillTooLate(r) BY <2>0, <2>11, KillTooLatePreserves
  <2> QED BY <1>3, <2>1, <2>2, <2>3, <2>4, <2>5, <2>6, <2>7, <2>8, <2>9, <2>10, <2>11 DEF RunStep
<1>4. ASSUME NEW r \in Runs, DeleteStep(r) PROVE RegistryInv'
  <2>0. UNCHANGED ingestionVars
    BY <1>4 DEF DeleteStep, FindModel, RemoveFile, DropRow, AbortDelete
  <2>1. CASE FindModel(r) BY <2>0, <2>1, FindModelPreserves
  <2>2. CASE RemoveFile(r) BY <2>0, <2>2, RemoveFilePreserves
  <2>3. CASE DropRow(r) BY <2>0, <2>3, DropRowPreserves
  <2>4. CASE AbortDelete(r) BY <2>0, <2>4, AbortDeletePreserves
  <2> QED BY <1>4, <2>1, <2>2, <2>3, <2>4 DEF DeleteStep
<1>5. Next => \/ IngestionNext /\ UNCHANGED registryVars
              \/ \E r \in Runs : RunStep(r) \/ DeleteStep(r)
  BY DEF Next, IngestionNext
<1> QED BY <1>1, <1>2, <1>3, <1>4, <1>5

\* The inductive invariant holds in every reachable state, for any uploads and
\* retrains in any interleaving (persist_to_neon, delete_model, ingest_csv).
THEOREM RegistryInvariance == Spec => []RegistryInv
<1>1. Init => RegistryInv BY RegistryInitInv
<1>2. RegistryInv /\ [Next]_vars => RegistryInv' BY RegistryStepPreserves
<1> QED BY <1>1, <1>2, PTL DEF Spec

\* The tables, the files and the runs keep their shape.
THEOREM RegistryTypesHold == Spec => []RegistryTypeOK
<1>1. RegistryInv => RegistryTypeOK BY Parts
<1> QED BY <1>1, RegistryInvariance, PTL

\* The swap in persist_to_neon's transaction leaves one active model, except for
\* models whose runs were in flight together.
THEOREM OneActiveHolds == Spec => []OneActive
<1>1. RegistryInv => OneActive BY Parts
<1> QED BY <1>1, RegistryInvariance, PTL

\* No reader finds the registry without an active model between two retrains.
THEOREM ServesAModelHolds == Spec => []ServesAModel
<1>1. RegistryInv => ServesAModel BY Parts
<1> QED BY <1>1, RegistryInvariance, PTL

\* A row whose run had no company, and whose deletion has not begun, has its own
\* model's file: save_model_file precedes the row, and nobody else removes it.
THEOREM RowHasItsFileHolds == Spec => []RowHasItsFile
<1>1. RegistryInv => RowHasItsFile
  <2> SUFFICES ASSUME RegistryInv, NEW r \in Rows, Alone(r), del[r] = "none"
               PROVE  disk[run[r].path] = r
    BY DEF RowHasItsFile
  <2>1. r \in Runs /\ run[r].path \in Runs BY Parts DEF Rows, RunsFormed, RunFormed
  <2>2. run[r].path = r BY <2>1, Parts, RegistryAssumption DEF PathOfOneMet, Alone
  <2> QED BY <2>1, <2>2, Parts, RegistryAssumption DEF FileSaved
<1> QED BY <1>1, RegistryInvariance, PTL

\* Every file without a row is the doing of a run that was stopped or failed in
\* its evaluation, or of a deletion whose os.remove failed.
THEOREM OrphanIsExplainedHolds == Spec => []OrphanIsExplained
<1>1. RegistryInv => OrphanIsExplained BY Parts
<1> QED BY <1>1, RegistryInvariance, PTL

\* A model whose run had no company was trained on the batch it is labelled with,
\* although the data passed through a file that all runs share.
THEOREM TrainedOnItsDatasetHolds == Spec => []TrainedOnItsDataset
<1>1. RegistryInv => TrainedOnItsDataset
  <2> SUFFICES ASSUME RegistryInv, NEW r \in Rows, Alone(r), up[run[r].label].met = {}
               PROVE  ShowsItsDataset(r)
    BY DEF TrainedOnItsDataset
  <2>1. r \in Runs /\ model[r] # "none" BY DEF Rows
  <2>2. run[r].label # None BY <2>1, Parts, RegistryAssumption DEF RunsFormed, RunFormed
  <2> QED BY <2>1, <2>2, Parts DEF HandlesItsDataset, HandlesDataset
<1> QED BY <1>1, RegistryInvariance, PTL

\* A retrain without company reports the model it has trained.
THEOREM ReportsItsOwnHolds == Spec => []ReportsItsOwn
<1>1. RegistryInv => ReportsItsOwn BY Parts
<1> QED BY <1>1, RegistryInvariance, PTL
=============================================================================
