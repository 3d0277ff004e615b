------------------------------ MODULE Registry ------------------------------
(***************************************************************************)
(* Retraining and the model registry: trigger_retrain and delete_model of  *)
(* api/main.py, and the process that a retrain spawns,                     *)
(* services/pipeline/orchestrator.py.  It exports training_data_log to one *)
(* CSV file shared by all runs, reads that file back, trains, saves the    *)
(* model to a file named after the second, evaluates it, and then swaps    *)
(* the active row of sarimax_models in one transaction.  Uploads           *)
(* (Ingestion) go on meanwhile.                                            *)
(***************************************************************************)
EXTENDS Ingestion, FiniteSets

CONSTANTS
  Runs,     \* retrains; a run's model and its file are named after the run
  MinRows,  \* fewer weeks in the log are refused; 20 in the code
  None

ASSUME RegistryAssumption == MinRows \in Nat \ {0} /\ None \notin Runs \cup Uploads

VARIABLES
  export,  \* what data/training_export.csv holds
  disk,    \* data/models: path -> the run whose model the file holds, or None
  model,   \* sarimax_models: the row inserted by a run.  Its model_path and
           \* ingestion_batch_id are the run's `path` and `label`
  run,     \* the retrains
  del      \* the deletion of a model

registryVars == <<export, disk, model, run, del>>
vars == <<log, snapshots, up, export, disk, model, run, del>>

Early == {"selected", "writing", "written", "trained"}
Live  == Early \cup {"saved", "persisting", "committed"}
Ended == {"answered", "failed", "abandoned"}

\* `rows`: what it has selected; `clean`: nobody else had the file open while it
\* wrote; `data`: what it has read back; `old`: the rows its UPDATE has found.
\* History: `met`, the runs in flight together with it.
Run == [pc : {"idle"} \cup Live \cup Ended, rows : SUBSET Row, clean : BOOLEAN,
        label : Uploads \cup {None}, data : SUBSET Row, path : Runs \cup {None},
        old : SUBSET Runs, reported : Runs \cup {None}, met : SUBSET Runs]

NewRun == [pc |-> "idle", rows |-> {}, clean |-> TRUE, label |-> None, data |-> {},
           path |-> None, old |-> {}, reported |-> None, met |-> {}]

RegistryTypeOK ==
  /\ export \subseteq Row
  /\ disk \in [Runs -> Runs \cup {None}]
  /\ model \in [Runs -> {"none", "active", "inactive", "deleted"}]
  /\ run \in [Runs -> Run]
  /\ del \in [Runs -> {"none", "read", "removed", "kept", "aborted"}]

Init ==
  /\ IngestionInit
  /\ export = {}
  /\ disk = [p \in Runs |-> None]
  /\ model = [r \in Runs |-> "none"]
  /\ run = [r \in Runs |-> NewRun]
  /\ del = [r \in Runs |-> "none"]

Running == {r \in Runs : run[r].pc \in Live}
Writing == {r \in Runs : run[r].pc = "writing"}
ActiveModels == {r \in Runs : model[r] = "active"}
Rows == {r \in Runs : model[r] \in {"active", "inactive"}}

-----------------------------------------------------------------------------
(* The exported data *)

LatestBatches == {x.batch : x \in {y \in log : \A z \in log : z.week <= y.week}}

\* The SELECT of export_db_to_csv, with the batch of the latest week as label.
Select(r) ==
  /\ run[r].pc = "idle"
  /\ \E label \in IF Cardinality(log) < MinRows THEN {None} ELSE LatestBatches :
       run' = [s \in Runs |->
         IF s = r THEN [run[r] EXCEPT !.pc = IF label = None THEN "failed" ELSE "selected",
                                      !.rows = IF label = None THEN {} ELSE log,
                                      !.label = label, !.met = Running]
         ELSE IF s \in Running THEN [run[s] EXCEPT !.met = @ \cup {r}]
         ELSE run[s]]
  /\ UNCHANGED <<ingestionVars, export, disk, model, del>>

\* to_csv truncates the file when it opens it ...
OpenExport(r) ==
  /\ run[r].pc = "selected"
  /\ export' = {}
  /\ run' = [s \in Runs |->
       IF s = r THEN [run[r] EXCEPT !.pc = "writing", !.clean = Writing = {}]
       ELSE IF s \in Writing THEN [run[s] EXCEPT !.clean = FALSE]
       ELSE run[s]]
  /\ UNCHANGED <<ingestionVars, disk, model, del>>

\* Variant: the rows are selected anew when the file is written.
CloseExportLate(r) ==
  /\ run[r].pc = "writing"
  /\ export' = log
  /\ run' = [run EXCEPT ![r].pc = "written", ![r].rows = {}, ![r].clean = TRUE]
  /\ UNCHANGED <<ingestionVars, disk, model, del>>

\* ... and two writers leave some of the rows of either.
CloseExport(r) ==
  /\ run[r].pc = "writing"
  /\ IF run[r].clean THEN export' = run[r].rows
     ELSE export' \in SUBSET (export \cup run[r].rows)
  /\ run' = [run EXCEPT ![r].pc = "written", ![r].rows = {}, ![r].clean = TRUE]
  /\ UNCHANGED <<ingestionVars, disk, model, del>>

\* What a reader may find: a prefix, or a mixture, while somebody writes.
Contents ==
  IF Writing = {} THEN {export}
  ELSE SUBSET (export \cup UNION {run[s].rows : s \in Writing})

\* run_step1_data_ingestion reads the file back (an empty one fails), and steps
\* 2 to 5 work on what it has read.
Train(r) ==
  /\ run[r].pc = "written"
  /\ \E rows \in Contents :
       run' = [run EXCEPT ![r].pc = IF rows = {} THEN "failed" ELSE "trained",
                          ![r].data = rows]
  /\ UNCHANGED <<ingestionVars, export, disk, model, del>>

-----------------------------------------------------------------------------
(* The model's file and its row *)

\* Variant: files are named after the day.
SaveModelByDay(r) ==
  /\ run[r].pc = "trained"
  /\ \E p \in {r} \cup {s \in Runs : run[s].path = s} :
       /\ run' = [run EXCEPT ![r].pc = "saved", ![r].path = p]
       /\ disk' = [disk EXCEPT ![p] = r]
  /\ UNCHANGED <<ingestionVars, export, model, del>>

\* save_model_file: a path of its own, or that of a run that has saved its model
\* within the same second.
SaveModel(r) ==
  /\ run[r].pc = "trained"
  /\ \E p \in {r} \cup {s \in Running : run[s].path = s} :
       /\ run' = [run EXCEPT ![r].pc = "saved", ![r].path = p]
       /\ disk' = [disk EXCEPT ![p] = r]
  /\ UNCHANGED <<ingestionVars, export, model, del>>

\* Variant: only models of the same dataset are deactivated.
DeactivateSameBatch(r) ==
  /\ run[r].pc = "saved"
  /\ run' = [run EXCEPT ![r].pc = "persisting",
                        ![r].old = {s \in ActiveModels : run[s].label = run[r].label}]
  /\ UNCHANGED <<ingestionVars, export, disk, model, del>>

\* Variant: the UPDATE is committed by itself.
DeactivateAndCommit(r) ==
  /\ run[r].pc = "saved"
  /\ run' = [run EXCEPT ![r].pc = "persisting"]
  /\ model' = [s \in Runs |-> IF s \in ActiveModels THEN "inactive" ELSE model[s]]
  /\ UNCHANGED <<ingestionVars, export, disk, del>>

\* After run_step6_evaluation, the UPDATE of persist_to_neon finds the active
\* rows.  It may then wait for another run's, which is not shown: the row is not
\* updated if it is no longer active.
Deactivate(r) ==
  /\ run[r].pc = "saved"
  /\ run' = [run EXCEPT ![r].pc = "persisting", ![r].old = ActiveModels]
  /\ UNCHANGED <<ingestionVars, export, disk, model, del>>

\* The INSERTs and the COMMIT.
Persist(r) ==
  /\ run[r].pc = "persisting"
  /\ model' = [s \in Runs |-> IF s = r THEN "active"
                              ELSE IF s \in run[r].old \cap ActiveModels THEN "inactive"
                              ELSE model[s]]
  /\ run' = [run EXCEPT ![r].pc = "committed", ![r].old = {}]
  /\ UNCHANGED <<ingestionVars, export, disk, del>>

\* Variant: the filter on is_active is dropped.
ReportFirst(r) ==
  /\ run[r].pc = "committed"
  /\ \E m \in IF Rows = {} THEN {None} ELSE Rows :
       run' = [run EXCEPT ![r].pc = IF m = None THEN "failed" ELSE "answered",
                          ![r].reported = m]
  /\ UNCHANGED <<ingestionVars, export, disk, model, del>>

\* trigger_retrain, once the process has ended: `.filter(is_active).first()`.
Report(r) ==
  /\ run[r].pc = "committed"
  /\ \E m \in IF ActiveModels = {} THEN {None} ELSE ActiveModels :
       run' = [run EXCEPT ![r].pc = IF m = None THEN "failed" ELSE "answered",
                          ![r].reported = m]
  /\ UNCHANGED <<ingestionVars, export, disk, model, del>>

\* A run ends without a row; of the run's own fields only the history is kept.
GiveUp(r, pc) == run' = [run EXCEPT ![r] = [NewRun EXCEPT !.pc = pc, !.met = run[r].met]]

\* Variant: persist_to_neon does not remove the file either.
RaiseKeepsFile(r) ==
  /\ \/ run[r].pc \in Early \cup {"persisting"} /\ GiveUp(r, "failed")
     \/ run[r].pc = "saved" /\ GiveUp(r, "abandoned")
  /\ UNCHANGED <<ingestionVars, export, disk, model, del>>

\* A step raises.  Only persist_to_neon removes the file again.
Raise(r) ==
  /\ \/ run[r].pc \in Early /\ GiveUp(r, "failed") /\ UNCHANGED disk
     \/ run[r].pc = "saved" /\ GiveUp(r, "abandoned") /\ UNCHANGED disk
     \/ /\ run[r].pc = "persisting"
        /\ GiveUp(r, "failed")
        /\ disk' = [disk EXCEPT ![run[r].path] = None]
  /\ UNCHANGED <<ingestionVars, export, model, del>>

\* The process is killed, by the timeout of 1500 s or with its container; before
\* its model is saved this is as if a step raised.
Kill(r) ==
  /\ run[r].pc \in {"saved", "persisting"}
  /\ GiveUp(r, "abandoned")
  /\ UNCHANGED <<ingestionVars, export, disk, model, del>>

\* After the COMMIT the answer is a failure, and the model is active all the same.
KillTooLate(r) ==
  /\ run[r].pc = "committed"
  /\ run' = [run EXCEPT ![r].pc = "failed"]
  /\ UNCHANGED <<ingestionVars, export, disk, model, del>>

-----------------------------------------------------------------------------
(* delete_model *)

FindModel(r) ==
  /\ r \in Rows
  /\ del[r] \in {"none", "aborted"}
  /\ del' = [del EXCEPT ![r] = "read"]
  /\ UNCHANGED <<ingestionVars, export, disk, model, run>>

\* os.remove, whose failure is ignored.
RemoveFile(r) ==
  /\ del[r] = "read"
  /\ \/ /\ disk' = [disk EXCEPT ![run[r].path] = None]
        /\ del' = [del EXCEPT ![r] = "removed"]
     \/ /\ del' = [del EXCEPT ![r] = "kept"]
        /\ UNCHANGED disk
  /\ UNCHANGED <<ingestionVars, export, model, run>>

DropRow(r) ==
  /\ del[r] \in {"removed", "kept"}
  /\ r \in Rows
  /\ model' = [model EXCEPT ![r] = "deleted"]
  /\ UNCHANGED <<ingestionVars, export, disk, run, del>>

\* A failing COMMIT or a dying worker; the file is not brought back.
AbortDelete(r) ==
  /\ del[r] \in {"read", "removed", "kept"}
  /\ r \in Rows
  /\ del' = [del EXCEPT ![r] = "aborted"]
  /\ UNCHANGED <<ingestionVars, export, disk, model, run>>

-----------------------------------------------------------------------------

RunStep(r) ==
  \/ Select(r) \/ OpenExport(r) \/ CloseExport(r) \/ Train(r)
  \/ SaveModel(r) \/ Deactivate(r) \/ Persist(r) \/ Report(r)
  \/ Raise(r) \/ Kill(r) \/ KillTooLate(r)

DeleteStep(r) == FindModel(r) \/ RemoveFile(r) \/ DropRow(r) \/ AbortDelete(r)

Next ==
  \/ \E u \in Uploads :
       \/ Delete(u) /\ UNCHANGED registryVars
       \/ CommitDelete(u) /\ UNCHANGED registryVars
       \/ \E weeks \in Files : Deduplicate(u, weeks) /\ UNCHANGED registryVars
       \/ Insert(u) /\ UNCHANGED registryVars
       \/ Fail(u) /\ UNCHANGED registryVars
  \/ \E r \in Runs : RunStep(r) \/ DeleteStep(r)

Spec == Init /\ [][Next]_vars

-----------------------------------------------------------------------------
(* Properties *)

Alone(r) == run[r].met = {}

\* Two models are active at once only if their runs were in flight together: a
\* run deactivates every model that was active before it (persist_to_neon).
OneActive ==
  \A r, s \in ActiveModels : r # s => s \in run[r].met

\* From the first model on there is an active one to forecast with, until one is
\* deleted: the swap of persist_to_neon never shows the moment in between.
ServesAModel ==
  (\E r \in Runs : model[r] # "none") =>
    \/ ActiveModels # {}
    \/ \E r \in Runs : model[r] = "deleted"

\* A row has its own model's file, as fetch_model_binary expects, unless its
\* deletion was begun or another run was in flight with it, which may have
\* drawn the same file name (File-First pattern of save_model_file).
RowHasItsFile ==
  \A r \in Rows : Alone(r) /\ del[r] = "none" => disk[run[r].path] = r

\* A file without a row is left behind only by a run that was stopped, or failed
\* in its evaluation, and by a deletion whose os.remove failed.
OrphanIsExplained ==
  \A r \in Runs : disk[r] # None =>
    LET s == disk[r]
    IN \/ run[s].pc \in {"saved", "persisting", "abandoned"}
       \/ s \in Rows
       \/ model[s] = "deleted" /\ del[s] = "kept"

Dataset(b) == {[week |-> w, batch |-> b] : w \in snapshots[b]}

\* What the dataset page shows for a model (GET /api/business-analytics looks the
\* snapshot of its batch up) is what it was trained on.
ShowsItsDataset(r) == run[r].data = Dataset(run[r].label)

\* A model was trained on all of the batch it is labelled with and nothing else,
\* whatever is uploaded while it trains, unless another run was in flight with
\* its own, or another upload with its batch's.
TrainedOnItsDataset ==
  \A r \in Rows : Alone(r) /\ up[run[r].label].met = {} => ShowsItsDataset(r)

\* A retrain that nobody else's met reports the model it has trained.
ReportsItsOwn ==
  \A r \in Runs : run[r].pc = "answered" /\ Alone(r) => run[r].reported = r

\* What compute_and_persist_dataset_snapshot promises: "Selecting an old model
\* always shows the dataset that model was trained on, not the latest upload."
\* Two retrains at once share the export file, and so it does not hold.
ModelShowsItsDataset == \A r \in Rows : ShowsItsDataset(r)
-----------------------------------------------------------------------------
(* Inductive strengthening *)

RunFormed(r) ==
  /\ run[r].pc \in Live => run[r].label \in Uploads
  /\ run[r].pc \in {"saved", "persisting", "committed"} => run[r].path \in Runs
  /\ run[r].pc \in {"idle"} \cup Early => run[r].path = None
  /\ model[r] # "none" =>
       /\ run[r].pc \in {"committed", "answered", "failed"}
       /\ run[r].label \in Uploads /\ run[r].path \in Runs
  /\ del[r] # "none" => model[r] # "none"
  /\ run[r].label # None => up[run[r].label].pc = "success"
  /\ run[r].pc = "idle" => run[r].met = {}

RunsFormed == \A r \in Runs : RunFormed(r)

\* Whoever is in flight together has met.
Meeting ==
  /\ \A r, s \in Runs : s \in run[r].met => r \in run[s].met
  /\ \A r, s \in Running : r # s => s \in run[r].met

\* A model that a run does not deactivate is from a run it has met.
OldOrMet ==
  \A r \in Runs, s \in ActiveModels :
    /\ run[r].pc = "persisting" => s \in run[r].old \cup run[r].met
    /\ run[r].pc = "committed" => s \in {r} \cup run[r].met

PathOfOneMet == \A r \in Runs : run[r].path \in {None, r} \cup run[r].met

FileSaved ==
  \A r \in Runs : run[r].path # None /\ Alone(r) /\ del[r] = "none" => disk[r] = r

FileAtItsPath ==
  \A p \in Runs : disk[p] # None => run[disk[p]].pc = "abandoned" \/ run[disk[p]].path = p

RemovedIsGone == \A r, p \in Runs : del[r] = "removed" => disk[p] # r

\* From the SELECT to the row, a lonely run handles the batch of its label.
HandlesDataset(r) ==
  run[r].label # None /\ Alone(r) /\ up[run[r].label].met = {} =>
    /\ run[r].pc \in {"selected", "writing"} => run[r].rows = Dataset(run[r].label)
    /\ run[r].pc = "writing" => run[r].clean
    /\ run[r].pc = "written" => export = Dataset(run[r].label)
    /\ run[r].pc \in {"trained", "saved", "persisting"} => ShowsItsDataset(r)
    /\ model[r] # "none" => ShowsItsDataset(r)

HandlesItsDataset == \A r \in Runs : HandlesDataset(r)

RegistryInv ==
  /\ IngestionInv /\ RegistryTypeOK /\ RunsFormed /\ Meeting
  /\ OldOrMet /\ OneActive /\ ServesAModel /\ ReportsItsOwn
  /\ PathOfOneMet /\ FileSaved /\ FileAtItsPath /\ RemovedIsGone /\ OrphanIsExplained
  /\ HandlesItsDataset
=============================================================================
