-------------------------- MODULE IngestionProofs ---------------------------
(***************************************************************************)
(* Proofs about Ingestion, for any sets of weeks and uploads.  What makes  *)
(* OneBatch inductive is LeftByOthers: a row that an upload in flight will *)
(* not remove belongs to an upload that it has met.                        *)
(***************************************************************************)
EXTENDS Ingestion, TLAPS

LEMMA IngestionInitInv == IngestionInit => IngestionInv
BY IngestionAssumption
DEF IngestionInit, IngestionInv, IngestionTypeOK, Upload, Row, OneBatch, SnapshotIsTheBatch,
    LeftByOthers, InsertedOnSuccess, InFlightMeet, WholeBatches, DoomedWhileDeleting,
    DoomedSucceeded, InFlight

LEMMA IngestionStutter ==
  ASSUME IngestionInv, UNCHANGED ingestionVars
  PROVE  IngestionInv'
BY DEF ingestionVars, IngestionInv, IngestionTypeOK, OneBatch, SnapshotIsTheBatch,
    LeftByOthers, InsertedOnSuccess, InFlightMeet, WholeBatches, DoomedWhileDeleting,
    DoomedSucceeded, InFlight, Overlap

\* The fields of an upload.
LEMMA UploadFields ==
  ASSUME IngestionTypeOK, NEW u \in Uploads
  PROVE  /\ up[u].pc \in {"idle", "deleted", "parse", "insert", "success", "skipped", "failed"}
         /\ up[u].doomed \subseteq Row /\ up[u].fresh \subseteq Weeks
         /\ up[u].met \subseteq Uploads
BY DEF IngestionTypeOK, Upload

LEMMA RowFields ==
  ASSUME IngestionTypeOK, NEW x \in log
  PROVE  x \in Row /\ x.week \in Weeks /\ x.batch \in Uploads
BY DEF IngestionTypeOK, Row

-----------------------------------------------------------------------------

LEMMA DeletePreserves ==
  ASSUME IngestionInv, NEW u \in Uploads, Delete(u)
  PROVE  IngestionInv'
<1> USE DEF IngestionInv
<1>0. up \in [Uploads -> Upload] /\ log \subseteq Row /\ InFlight \subseteq Uploads
  BY DEF IngestionTypeOK, InFlight
<1>1. /\ up[u].pc = "idle" /\ log' = log /\ snapshots' = snapshots
      /\ up'[u].pc = "deleted" /\ up'[u].doomed = log /\ up'[u].met = InFlight
      /\ \A v \in Uploads \ {u} :
           /\ up'[v].pc = up[v].pc /\ up'[v].doomed = up[v].doomed
           /\ v \in InFlight => up'[v].met = up[v].met \cup {u}
           /\ v \notin InFlight => up'[v].met = up[v].met
  <2>1. \A v \in Uploads : up'[v] =
          IF v = u THEN [up[u] EXCEPT !.pc = "deleted", !.doomed = log, !.met = InFlight]
          ELSE IF v \in InFlight THEN [up[v] EXCEPT !.met = @ \cup {u}]
          ELSE up[v]
    BY DEF Delete
  <2>2. up[u] \in Upload /\ \A v \in Uploads : up[v] \in Upload BY <1>0
  <2>3. up[u].pc = "idle" /\ log' = log /\ snapshots' = snapshots BY DEF Delete
  <2>4. /\ up'[u].pc = "deleted" /\ up'[u].doomed = log /\ up'[u].met = InFlight
    BY ONLY <2>1, <2>2 DEF Upload
  <2>5. ASSUME NEW v \in Uploads, v # u
        PROVE  /\ up'[v].pc = up[v].pc /\ up'[v].doomed = up[v].doomed
               /\ v \in InFlight => up'[v].met = up[v].met \cup {u}
               /\ v \notin InFlight => up'[v].met = up[v].met
    BY ONLY <2>1, <2>2, <2>5 DEF Upload
  <2> QED BY <2>3, <2>4, <2>5
<1>2. InFlight' = InFlight \cup {u}
  BY <1>1 DEF InFlight
<1>3. \A x \in log : x.batch # u /\ x.batch \notin InFlight
  BY <1>1, RowFields DEF InsertedOnSuccess, InFlight
<1>4. IngestionTypeOK'
  <2>1. [up[u] EXCEPT !.pc = "deleted", !.doomed = log, !.met = InFlight] \in Upload
    <3>1. up[u] \in Upload BY <1>0
    <3> QED BY ONLY <1>0, <3>1 DEF Upload
  <2>2. ASSUME NEW v \in Uploads PROVE [up[v] EXCEPT !.met = @ \cup {u}] \in Upload
    <3>1. up[v] \in Upload BY <1>0
    <3> QED BY ONLY <3>1, u \in Uploads DEF Upload
  <2> QED BY <2>1, <2>2 DEF Delete, IngestionTypeOK
<1>5. OneBatch'
  BY <1>1, <1>3, RowFields DEF OneBatch
<1>6. SnapshotIsTheBatch'
  BY <1>1 DEF SnapshotIsTheBatch
<1>7. LeftByOthers'
  <2> SUFFICES ASSUME NEW v \in InFlight', NEW x \in log, x \notin up'[v].doomed
               PROVE  Overlap(v, x.batch)' /\ Overlap(x.batch, v)'
    BY <1>1 DEF LeftByOthers
  <2>1. v # u /\ v \in InFlight BY <1>1, <1>2
  <2>2. x.batch \in Uploads \ {u} BY <1>3, RowFields
  <2>3. x \notin up[v].doomed /\ v \in Uploads BY <1>0, <1>1, <2>1
  <2>4. x.batch \in up[v].met /\ v \in up[x.batch].met
    BY <2>1, <2>3 DEF LeftByOthers, Overlap
  <2> QED BY <1>1, <2>1, <2>2, <2>3, <2>4 DEF Overlap
<1>8. InsertedOnSuccess'
  BY <1>1, <1>3, RowFields DEF InsertedOnSuccess
<1>9. InFlightMeet'
  <2> SUFFICES ASSUME NEW v \in InFlight', NEW w \in InFlight', v # w
               PROVE  Overlap(v, w)'
    BY DEF InFlightMeet
  <2>1. CASE v = u BY <2>1, <1>1, <1>2 DEF Overlap
  <2>2. CASE v # u
    <3>1. v \in InFlight /\ v \in Uploads /\ w \in InFlight \cup {u} BY <2>2, <1>2 DEF InFlight
    <3> QED BY <2>2, <3>1, <1>1 DEF Overlap, InFlightMeet
  <2> QED BY <2>1, <2>2
<1>10. WholeBatches'
  BY <1>1 DEF WholeBatches
<1>11. DoomedWhileDeleting'
  BY <1>1 DEF DoomedWhileDeleting
<1>12. DoomedSucceeded'
  <2> SUFFICES ASSUME NEW v \in Uploads, NEW x \in up'[v].doomed
               PROVE  up'[x.batch].pc = "success"
    BY DEF DoomedSucceeded
  <2>1. x.batch \in Uploads /\ up[x.batch].pc = "success"
    <3>1. CASE v = u BY <3>1, <1>1, RowFields DEF InsertedOnSuccess
    <3>2. CASE v # u
      <4>1. x \in up[v].doomed BY <3>2, <1>1
      <4> QED BY <4>1, UploadFields DEF DoomedSucceeded, Row
    <3> QED BY <3>1, <3>2
  <2> QED BY <2>1, <1>1
<1> QED BY <1>4, <1>5, <1>6, <1>7, <1>8, <1>9, <1>10, <1>11, <1>12

\* A step of an upload that moves it on, and forgets at most its own doomed rows.
LEMMA UploadLocalStep ==
  ASSUME IngestionInv, NEW u \in Uploads, UNCHANGED <<log, snapshots>>, up' \in [Uploads -> Upload],
         u \in InFlight, up'[u].pc \in {"insert", "skipped", "failed"},
         up'[u].met = up[u].met, up'[u].doomed = {},
         \A v \in Uploads \ {u} : up'[v] = up[v],
         up'[u].pc = "insert" => up[u].pc = "parse"
  PROVE  IngestionInv'
<1> USE DEF IngestionInv
<1>1. \A v \in Uploads : up'[v].met = up[v].met OBVIOUS
<1>3. InFlight' \subseteq InFlight BY DEF InFlight
<1>4. \A x \in log : x.batch \in Uploads \ {u} BY RowFields DEF InsertedOnSuccess, InFlight
<1>5. \A v \in Uploads : up'[v].doomed = {} \/ (v # u /\ up'[v].doomed = up[v].doomed)
  OBVIOUS
<1>6. IngestionTypeOK' BY DEF IngestionTypeOK
<1>7. OneBatch' BY <1>1, <1>4 DEF OneBatch
<1>8. SnapshotIsTheBatch' BY DEF SnapshotIsTheBatch
<1>9. LeftByOthers'
  <2> SUFFICES ASSUME NEW v \in InFlight', NEW x \in log, x \notin up'[v].doomed
               PROVE  x.batch \in up[v].met /\ v \in up[x.batch].met
    BY <1>1, <1>4 DEF LeftByOthers, Overlap, InFlight
  <2>1. CASE v # u BY <2>1, <1>3, <1>5 DEF LeftByOthers, Overlap, InFlight
  <2>2. CASE v = u
    <3>1. up[u].pc = "parse" BY <2>2 DEF InFlight
    <3>2. up[u].doomed = {} BY <3>1 DEF DoomedWhileDeleting
    <3> QED BY <2>2, <3>2 DEF LeftByOthers, Overlap
  <2> QED BY <2>1, <2>2
<1>10. InsertedOnSuccess' BY <1>4 DEF InsertedOnSuccess
<1>11. InFlightMeet' BY <1>1, <1>3 DEF InFlightMeet, Overlap, InFlight
<1>12. WholeBatches' BY <1>5 DEF WholeBatches
<1>13. DoomedWhileDeleting' BY <1>5 DEF DoomedWhileDeleting
<1>14. DoomedSucceeded'
  <2> SUFFICES ASSUME NEW v \in Uploads, NEW x \in up'[v].doomed
               PROVE  up'[x.batch].pc = "success"
    BY DEF DoomedSucceeded
  <2>1. x \in up[v].doomed /\ x.batch \in Uploads BY <1>5, UploadFields DEF Row
  <2>2. up[x.batch].pc = "success" BY <2>1 DEF DoomedSucceeded
  <2> QED BY <2>1, <2>2 DEF InFlight
<1> QED BY <1>6, <1>7, <1>8, <1>9, <1>10, <1>11, <1>12, <1>13, <1>14

LEMMA FailPreserves ==
  ASSUME IngestionInv, NEW u \in Uploads, Fail(u)
  PROVE  IngestionInv'
<1>0. up[u] \in Upload BY DEF IngestionInv, IngestionTypeOK
<1>1. [up[u] EXCEPT !.pc = "failed", !.doomed = {}, !.fresh = {}] \in Upload BY ONLY <1>0 DEF Upload
<1>2. up' \in [Uploads -> Upload] BY <1>1 DEF Fail, IngestionInv, IngestionTypeOK
<1>3. /\ up'[u].pc = "failed" /\ up'[u].met = up[u].met /\ up'[u].doomed = {}
      /\ \A v \in Uploads \ {u} : up'[v] = up[v]
  BY DEF Fail, IngestionInv, IngestionTypeOK, Upload
<1> QED BY <1>2, <1>3, UploadLocalStep DEF Fail

LEMMA DeduplicatePreserves ==
  ASSUME IngestionInv, NEW u \in Uploads, NEW weeks \in SUBSET Weeks, Deduplicate(u, weeks)
  PROVE  IngestionInv'
<1> DEFINE existing == IF MatchesWeeks THEN {row.week : row \in log} ELSE {}
           new == weeks \ existing
           pc == IF new = {} THEN "skipped" ELSE "insert"
<1>0. /\ up[u].pc = "parse" /\ UNCHANGED <<log, snapshots>>
      /\ up' = [up EXCEPT ![u].pc = pc, ![u].fresh = new]
  BY DEF Deduplicate
<1> new \subseteq Weeks /\ pc \in {"skipped", "insert"} OBVIOUS
<1> HIDE DEF new, pc
<1>1. up' \in [Uploads -> Upload]
  <2>1. up \in [Uploads -> Upload] BY DEF IngestionInv, IngestionTypeOK
  <2>2. up[u] \in Upload BY <2>1
  <2>3. new \subseteq Weeks /\ pc \in {"skipped", "insert"} OBVIOUS
  <2>4. [up[u] EXCEPT !.pc = pc, !.fresh = new] \in Upload BY ONLY <2>2, <2>3 DEF Upload
  <2> QED BY <1>0, <2>1, <2>4
<1>2. /\ up'[u].pc = pc /\ up'[u].met = up[u].met /\ up'[u].doomed = up[u].doomed
      /\ \A v \in Uploads \ {u} : up'[v] = up[v]
  BY <1>0 DEF IngestionInv, IngestionTypeOK, Upload
<1>3. up[u].doomed = {} /\ u \in InFlight
  BY <1>0 DEF IngestionInv, DoomedWhileDeleting, InFlight
<1> QED BY <1>0, <1>1, <1>2, <1>3, UploadLocalStep

LEMMA CommitDeletePreserves ==
  ASSUME IngestionInv, NEW u \in Uploads, CommitDelete(u)
  PROVE  IngestionInv'
<1> USE DEF IngestionInv
<1>1. /\ up[u].pc = "deleted" /\ log' = log \ up[u].doomed /\ snapshots' = snapshots
      /\ up'[u].pc = "parse" /\ up'[u].doomed = {} /\ up'[u].met = up[u].met
      /\ \A v \in Uploads \ {u} : up'[v] = up[v]
  BY DEF CommitDelete, IngestionTypeOK, Upload
<1>2. InFlight' = InFlight /\ u \in InFlight BY <1>1 DEF InFlight
<1>3. \A v \in Uploads : up'[v].met = up[v].met BY <1>1
<1>4. \A x \in log : x.batch \in Uploads \ {u} BY <1>1, RowFields DEF InsertedOnSuccess
<1>5. IngestionTypeOK'
  <2>1. up[u] \in Upload BY DEF IngestionTypeOK
  <2>2. [up[u] EXCEPT !.pc = "parse", !.doomed = {}] \in Upload BY ONLY <2>1 DEF Upload
  <2> QED BY <1>1, <2>2 DEF IngestionTypeOK, CommitDelete
<1>6. OneBatch' BY <1>1, <1>3, <1>4 DEF OneBatch
<1>7. SnapshotIsTheBatch'
  <2> SUFFICES ASSUME NEW x \in log'
               PROVE  {row.week : row \in {y \in log' : y.batch = x.batch}} = snapshots[x.batch]
    BY <1>1 DEF SnapshotIsTheBatch
  <2>1. {y \in log' : y.batch = x.batch} = {y \in log : y.batch = x.batch}
    BY <1>1 DEF WholeBatches
  <2> QED BY <2>1, <1>1 DEF SnapshotIsTheBatch
<1>8. LeftByOthers'
  <2> SUFFICES ASSUME NEW v \in InFlight, NEW x \in log', x \notin up'[v].doomed
               PROVE  x.batch \in up[v].met /\ v \in up[x.batch].met
    BY <1>1, <1>2, <1>3, <1>4 DEF LeftByOthers, Overlap, InFlight
  <2>1. x \in log /\ x \notin up[v].doomed BY <1>1 DEF InFlight
  <2> QED BY <2>1 DEF LeftByOthers, Overlap
<1>9. InsertedOnSuccess' BY <1>1, <1>4 DEF InsertedOnSuccess
<1>10. InFlightMeet' BY <1>2, <1>3 DEF InFlightMeet, Overlap, InFlight
<1>11. WholeBatches' BY <1>1 DEF WholeBatches
<1>12. DoomedWhileDeleting' BY <1>1 DEF DoomedWhileDeleting
<1>13. DoomedSucceeded'
  <2> SUFFICES ASSUME NEW v \in Uploads, NEW x \in up'[v].doomed
               PROVE  up'[x.batch].pc = "success"
    BY DEF DoomedSucceeded
  <2>1. x \in up[v].doomed /\ x.batch \in Uploads BY <1>1, UploadFields DEF Row
  <2>2. up[x.batch].pc = "success" BY <2>1 DEF DoomedSucceeded
  <2> QED BY <2>1, <2>2, <1>1
<1> QED BY <1>5, <1>6, <1>7, <1>8, <1>9, <1>10, <1>11, <1>12, <1>13

LEMMA InsertPreserves ==
  ASSUME IngestionInv, NEW u \in Uploads, Insert(u)
  PROVE  IngestionInv'
<1> USE DEF IngestionInv
<1> DEFINE added == {[week |-> w, batch |-> u] : w \in up[u].fresh}
<1>1. /\ up[u].pc = "insert" /\ log' = log \cup added /\ snapshots'[u] = up[u].fresh
      /\ up'[u].pc = "success" /\ up'[u].doomed = up[u].doomed /\ up'[u].met = up[u].met
      /\ \A v \in Uploads \ {u} : up'[v] = up[v] /\ snapshots'[v] = snapshots[v]
  BY DEF Insert, IngestionTypeOK, Upload
<1>2. InFlight' = InFlight \ {u} /\ u \in InFlight BY <1>1 DEF InFlight
<1>3. \A v \in Uploads : up'[v].met = up[v].met BY <1>1
<1>4. \A x \in log : x.batch \in Uploads \ {u} BY <1>1, RowFields DEF InsertedOnSuccess
<1>5. up[u].doomed = {} /\ up[u].fresh \subseteq Weeks BY <1>1, UploadFields DEF DoomedWhileDeleting
<1>6. \A x \in added : x.batch = u OBVIOUS
<1>7. \A x \in log : x.batch \in up[u].met /\ u \in up[x.batch].met
  BY <1>2, <1>5 DEF LeftByOthers, Overlap
<1>8. {row.week : row \in added} = up[u].fresh
  <2>1. ASSUME NEW w \in up[u].fresh PROVE \E row \in added : row.week = w
    <3>1. [week |-> w, batch |-> u] \in added /\ [week |-> w, batch |-> u].week = w OBVIOUS
    <3> QED BY <3>1
  <2>2. \A row \in added : row.week \in up[u].fresh OBVIOUS
  <2> HIDE DEF added
  <2> QED BY ONLY <2>1, <2>2
<1>9. added \subseteq Row BY <1>5 DEF Row
<1> HIDE DEF added
<1>10. IngestionTypeOK'
  <2>1. up[u] \in Upload BY DEF IngestionTypeOK
  <2>2. [up[u] EXCEPT !.pc = "success"] \in Upload BY ONLY <2>1 DEF Upload
  <2> QED BY <1>1, <1>5, <1>9, <2>2 DEF IngestionTypeOK, Insert
<1>11. OneBatch' BY <1>1, <1>3, <1>4, <1>6, <1>7 DEF OneBatch
<1>12. SnapshotIsTheBatch'
  <2> SUFFICES ASSUME NEW x \in log'
               PROVE  {row.week : row \in {y \in log' : y.batch = x.batch}} = snapshots'[x.batch]
    BY DEF SnapshotIsTheBatch
  <2>1. CASE x \in added
    <3>1. {y \in log' : y.batch = x.batch} = added BY <2>1, <1>1, <1>4, <1>6
    <3> QED BY <3>1, <2>1, <1>1, <1>6, <1>8
  <2>2. CASE x \in log
    <3>1. {y \in log' : y.batch = x.batch} = {y \in log : y.batch = x.batch}
      BY <2>2, <1>1, <1>4, <1>6
    <3> QED BY <3>1, <2>2, <1>1, <1>4 DEF SnapshotIsTheBatch
  <2> QED BY <2>1, <2>2, <1>1
<1>13. LeftByOthers'
  <2> SUFFICES ASSUME NEW v \in InFlight', NEW x \in log', x \notin up[v].doomed
               PROVE  x.batch \in up[v].met /\ v \in up[x.batch].met
    BY <1>1, <1>2, <1>3, <1>4, <1>6 DEF LeftByOthers, Overlap, InFlight
  <2>1. CASE x \in log BY <2>1, <1>2 DEF LeftByOthers, Overlap
  <2>2. CASE x \in added BY <2>2, <1>2, <1>6 DEF InFlightMeet, Overlap
  <2> QED BY <2>1, <2>2, <1>1
<1>14. InsertedOnSuccess' BY <1>1, <1>4, <1>6 DEF InsertedOnSuccess
<1>15. InFlightMeet' BY <1>2, <1>3 DEF InFlightMeet, Overlap, InFlight
<1>16. WholeBatches'
  <2> SUFFICES ASSUME NEW v \in Uploads, NEW x \in up[v].doomed, NEW y \in log',
                      x.batch = y.batch
               PROVE  y \in up[v].doomed
    BY <1>1 DEF WholeBatches
  <2>1. up[x.batch].pc = "success" BY DEF DoomedSucceeded
  <2>2. y \notin added BY <2>1, <1>1, <1>6
  <2> QED BY <2>2, <1>1 DEF WholeBatches
<1>17. DoomedWhileDeleting' BY <1>1, <1>5 DEF DoomedWhileDeleting
<1>18. DoomedSucceeded'
  <2> SUFFICES ASSUME NEW v \in Uploads, NEW x \in up[v].doomed
               PROVE  up'[x.batch].pc = "success"
    BY <1>1 DEF DoomedSucceeded
  <2>1. x.batch \in Uploads BY UploadFields DEF Row
  <2>2. up[x.batch].pc = "success" BY DEF DoomedSucceeded
  <2> QED BY <2>1, <2>2, <1>1
<1> QED BY <1>10, <1>11, <1>12, <1>13, <1>14, <1>15, <1>16, <1>17, <1>18

-----------------------------------------------------------------------------

\* Also used by whoever composes the uploads with something else.
LEMMA IngestionStepPreserves ==
  ASSUME IngestionInv, [IngestionNext]_ingestionVars
  PROVE  IngestionInv'
<1>1. CASE UNCHANGED ingestionVars BY <1>1, IngestionStutter
<1>2. ASSUME NEW u \in Uploads, Delete(u) PROVE IngestionInv' BY <1>2, DeletePreserves
<1>3. ASSUME NEW u \in Uploads, CommitDelete(u) PROVE IngestionInv' BY <1>3, CommitDeletePreserves
<1>4. ASSUME NEW u \in Uploads, NEW weeks \in Files, Deduplicate(u, weeks)
      PROVE  IngestionInv'
  BY <1>4, DeduplicatePreserves, IngestionAssumption
<1>5. ASSUME NEW u \in Uploads, Insert(u) PROVE IngestionInv' BY <1>5, InsertPreserves
<1>6. ASSUME NEW u \in Uploads, Fail(u) PROVE IngestionInv' BY <1>6, FailPreserves
<1> QED BY <1>1, <1>2, <1>3, <1>4, <1>5, <1>6 DEF IngestionNext

\* The inductive invariant of the uploads (upload_pos_data, ingest_csv).
THEOREM IngestionInvariance == IngestionSpec => []IngestionInv
<1>1. IngestionInit => IngestionInv BY IngestionInitInv
<1>2. IngestionInv /\ [IngestionNext]_ingestionVars => IngestionInv' BY IngestionStepPreserves
<1> QED BY <1>1, <1>2, PTL DEF IngestionSpec

\* Two batches in training_data_log were uploaded at the same time.
THEOREM OneBatchHolds == IngestionSpec => []OneBatch
<1>1. IngestionInv => OneBatch BY DEF IngestionInv
<1> QED BY <1>1, IngestionInvariance, PTL

\* A batch in the log and its dataset snapshot agree.
THEOREM SnapshotIsTheBatchHolds == IngestionSpec => []SnapshotIsTheBatch
<1>1. IngestionInv => SnapshotIsTheBatch BY DEF IngestionInv
<1> QED BY <1>1, IngestionInvariance, PTL
=============================================================================
