----------------------------- MODULE Ingestion ------------------------------
(***************************************************************************)
(* Uploads of booking data: upload_pos_data of api/main.py and ingest_csv  *)
(* of services/ingestion_service.py over the tables training_data_log and  *)
(* dataset_snapshots.  An upload deletes the log and commits that before   *)
(* it parses its file, drops the weeks it then finds in the log, and       *)
(* inserts the others with their dataset snapshot in one transaction.  The *)
(* endpoint blocks its worker, so that uploads overlap between workers.    *)
(***************************************************************************)
EXTENDS Naturals

CONSTANTS
  Weeks,          \* the weeks that bookings fall in
  Files,          \* the files that may be uploaded: the weeks each has bookings of
  Uploads,        \* upload requests; each draws its own ingestion_batch_id
  MatchesWeeks    \* the weeks read back compare equal to those of the file: so
                  \* for SQLite, or a PostgreSQL session in Manila time

ASSUME IngestionAssumption ==
  Weeks \subseteq Nat /\ Files \subseteq SUBSET Weeks /\ MatchesWeeks \in BOOLEAN

VARIABLES
  log,        \* committed rows of training_data_log
  snapshots,  \* dataset_snapshots: batch -> the weeks it describes ({}: no row)
  up          \* the uploads

ingestionVars == <<log, snapshots, up>>

Row == [week : Weeks, batch : Uploads]

\* `doomed`: the rows its DELETE has found; `fresh`: the weeks it will insert.
\* History: `met`, the uploads that were in flight together with it.
Upload == [pc : {"idle", "deleted", "parse", "insert", "success", "skipped", "failed"},
           doomed : SUBSET Row, fresh : SUBSET Weeks, met : SUBSET Uploads]

IngestionTypeOK ==
  /\ log \subseteq Row
  /\ snapshots \in [Uploads -> SUBSET Weeks]
  /\ up \in [Uploads -> Upload]

IngestionInit ==
  /\ log = {}
  /\ snapshots = [u \in Uploads |-> {}]
  /\ up = [u \in Uploads |-> [pc |-> "idle", doomed |-> {}, fresh |-> {}, met |-> {}]]

InFlight == {u \in Uploads : up[u].pc \in {"deleted", "parse", "insert"}}

-----------------------------------------------------------------------------

\* Variant: the log is not emptied, a new file is merged into the old one.
DeleteNothing(u) ==
  /\ up[u].pc = "idle"
  /\ up' = [v \in Uploads |->
       IF v = u THEN [up[u] EXCEPT !.pc = "deleted", !.met = InFlight]
       ELSE IF v \in InFlight THEN [up[v] EXCEPT !.met = @ \cup {u}]
       ELSE up[v]]
  /\ UNCHANGED <<log, snapshots>>

\* The DELETE statement; what it removes is seen by others once it is committed.
Delete(u) ==
  /\ up[u].pc = "idle"
  /\ up' = [v \in Uploads |->
       IF v = u THEN [up[u] EXCEPT !.pc = "deleted", !.doomed = log, !.met = InFlight]
       ELSE IF v \in InFlight THEN [up[v] EXCEPT !.met = @ \cup {u}]
       ELSE up[v]]
  /\ UNCHANGED <<log, snapshots>>

CommitDelete(u) ==
  /\ up[u].pc = "deleted"
  /\ log' = log \ up[u].doomed
  /\ up' = [up EXCEPT ![u].pc = "parse", ![u].doomed = {}]
  /\ UNCHANGED snapshots

\* Parsing the file into `weeks`, and dropping those that the log has.
Deduplicate(u, weeks) ==
  LET existing == IF MatchesWeeks THEN {row.week : row \in log} ELSE {}
      new == weeks \ existing
  IN /\ up[u].pc = "parse"
     /\ up' = [up EXCEPT ![u].pc = IF new = {} THEN "skipped" ELSE "insert",
                         ![u].fresh = new]
     /\ UNCHANGED <<log, snapshots>>

\* Variant: the snapshot is computed before the rows are flushed.
InsertUnflushed(u) ==
  /\ up[u].pc = "insert"
  /\ log' = log \cup {[week |-> w, batch |-> u] : w \in up[u].fresh}
  /\ snapshots' = [snapshots EXCEPT ![u] = {row.week : row \in {x \in log : x.batch = u}}]
  /\ up' = [up EXCEPT ![u].pc = "success"]

\* The INSERTs, the snapshot computed over them, and their COMMIT.
Insert(u) ==
  /\ up[u].pc = "insert"
  /\ log' = log \cup {[week |-> w, batch |-> u] : w \in up[u].fresh}
  /\ snapshots' = [snapshots EXCEPT ![u] = up[u].fresh]
  /\ up' = [up EXCEPT ![u].pc = "success"]

\* A malformed file, a failing statement or a dying worker: the transaction that
\* is open is rolled back, a DELETE that is already committed is not.
Fail(u) ==
  /\ u \in InFlight
  /\ up' = [up EXCEPT ![u].pc = "failed", ![u].doomed = {}, ![u].fresh = {}]
  /\ UNCHANGED <<log, snapshots>>

IngestionNext ==
  \E u \in Uploads :
    \/ Delete(u)
    \/ CommitDelete(u)
    \/ \E weeks \in Files : Deduplicate(u, weeks)
    \/ Insert(u)
    \/ Fail(u)

IngestionSpec == IngestionInit /\ [][IngestionNext]_ingestionVars

-----------------------------------------------------------------------------
(* Properties *)

\* The log never mixes two files, unless their uploads were in flight at the
\* same time: an upload replaces the data (ingest_csv deletes before it reads).
OneBatch ==
  \A x, y \in log : x.batch # y.batch => y.batch \in up[x.batch].met

\* A batch that is in the log is there with exactly the weeks that its dataset
\* snapshot describes, whichever other uploads delete and insert meanwhile
\* (the snapshot is computed and committed with the rows).
SnapshotIsTheBatch ==
  \A x \in log : {row.week : row \in {y \in log : y.batch = x.batch}} = snapshots[x.batch]

-----------------------------------------------------------------------------
(* Inductive strengthening *)

Overlap(u, v) == v \in up[u].met

\* Whatever an upload in flight will not remove was inserted while it ran.
LeftByOthers ==
  \A u \in InFlight : \A x \in log :
    x \notin up[u].doomed => Overlap(u, x.batch) /\ Overlap(x.batch, u)

InsertedOnSuccess == \A x \in log : up[x.batch].pc = "success"

InFlightMeet == \A u, v \in InFlight : u # v => Overlap(u, v)

\* A DELETE finds all rows of a batch or none.
WholeBatches ==
  \A u \in Uploads : \A x \in up[u].doomed, y \in log :
    x.batch = y.batch => y \in up[u].doomed

DoomedWhileDeleting == \A u \in Uploads : up[u].pc # "deleted" => up[u].doomed = {}

DoomedSucceeded == \A u \in Uploads : \A x \in up[u].doomed : up[x.batch].pc = "success"

IngestionInv ==
  /\ IngestionTypeOK
  /\ OneBatch
  /\ SnapshotIsTheBatch
  /\ LeftByOthers
  /\ InsertedOnSuccess
  /\ InFlightMeet
  /\ WholeBatches
  /\ DoomedWhileDeleting
  /\ DoomedSucceeded
=============================================================================
