------------------------------ MODULE AuditLog ------------------------------
(***************************************************************************)
(* The audit log: log_action and query_logs of services/audit_service.py   *)
(* over audit_logs (repository/auth_repository.py).  A row gets its        *)
(* timestamp and its id when it is inserted and is seen by others when the *)
(* transaction of its action commits, so that rows appear out of order.    *)
(* A reader pages through the committed rows, newest first; its place is   *)
(* the (timestamp, id) of the last row it was shown.                       *)
(***************************************************************************)
EXTENDS Naturals, Sequences, FiniteSets, FiniteSetsExt

CONSTANTS
  Writers,   \* the requests whose actions are audited
  Statuses,  \* what a row can say of its action
  Values,    \* the old values that a row can record
  PageLimit  \* rows per page; 1 to 200 in the code

VARIABLES
  trail,  \* the rows in the order of (timestamp, id)
  reader  \* somebody who pages through the log

auditVars == <<trail, reader>>

\* No row is updated or deleted: the triggers of migration 0ab1bdfdb999.
AuditRow == [by : Writers, status : Statuses, old : Values,
             state : {"open", "committed", "rolledback"}]

\* `cursor` 0 stands for none.  History: `late`, the rows that were committed when
\* the reader had passed their place.
Reader == [pc : {"idle", "paging", "done"}, cursor : Nat, seen : SUBSET Nat,
           late : SUBSET Nat]

NewReader == [pc |-> "idle", cursor |-> 0, seen |-> {}, late |-> {}]

AuditTypeOK == trail \in Seq(AuditRow) /\ reader \in Reader

AuditInit == trail = <<>> /\ reader = NewReader

Committed == {i \in DOMAIN trail : trail[i].state = "committed"}

\* insert_audit_log: the row is flushed, not committed.
Append2Trail(r, s, old) ==
  trail' = Append(trail, [by |-> r, status |-> s, old |-> old, state |-> "open"])

OpenRows(r) == {i \in DOMAIN trail : trail[i].by = r /\ trail[i].state = "open"}

EndRows(r, end) ==
  trail' = [i \in DOMAIN trail |->
              IF i \in OpenRows(r) THEN [trail[i] EXCEPT !.state = end] ELSE trail[i]]

\* The transaction of the action commits, and with it the row.
CommitRows(r) ==
  /\ EndRows(r, "committed")
  /\ reader' = [reader EXCEPT !.late =
       @ \cup {i \in OpenRows(r) : \/ reader.pc = "paging" /\ i >= reader.cursor
                                 \/ reader.pc = "done"}]

RollbackRows(r) == EndRows(r, "rolledback") /\ UNCHANGED reader

-----------------------------------------------------------------------------

\* What the cursor has left to show.
Below(c) == {i \in Committed : c = 0 \/ i < c}

Newest(S, n) == {i \in S : Cardinality({j \in S : j > i}) < n}

\* Variant: the cursor is the row after the page, which the next page excludes.
AnchorAfterThePage(left) == Min(Newest(left, PageLimit + 1))

\* The last row shown.
Anchor(left) == Min(Newest(left, PageLimit))

\* One page: limit + 1 rows are fetched, to know whether there is another page.
ReadPage ==
  /\ reader.pc \in {"idle", "paging"}
  /\ LET left == Below(reader.cursor)
         more == Cardinality(left) > PageLimit
     IN  reader' = [reader EXCEPT
           !.pc = IF more THEN "paging" ELSE "done",
           !.cursor = IF more THEN Anchor(left) ELSE @,
           !.seen = @ \cup Newest(left, PageLimit)]
  /\ UNCHANGED trail

\* Somebody starts to read from the first page.
Restart ==
  /\ reader.pc = "done"
  /\ reader' = NewReader
  /\ UNCHANGED trail

-----------------------------------------------------------------------------

\* A reader who has come to the last page has seen each committed row, but for those
\* that were committed when the cursor had passed their place: rows that belong
\* between two that are shown can be missing, but in no other way.
PagesMissOnlyLateRows ==
  reader.pc = "done" => Committed \ reader.late = reader.seen

\* Why it holds: what has been seen is what the cursor has passed.
ReaderInv ==
  /\ reader.pc = "idle" => reader = NewReader
  /\ reader.pc = "paging" =>
       /\ reader.cursor > 0
       /\ \A i \in reader.late : i >= reader.cursor
       /\ reader.seen = {i \in Committed \ reader.late : i >= reader.cursor}
  /\ PagesMissOnlyLateRows
=============================================================================
