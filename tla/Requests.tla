------------------------------ MODULE Requests ------------------------------
(***************************************************************************)
(* The requests that one worker serves: api/dependencies/auth.py, then the *)
(* handler, over the connections of ConnectionPool and the log of          *)
(* AuditLog.  Four kinds: a read of /api, PUT /admin/settings/{key}, POST  *)
(* /api/upload and POST /api/retrain.  Handlers run in threads, but they   *)
(* are started and closed by the event loop, and the upload, the one async *)
(* handler, runs on the loop, blocking it also while it waits for a        *)
(* connection.                                                             *)
(***************************************************************************)
EXTENDS ConnectionPool, Sequences

CONSTANTS
  Seed,      \* the value of the setting from the migration
  PageLimit, \* rows per page of the audit log
  Offers     \* bound: the kinds that a request can be of; all of them in the code

Kinds == {"read", "setting", "upload", "retrain"}

ASSUME RequestsAssumption ==
  /\ Seed \notin Requests
  /\ PageLimit \in Nat \ {0}
  /\ Offers \in [Requests -> SUBSET Kinds]

VARIABLES
  req,      \* the requests
  setting,  \* a row of global_settings; the value that request r writes is r
  trail, reader

Values == Requests \cup {Seed}

INSTANCE AuditLog WITH Writers <- Requests, Statuses <- {"SUCCESS", "FAILED"}

vars == <<out, req, setting, trail, reader>>

\* Statements of the handlers; each needs the connection of its session.
Statements ==
  {"select", "delete", "insert", "append", "update", "doomed", "commit", "refresh"}

\* `pc` is the statement that comes next.  `old`: the setting as it was read; `told`:
\* the value that the answer to an update carries.  `failed`: the pipeline or the file failed.  History: `changed`, the request has
\* committed a change; `met`, the updates of the setting in flight together with it.
Request == [kind : Kinds \cup {"none"},
            pc : {"idle", "user", "dispatch", "train", "closing", "ended"} \cup Statements,
            old : Values, told : Values, failed : BOOLEAN, answer : {"none", "ok", "error"},
            changed : BOOLEAN, met : SUBSET Requests]

NewRequest == [kind |-> "none", pc |-> "idle", old |-> Seed, told |-> Seed, failed |-> FALSE,
               answer |-> "none", changed |-> FALSE, met |-> {}]

TypeOK ==
  /\ PoolTypeOK
  /\ AuditTypeOK
  /\ req \in [Requests -> Request]
  /\ setting \in Values

Init ==
  /\ PoolInit
  /\ AuditInit
  /\ req = [r \in Requests |-> NewRequest]
  /\ setting = Seed

\* The router of the settings has the session of the dependency.
SessionOf(r) ==
  IF req[r].pc = "user" \/ req[r].kind = "setting" THEN "auth" ELSE "db"

Ready(r) == Connected(r, SessionOf(r))

NeedsConnection(r) == req[r].pc \in {"user"} \cup (Statements \ {"doomed", "commit"})

Waiting(r) == NeedsConnection(r) /\ ~Ready(r)

Running(r) == NeedsConnection(r) /\ Ready(r)

\* The handler of an upload has begun and has not ended.
OnLoop(r) == req[r].kind = "upload" /\ req[r].pc \in Statements

LoopBusy == \E r \in Requests : OnLoop(r)

Updating == {r \in Requests : req[r].kind = "setting" /\ req[r].pc # "ended"}

Goto(r, pc) == req' = [req EXCEPT ![r].pc = pc]

Answer(r, a) == req' = [req EXCEPT ![r].pc = "closing", ![r].answer = a]

-----------------------------------------------------------------------------
(* The loop and the pool *)

Arrive(r) ==
  /\ req[r].pc = "idle"
  /\ ~LoopBusy
  /\ \E k \in Offers[r] :
       LET overlap == IF k = "setting" THEN Updating ELSE {}
       IN  req' = [s \in Requests |->
             IF s = r THEN [req[r] EXCEPT !.kind = k, !.pc = "user", !.met = overlap]
             ELSE IF s \in overlap THEN [req[s] EXCEPT !.met = @ \cup {r}]
             ELSE req[s]]
  /\ UNCHANGED <<out, setting, trail, reader>>

\* The next statement gets a connection for its session.
Connect(r) ==
  /\ Waiting(r)
  /\ Checkout(r, SessionOf(r))
  /\ UNCHANGED <<req, setting, trail, reader>>

\* An SQLAlchemyError in the next statement.  log_action swallows it, but the session
\* is then in a failed transaction.  An upload whose ingestion fails rolls back and
\* records the failure.  Elsewhere the request answers 500.
Raises(r) ==
  \/ req[r].pc \in {"append", "update"} /\ Goto(r, "doomed") /\ UNCHANGED out
  \/ /\ req[r].pc \in {"delete", "insert"}
     /\ req' = [req EXCEPT ![r].pc = "append", ![r].failed = TRUE]
     /\ Return(r, "db")
  \/ req[r].pc \in {"user", "select", "refresh"} /\ Answer(r, "error") /\ UNCHANGED out

\* Variant: a request waits for a connection as long as it takes.
TimedOutNever(r) == FALSE /\ UNCHANGED vars

\* pool_timeout.
TimedOut(r) ==
  /\ Waiting(r)
  /\ ~Available
  /\ Raises(r)
  /\ UNCHANGED <<setting, trail, reader>>

\* The connection is lost, or a value is refused.
StatementFails(r) ==
  /\ Running(r)
  /\ Raises(r)
  /\ RollbackRows(r)
  /\ UNCHANGED setting

\* fetch_user_by_id; nobody, or not the role: 401 and 403.
Authenticate(r) ==
  /\ req[r].pc = "user" /\ Ready(r)
  /\ Goto(r, "dispatch") \/ Answer(r, "error")
  /\ UNCHANGED <<out, setting, trail, reader>>

FirstStep(r) ==
  CASE req[r].kind = "upload" -> "delete"
    [] req[r].kind = "retrain" -> "train"
    [] OTHER -> "select"

\* The value of a setting is checked first; a file that is no .csv is only recorded.
Dispatch(r) ==
  /\ req[r].pc = "dispatch"
  /\ ~LoopBusy
  /\ \/ Goto(r, FirstStep(r))
     \/ req[r].kind = "setting" /\ Answer(r, "error")
     \/ /\ req[r].kind = "upload"
        /\ req' = [req EXCEPT ![r].pc = "append", ![r].failed = TRUE]
  /\ UNCHANGED <<out, setting, trail, reader>>

\* The exit of the dependencies, when the answer is sent.
Close(r) ==
  /\ req[r].pc = "closing"
  /\ ~LoopBusy
  /\ CloseSessions(r)
  /\ Goto(r, "ended")
  /\ UNCHANGED <<setting, trail, reader>>

-----------------------------------------------------------------------------
(* The handlers *)

\* A retrain runs its pipeline in a process of its own, which commits the model; it
\* can be killed after that.
Train(r) ==
  /\ req[r].pc = "train"
  /\ \E ok, changed \in BOOLEAN :
       /\ ok => changed
       /\ req' = [req EXCEPT ![r].pc = IF ok THEN "select" ELSE "append",
                             ![r].changed = changed, ![r].failed = ~ok]
  /\ UNCHANGED <<out, setting, trail, reader>>

\* Variant: the old value is taken when the row has its new one.
SelectTooLate(r) ==
  /\ req[r].pc = "select" /\ Ready(r)
  /\ \/ req[r].kind = "read" /\ Answer(r, "ok")
     \/ /\ req[r].kind = "setting"
        /\ req' = [req EXCEPT ![r].pc = "append", ![r].old = r]
     \/ /\ req[r].kind = "retrain"
        /\ \E found \in BOOLEAN :
             req' = [req EXCEPT ![r].pc = "append", ![r].failed = ~found]
  /\ UNCHANGED <<out, setting, trail, reader>>

\* The data of a read; the setting, as it is before; the active model of a retrain,
\* which another request can have removed.
Select(r) ==
  /\ req[r].pc = "select" /\ Ready(r)
  /\ \/ req[r].kind = "read" /\ Answer(r, "ok")
     \/ /\ req[r].kind = "setting"
        /\ req' = [req EXCEPT ![r].pc = "append", ![r].old = setting]
     \/ /\ req[r].kind = "retrain"
        /\ \E found \in BOOLEAN :
             req' = [req EXCEPT ![r].pc = "append", ![r].failed = ~found]
  /\ UNCHANGED <<out, setting, trail, reader>>

\* The log of bookings is deleted and that is committed.
Delete(r) ==
  /\ req[r].pc = "delete" /\ Ready(r)
  /\ Goto(r, "insert")
  /\ Return(r, "db")
  /\ UNCHANGED <<setting, trail, reader>>

\* The new weeks are committed, or the file is found bad and all is rolled back.
Insert(r) ==
  /\ req[r].pc = "insert" /\ Ready(r)
  /\ \E ok \in BOOLEAN :
       req' = [req EXCEPT ![r].pc = "append", ![r].changed = ok, ![r].failed = ~ok]
  /\ Return(r, "db")
  /\ UNCHANGED <<setting, trail, reader>>

\* log_action: the flush.  It writes the audit row, and with it, second, the setting.
Append2Log(r) ==
  /\ req[r].pc = "append" /\ Ready(r)
  /\ Append2Trail(r, IF req[r].failed THEN "FAILED" ELSE "SUCCESS", req[r].old)
  /\ Goto(r, IF req[r].kind = "setting" THEN "update" ELSE "commit")
  /\ UNCHANGED <<out, setting, reader>>

\* The UPDATE waits for the lock of another one.
Update(r) ==
  /\ req[r].pc = "update" /\ Ready(r)
  /\ \A s \in Requests \ {r} : ~(req[s].kind = "setting" /\ req[s].pc = "commit")
  /\ Goto(r, "commit")
  /\ UNCHANGED <<out, setting, trail, reader>>

\* Variant: after a failed flush the commit goes through without the row.
CommitWithoutRow(r) ==
  /\ req[r].pc = "doomed"
  /\ req' = [req EXCEPT ![r].pc = "closing",
                        ![r].answer = IF req[r].failed THEN "error" ELSE "ok",
                        ![r].changed = req[r].changed \/ req[r].kind = "setting"]
  /\ setting' = IF req[r].kind = "setting" THEN r ELSE setting
  /\ UNCHANGED <<out, trail, reader>>

\* The commit of a session in a failed transaction raises: 500.
CommitDoomed(r) ==
  /\ req[r].pc = "doomed"
  /\ Answer(r, "error")
  /\ UNCHANGED <<out, setting, trail, reader>>

\* db.commit().  The handler of a setting reads the row again.
Commit(r) ==
  /\ req[r].pc = "commit"
  /\ CommitRows(r)
  /\ Return(r, SessionOf(r))
  /\ IF req[r].kind = "setting"
     THEN /\ req' = [req EXCEPT ![r].pc = "refresh", ![r].changed = TRUE]
          /\ setting' = r
     ELSE /\ Answer(r, IF req[r].failed THEN "error" ELSE "ok")
          /\ UNCHANGED setting

\* The commit fails: the connection is lost.
CommitFails(r) ==
  /\ req[r].pc = "commit"
  /\ RollbackRows(r)
  /\ Answer(r, "error")
  /\ UNCHANGED <<out, setting>>

\* Variant: the answer is made from the row as it was loaded before the update.
RefreshStale(r) ==
  /\ req[r].pc = "refresh" /\ Ready(r)
  /\ req' = [req EXCEPT ![r].pc = "closing", ![r].answer = "ok", ![r].told = req[r].old]
  /\ UNCHANGED <<out, setting, trail, reader>>

\* db.refresh: a SELECT in a new transaction; the answer has the row as it is now.
Refresh(r) ==
  /\ req[r].pc = "refresh" /\ Ready(r)
  /\ req' = [req EXCEPT ![r].pc = "closing", ![r].answer = "ok", ![r].told = setting]
  /\ UNCHANGED <<out, setting, trail, reader>>

-----------------------------------------------------------------------------

Progress(r) ==
  \/ Connect(r) \/ TimedOut(r) \/ Authenticate(r) \/ Dispatch(r) \/ Close(r)
  \/ Train(r) \/ Select(r) \/ Delete(r) \/ Insert(r) \/ Append2Log(r) \/ Update(r)
  \/ CommitDoomed(r) \/ Commit(r) \/ Refresh(r)

Failure(r) == StatementFails(r) \/ CommitFails(r)

Read == (ReadPage \/ Restart) /\ UNCHANGED <<out, req, setting>>

Next == (\E r \in Requests : Arrive(r) \/ Progress(r) \/ Failure(r)) \/ Read

Spec == Init /\ [][Next]_vars

\* Threads, the loop and the pool's timer go on.
FairSpec == Spec /\ \A r \in Requests : WF_vars(Progress(r))

-----------------------------------------------------------------------------
(* Properties *)

Audited(r) == \E i \in Committed : trail[i].by = r

\* The pool gives out no more than it has.  A request that has not come or has ended
\* holds none; its second session one only while the handler needs it.
PoolInv ==
  /\ Cardinality(out) <= PoolSize + MaxOverflow
  /\ \A r \in Requests :
       /\ Connected(r, "auth") => req[r].pc \notin {"idle", "ended"}
       /\ Connected(r, "db") =>
            req[r].kind # "setting" /\ req[r].pc \in Statements \cup {"closing"}

\* GET /admin/system/pipeline-status: the newest row of a retrain.
PipelineStatus ==
  LET runs == {i \in Committed : req[trail[i].by].kind = "retrain"}
  IN  IF runs = {} THEN "NEVER_RUN"
      ELSE trail[CHOOSE i \in runs : \A j \in runs : j <= i].status

\* "ok" is answered only to what is in the audit log; a setting never changes without
\* its row; and a row that tells of a success tells the truth.  (Uploads and
\* retrains that fail after their own commit leave a change without a row.)
ChangesAreAudited ==
  \A r \in Requests :
    /\ req[r].answer = "ok" /\ req[r].kind # "read" => Audited(r)
    /\ req[r].kind = "setting" => (req[r].changed <=> Audited(r))
    /\ \A i \in Committed :
         trail[i].by = r /\ trail[i].status = "SUCCESS" => req[r].changed
    /\ req[r].kind = "retrain" /\ req[r].answer = "ok" => PipelineStatus # "NEVER_RUN"

SettingRows == {i \in Committed : req[trail[i].by].kind = "setting"}

Overlapped(v, w) == v # Seed /\ w # Seed /\ v \in req[w].met

\* The newest row of a setting tells its value, and each row records, as the value it
\* replaced, that of the row before it, unless updates overlapped: the rows are ordered
\* by when they were written, the values by who got the lock.
TrailTellsTheSetting ==
  \A i \in SettingRows :
    LET r == trail[i].by
        before == {j \in SettingRows : j < i}
        last == IF before = {} THEN Seed
                ELSE trail[CHOOSE j \in before : \A k \in before : k <= j].by
    IN  /\ (\A j \in SettingRows : j <= i) => setting = r \/ Overlapped(setting, r)
        /\ \/ trail[i].old = last
           \/ Overlapped(last, r)
           \/ Overlapped(last, trail[i].old)

\* The PUT of a setting answers with its own value or with that of an update that was in
\* flight together with it: the row is read again after the commit has given its lock
\* away, but never is the value that was replaced, nor one of an earlier request, told.
AnswersAreCurrent ==
  \A r \in Requests :
    req[r].kind = "setting" /\ req[r].answer = "ok" => req[r].told \in {r} \cup req[r].met

\* Every request ends, those included that hold all connections and wait for more:
\* each /api request takes two of four.
EveryRequestEnds == \A r \in Requests : req[r].pc = "user" ~> req[r].pc = "ended"

-----------------------------------------------------------------------------
(* Why the properties hold: the inductive invariant *)

RowsOf(r) == {i \in DOMAIN trail : trail[i].by = r}

\* Which statements a handler has.
KindHasStatement(r) ==
  LET q == req[r] IN
  /\ q.kind = "none" <=> q.pc = "idle"
  /\ q.pc \in {"delete", "insert"} => q.kind = "upload"
  /\ q.pc = "train" => q.kind = "retrain"
  /\ q.pc \in {"update", "refresh"} => q.kind = "setting"
  /\ q.pc = "select" => q.kind # "upload"
  /\ q.pc \in {"append", "doomed", "commit"} => q.kind # "read"

\* A row is written by the statement that appends it, is open until the commit, and
\* survives only that.
RowsFollow(r) ==
  LET q == req[r] IN
  /\ RowsOf(r) # {} => q.pc \in {"update", "doomed", "commit", "refresh", "closing", "ended"}
  /\ q.pc \in {"update", "commit"} =>
       RowsOf(r) # {} /\ \A i \in RowsOf(r) : trail[i].state = "open"
  /\ q.pc \notin {"update", "commit"} => OpenRows(r) = {}
  /\ q.pc = "doomed" => ~Audited(r)
  /\ q.pc = "refresh" => Audited(r)

AnswersTell(r) ==
  LET q == req[r] IN
  /\ q.answer # "none" => q.pc \in {"closing", "ended"}
  /\ q.answer = "ok" /\ q.kind # "read" => Audited(r)

ChangesTell(r) ==
  LET q == req[r] IN
  /\ q.pc = "idle" => ~q.changed
  /\ q.kind = "setting" => (q.changed <=> Audited(r))
  /\ q.pc = "select" /\ q.kind = "retrain" => q.changed
  /\ q.pc = "append" /\ q.kind # "setting" /\ ~q.failed => q.changed
  /\ \A i \in RowsOf(r) :
       q.kind # "setting" /\ trail[i].status = "SUCCESS" => q.changed

ConnectionsFollow(r) ==
  LET q == req[r] IN
  /\ Connected(r, "auth") => q.pc \notin {"idle", "ended"}
  /\ Connected(r, "db") => q.kind # "setting" /\ q.pc \in Statements \cup {"closing"}
  /\ q.pc \in {"update", "commit"} => Ready(r)

RequestInv(r) ==
  KindHasStatement(r) /\ RowsFollow(r) /\ AnswersTell(r) /\ ChangesTell(r)
    /\ ConnectionsFollow(r)

RequestsInv ==
  /\ TypeOK
  /\ Cardinality(out) <= PoolSize + MaxOverflow
  /\ \A r \in Requests : RequestInv(r)
  /\ \A r, s \in Requests : OnLoop(r) /\ OnLoop(s) => r = s
  /\ ReaderInv
-----------------------------------------------------------------------------
(* Why the trail tells the setting: rows are in the order of their updates, but *)
(* for updates that met                                                        *)

\* Updates that are in flight together know of each other, from the later's arrival.
MeetingsAreMutual ==
  /\ \A r, s \in Requests : s \in req[r].met => r \in req[s].met
  /\ \A r, s \in Updating : r # s => s \in req[r].met
  /\ \A r \in Requests : req[r].pc = "idle" => req[r].met = {}

OneRow(r) ==
  \A i, j \in RowsOf(r) :
    i = j /\ (req[r].kind = "setting" => trail[i].old = req[r].old)

\* An update that writes its row below that of another one had met it, or the other
\* one had ended.
RowsInOrder ==
  \A i, j \in DOMAIN trail :
    LET r == trail[i].by
        s == trail[j].by
    IN  /\ i < j /\ r # s /\ req[r].kind = "setting" /\ req[s].kind = "setting"
        /\ s \notin req[r].met
        => req[r].pc = "ended"

\* The value w has its committed row, and row j is not below it or is of an update
\* that overlapped w.
ToldUpTo(j, w) ==
  \E k \in SettingRows : trail[k].by = w /\ (j <= k \/ trail[j].by \in req[w].met)

SettingIsTold ==
  /\ setting # Seed => \E k \in SettingRows : trail[k].by = setting
  /\ \A j \in SettingRows : ToldUpTo(j, setting)

\* What an update has read is told by the rows above its own, where they are not of
\* updates that it met.
OldIsTold(r) ==
  req[r].kind = "setting" /\ (req[r].pc = "append" \/ RowsOf(r) # {}) =>
    /\ req[r].old # Seed => \E k \in SettingRows : trail[k].by = req[r].old
    /\ \A k \in SettingRows, i \in RowsOf(r) : trail[k].by = req[r].old => k < i
    /\ \A j \in SettingRows :
         (\A i \in RowsOf(r) : j < i) =>
           trail[j].by \in req[r].met \/ ToldUpTo(j, req[r].old)

TrailInv ==
  /\ MeetingsAreMutual
  /\ \A r \in Requests : OneRow(r) /\ OldIsTold(r)
  /\ RowsInOrder
  /\ SettingIsTold

\* An update that has committed reads the setting again: it finds its own value, or that
\* of an update which committed since and was in flight with it.
AnswersInv ==
  \A r \in Requests : req[r].kind = "setting" =>
    /\ req[r].pc = "refresh" => setting \in {r} \cup req[r].met
    /\ req[r].answer = "ok" => req[r].told \in {r} \cup req[r].met
=============================================================================
