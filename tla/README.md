# XoCompass backend: TLA+ models and proofs

XoCompass is a FastAPI service over PostgreSQL (Neon) for a travel agency: staff
log in, upload booking data, retrain a SARIMAX model and read dashboards. Four
uvicorn workers (Dockerfile) run the same code against one database, so that every
request is a transaction that runs next to others. The tests in the repository
are sequential smoke scripts; what they cannot reach is what is modelled here.

## Inventory

| Component | State | Operations | What makes it correct |
|---|---|---|---|
| Sessions (`services/auth_service.py` 101-291, `auth_repository.py` 77-164) | `users` (password hash, `is_active`), `refresh_tokens` | login, refresh, logout; revocation by replay, deactivation, deletion, reset | a token rotates once; revocation is complete; passwords change only by a reset |
| Account administration (438-664, `scripts/bootstrap_admin.py`) | `users` (role, `is_active`, email) | bootstrap, change role, (de)activate, soft-delete | somebody can administer the system, and a lockout has a known way out; no stale authority |
| Invitations (299-375, 669-759) | `invite_tokens`, `users.email` | issue, revoke, register | one account per invitation, one pending invitation per email |
| Password resets (770-1025) | `password_resets`, `users` | forgot, admin override, consume | a link is used once, the newest admin link wins, an inactive account is left alone |
| Audit log (`audit_service.py`) | `audit_logs`, append-only by trigger | `log_action` in the caller's transaction, cursor pagination | what is answered "ok" is in the log, which tells the truth; a reader of all pages skips nothing but late commits |
| Global settings, system status | `global_settings` | read, update | the trail of old and new values is a chain that ends in the value |
| CSV ingestion (`ingestion_service.py`) | `training_data_log`, `dataset_snapshots` | upload | the log is of one batch, which is whole and described by its snapshot (a failed upload leaves the log empty: it is deleted first) |
| Model registry and retraining (`orchestrator.py`, `api/main.py` 1272-1537) | `sarimax_models` and its children, `.joblib` files, one shared export CSV | retrain (subprocess), rename, delete | one active model, file and row together, a model is labelled with the data it was trained on |
| Dashboards and forecasts (`api/main.py` 462-1194) | none | read | actuals, test predictions and forecasts of a week meet at its date |
| Pipeline steps 1-6, `core/exogenous.py` | `forecast_cache` | label, split, train, predict, cache | every row of the cache has the date, the number and the actual value of one week; holiday flags do not depend on where a calendar ends |
| Connection pool, workers (`model_repository.py` 40-60) | two plus two connections per process, one event loop | `get_db`, twice per `/api` request | every request ends, and gives its connections back |
| Rate limiting | counter per process | - | - |

The components meet in the tables. `users` is the busiest: sessions read
`is_active` and the hash, resets write the hash, administration writes role,
activity and email, registration inserts, and every audit row refers to it by a
foreign key (which is a lock, `FOR KEY SHARE`). Nothing else is shared between
requests but the pool, the export file and the model directory.

What is hard: every handler reads, decides and then writes, at READ COMMITTED
and mostly without `FOR UPDATE`, so that decisions can be stale when they are
written; the session (autoflush off) writes only what differs from what it has
loaded; statements wait for row locks and can build wait cycles; the process may
stop between the commit and the answer. PROJECT.json lists these hazards by line.

## How the models are built

The four modules about accounts (`AuthSessions`, `UserAdmin`, `Invitations`,
`PasswordResets`) have the same shape.

- `req` holds the requests in flight: what each was asked, its program counter
  and what it has read. One action per SQL statement (or per group of
  statements that no other transaction can tell apart), named for it: `ReadUser`,
  `LockInvite`, `CommitReset`.
- The other variables are the *committed* rows. A read sees them at once, a
  statement that locks waits for the locks of others (`...Granted`), and the
  writes appear in the `Commit...` action, as READ COMMITTED shows them. An
  UPDATE with a WHERE clause takes two steps: the rows its snapshot finds, and the
  wait for their locks; rows that no longer match when it gets them are skipped.
- `Crash` rolls any request back at any point: a failed statement, a lost
  connection, a killed worker. `DeadlockVictim` is PostgreSQL's way out of a wait
  cycle, modelled where a cycle is possible.
- There is no clock. A row that can expire may expire at any moment.
- Answers that change no row (refusals, audited failures) end the request. Where
  an audit row matters as a lock (it references the actor), it is a step.
- Names starting "Variant:" in the comments are mutations of the definition
  below them; the runs must reject each of them. They are in no specification.

Many guarantees of this code are sequential: they hold when requests do not
overlap and fail when they do. Weakening them to "sequential" would lose what is
interesting, so that each module keeps a history field which says *which*
overlap a row owes its existence to (`late`/`overlap`, `lost`, `met`), and the
properties say: the guarantee holds, or exactly such an overlap is to blame. The
places where a document promises more are runs that end in a violation.

`Ingestion` and `Registry` follow the same rules with simpler locks: a step is what
others can see of a handler (a committed transaction, a file opened, closed, read or
removed), the other variables are the committed tables and the file system, and
`met` is the overlap: the requests that were in flight together with this one.

The other modules leave the interleaving inside the tables to those two groups.
`Requests` is about what one worker shares, the connections, the loop and the audit log;
a statement is a step that needs a connection and may fail. `Forecasts` has no
overlaps at all: its steps are whole uploads and retrains, in any order, and the
dashboards are operators over the state they leave.

## Modules

`AuthSessions` - login, refresh, logout and every revoker, on `users` and
`refresh_tokens`. `tok[t].st` is "free" before the token is minted, "live" while
`consumed_at` is NULL, then "consumed", and "gone" when the row is deleted.
Handlers map to program counters: `authenticate_user` = user, write, commit;
`refresh_session` = user, row, insert, mark, commit, or row, delete, lock, commit
after it finds a consumed token; `logout` = user, row, mark, commit; the revokers =
user, delete, lock, write, commit. Properties: a successor is stored as long as
its predecessor points to it (`SuccessorStored`), revocation is complete
(`RevocationComplete`), a token is rotated once (`RotatedOnce`), a password changes
by a reset only (`OnlyResetChangesPassword`), deletion deactivates
(`DeleteDeactivates`).

`SessionLedger` - the abstract session store that a client may rely on: a session
is opened, succeeded, ended, and all sessions of a user are revoked in one step
when the account is closed or its password changes. `AuthSessions` implements it
(`LedgerSpec`) with the refinement mapping that forgets requests, `deleted` and
`old`.

`UserAdmin` - `api/routers/admin_users.py` and the guards behind it. `Authorise`
is `get_current_user` with `require_admin`; `Load` reads the target (on oneself the
session already has it, and every operation is refused or changes nothing);
`Count` is the last-admin guard; `Write` the flush that locks the target; `Audit`
the row that references the actor. It starts from the empty table of the
migrations: the bootstrap script (`BootstrapChecks`, `BootstrapInserts`; two runs at a
time would meet in the unique email) makes the first admin, `Register` any other
account. A run of one request at a time can never trip the count
guard, because the actor is an active admin other than the target
(`CountGuardNeedsARace`); what keeps an admin in the system is the refusal to act
on oneself, and it does so unless a request goes on after its actor has been
removed (`LastAdminFallsToALostActor`). Once that has happened, neither a request nor
the script brings an admin back, because the script counts ADMIN rows and not
those who can log in; an invitation that is still open does
(`OnlyAnInvitationEndsALockout`).

`Invitations` - issue (check user, check pending, insert, answer), revoke (read,
update, whatever became of the row) and register (`FOR UPDATE`, checks, unique
index, consume). The docstring of `fetch_invite_by_hash_for_update` says that
without the lock two users would exist; the unique email prevents that already.
The lock matters when the account made by the first registration has been
soft-deleted, and the variant `LockInviteUnlocked` shows it. An invitation implements
`OneTimeLinks` (`OneTimeSpec`), from which `ConsumedOnce` follows.

`PasswordResets` - forgot, override, reset. With `Delivers = FALSE` it is the
program as it is: both routers that issue links fail on an undefined name after
the commit, so no link reaches anybody. With `Delivers = TRUE` it is the service
layer under a caller that passes the token on; its properties are those of
the services. `OverrideIsFinal` owes its truth to the wait of the override's
UPDATE for the row that a reset has locked. A link implements `OneTimeLinks` as well.

`OneTimeLinks` - the abstract link behind both, with atomic operations: issued live (and
superseding others in the same step), dead at some time and for good, claimed by one client
at a time while it is live, then used or let go. A claim outlives the death of its link,
because an invitation that is revoked or runs out under a registration, or a link
under a reset, is still honoured. The refinement mapping reads the state off `st` and `expired`,
and the claims off the requests that hold the row (`Registering`, `Resetting`); it forgets
emails, users and what the requests have met.

`Ingestion` - `ingest_csv`: the DELETE and its COMMIT (which others see in between),
parsing and the comparison with the log, the INSERTs with the snapshot, failure at
any point. `up[u].doomed` are the rows its DELETE has found, `fresh` the weeks it will
insert. A row of the log is a week and a batch; the rest of it, and of the snapshot,
is a function of the file. `MatchesWeeks` says whether the weeks that
PostgreSQL returns compare equal to those of the file: the code stores Manila time
and strips the time zone of what it reads, so that this depends on the time zone of
the database session. Properties: the log never mixes two files (`OneBatch`), a batch
in it is whole and described by its snapshot (`SnapshotIsTheBatch`).

`Registry` extends it with the retrains and the deletions of models. A retrain is
one record from the SELECT of `export_db_to_csv` (`Select`) over the shared CSV
(`OpenExport` truncates it, `CloseExport` leaves the rows, `Train` reads them back), the
model file (`SaveModel`), the transaction of `persist_to_neon` (`Deactivate` its
UPDATE, `Persist` the COMMIT) to the answer of the endpoint (`Report`). `Raise`, `Kill` and
`KillTooLate` are the ways in which it may end early; each leaves what the code
leaves. Deletion is `FindModel`, `RemoveFile`, `DropRow`, or `AbortDelete` in between.
Properties: one active model (`OneActive`), and always one once there are models
(`ServesAModel`); a row has its file (`RowHasItsFile`), a file its row, or it is known who
has left it behind (`OrphanIsExplained`); a model was trained on the batch it is labelled
with (`TrainedOnItsDataset`); a retrain reports its own model (`ReportsItsOwn`).

What is abstracted in `Registry`:
- A path is the run that has drawn it first. Names have a resolution of one
  second, so that `SaveModel` may also take the path of a run in flight that has
  saved its own model. A run that has ended meanwhile is not a candidate: its
  evaluation and its transaction take longer than the second.
- A file that two processes write at once may hold any part of both, and a reader
  may find any part of what is written while somebody writes.
- The UPDATE of `persist_to_neon` takes row locks that are held until the COMMIT. They
  are not shown: a row that another run has deactivated, or a deletion removed,
  meanwhile is skipped, which is what `Persist` does. The INSERT conflicts
  with nothing (there is no unique constraint on `is_active`).
- `MinRows` is 20 in the code and 2 in the runs.
- `data` is what the run has read. Step 1 then drops weeks after a fixed system date,
  which is in `Forecasts`. The training window of the request is parsed and used nowhere.
- A model is deleted by one request at a time.

`ConnectionPool` - the connections of one worker: a session checks one out with its
first statement, returns it with its commit, and closes at the end of the request.
The code has room for two and two more, and an `/api` request has two sessions.

`AuditLog` - `audit_logs` in the order of (timestamp, id), which is that of the
INSERTs; rows become visible in the order of the commits. `ReadPage` is `query_logs`
with its cursor, `late` records what was committed behind it. Property: a reader who
reaches the last page has missed late rows only (`PagesMissOnlyLateRows`).

`Requests` composes both with the requests of one worker, of four kinds: a read of
`/api`, an update of a setting, an upload, a retrain. `Arrive` and `Dispatch` need the event
loop, as does `Close`, which runs the exits of the dependencies; handlers run in
threads, but the upload is `async` and blocks the loop from its first statement to
its last (`LoopBusy`), also while it waits for a connection. Every statement may time out in
the pool (`TimedOut`) or fail (`StatementFails`), and a failed flush in `log_action` dooms the
transaction (`CommitDoomed`). Properties: connections are given out within the limit and
given back (`PoolInv`); "ok" is answered only to what is in the log, a setting never changes
without its row and a row of a success tells the truth (`ChangesAreAudited`, with
`PipelineStatus`, which reads the status of the pipeline off the log); the rows of a setting
form a chain that ends in its value, up to overlaps (`TrailTellsTheSetting`); an
update, which reads its row again after the COMMIT, answers with its own value or that of
an update it overlapped (`AnswersAreCurrent`); and every request ends. The blocked loop has no
property of its own: an upload that waits on it for connections whose holders need the loop
to close is freed by `pool_timeout`, and `EveryRequestEnds` includes it.

`Weeks` - days as numbers from a Monday, the proleptic calendar, Easter, the
holidays of `core/exogenous.py`, the three kinds of week the code uses (buckets from
Tuesday to Monday in an upload, labels by the Monday that ends them in step 1, the
seven days from a label on in step 6), and the labels of graphs ("Jul W2 2023") with
their inverse.

`Forecasts` - what uploads and retrains leave for the dashboards. A number of bookings or
a prediction is known by the week it is of, so that the model shows which week's
number stands at which date. `zone` is the time zone of the database session, which
nothing in the code sets: stored Manila midnights are read back as the day before in
UTC. A forecast has the week it is dated and, in `of`, the week it is a prediction of:
the model is fitted to the training part and predicts the weeks that follow it, and
`Forward` moves them behind the last week of all, as step 6 does. A row of the backtest has
its own week there. Properties: by date the cache is in the order of its numbers, and a
backtest row has the actual number of its own week unless there are three test
weeks, when they shift by one (`CacheInOrder`); test predictions are shown at their weeks
in UTC and nowhere in Manila time (`OverlayNeedsUtc`); while the log is the one a model was
trained on, its forecasts are dated after all actual weeks, those beyond the
system date excepted (`ForecastsFollowTheirData`); cut-off calendars lose no flag, but for one
week at an end of the data (`CalendarsAgree`); the year views of a model show no other
dataset, and all of its own while it is in the log (`YearViewsAreOfTheDataset`). That the
outlook is not of the twelve weeks ahead, as documented, is the run `outlook`. The years of a
dataset are taken from its column "Generation Date" and its weeks from the first column with
"date" in its name; the model has one such column.

Smaller divergences seen on the way:

- `admin_set_user_active` says that on deactivation ALL refresh tokens are revoked
  (`auth_service.py:518`); a login or refresh that overlaps it may leave a live one on the
  inactive account (`RevocationComplete` says which). It cannot be used while the
  account is inactive.
- The `RefreshToken` doc says that logout deletes the row, the
  code marks it consumed, so that a logged-out token presented again revokes all
  sessions of its user; a second link that was pending survives a reset; a link of a
  deactivated account works again after reactivation; a demotion of an *inactive* admin is
  refused when one active admin exists; `admin_revoke_invite` leaves an audit row for an
  invitation that was consumed while it waited.
- `audit_service.py:26` says that a failed audit write does not turn a success into a 500.
  It swallows the error of the flush, but the transaction is aborted, and the
  caller's commit raises: 500, and the action is undone or, if it had been committed
  before (upload, retrain), unrecorded. `ChangesAreAudited` states what is left.
- `retrain_model` says that its audit rows attribute the actor (`api/main.py:1287`); all of
  them have `actor=None`.
- `week_start` in `forecast-outlook` is a label, the Monday that ends the week.
- `forecast-graph` drops forecasts whose date is that of an actual week
  (`api/main.py:1166`), and `orchestrator.py:405-412` takes care not to provoke "the
  deduplication guard in get_forecast_graph". The guard never drops anything: actual weeks
  have the dates of Tuesdays (Manila) or of the Mondays before them as read in UTC, and
  forecasts in either zone the day before. After a newer upload the actual number and the forecast of a week
  are both in the graph; `ForecastsFollowTheirData` says that before it none meet.
- The overlay of test predictions "covers all test weeks" (`api/main.py:1087-1091`): in a
  database session in Manila time it covers none (`OverlayNeedsUtc`).
- "Selecting an old model always shows the dataset that model was trained on, not the
  latest upload" (`analytics_service.py:41-42`): its totals do, but the view of a year reads
  today's log with the model's batch (`api/main.py:689`), and after another upload is
  empty. It never shows the other dataset (`YearViewsAreOfTheDataset`).
- `orchestrator.py:519` and 543 say that 16 weeks are always forecast; it is 12.
- `core/config.py:15` calls `W-MON` "Monday start"; these weeks end on Mondays.
- The KPI attributes set at `orchestrator.py:479` are no columns of `SarimaxModel`; they are
  not stored, and `dashboard-stats` (`api/main.py:507`) answers 404 for every model.
- An upload "prevents duplicate dates" (`api/main.py:992`): two overlapping uploads, or one
  whose weeks do not compare equal, make some (`OneBatch` says when). A retrain leaves
  one active model: `OneActive` says when.

## Runs

Every run names its instance in the `.cfg`; symmetry (requests, tokens, ...) is
used for safety only.

| Run | Instance | Shows |
|---|---|---|
| `sessions_safety` | 1 user, 3 tokens, 2 requests, 2 passwords | four invariants (one on deadlocks), two action properties, the refinement |
| `sessions_rotation` | 1 user, 3 tokens, 2 requests | violation: a token rotated twice |
| `accounts` | 2 users, 2 requests, the script | the count guard, the last admin, the way out of a lockout, every request ends |
| `last_admin` | the same | violation: no admin left |
| `invitations` | 1 email, 2 invitations, 2 requests | the refinement of the one-time link, two invariants, revocation, liveness |
| `resets` | 1 user, 2 links, 2 requests, `Delivers = TRUE` | the refinement of the one-time link, an invariant, two action properties, liveness |
| `reset_links` | the same, `Delivers = FALSE` | violation: an override hands out no link |
| `models` | 2 uploads of 1 or 2 weeks, 2 retrains | two invariants of uploads, six of models |
| `model_dataset` | 1 upload, 2 weeks, 2 retrains | violation: a model labelled with a dataset it has not seen all of |
| `forecasts` | 5 files, 2 uploads, 2 models, both time zones, the bounds of the code | five invariants about weeks and their dates |
| `outlook` | the same | violation: the outlook is not of the weeks ahead |
| `requests` | 3 requests, a pool of 1 + 1, pages of 1 row | five invariants, every request ends |

Type invariants and the inductive invariants are proved (below); they were model-checked
before, and no run repeats them.

Why the bounds are enough to find what can go wrong: rows of different users (emails)
do not touch each other in these handlers, so that one suffices, and
administration needs two accounts (the module was also run with a third as a
bystander). Two requests
are the smallest number that overlap; every violation above needs two. Three
tokens allow a rotation, its race and a successor. Tokens, invitations and links
are never reused, so that they bound a run; each run still goes through every
action. `invitations` was also run with three invitations and three requests.

In `models`, two uploads and two retrains are the smallest numbers that overlap. `Files` are
the weeks of a file: one of them has both weeks and the other the second only, so that a
batch can survive in part, or find a part of its weeks in the log, next to the other
(`MatchesWeeks = TRUE`). `MinRows`, 20 in the code, is 2: a retrain needs both weeks, be they of one batch
or, when uploads overlap, of two. The same instance was also run with `MatchesWeeks = FALSE`, and with
one week the modules with three retrains and with three uploads. `model_dataset` has one
file of two weeks, of which a model can see a part.

In `forecasts` the numbers of the code are kept (20 weeks, 12 weeks ahead, a backtest of
4, leads up to 8, the system date), and `MCFiles` has what matters to them: New
Year and Holy Week inside and at the ends, gaps, weeks after the system date
that leave 15 or 16 to train on (three test weeks, or four), a file too short to train on. `MaxUploads` and
`MaxModels` are 2, which allows a model next to data it has not seen, in each order.
Leads are the smallest and the largest.

In `requests` the pool is scaled from 2 + 2 with `PoolSize` and `MaxOverflow` 1: two
requests with one connection each are then all of it, and the third meets an empty pool.
`Offers` bounds the kinds: three updates of settings, or an upload next to each of the
others. Requests come once, so that the log has at most three rows and pages of one row have
late commits before, at and behind the cursor.

Uploads, retrains and requests run out in `models`, `model_dataset`, `forecasts` and `requests`, so that
deadlock is not checked there; that no request is stuck is `EveryRequestEnds`.
The proofs have no bounds.

## Fairness

`FairSpec` (`UserAdmin`, `Invitations`, `PasswordResets`) is strong fairness of the steps of an accepted request, and of nothing
else: a handler is straight-line code that a worker runs to its end, and
PostgreSQL queues the waiters of a row, so that one whose row keeps changing hands
gets it. No fairness for arrivals (clients may stop), for `Crash`, expiry or the
surroundings. Strong rather than weak, because a waiting statement is enabled and
disabled again by each holder of the row.

`AuthSessions` has no liveness run. Its steps are straight-line code, so that a request
that never ends would be waiting, and what it waits for is decided by `DeadlocksAreFound`:
every set of requests that wait for one another contains the one cycle that
PostgreSQL breaks (`DeadlockVictim`). That is checked in `sessions_safety` and proved for
any number of requests.

`Requests` has weak fairness of `Progress`: threads go on, the loop takes up what is ready,
and `pool_timeout` is a timer that fires. Weak, because the pool makes no promise to a
waiter but that one: `EveryRequestEnds` is then owed to the time-out, and the
mutation without it is rejected. A retrain ends because its subprocess does, or is killed
after 1500 s (`Train` has either outcome). Reading pages of the log is not fair.

## Proofs

For every value of the constants, with one assumption each (NULL is no user, token,
invitation, link or run; `Delivers` and `MatchesWeeks` are Boolean; weeks are numbers, and
`MinRows` is positive; every file of `Forecasts` has a first and a last day, and its
numbers have the order that the code's have). In each module `IInv` (`IngestionInv`,
`RegistryInv`, `ForecastsInv`, `RequestsInv`, and `TrailInv` with the last) is inductive: the
named properties are not, because they say nothing about requests half-way.

- `AuthSessionsProofs`: what a request has read still holds, or it is marked as
  overlapped (`ReadsHold`, `RevocationCovers`, `OneOldHash`); locked token rows stay
  (`TokenLocks`); a token to be minted is reserved (`Reservation`). From it all four
  invariants, both action properties, and `SessionsImplementLedger`: every step is
  a ledger step or a stutter. The ledger by itself keeps `RevocationComplete` and
  `RotatedOnce` (`LedgerKeepsItsPromise`), so that they are what a client may rely on
  whatever implements it; `SuccessorStored` is about the rows, and only the detailed module has it.
- `UserAdminProofs`: a request past authorisation has an active admin as actor, or
  `lost` says otherwise (`Authority`). The loss of the last admin then needs a lost
  actor: the actor of the commit would be one.
- `InvitationsProofs`, `PasswordResetsProofs`: which row a request is about
  (`Subject`), what holds of rows (`Rows`), locks exclude and protect what was read
  under them (`Locked`), requests in flight together know it (`Meeting`), and what a
  request that met nobody has checked still holds (`ChecksHold`). On `IInv` rest
  `InvitationsAreOneTimeLinks` and `ResetLinksAreOneTimeLinks`: each action is an action of
  `OneTimeLinks` or a stutter, one lemma per action (`...Simulates`); that one use follows
  from the abstract link alone is `OneTimeLinksAreUsedOnce`.
- Deadlocks, the half of termination that is safety. `Blocks(s, r)` is the whole
  relation of who waits for whom; in `AuthSessions`, `Invitations` and `PasswordResets` it
  stands beside the guards, and the lemmas `BlocksIsTheGuards` tie the two together. In any
  set of requests that wait for one another, of any size: in `AuthSessions` there are
  a refresh and a deletion that `WaitCycle` names (`DeadlocksAreFoundHolds`, which needs
  `Ownership`: the token and the deletion are of one user), so that `DeadlockVictim` misses
  none; in `UserAdmin` there are two deletions of which one removes the actor of the other
  (`DeadlocksAreMutualDeletionsHolds`); in `Invitations` and `PasswordResets` there is no
  such set (`NoWaitCycleHolds`: the order of the locks), and no victim is modelled.
- `IngestionProofs`: whatever an upload in flight will not remove was inserted while it
  ran (`LeftByOthers`), and a DELETE finds a batch whole or not at all (`WholeBatches`).
- `RegistryProofs`: what a run without company (`Alone`) can rely on. Nobody else writes the
  export, so that from the SELECT to the row it handles the batch of its label
  (`HandlesItsDataset`, over the uploads' `SnapshotIsTheBatch`); nobody removes or replaces
  its file (`PathOfOneMet`, `FileSaved`, `FileAtItsPath`); nobody becomes active between its
  UPDATE and its report, because every model it does not deactivate is from a run it
  has met (`OldOrMet`). A removed file is not at another path (`RemovedIsGone`).

- `UserAdminProofs` also shows that a lockout stays (`LockoutStays`): whoever passes
  `Authorise` is an active admin, and the script needs a table without ADMIN rows.
- `RequestsProofs`: which statement follows which is in the invariant
  (`KindHasStatement`), and with it the rows of a request (`RowsFollow`: open until its
  commit, and surviving only that), what its answer and its changes say
  (`AnswersTell`, `ChangesTell`), and its connections (`ConnectionsFollow`). The reader's
  part (`ReaderInv`) says that what has been seen is what the cursor has passed. `TrailTellsTheSetting` has an invariant of its own,
  `TrailInv`: an update writes its row below that of another one only if they met or the
  other has ended (`RowsInOrder`); the row of the value is committed, and what stands below
  it is of updates that it met (`SettingIsTold`); and the same of the value that an update
  has read, as seen from its row (`OldIsTold`). A COMMIT makes the second out of the third, the
  SELECT the third out of the second. For `AnswersAreCurrent`, `AnswersInv` says of an update between its
  COMMIT and its answer that the setting is its own or of one it met: whoever commits in
  between was updating at the same time, and `MeetingsAreMutual` says that they know of each other.
- `ForecastsProofs`: buckets are Tuesdays, so that labels and dates differ by a fixed number of
  days (`LabelIsMonday`, `ForwardIsMonday`); the first Monday of a month and a week number give
  the Monday back (`ParseLabelInvertsGraphLabel`, for every year); of a calendar only a day's own year and its
  neighbours matter (`HolidayByItsYear`, `LongWeekendByNeighbours`), and the code's margins
  contain them; the dates of the cache are in the order of its numbers
  (`CacheOrder`). A model's export spans its log up to the system date (`ModelsSpanTheirLog`, for
  which a batch must never be reused), so that its forecasts are behind it. For the year
  views the weeks of the log are the buckets of an upload (`LogIsAnUpload`), so that a week has a booking within its seven days, and days seven apart are in one year or in
  neighbouring ones.

Each proof has one lemma per action, or one per fact where there are few actions. Every
invariant and every action property of the runs is proved. Only model-checked: liveness
(`EveryRequestEnds`), which is beyond the prover as ENABLED is, so that "no wait cycle" stands
for "somebody can go on"; and the violations.

## Not modelled, and the plan

Left out for good: fitting, scores, differencing and decomposition (real numbers in
pandas and statsmodels), the numbers the dashboards show, strategic-actions (another reading of the rows of
the outlook), rate limiting (a library),
migrations, argon2 and JWT (a token is an opaque value that only its
holder can present), the sqlite development database, and `dashboard-stats`, which always
answers 404. `full_name`, `last_login_at` and `rename_model` are left out because no
decision reads what they write. `pool_pre_ping` and `pool_recycle` replace a connection
by another.

Planned, in this order:

1. The composition of `UserAdmin` with `AuthSessions` (both model
   `admin_set_user_active`) as a refinement, and of `Registry` with `Requests` (both model
   the endpoint of a retrain).
2. An abstract registry (one active model, row and file together) that a run without
   company implements, and the liveness of a retrain and its subprocess.
3. The typhoon features of `core/exogenous.py`, which are flags of days as the holidays are.
4. A clock for `expires_at`, whose two comparisons differ at the boundary
   (`auth_repository.py:405`): a row that expires exactly now is neither pending nor refused.

Hazards of this code that no property covers: an invitation is committed before its URL is
built (`admin_invitations.py:40`), so that a missing FRONTEND_BASE_URL loses its only link, which
`Respond` in `Invitations` allows in every run, and revoking it is the intended way out; a
client that retries a refresh whose answer was lost is taken for a replay (`auth_service.py:239`),
the documented reaction to which is to revoke all its sessions; a reactivated account keeps the sentinel
email of its deletion (593), so that nobody can log in to it; the long-weekend feature of a
week ahead is that of the seven days after its label, in training of those before it
(`step6_evaluation.py:270`; both windows are in `Forecasts`); and the test of d = 2 takes
`series.diff(2)`, which is no second difference (`step3_stationarity.py:46`).
