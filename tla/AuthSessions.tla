---------------------------- MODULE AuthSessions ----------------------------
(***************************************************************************)
(* Refresh-token sessions of services/auth_service.py over the tables      *)
(* users and refresh_tokens, as the requests really run: every handler is  *)
(* one database transaction at READ COMMITTED (SQLAlchemy, autoflush off), *)
(* a few statements long, and several of them are in flight at once.       *)
(*                                                                         *)
(* One action per statement.  A SELECT sees what is committed; an UPDATE   *)
(* or DELETE waits for the row locks of others, then works on the rows its *)
(* own statement saw; nothing is visible before COMMIT.  Uncommitted       *)
(* effects are implied by req[r] and take place in the Commit actions.     *)
(*                                                                         *)
(* Reject, audit-only and no-op outcomes change no modelled row: the       *)
(* request simply ends.                                                    *)
(***************************************************************************)
EXTENDS Naturals, FiniteSets

CONSTANTS
  Users,      \* rows of users (never physically deleted)
  Tokens,     \* refresh tokens that may be minted; bounds the run
  Requests,   \* HTTP requests that can be in flight at the same time
  Passwords,  \* plaintext passwords
  None        \* SQL NULL, and an absent field

ASSUME NoneAssumption == None \notin Users \cup Tokens \cup Passwords

VARIABLES
  user,   \* committed users rows
  tok,    \* committed refresh_tokens rows
  req     \* the requests: arguments, program counter, what they have read

vars == <<user, tok, req>>

-----------------------------------------------------------------------------
(* Rows and requests *)

\* `old` : hashed under cost parameters password_needs_rehash() rejects.
UserRow == [active : BOOLEAN, deleted : BOOLEAN, pw : Passwords, old : BOOLEAN]

\* "free": not minted.  "gone": the row was deleted, the client may still hold
\* the JWT.  `from` and `late` are history: the token it was rotated from, and
\* whether its request overlapped a write that falsified what it had read.
\* There is no clock: a presented token may be found expired at any check.
TokenRow == [st : {"free", "live", "consumed", "gone"},
             owner : Users \cup {None}, next : Tokens \cup {None},
             from : Tokens \cup {None}, late : BOOLEAN]

Revokers == {"replay", "deactivate", "delete", "reset"}
Ops == Revokers \cup {"login", "refresh", "logout", "reactivate"}

\* `dirty`: an assignment differs from the users row the session had loaded, so
\* that the flush writes the column (login: a rehash; delete: is_active).
\* `snap`: the rows its DELETE statement found.  `overlap`: see `late`.
Request == [op : Ops \cup {"none"},
            pc : {"idle", "user", "row", "insert", "mark",
                  "delete", "lock", "write", "commit"},
            u : Users \cup {None}, t : Tokens \cup {None},
            new : Tokens \cup {None}, pass : Passwords \cup {None},
            dirty : BOOLEAN, snap : SUBSET Tokens, overlap : BOOLEAN]

Idle == [op |-> "none", pc |-> "idle", u |-> None, t |-> None, new |-> None,
         pass |-> None, dirty |-> FALSE, snap |-> {}, overlap |-> FALSE]

Free == [st |-> "free", owner |-> None, next |-> None, from |-> None, late |-> FALSE]

TypeOK ==
  /\ user \in [Users -> UserRow]
  /\ tok \in [Tokens -> TokenRow]
  /\ req \in [Requests -> Request]

Stored(t) == tok[t].st \in {"live", "consumed"}
\* Variant: only unconsumed rows are revoked.
LiveRows(u) == {t \in Tokens : tok[t].st = "live" /\ tok[t].owner = u}
Rows(u) == {t \in Tokens : Stored(t) /\ tok[t].owner = u}
Unused == {n \in Tokens : tok[n].st = "free" /\ \A r \in Requests : req[r].new # n}

Init ==
  /\ user \in [Users -> [active : {TRUE}, deleted : {FALSE},
                         pw : Passwords, old : BOOLEAN]]
  /\ tok = [t \in Tokens |-> Free]
  /\ req = [r \in Requests |-> Idle]

-----------------------------------------------------------------------------
(* Row locks, held from the statement that takes them until COMMIT *)

\* Updating a key column of the users row (email, unique) takes FOR UPDATE.
HoldsKeyLock(r, u) == req[r].u = u /\ req[r].op = "delete" /\ req[r].pc = "commit"

\* Variant: a refresh also writes the users row (say, a last_used_at) with its
\* insert, before it marks the token.
HoldsRowLockOnRefresh(r, u) ==
  /\ req[r].u = u
  /\ \/ req[r].pc = "commit" /\ req[r].op \in {"login", "deactivate", "reactivate", "reset"}
     \/ req[r].pc \in {"mark", "commit"} /\ req[r].op = "refresh"

\* Updating any other column takes FOR NO KEY UPDATE.
HoldsRowLock(r, u) ==
  /\ req[r].u = u /\ req[r].pc = "commit"
  /\ req[r].op \in {"login", "deactivate", "reactivate", "reset"}

\* Inserting a row that references the user takes FOR KEY SHARE on it.
HoldsShare(r, u) ==
  req[r].u = u /\ req[r].op = "refresh" /\ req[r].pc \in {"mark", "commit"}

ShareGranted(r, u) == \A s \in Requests \ {r} : ~HoldsKeyLock(s, u)
UpdateGranted(r, u) ==
  \A s \in Requests \ {r} :
     /\ ~HoldsKeyLock(s, u) /\ ~HoldsRowLock(s, u)
     /\ req[r].op = "delete" => ~HoldsShare(s, u)

HoldsToken(r, t) ==
  \/ req[r].op \in {"refresh", "logout"} /\ req[r].pc = "commit" /\ req[r].t = t
  \/ req[r].op \in Revokers /\ req[r].pc \in {"write", "commit"} /\ t \in req[r].snap
TokenGranted(r, t) == \A s \in Requests \ {r} : ~HoldsToken(s, t)

\* PostgreSQL breaks a wait cycle by aborting one of its transactions.  Among
\* the rows modelled here only refresh and account deletion can build one.
WaitCycle(r, s) ==
  /\ req[r].pc = "mark" /\ HoldsToken(s, req[r].t)
  /\ req[s].pc = "write" /\ req[s].op = "delete" /\ HoldsShare(r, req[s].u)

-----------------------------------------------------------------------------
(* A request and its reads *)

\* r's writes can falsify what s has read: they revoke or switch the same
\* account, or they consume the token s presents.
Disturbs(r, s) ==
  /\ req[s].u = req[r].u /\ req[s].pc \notin {"idle", "user"}
  /\ \/ req[r].op \in Revokers \cup {"reactivate"}
     \/ req[r].t # None /\ req[r].t = req[s].t

\* r becomes q by a write that s overlaps (history only).
MarkOverlap(r, q) ==
  [s \in Requests |->
     IF s = r THEN q
     ELSE IF Disturbs(r, s) THEN [req[s] EXCEPT !.overlap = TRUE] ELSE req[s]]

\* A revocation of u has run its DELETE and has not committed.
Revoking(u) ==
  \E s \in Requests :
     req[s].u = u /\ req[s].op \in Revokers /\ req[s].pc \in {"lock", "write", "commit"}

Start(r, op, u, t, new, pass) ==
  /\ req[r] = Idle
  /\ req' = [req EXCEPT ![r] = [Idle EXCEPT !.op = op, !.pc = "user", !.u = u,
                                            !.t = t, !.new = new, !.pass = pass]]
  /\ UNCHANGED <<user, tok>>

Login(r) ==
  \E u \in Users, p \in Passwords, n \in Unused : Start(r, "login", u, None, n, p)

\* decode_token lets it pass: the client was given it (an expired one, or one of
\* another type, is refused before any query).
Presentable(t) == tok[t].st # "free"

Refresh(r) ==
  \E t \in Tokens, n \in Unused :
     Presentable(t) /\ Start(r, "refresh", tok[t].owner, t, n, None)

Logout(r) ==
  \E t \in Tokens :
     Presentable(t) /\ Start(r, "logout", tok[t].owner, t, None, None)

\* The target is loaded by the router; the reset token is locked and checked
\* by consume_password_reset before it loads the user.
AdminOrReset(r) ==
  \E u \in Users :
     \/ \E op \in {"deactivate", "reactivate", "delete"} :
           Start(r, op, u, None, None, None)
     \/ \E p \in Passwords : Start(r, "reset", u, None, None, p)

\* Variant: the password is not verified.
AdmittedAnyPassword(q, row) ==
  CASE q.op = "logout"     -> TRUE
    [] q.op = "reactivate" -> ~row.active
    [] q.op = "delete"     -> row.active \/ ~row.deleted
    [] OTHER               -> row.active

\* Which users row lets the handler go on; otherwise it answers with an error
\* or an audited no-op.
Admitted(q, row) ==
  CASE q.op = "login"      -> row.active /\ row.pw = q.pass
    [] q.op = "logout"     -> TRUE
    [] q.op = "reactivate" -> ~row.active
    [] q.op = "delete"     -> row.active \/ ~row.deleted
    [] OTHER               -> row.active

AfterUser(op) ==
  CASE op \in {"refresh", "logout"}   -> "row"
    [] op \in {"login", "reactivate"} -> "write"
    [] OTHER                          -> "delete"

Changes(op, row) == (op = "login" /\ row.old) \/ (op = "delete" /\ row.active)

ReadUser(r) ==
  LET q == req[r]
      row == user[q.u]
  IN /\ q.pc = "user"
     /\ req' = [req EXCEPT ![r] =
          IF Admitted(q, row)
          THEN [q EXCEPT !.pc = AfterUser(q.op), !.dirty = Changes(q.op, row),
                         !.overlap = Revoking(q.u)]
          ELSE Idle]
     /\ UNCHANGED <<user, tok>>

\* Variant: refresh_session does not look at consumed_at.
ReadTokenAnyState(r) ==
  LET q == req[r]
      Goto(p) == [q EXCEPT !.pc = p]
  IN /\ q.pc = "row"
     /\ \/ /\ Stored(q.t)
           /\ req' = [req EXCEPT ![r] =
                Goto(IF q.op = "logout" THEN "mark" ELSE "insert")]
        \/ /\ ~Stored(q.t)
           /\ req' = [req EXCEPT ![r] = Idle]
     /\ UNCHANGED <<user, tok>>

\* refresh_session and logout load the token row.  A consumed row presented to
\* refresh_session turns the request into the revocation of every session.
ReadToken(r) ==
  LET q == req[r]
      Goto(p) == [q EXCEPT !.pc = p]
  IN /\ q.pc = "row"
     /\ \/ /\ tok[q.t].st = "live"
           /\ req' = [req EXCEPT ![r] =
                Goto(IF q.op = "logout" THEN "mark" ELSE "insert")]
        \/ /\ tok[q.t].st = "consumed" /\ q.op = "refresh"
           /\ req' = [req EXCEPT ![r] =
                [Goto("delete") EXCEPT !.op = "replay", !.new = None]]
        \/ \* no such row; logged out already; expires_at has passed
           /\ tok[q.t].st = "live" => q.op = "refresh"
           /\ tok[q.t].st = "consumed" => q.op = "logout"
           /\ req' = [req EXCEPT ![r] = Idle]
     /\ UNCHANGED <<user, tok>>

-----------------------------------------------------------------------------
(* Statements that lock rows *)

\* INSERT of the successor row.
InsertSuccessor(r) ==
  /\ req[r].pc = "insert"
  /\ ShareGranted(r, req[r].u)
  /\ req' = [req EXCEPT ![r].pc = "mark"]
  /\ UNCHANGED <<user, tok>>

\* UPDATE of the presented row by primary key: there is no check that it is
\* still unconsumed.  If the row was deleted meanwhile the flush fails inside
\* log_action, which swallows the error, and the COMMIT then rolls back.
MarkConsumed(r) ==
  LET q == req[r] IN
  /\ q.pc = "mark"
  /\ TokenGranted(r, q.t)
  /\ req' = [req EXCEPT ![r] =
       IF tok[q.t].st = "gone" THEN Idle ELSE [q EXCEPT !.pc = "commit"]]
  /\ UNCHANGED <<user, tok>>

\* DELETE FROM refresh_tokens WHERE user_id = u: the statement's snapshot ...
DeleteTokens(r) ==
  /\ req[r].pc = "delete"
  /\ req' = MarkOverlap(r, [req[r] EXCEPT !.pc = "lock", !.snap = Rows(req[r].u)])
  /\ UNCHANGED <<user, tok>>

\* ... and the row locks it has to wait for.
LockTokens(r) ==
  LET q == req[r] IN
  /\ q.pc = "lock"
  /\ \A t \in q.snap : TokenGranted(r, t)
  /\ req' = [req EXCEPT ![r].pc = IF q.op = "replay" THEN "commit" ELSE "write"]
  /\ UNCHANGED <<user, tok>>

\* The flush that updates the users row (for login also inserts the token).
WriteUser(r) ==
  /\ req[r].pc = "write"
  /\ UpdateGranted(r, req[r].u)
  /\ req' = [req EXCEPT ![r].pc = "commit"]
  /\ UNCHANGED <<user, tok>>

-----------------------------------------------------------------------------
(* COMMIT *)

Ends(r, op) ==
  /\ req[r].pc = "commit" /\ req[r].op = op
  /\ req' = MarkOverlap(r, Idle)

Minted(q) == [st |-> "live", owner |-> q.u, next |-> None,
              from |-> q.t, late |-> q.overlap]

\* The rehash writes back the password that was verified at the read.
CommitLogin(r) ==
  LET q == req[r] IN
  /\ Ends(r, "login")
  /\ tok' = [tok EXCEPT ![q.new] = Minted(q)]
  /\ user' = IF q.dirty
             THEN [user EXCEPT ![q.u].pw = q.pass, ![q.u].old = FALSE]
             ELSE user

CommitRefresh(r) ==
  LET q == req[r] IN
  /\ Ends(r, "refresh")
  /\ tok' = [tok EXCEPT ![q.t].st = "consumed", ![q.t].next = q.new,
                        ![q.new] = Minted(q)]
  /\ UNCHANGED user

\* The audit row of logout and replay references the user as well.
CommitLogout(r) ==
  /\ Ends(r, "logout")
  /\ ShareGranted(r, req[r].u)
  /\ tok' = [tok EXCEPT ![req[r].t].st = "consumed"]
  /\ UNCHANGED user

Revoked(r) ==
  [t \in Tokens |-> IF t \in req[r].snap THEN [tok[t] EXCEPT !.st = "gone"] ELSE tok[t]]

CommitReplay(r) ==
  /\ Ends(r, "replay")
  /\ ShareGranted(r, req[r].u)
  /\ tok' = Revoked(r)
  /\ UNCHANGED user

\* Variant: the sessions are not revoked.
CommitDeactivateOnly(r) ==
  /\ Ends(r, "deactivate")
  /\ user' = [user EXCEPT ![req[r].u].active = FALSE]
  /\ UNCHANGED tok

CommitDeactivate(r) ==
  /\ Ends(r, "deactivate")
  /\ tok' = Revoked(r)
  /\ user' = [user EXCEPT ![req[r].u].active = FALSE]

CommitReactivate(r) ==
  /\ Ends(r, "reactivate")
  /\ user' = [user EXCEPT ![req[r].u].active = TRUE]
  /\ UNCHANGED tok

\* Variant: the account is renamed and left active.
CommitDeleteRenames(r) ==
  /\ Ends(r, "delete")
  /\ tok' = Revoked(r)
  /\ user' = [user EXCEPT ![req[r].u].deleted = TRUE]

\* is_active is written only if the session had loaded TRUE.
CommitDelete(r) ==
  LET q == req[r] IN
  /\ Ends(r, "delete")
  /\ tok' = Revoked(r)
  /\ user' = [user EXCEPT ![q.u].deleted = TRUE,
                          ![q.u].active = IF q.dirty THEN FALSE ELSE @]

\* Variant: the sessions opened with the old password stay.
CommitResetKeepsSessions(r) ==
  LET q == req[r] IN
  /\ Ends(r, "reset")
  /\ user' = [user EXCEPT ![q.u].pw = q.pass, ![q.u].old = FALSE]
  /\ UNCHANGED tok

CommitReset(r) ==
  LET q == req[r] IN
  /\ Ends(r, "reset")
  /\ tok' = Revoked(r)
  /\ user' = [user EXCEPT ![q.u].pw = q.pass, ![q.u].old = FALSE]

-----------------------------------------------------------------------------
(* Failures *)

\* Any statement may fail, the connection may drop, the worker may be killed:
\* the transaction rolls back and its locks are released.
Crash(r) ==
  /\ req[r] # Idle
  /\ req' = [req EXCEPT ![r] = Idle]
  /\ UNCHANGED <<user, tok>>

DeadlockVictim(r) ==
  /\ \E s \in Requests : WaitCycle(r, s) \/ WaitCycle(s, r)
  /\ Crash(r)

Arrive(r) == Login(r) \/ Refresh(r) \/ Logout(r) \/ AdminOrReset(r)

Commit(r) ==
  \/ CommitLogin(r) \/ CommitRefresh(r) \/ CommitLogout(r) \/ CommitReplay(r)
  \/ CommitDeactivate(r) \/ CommitReactivate(r) \/ CommitDelete(r) \/ CommitReset(r)

Step(r) ==
  \/ ReadUser(r) \/ ReadToken(r) \/ InsertSuccessor(r) \/ MarkConsumed(r)
  \/ DeleteTokens(r) \/ LockTokens(r) \/ WriteUser(r) \/ Commit(r)
  \/ DeadlockVictim(r)

Next == \E r \in Requests : Arrive(r) \/ Step(r) \/ Crash(r)

Spec == Init /\ [][Next]_vars

-----------------------------------------------------------------------------
(* Properties *)

\* The foreign key replaced_by_id -> refresh_tokens.id never dangles, so the
\* DELETE of revoke_all_refresh_tokens_for_user can never be refused by it,
\* whatever rotations it races with; a live row has no successor and a
\* successor belongs to the same user.
SuccessorStored ==
  \A t \in Tokens : Stored(t) /\ tok[t].next # None =>
     /\ tok[t].st = "consumed"
     /\ Stored(tok[t].next) /\ tok[tok[t].next].owner = tok[t].owner

\* "On deactivation, ALL the target's refresh tokens are revoked": a live
\* token of an inactive user was committed by a request that overlapped a
\* revocation; there is no other way to get one.
RevocationComplete ==
  \A t \in Tokens : tok[t].st = "live" /\ ~tok[t].late => user[tok[t].owner].active

\* Rotation hands out one successor per token: a second one comes only from a
\* request that overlapped the first.
RotatedOnce ==
  \A m, n \in Tokens :
     m # n /\ tok[m].from # None /\ tok[m].from = tok[n].from => tok[m].late \/ tok[n].late

\* Only a password reset changes which password opens an account; the rehash
\* of a login may undo one only if the login overlapped it.
OnlyResetChangesPassword ==
  [][\A u \in Users : user'[u].pw # user[u].pw =>
        \E r \in Requests :
           /\ req[r].u = u
           /\ \/ CommitReset(r)
              \/ CommitLogin(r) /\ req[r].overlap]_vars

\* Soft deletion deactivates, except when it overlapped a reactivation.
DeleteDeactivates ==
  [][\A r \in Requests :
        CommitDelete(r) => ~user'[req[r].u].active \/ req[r].overlap]_vars

\* r has to wait until s ends: every lock a statement or the audit row of a COMMIT
\* asks for.
Blocks(s, r) ==
  LET q == req[r] IN
  /\ s # r
  /\ \/ /\ q.pc = "insert" \/ (q.pc = "commit" /\ q.op \in {"logout", "replay"})
        /\ HoldsKeyLock(s, q.u)
     \/ q.pc = "mark" /\ HoldsToken(s, q.t)
     \/ q.pc = "lock" /\ \E t \in q.snap : HoldsToken(s, t)
     \/ /\ q.pc = "write"
        /\ \/ HoldsKeyLock(s, q.u) \/ HoldsRowLock(s, q.u)
           \/ q.op = "delete" /\ HoldsShare(s, q.u)

\* Requests that wait for one another in any way, however many, are held up by a
\* refresh and a deletion of one user: no other deadlock is possible, and
\* DeadlockVictim sees every one.
DeadlocksAreFound ==
  \A C \in SUBSET Requests :
     C # {} /\ (\A r \in C : \E s \in C : Blocks(s, r)) =>
        \E r, s \in C : WaitCycle(r, s)

\* The promise of the session store (SessionLedger).
Ledger == INSTANCE SessionLedger
            WITH account <- [u \in Users |-> [active |-> user[u].active, pw |-> user[u].pw]]
LedgerSpec == Ledger!Spec

-----------------------------------------------------------------------------
(* Why the properties hold: the inductive invariant *)

Busy(r) == req[r].pc # "idle"
HasRead(r) == req[r].pc \notin {"idle", "user"}
Deleting(r) == req[r].op \in Revokers /\ req[r].pc \in {"lock", "write", "commit"}
Rotating(r) == req[r].op = "refresh" /\ req[r].pc \in {"insert", "mark", "commit"}
Rehashing(r) == req[r].op = "login" /\ HasRead(r) /\ req[r].dirty

\* Which arguments a request carries and which statements its handler has.
WellFormed(q) ==
  \/ q = Idle
  \/ /\ q.pc # "idle" /\ q.op \in Ops /\ q.u \in Users
     /\ IF q.op \in {"login", "refresh"} THEN q.new \in Tokens ELSE q.new = None
     /\ IF q.op \in {"refresh", "logout", "replay"} THEN q.t \in Tokens ELSE q.t = None
     /\ q.op \in {"login", "reset"} => q.pass \in Passwords
     /\ q.pc \in {"row", "mark"} => q.op \in {"refresh", "logout"}
     /\ q.pc = "insert" => q.op = "refresh"
     /\ q.pc \in {"delete", "lock"} => q.op \in Revokers
     /\ q.pc = "write" => q.op \notin {"refresh", "logout"}
     /\ q.op = "replay" => q.pc \notin {"user", "write"}

Shape == \A r \in Requests : WellFormed(req[r])

\* A token that was minted has an owner; a request's token and the rows it is
\* about to delete belong to its user; a reserved identifier is not minted.
Ownership ==
  /\ \A t \in Tokens : IF tok[t].st = "free" THEN tok[t] = Free ELSE tok[t].owner \in Users
  /\ \A r \in Requests :
        /\ req[r].t # None => tok[req[r].t].st # "free" /\ tok[req[r].t].owner = req[r].u
        /\ req[r].new # None => tok[req[r].new] = Free
        /\ \A t \in req[r].snap : tok[t].st # "free" /\ tok[t].owner = req[r].u

Reservation ==
  \A r, s \in Requests : r # s /\ req[r].new # None => req[r].new # req[s].new

\* Row locks exclude each other, so the row a request has marked is still there.
TokenLocks ==
  /\ \A r, s \in Requests, t \in Tokens : HoldsToken(r, t) /\ HoldsToken(s, t) => r = s
  /\ \A r \in Requests :
        req[r].op \in {"refresh", "logout"} /\ req[r].pc = "commit" => Stored(req[r].t)

\* What a request has read is still so, unless its `overlap` says otherwise.
ReadsHold ==
  \A r \in Requests : HasRead(r) /\ ~req[r].overlap =>
     /\ req[r].op \in {"login", "refresh"} => user[req[r].u].active
     /\ Rotating(r) => tok[req[r].t].st = "live"
     /\ req[r].op = "delete" /\ ~req[r].dirty => ~user[req[r].u].active
     /\ Rehashing(r) => user[req[r].u].pw = req[r].pass

\* Hashes are only ever upgraded: the logins that found an old one have all
\* verified the same password, which stands as long as the old hash does.
OneOldHash ==
  \A r \in Requests : Rehashing(r) =>
     /\ user[req[r].u].old => user[req[r].u].pw = req[r].pass
     /\ \A s \in Requests : Rehashing(s) /\ req[s].u = req[r].u => req[s].pass = req[r].pass

\* A revocation under way has found every row but the late ones, and whoever
\* can still commit a row it has not found is marked.
RevocationCovers ==
  \A r \in Requests : Deleting(r) =>
     /\ \A t \in Tokens : Stored(t) /\ tok[t].owner = req[r].u =>
           \/ t \in req[r].snap
           \/ tok[t].late /\ tok[t].next \notin req[r].snap
     /\ \A s \in Requests \ {r} : HasRead(s) /\ req[s].u = req[r].u => req[s].overlap

\* A token that was rotated is not live any more.
Rotated == \A n \in Tokens : tok[n].from # None => tok[tok[n].from].st \in {"consumed", "gone"}

IInv ==
  /\ TypeOK /\ Shape /\ Ownership /\ Reservation /\ TokenLocks /\ ReadsHold
  /\ OneOldHash /\ RevocationCovers /\ Rotated
  /\ SuccessorStored /\ RevocationComplete /\ RotatedOnce

-----------------------------------------------------------------------------
(* What the documentation says and concurrent requests do not keep *)

\* domain/auth_models.py, RefreshToken: "when a refresh token is used, we
\* ROTATE it (mint a new one, mark the old consumed).  If the OLD token is
\* later presented again, that's a replay attack - we revoke ALL tokens".
TokenUsedOnce ==
  \A m, n \in Tokens :
     m # n /\ tok[m].from # None /\ tok[m].from = tok[n].from =>
        ~(tok[m].st = "live" /\ tok[n].st = "live")
=============================================================================
