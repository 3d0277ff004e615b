----------------------------- MODULE UserAdmin ------------------------------
(***************************************************************************)
(* Account administration (services/auth_service.py behind                 *)
(* api/routers/admin_users.py): changing a role, switching an account on   *)
(* or off, soft deletion.  One transaction at READ COMMITTED per request;  *)
(* several admins act at once.  The session keeps the rows it has loaded,  *)
(* so decisions are taken on what was read, and only the assignments that  *)
(* differ from it are flushed.  AuthSessions has what the same handlers do *)
(* to refresh tokens.  An operator may run the bootstrap script at any     *)
(* time; it makes the first admin.                                         *)
(***************************************************************************)
EXTENDS Naturals, FiniteSets

CONSTANTS Users, Requests, None

ASSUME NoUserAssumption == None \notin Users

VARIABLES
  account,  \* committed users rows
  req,      \* the requests
  script    \* the bootstrap script: "insert" once it has found no admin

vars == <<account, req, script>>

\* Every role but ADMIN is "staff"; "none" is no row.
AccountRow == [role : {"admin", "staff", "none"}, active : BOOLEAN, deleted : BOOLEAN]

NoRow == [role |-> "none", active |-> FALSE, deleted |-> FALSE]

Removals == {"demote", "deactivate", "delete"}
Ops == Removals \cup {"promote", "reactivate"}

\* `wasActive`: is_active of the target as the session has loaded it.  `lost` is
\* history: the actor and the target, if a commit has taken from them what the
\* request relies on since it was authorised.
Request == [op : Ops \cup {"noop", "none"},
            pc : {"idle", "auth", "load", "count", "write", "audit", "commit"},
            actor : Users \cup {None}, target : Users \cup {None},
            wasActive : BOOLEAN, lost : SUBSET Users]

Idle == [op |-> "none", pc |-> "idle", actor |-> None, target |-> None,
         wasActive |-> FALSE, lost |-> {}]

TypeOK ==
  /\ account \in [Users -> AccountRow]
  /\ req \in [Requests -> Request]
  /\ script \in {"idle", "insert"}

ActiveAdmin(u) == account[u].role = "admin" /\ account[u].active
SomeAdmin == \E u \in Users : ActiveAdmin(u)

\* count_active_admins(db) > 1, a SELECT without locks.
SeveralAdmins == \E u, v \in Users : u # v /\ ActiveAdmin(u) /\ ActiveAdmin(v)

AdminRow == \E u \in Users : account[u].role = "admin"

Registered == {u \in Users : account[u].role # "none"}

\* What the migrations leave.
Init ==
  /\ account = [u \in Users |-> NoRow]
  /\ req = [r \in Requests |-> Idle]
  /\ script = "idle"

-----------------------------------------------------------------------------
(* Locks on users rows *)

\* The UPDATE locks the target until COMMIT; deletion changes the unique email.
Holds(r, u) ==
  req[r].target = u /\ req[r].op # "noop" /\ req[r].pc \in {"audit", "commit"}
HoldsKey(r, u) == Holds(r, u) /\ req[r].op = "delete"

\* The audit row references the actor: FOR KEY SHARE.
HoldsShare(r, u) == req[r].actor = u /\ req[r].pc = "commit"

Blocks(s, r) ==
  /\ s # r
  /\ \/ /\ req[r].pc = "write"
        /\ \/ Holds(s, req[r].target)
           \/ req[r].op = "delete" /\ HoldsShare(s, req[r].target)
     \/ req[r].pc = "audit" /\ HoldsKey(s, req[r].actor)

Granted(r) == \A s \in Requests : ~Blocks(s, r)

\* Variant: a deadlock is never resolved.
NoCycle(C) == C = {}

\* Admins who delete one another: PostgreSQL aborts one of them.
WaitCycle(C) == \A r \in C : \E s \in C : Blocks(s, r)

-----------------------------------------------------------------------------
(* One request *)

Goto(r, p) == req' = [req EXCEPT ![r].pc = p] /\ UNCHANGED <<account, script>>
Stop(r) == req' = [req EXCEPT ![r] = Idle] /\ UNCHANGED <<account, script>>

\* Anyone who holds an access token may send it.
Start(r) ==
  /\ req[r] = Idle
  /\ \E op \in Ops, a, u \in Registered :
        req' = [req EXCEPT ![r] = [Idle EXCEPT !.op = op, !.pc = "auth",
                                               !.actor = a, !.target = u]]
  /\ UNCHANGED <<account, script>>

\* Variant: the role is taken from the token.
AuthoriseByToken(r) == req[r].pc = "auth" /\ (Goto(r, "load") \/ Stop(r))

\* get_current_user and require_admin.
Authorise(r) ==
  /\ req[r].pc = "auth"
  /\ IF ActiveAdmin(req[r].actor) THEN Goto(r, "load") ELSE Stop(r)

\* What the handler would change of the row it has loaded.
Changes(op, row) ==
  CASE op = "demote"     -> row.role = "admin"
    [] op = "promote"    -> row.role = "staff"
    [] op = "deactivate" -> row.active
    [] op = "reactivate" -> ~row.active
    [] op = "delete"     -> row.active \/ ~row.deleted

\* Whether it asks for another active admin first: a demotion always does.
Guarded(op, row) ==
  op \in Removals /\ row.role = "admin" /\ (op = "demote" \/ row.active)

\* Whether a request that changes nothing leaves an audit row all the same.
NoopAudited(q) ==
  q.op = "reactivate" \/ (q.op \in {"deactivate", "delete"} /\ q.target # q.actor)

\* Variant: acting on oneself is not refused.
LoadAnyTarget(r) ==
  LET q == req[r]
      row == account[q.target]
  IN /\ q.pc = "load"
     /\ IF ~Changes(q.op, row)
        THEN Stop(r)
        ELSE /\ req' = [req EXCEPT ![r].pc = IF Guarded(q.op, row) THEN "count" ELSE "write",
                                   ![r].wasActive = q.op \in Removals /\ row.active]
             /\ UNCHANGED <<account, script>>

\* The target.  On oneself every operation is refused or changes nothing: the
\* session still has the row that get_current_user loaded.
Load(r) ==
  LET q == req[r]
      row == account[q.target]
  IN /\ q.pc = "load"
     /\ IF q.target = q.actor \/ ~Changes(q.op, row)
        THEN IF NoopAudited(q)
             THEN /\ req' = [req EXCEPT ![r].op = "noop", ![r].pc = "audit"]
                  /\ UNCHANGED <<account, script>>
             ELSE Stop(r)
        ELSE /\ req' = [req EXCEPT ![r].pc = IF Guarded(q.op, row) THEN "count" ELSE "write",
                                   ![r].wasActive = q.op \in Removals /\ row.active]
             /\ UNCHANGED <<account, script>>

Count(r) ==
  /\ req[r].pc = "count"
  /\ IF SeveralAdmins THEN Goto(r, "write") ELSE Stop(r)

Write(r) == req[r].pc = "write" /\ Granted(r) /\ Goto(r, "audit")

Audit(r) == req[r].pc = "audit" /\ Granted(r) /\ Goto(r, "commit")

\* The row that COMMIT publishes: what was assigned, over what is there now.
Updated(q, row) ==
  CASE q.op = "demote"     -> [row EXCEPT !.role = "staff"]
    [] q.op = "promote"    -> [row EXCEPT !.role = "admin"]
    [] q.op = "deactivate" -> [row EXCEPT !.active = FALSE]
    [] q.op = "reactivate" -> [row EXCEPT !.active = TRUE]
    [] q.op = "delete"     -> [row EXCEPT !.deleted = TRUE,
                                          !.active = @ /\ ~q.wasActive]
    [] OTHER               -> row

Commit(r) ==
  LET q == req[r] IN
  /\ q.pc = "commit"
  /\ account' = [account EXCEPT ![q.target] = Updated(q, @)]
  /\ req' = [s \in Requests |->
               IF s = r THEN Idle
               ELSE IF /\ q.op \in Removals /\ req[s].pc \notin {"idle", "auth"}
                       /\ q.target \in {req[s].actor, req[s].target}
                    THEN [req[s] EXCEPT !.lost = @ \cup {q.target}]
                    ELSE req[s]]
  /\ UNCHANGED script

\* A failed statement, a lost connection, a killed worker: rollback.
Crash(r) == req[r] # Idle /\ Stop(r)

DeadlockVictim(r) == (\E C \in SUBSET Requests : r \in C /\ WaitCycle(C)) /\ Crash(r)

Step(r) ==
  \/ Authorise(r) \/ Load(r) \/ Count(r) \/ Write(r) \/ Audit(r) \/ Commit(r)
  \/ DeadlockVictim(r)

\* Variant: the script looks for an admin who can act.
BootstrapChecksActive ==
  /\ script = "idle" /\ ~SomeAdmin
  /\ script' = "insert"
  /\ UNCHANGED <<account, req>>

\* Any ADMIN row, active or not, and there is nothing to do.
BootstrapChecks ==
  /\ script = "idle" /\ ~AdminRow
  /\ script' = "insert"
  /\ UNCHANGED <<account, req>>

\* A new row; or the email is taken, or the script fails.
BootstrapInserts ==
  /\ script = "insert"
  /\ \/ \E u \in Users \ Registered :
          account' = [account EXCEPT ![u] = [NoRow EXCEPT !.role = "admin", !.active = TRUE]]
     \/ UNCHANGED account
  /\ script' = "idle"
  /\ UNCHANGED req

\* Somebody accepts an invitation, which may be older than what has become of the
\* admin who issued it (see Invitations).
Register(u) ==
  /\ Registered # {} /\ u \notin Registered
  /\ \E role \in {"admin", "staff"} :
       account' = [account EXCEPT ![u] = [NoRow EXCEPT !.role = role, !.active = TRUE]]
  /\ UNCHANGED <<req, script>>

Arrivals == BootstrapChecks \/ BootstrapInserts \/ \E u \in Users : Register(u)

Next == (\E r \in Requests : Start(r) \/ Step(r) \/ Crash(r)) \/ Arrivals

Spec == Init /\ [][Next]_vars

\* An accepted request runs on; the waiters of a row are queued.
FairSpec == Spec /\ \A r \in Requests : SF_vars(Step(r))

-----------------------------------------------------------------------------
(* Properties *)

\* The system loses its last active admin only to a request whose own actor
\* has been removed from the admins while it was in flight: as long as nobody
\* acts on an authority that is gone, "no self-removal" keeps an admin.
LastAdminFallsToALostActor ==
  [][SomeAdmin /\ ~SomeAdmin' =>
       \E r \in Requests : Commit(r) /\ req[r].actor \in req[r].lost]_vars

\* The count the guard asks for: the actor is an active admin and so is the
\* target, so it can fail only when a removal of one of them came in between.
CountGuardNeedsARace ==
  \A r \in Requests :
     req[r].pc = "count" /\ req[r].wasActive /\ req[r].lost = {} => SeveralAdmins

\* Nobody is an active admin any more, nobody is acting as one, and ADMIN rows are left.
LockedOut ==
  /\ ~SomeAdmin /\ AdminRow
  /\ script = "idle"
  /\ \A r \in Requests : req[r].pc \in {"idle", "auth"}

\* The only way back is an invitation to an admin's account that is still open: only an
\* admin can reactivate one, and the bootstrap script finds the rows of those who
\* cannot log in and does nothing.
OnlyAnInvitationEndsALockout ==
  [][LockedOut => LockedOut' \/ \E u \in Users : Register(u)]_vars

\* Only admins who delete one another wait for one another: in every wait cycle
\* there are two deletions, both past their UPDATE, of which one removes the actor of
\* the other.  Demotions, (de)activations and promotions never need a victim.
DeadlocksAreMutualDeletions ==
  \A C \in SUBSET Requests :
     C # {} /\ WaitCycle(C) =>
        \E r, s \in C :
           /\ r # s /\ req[s].target = req[r].actor
           /\ \A x \in {r, s} : req[x].op = "delete" /\ req[x].pc = "audit"

\* Every accepted request ends, admins deleting one another included.
EveryRequestEnds == \A r \in Requests : req[r] # Idle ~> req[r] = Idle

-----------------------------------------------------------------------------
(* Why the properties hold: the inductive invariant *)

\* r has passed require_admin.
Past(r) == req[r].pc \notin {"idle", "auth"}

WellFormed(q) ==
  \/ q = Idle
  \/ /\ q.pc # "idle" /\ q.actor \in Users /\ q.target \in Users
     /\ q.op \in Ops \/ (q.op = "noop" /\ q.pc \in {"audit", "commit"})

\* What a request relies on is true unless `lost` records that it was taken away.
Authority ==
  \A r \in Requests :
    LET q == req[r] IN
    /\ WellFormed(q)
    /\ Past(r) /\ q.actor \notin q.lost => ActiveAdmin(q.actor)
    /\ q.pc = "count" /\ q.wasActive /\ q.target \notin q.lost => ActiveAdmin(q.target)
    /\ Past(r) /\ q.pc # "load" /\ q.op # "noop" => q.actor # q.target

IInv == TypeOK /\ Authority

-----------------------------------------------------------------------------
(* What the documentation says and concurrent requests do not keep *)

\* admin_update_user: "Cannot demote the last active Admin (would lock out the
\* system)"; the same guard stands in admin_set_user_active and admin_delete_user.
AdminRemains == Registered # {} => SomeAdmin
=============================================================================
