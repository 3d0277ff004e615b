---------------------------- MODULE Invitations -----------------------------
(***************************************************************************)
(* Invitations and registration: admin_issue_invite, admin_revoke_invite   *)
(* and consume_invite of services/auth_service.py over the tables          *)
(* invite_tokens and users, several requests at once, each one transaction *)
(* at READ COMMITTED.  Issuing checks and then inserts, without a lock or  *)
(* a constraint behind it; consuming locks the invitation row; the users   *)
(* table has a unique index on email.                                      *)
(***************************************************************************)
EXTENDS Naturals

CONSTANTS
  Emails, Requests, None,
  Invites   \* invitations that may be issued; bounds the run

ASSUME NoInviteAssumption == None \notin Emails \cup Invites

VARIABLES
  invite,  \* committed invite_tokens rows
  holder,  \* the users row that has each email
  req      \* the requests

vars == <<invite, holder, req>>

\* `expired`: expires_at has passed.  `handed`: the admin has got the link, the
\* only copy of the raw token.  `revoked`: an INVITE_REVOKED audit row exists.
\* History: `made` counts the accounts created from it; `met` says that another
\* issue or registration for this email was in flight together with its own.
InviteRow == [st : {"free", "open", "consumed"}, email : Emails \cup {None},
              expired : BOOLEAN, handed : BOOLEAN, revoked : BOOLEAN,
              made : Nat, met : BOOLEAN]

\* `by`: the invitation it registered with; None: the email is free.
Holder == [by : Invites \cup {None}, met : BOOLEAN]

Request == [op : {"none", "issue", "revoke", "register"},
            pc : {"idle", "lock", "user", "pending", "insert", "write", "commit", "respond"},
            email : Emails \cup {None}, i : Invites \cup {None}, met : BOOLEAN]

Idle == [op |-> "none", pc |-> "idle", email |-> None, i |-> None, met |-> FALSE]
Free == [st |-> "free", email |-> None, expired |-> FALSE, handed |-> FALSE,
         revoked |-> FALSE, made |-> 0, met |-> FALSE]
Nobody == [by |-> None, met |-> FALSE]

TypeOK ==
  /\ invite \in [Invites -> InviteRow]
  /\ holder \in [Emails -> Holder]
  /\ req \in [Requests -> Request]

Init ==
  /\ invite = [i \in Invites |-> Free]
  /\ holder = [e \in Emails |-> Nobody]
  /\ req = [r \in Requests |-> Idle]

\* fetch_pending_invite_for_email.
Pending(i) == invite[i].st = "open" /\ ~invite[i].expired

Taken(e) == holder[e].by # None

-----------------------------------------------------------------------------
(* Locks, held until COMMIT *)

HoldsInvite(r, i) ==
  /\ req[r].i = i
  /\ \/ req[r].op = "register" /\ req[r].pc \in {"user", "insert", "commit"}
     \/ req[r].op = "revoke" /\ req[r].pc = "commit"

\* The uncommitted entry in the unique index of users.email.
HoldsEmail(r, e) == req[r].op = "register" /\ req[r].pc = "commit" /\ req[r].email = e

InviteGranted(r) == \A s \in Requests \ {r} : ~HoldsInvite(s, req[r].i)
EmailGranted(r) == \A s \in Requests \ {r} : ~HoldsEmail(s, req[r].email)

-----------------------------------------------------------------------------
(* Requests *)

\* Revocations only take invitations away; they are not counted as a meeting.
Meets(op, e, s) ==
  op # "revoke" /\ req[s].op \in {"issue", "register"} /\ req[s].email = e

Start(r, op, pc, e, i) ==
  /\ req[r] = Idle
  /\ req' = [s \in Requests |->
       IF s = r THEN [op |-> op, pc |-> pc, email |-> e, i |-> i,
                      met |-> \E x \in Requests : Meets(op, e, x)]
       ELSE [req[s] EXCEPT !.met = @ \/ Meets(op, e, s)]]
  /\ UNCHANGED <<invite, holder>>

Goto(r, p) == req' = [req EXCEPT ![r].pc = p] /\ UNCHANGED <<invite, holder>>
Stop(r) == req' = [req EXCEPT ![r] = Idle] /\ UNCHANGED <<invite, holder>>

Issue(r) ==
  \E e \in Emails, i \in Invites :
     /\ invite[i] = Free /\ \A s \in Requests : req[s].i # i
     /\ Start(r, "issue", "user", e, i)

Revoke(r) ==
  \E i \in Invites :
     invite[i] # Free /\ Start(r, "revoke", "lock", invite[i].email, i)

Register(r) ==
  \E i \in Invites :
     invite[i].handed /\ Start(r, "register", "lock", invite[i].email, i)

\* Variant: an invitation is not checked for an account.
CheckUserOnRegister(r) ==
  LET q == req[r] IN
  /\ q.pc = "user"
  /\ IF q.op = "register" /\ Taken(q.email) THEN Stop(r)
     ELSE Goto(r, IF q.op = "issue" THEN "pending" ELSE "insert")

\* Neither is done for an email that has an account.
CheckUser(r) ==
  LET q == req[r] IN
  /\ q.pc = "user"
  /\ IF Taken(q.email) THEN Stop(r)
     ELSE Goto(r, IF q.op = "issue" THEN "pending" ELSE "insert")

\* Variant: only invitations that were handed out count.
CheckPendingHanded(r) ==
  /\ req[r].pc = "pending"
  /\ IF \E i \in Invites : Pending(i) /\ invite[i].handed /\ invite[i].email = req[r].email
     THEN Stop(r) ELSE Goto(r, "commit")

CheckPending(r) ==
  /\ req[r].pc = "pending"
  /\ IF \E i \in Invites : Pending(i) /\ invite[i].email = req[r].email
     THEN Stop(r) ELSE Goto(r, "commit")

CommitIssue(r) ==
  LET q == req[r] IN
  /\ q.pc = "commit" /\ q.op = "issue"
  /\ invite' = [invite EXCEPT ![q.i] = [Free EXCEPT !.st = "open", !.email = q.email,
                                                    !.met = q.met]]
  /\ req' = [req EXCEPT ![r].pc = "respond"]
  /\ UNCHANGED holder

\* The raw token leaves with the response.  It is lost if FRONTEND_BASE_URL is
\* not set (500 after the commit) or the response does not arrive.
Respond(r) ==
  /\ req[r].pc = "respond"
  /\ \E ok \in BOOLEAN : invite' = [invite EXCEPT ![req[r].i].handed = ok]
  /\ req' = [req EXCEPT ![r] = Idle]
  /\ UNCHANGED holder

\* Variant: SELECT without FOR UPDATE.
LockInviteUnlocked(r) ==
  LET q == req[r] IN
  /\ q.pc = "lock" /\ q.op = "register"
  /\ IF Pending(q.i) THEN Goto(r, "user") ELSE Stop(r)

\* SELECT ... FOR UPDATE, and the checks on the row.
LockInvite(r) ==
  LET q == req[r] IN
  /\ q.pc = "lock" /\ q.op = "register"
  /\ InviteGranted(r)
  /\ IF Pending(q.i) THEN Goto(r, "user") ELSE Stop(r)

\* Variant: the duplicate is waited for instead of refused.
InsertUserWaits(r) ==
  /\ req[r].pc = "insert"
  /\ EmailGranted(r) /\ ~Taken(req[r].email)
  /\ Goto(r, "commit")

\* INSERT: the unique index waits for an uncommitted entry and refuses a
\* committed one; the exception rolls everything back.
InsertUser(r) ==
  /\ req[r].pc = "insert"
  /\ EmailGranted(r)
  /\ IF Taken(req[r].email) THEN Stop(r) ELSE Goto(r, "commit")

CommitRegister(r) ==
  LET q == req[r] IN
  /\ q.pc = "commit" /\ q.op = "register"
  /\ invite' = [invite EXCEPT ![q.i].st = "consumed", ![q.i].made = @ + 1]
  /\ holder' = [holder EXCEPT ![q.email] =
                  [by |-> q.i, met |-> q.met \/ invite[q.i].met]]
  /\ req' = [req EXCEPT ![r] = Idle]

\* fetch_invite_by_id takes no lock; a consumed invitation is left alone.
ReadInvite(r) ==
  LET q == req[r] IN
  /\ q.pc = "lock" /\ q.op = "revoke"
  /\ IF invite[q.i].st = "consumed" THEN Stop(r) ELSE Goto(r, "write")

\* Variant: the UPDATE does not wait for the row.
WriteRevokedUnlocked(r) == req[r].pc = "write" /\ Goto(r, "commit")

WriteRevoked(r) == req[r].pc = "write" /\ InviteGranted(r) /\ Goto(r, "commit")

\* expires_at = now(), whatever has become of the row since it was read.
CommitRevoke(r) ==
  LET q == req[r] IN
  /\ q.pc = "commit" /\ q.op = "revoke"
  /\ invite' = [invite EXCEPT ![q.i].expired = TRUE, ![q.i].revoked = TRUE]
  /\ req' = [req EXCEPT ![r] = Idle]
  /\ UNCHANGED holder

\* A failed statement, a lost connection, a killed worker.
Crash(r) == req[r] # Idle /\ Stop(r)

-----------------------------------------------------------------------------
(* The surroundings *)

Expire(i) ==
  /\ Pending(i)
  /\ invite' = [invite EXCEPT ![i].expired = TRUE]
  /\ UNCHANGED <<holder, req>>

\* admin_delete_user gives the row another email (see UserAdmin).
ReleaseEmail(e) ==
  /\ Taken(e)
  /\ holder' = [holder EXCEPT ![e] = Nobody]
  /\ UNCHANGED <<invite, req>>

Arrive(r) == Issue(r) \/ Revoke(r) \/ Register(r)

Step(r) ==
  \/ CheckUser(r) \/ CheckPending(r) \/ CommitIssue(r) \/ Respond(r)
  \/ LockInvite(r) \/ InsertUser(r) \/ CommitRegister(r)
  \/ ReadInvite(r) \/ WriteRevoked(r) \/ CommitRevoke(r)

Next ==
  \/ \E r \in Requests : Arrive(r) \/ Step(r) \/ Crash(r)
  \/ \E i \in Invites : Expire(i)
  \/ \E e \in Emails : ReleaseEmail(e)

Spec == Init /\ [][Next]_vars

\* An accepted request runs on; the waiters of a row are queued.
FairSpec == Spec /\ \A r \in Requests : SF_vars(Step(r))

-----------------------------------------------------------------------------
(* Properties *)

\* An invitation is consumed if and only if one account was made from it, and
\* never a second one: not by two tabs, and not after that account is deleted
\* and its email free again.
ConsumedOnce ==
  \A i \in Invites : invite[i].made = IF invite[i].st = "consumed" THEN 1 ELSE 0

\* "The email must not already have an active invite": two of them can only
\* come from requests that were in flight together.
PendingIsUnique ==
  \A i, j \in Invites :
     i # j /\ Pending(i) /\ Pending(j) /\ invite[i].email = invite[j].email =>
        invite[i].met \/ invite[j].met

\* No usable invitation is left for an email that has an account, requests in
\* flight together excepted: it would come back to life with a deletion.
NoneLeftAfterRegistration ==
  \A i \in Invites :
     Pending(i) /\ Taken(invite[i].email) => invite[i].met \/ holder[invite[i].email].met

\* r has read the invitation it registers with, and holds its row.
Registering(r) == req[r].op = "register" /\ req[r].pc \in {"user", "insert", "commit"}

\* An invitation is a link that works once (OneTimeLinks): it is claimed by one
\* registration at a time, no later than it dies, creates an account or is let go, and
\* neither comes back to life when the account is deleted or the revocation is late.
InviteState(i) ==
  CASE invite[i].st = "free"     -> "none"
    [] invite[i].st = "consumed" -> "used"
    [] OTHER                     -> IF invite[i].expired THEN "dead" ELSE "live"

OneTime == INSTANCE OneTimeLinks
             WITH Links <- Invites, Clients <- Requests,
                  state <- [i \in Invites |-> InviteState(i)],
                  claims <- {c \in Requests \X Invites :
                               Registering(c[1]) /\ req[c[1]].i = c[2]},
                  uses <- [i \in Invites |-> invite[i].made]
OneTimeSpec == OneTime!Spec

\* Nobody registers with an invitation whose revocation was acknowledged.
RevokedNeverUsed ==
  [][\A r \in Requests : CommitRegister(r) => ~invite[req[r].i].revoked]_vars

\* r has to wait until s ends.
Blocks(s, r) ==
  /\ s # r
  /\ \/ /\ req[r].pc = "write" \/ (req[r].pc = "lock" /\ req[r].op = "register")
        /\ HoldsInvite(s, req[r].i)
     \/ req[r].pc = "insert" /\ HoldsEmail(s, req[r].email)

\* The order of the locks, the invitation and then the email, leaves no wait cycle:
\* in any set of requests there is one that waits for none of them.
NoWaitCycle ==
  \A C \in SUBSET Requests : C # {} => \E r \in C : \A s \in C : ~Blocks(s, r)

\* Every accepted request ends: there is no wait cycle, so no request needs a
\* deadlock to be broken.
EveryRequestEnds == \A r \in Requests : req[r] # Idle ~> req[r] = Idle

-----------------------------------------------------------------------------
(* Why the properties hold: the inductive invariant *)

WellFormed(q) ==
  \/ q = Idle
  \/ /\ q.op # "none" /\ q.email \in Emails /\ q.i \in Invites
     /\ CASE q.op = "issue"    -> q.pc \in {"user", "pending", "commit", "respond"}
          [] q.op = "revoke"   -> q.pc \in {"lock", "write", "commit"}
          [] q.op = "register" -> q.pc \in {"lock", "user", "insert", "commit"}

\* Which invitation a request is about: one that is still unissued and nobody
\* else's, or an issued one for its email.
Subject ==
  \A r \in Requests : LET q == req[r] IN
    /\ WellFormed(q)
    /\ q.op = "issue" /\ q.pc # "respond" =>
         invite[q.i] = Free /\ \A s \in Requests \ {r} : req[s].i # q.i
    /\ q.op \in {"revoke", "register"} \/ q.pc = "respond" =>
         invite[q.i].st # "free" /\ invite[q.i].email = q.email

Rows ==
  \A i \in Invites :
    /\ IF invite[i].st = "free" THEN invite[i] = Free ELSE invite[i].email \in Emails
    /\ invite[i].revoked => invite[i].expired

\* The locks exclude, and what was read under them still holds.
Locked ==
  /\ \A r, s \in Requests, i \in Invites : HoldsInvite(r, i) /\ HoldsInvite(s, i) => r = s
  /\ \A r, s \in Requests, e \in Emails : HoldsEmail(r, e) /\ HoldsEmail(s, e) => r = s
  /\ \A r \in Requests :
       /\ Registering(r) => invite[req[r].i].st = "open" /\ ~invite[req[r].i].revoked
       /\ \A e \in Emails : HoldsEmail(r, e) => ~Taken(e)

\* Requests in flight together know it.
Meeting ==
  \A r, s \in Requests :
     /\ r # s /\ req[r].email # None /\ req[r].email = req[s].email
     /\ {req[r].op, req[s].op} \subseteq {"issue", "register"}
     => req[r].met /\ req[s].met

\* What a request that has met nobody has checked still holds.
ChecksHold ==
  \A r \in Requests : LET q == req[r] IN ~q.met =>
    /\ q.op = "issue" /\ q.pc \in {"pending", "commit"} => ~Taken(q.email)
    /\ q.op = "issue" /\ q.pc = "commit" =>
         \A j \in Invites : Pending(j) => invite[j].email # q.email
    /\ Registering(r) =>
         \A j \in Invites \ {q.i} :
            Pending(j) /\ invite[j].email = q.email => invite[j].met \/ invite[q.i].met

IInv ==
  /\ TypeOK /\ Subject /\ Rows /\ Locked /\ Meeting /\ ChecksHold
  /\ ConsumedOnce /\ PendingIsUnique /\ NoneLeftAfterRegistration
=============================================================================
