--------------------------- MODULE PasswordResets ---------------------------
(***************************************************************************)
(* Password reset links: request_password_reset ("forgot"),                *)
(* admin_initiate_password_reset ("override") and consume_password_reset   *)
(* ("reset") of services/auth_service.py over the tables password_resets   *)
(* and users.  A self-service request checks for a pending link and then   *)
(* inserts; an admin's expires the pending ones and inserts; a reset locks *)
(* its link.  What a reset does to sessions is in AuthSessions.            *)
(***************************************************************************)
EXTENDS Naturals

CONSTANTS
  Users, Requests, None,
  Links,     \* links that may be issued; bounds the run
  Delivers   \* TRUE: whoever calls the services passes the raw token on.
             \* FALSE: the routers as they are; both fail on an undefined name
             \* (`os`, `frontend_base`) once the service has committed.

ASSUME ResetAssumption == None \notin Users \cup Links /\ Delivers \in BOOLEAN

VARIABLES
  link,    \* committed password_resets rows
  active,  \* users.is_active
  req      \* the requests

vars == <<link, active, req>>

\* History: `made` counts the password changes it was used for; `over` says that
\* an admin has issued a newer one since; `met`, that its issuer met another one.
LinkRow == [st : {"free", "open", "consumed"}, owner : Users \cup {None},
            expired : BOOLEAN, handed : BOOLEAN, made : Nat, over : BOOLEAN,
            met : BOOLEAN]

\* `snap`: the rows its UPDATE statement has found pending.  History: `met`, that
\* what it has read has changed under it (Meets, Expire, SwitchAccount).
Request == [op : {"none", "forgot", "override", "reset"},
            pc : {"idle", "lock", "user", "pending", "revoke", "wait", "write",
                  "commit", "respond"},
            u : Users \cup {None}, t : Links \cup {None},
            snap : SUBSET Links, met : BOOLEAN]

Idle == [op |-> "none", pc |-> "idle", u |-> None, t |-> None, snap |-> {}, met |-> FALSE]
Free == [st |-> "free", owner |-> None, expired |-> FALSE, handed |-> FALSE,
         made |-> 0, over |-> FALSE, met |-> FALSE]

TypeOK ==
  /\ link \in [Links -> LinkRow]
  /\ active \in [Users -> BOOLEAN]
  /\ req \in [Requests -> Request]

Init ==
  /\ link = [t \in Links |-> Free]
  /\ active \in [Users -> BOOLEAN]
  /\ req = [r \in Requests |-> Idle]

\* fetch_pending_reset_for_user, and the filter of revoke_pending_resets_for_user.
PendingOf(u) == {t \in Links : link[t].st = "open" /\ ~link[t].expired /\ link[t].owner = u}

-----------------------------------------------------------------------------
(* Row locks, held until COMMIT *)

HoldsLink(r, t) ==
  \/ req[r].op = "reset" /\ req[r].pc \in {"user", "write", "commit"} /\ req[r].t = t
  \/ req[r].op = "override" /\ req[r].pc = "commit" /\ t \in req[r].snap
LinkGranted(r, t) == \A s \in Requests \ {r} : ~HoldsLink(s, t)

HoldsUser(r, u) == req[r].op = "reset" /\ req[r].pc = "commit" /\ req[r].u = u
UserGranted(r, u) == \A s \in Requests \ {r} : ~HoldsUser(s, u)

-----------------------------------------------------------------------------
(* Requests *)

Issuers == {"forgot", "override"}

\* History: r issues a link to u as well, at the same time as a request for op.
Meets(op, u, r) == req[r].u = u /\ {op, req[r].op} \subseteq Issuers

Start(r, op, pc, u, t) ==
  /\ req[r] = Idle
  /\ req' = [s \in Requests |->
       IF s = r
       THEN [op |-> op, pc |-> pc, u |-> u, t |-> t, snap |-> {},
             met |-> \E x \in Requests : Meets(op, u, x)]
       ELSE [req[s] EXCEPT !.met = @ \/ Meets(op, u, s)]]
  /\ UNCHANGED <<link, active>>

Goto(r, p) == req' = [req EXCEPT ![r].pc = p] /\ UNCHANGED <<link, active>>
Stop(r) == req' = [req EXCEPT ![r] = Idle] /\ UNCHANGED <<link, active>>

\* Forgot, or an admin's override.
AskForLink(r) ==
  \E op \in Issuers, u \in Users, t \in Links :
     /\ link[t] = Free /\ \A s \in Requests : req[s].t # t
     /\ Start(r, op, "user", u, t)

Reset(r) ==
  \E t \in Links : link[t].handed /\ Start(r, "reset", "lock", link[t].owner, t)

AfterUser(op) ==
  CASE op = "forgot"   -> "pending"
    [] op = "override" -> "revoke"
    [] op = "reset"    -> "write"

\* Variant: consume_password_reset does not look at is_active.
CheckUserOnIssue(r) ==
  LET q == req[r] IN
  /\ q.pc = "user"
  /\ IF active[q.u] \/ q.op = "reset" THEN Goto(r, AfterUser(q.op)) ELSE Stop(r)

CheckUser(r) ==
  LET q == req[r] IN
  /\ q.pc = "user"
  /\ IF active[q.u] THEN Goto(r, AfterUser(q.op)) ELSE Stop(r)

\* Variant: any number of links may be pending.
CheckPendingNever(r) == req[r].pc = "pending" /\ Goto(r, "commit")

\* A pending link is not issued again; the answer to the client is the same.
CheckPending(r) ==
  /\ req[r].pc = "pending"
  /\ IF PendingOf(req[r].u) # {} THEN Stop(r) ELSE Goto(r, "commit")

\* UPDATE ... SET expires_at = now() WHERE pending: the statement's snapshot ...
RevokePending(r) ==
  /\ req[r].pc = "revoke"
  /\ req' = [req EXCEPT ![r].pc = "wait", ![r].snap = PendingOf(req[r].u)]
  /\ UNCHANGED <<link, active>>

\* Variant: the UPDATE does not wait for rows that are being consumed.
WaitForLinksNot(r) == req[r].pc = "wait" /\ Goto(r, "commit")

\* ... and the row locks it has to wait for.
WaitForLinks(r) ==
  /\ req[r].pc = "wait"
  /\ \A t \in req[r].snap : LinkGranted(r, t)
  /\ Goto(r, "commit")

Issued(q) == [Free EXCEPT !.st = "open", !.owner = q.u, !.met = q.met]

CommitForgot(r) ==
  LET q == req[r] IN
  /\ q.pc = "commit" /\ q.op = "forgot"
  /\ link' = [link EXCEPT ![q.t] = Issued(q)]
  /\ req' = [req EXCEPT ![r].pc = "respond"]
  /\ UNCHANGED active

\* Rows that were consumed while the UPDATE waited do not match any more.
CommitOverride(r) ==
  LET q == req[r] IN
  /\ q.pc = "commit" /\ q.op = "override"
  /\ link' = [t \in Links |->
       IF t = q.t THEN Issued(q)
       ELSE IF link[t].owner # q.u THEN link[t]
       ELSE [link[t] EXCEPT !.over = TRUE,
                            !.expired = @ \/ (t \in q.snap /\ link[t].st = "open")]]
  /\ req' = [req EXCEPT ![r].pc = "respond", ![r].snap = {}]
  /\ UNCHANGED active

\* The raw token is in no other place than the answer.
Respond(r) ==
  /\ req[r].pc = "respond"
  /\ link' = [link EXCEPT ![req[r].t].handed = Delivers]
  /\ req' = [req EXCEPT ![r] = Idle]
  /\ UNCHANGED active

\* Variant: SELECT without FOR UPDATE.
LockLinkUnlocked(r) ==
  LET q == req[r] IN
  /\ q.pc = "lock"
  /\ IF q.t \in PendingOf(q.u) THEN Goto(r, "user") ELSE Stop(r)

\* SELECT ... FOR UPDATE; a consumed or expired link is refused (and audited).
LockLink(r) ==
  LET q == req[r] IN
  /\ q.pc = "lock"
  /\ LinkGranted(r, q.t)
  /\ IF q.t \in PendingOf(q.u) THEN Goto(r, "user") ELSE Stop(r)

\* Variant: one reset never gets past another of the same user.
WriteUserStuck(r) ==
  /\ req[r].pc = "write"
  /\ \A s \in Requests \ {r} : req[s].u = req[r].u => req[s].pc = "idle"
  /\ Goto(r, "commit")

\* UPDATE of the users row, after the DELETE of the sessions.
WriteUser(r) == req[r].pc = "write" /\ UserGranted(r, req[r].u) /\ Goto(r, "commit")

\* The new password takes effect.
CommitReset(r) ==
  LET q == req[r] IN
  /\ q.pc = "commit" /\ q.op = "reset"
  /\ link' = [link EXCEPT ![q.t].st = "consumed", ![q.t].made = @ + 1]
  /\ req' = [req EXCEPT ![r] = Idle]
  /\ UNCHANGED active

\* A failed statement, a lost connection, a killed worker.
Crash(r) == req[r] # Idle /\ Stop(r)

-----------------------------------------------------------------------------
(* The surroundings *)

Expire(t) ==
  /\ link[t].st = "open" /\ ~link[t].expired
  /\ link' = [link EXCEPT ![t].expired = TRUE]
  /\ req' = [s \in Requests |->
       [req[s] EXCEPT !.met = @ \/ (req[s].op = "reset" /\ req[s].t = t)]]
  /\ UNCHANGED active

\* An admin (de)activates the account (see UserAdmin).
SwitchAccount(u) ==
  /\ active' = [active EXCEPT ![u] = ~@]
  /\ req' = [s \in Requests |->
       [req[s] EXCEPT !.met = @ \/ (req[s].op = "reset" /\ req[s].u = u)]]
  /\ UNCHANGED link

Arrive(r) == AskForLink(r) \/ Reset(r)

Step(r) ==
  \/ CheckUser(r) \/ CheckPending(r) \/ RevokePending(r) \/ WaitForLinks(r)
  \/ CommitForgot(r) \/ CommitOverride(r) \/ Respond(r)
  \/ LockLink(r) \/ WriteUser(r) \/ CommitReset(r)

Next ==
  \/ \E r \in Requests : Arrive(r) \/ Step(r) \/ Crash(r)
  \/ \E t \in Links : Expire(t)
  \/ \E u \in Users : SwitchAccount(u)

Spec == Init /\ [][Next]_vars

\* An accepted request runs on; the waiters of a row are queued.
FairSpec == Spec /\ \A r \in Requests : SF_vars(Step(r))

-----------------------------------------------------------------------------
(* Properties *)

\* A link changes a password once, however many clients present it.
UsedOnce ==
  \A t \in Links : link[t].made = IF link[t].st = "consumed" THEN 1 ELSE 0

\* r has read the link it resets with, and holds its row.
Resetting(r) == req[r].op = "reset" /\ req[r].pc \in {"user", "write", "commit"}

\* A reset link works once (OneTimeLinks): one reset at a time claims it, while it is
\* pending; an override kills the pending ones in the step that issues its own.
LinkState(t) ==
  CASE link[t].st = "free"     -> "none"
    [] link[t].st = "consumed" -> "used"
    [] OTHER                   -> IF link[t].expired THEN "dead" ELSE "live"

OneTime == INSTANCE OneTimeLinks
             WITH Clients <- Requests,
                  state <- [t \in Links |-> LinkState(t)],
                  claims <- {c \in Requests \X Links :
                               Resetting(c[1]) /\ req[c[1]].t = c[2]},
                  uses <- [t \in Links |-> link[t].made]
OneTimeSpec == OneTime!Spec

\* "One active pending reset at a time": a second one comes only from requests
\* that were in flight together.
OnePending ==
  \A u \in Users : \A s, t \in PendingOf(u) : s # t => link[s].met \/ link[t].met

\* "The admin token is the canonical one": once an admin has issued a link, no
\* older one changes the password, except one whose issuer met another request,
\* and one that ran out under the reset: the UPDATE passes over it.
OverrideIsFinal ==
  [][\A r \in Requests :
        CommitReset(r) /\ link[req[r].t].over => link[req[r].t].met \/ req[r].met]_vars

\* The password of an inactive account stays, unless it was switched off under
\* the reset.
InactiveKeepsPassword ==
  [][\A r \in Requests : CommitReset(r) => active[req[r].u] \/ req[r].met]_vars

\* r has to wait until s ends.
Blocks(s, r) ==
  /\ s # r
  /\ \/ req[r].pc = "lock" /\ HoldsLink(s, req[r].t)
     \/ req[r].pc = "wait" /\ \E t \in req[r].snap : HoldsLink(s, t)
     \/ req[r].pc = "write" /\ HoldsUser(s, req[r].u)

\* The order of the locks, the links and then the user, leaves no wait cycle: in any
\* set of requests there is one that waits for none of them.
NoWaitCycle ==
  \A C \in SUBSET Requests : C # {} => \E r \in C : \A s \in C : ~Blocks(s, r)

\* Every accepted request ends: its locks build no wait cycle.
EveryRequestEnds == \A r \in Requests : req[r] # Idle ~> req[r] = Idle

-----------------------------------------------------------------------------
(* What the documentation says and the routers do not keep *)

\* docs/frontend-api-guide.md: reset-password "returns the reset URL in the
\* response body for the admin to share out-of-band".
OverrideHandsOutLink ==
  [][\A r \in Requests :
        req[r].op = "override" /\ Respond(r) => link'[req[r].t].handed]_vars

-----------------------------------------------------------------------------
(* Why the properties hold: the inductive invariant *)

WellFormed(q) ==
  \/ q = Idle
  \/ /\ q.op # "none" /\ q.u \in Users /\ q.t \in Links
     /\ CASE q.op = "forgot"   -> q.pc \in {"user", "pending", "commit", "respond"}
          [] q.op = "override" -> q.pc \in {"user", "revoke", "wait", "commit", "respond"}
          [] q.op = "reset"    -> q.pc \in {"lock", "user", "write", "commit"}

\* Which link a request is about: one that is still unissued and nobody else's,
\* or an issued one of its user.
Subject ==
  \A r \in Requests : LET q == req[r] IN
    /\ WellFormed(q)
    /\ q.op \in Issuers /\ q.pc # "respond" =>
         link[q.t] = Free /\ \A s \in Requests \ {r} : req[s].t # q.t
    /\ q.op = "reset" \/ q.pc = "respond" =>
         link[q.t].st # "free" /\ link[q.t].owner = q.u

\* A link that an admin has overridden is dead, if it met no other request.
Rows ==
  \A t \in Links :
    /\ IF link[t].st = "free" THEN link[t] = Free ELSE link[t].owner \in Users
    /\ link[t].over /\ link[t].st = "open" => link[t].expired \/ link[t].met

\* The locks exclude, and what was read under them still holds.
Locked ==
  /\ \A r, s \in Requests, t \in Links : HoldsLink(r, t) /\ HoldsLink(s, t) => r = s
  /\ \A r \in Requests : Resetting(r) => link[req[r].t].st = "open"

\* Requests in flight together know it.
Meeting ==
  \A r, s \in Requests :
     r # s /\ Meets(req[r].op, req[r].u, s) => req[r].met

\* What a request has checked still holds, unless it has met another.
ChecksHold ==
  \A r \in Requests : LET q == req[r] IN
    /\ q.op = "forgot" /\ q.pc = "commit" =>
         \A t \in PendingOf(q.u) : link[t].met
    /\ q.op = "override" /\ q.pc \in {"wait", "commit"} =>
         \A t \in PendingOf(q.u) : t \in q.snap \/ link[t].met
    /\ Resetting(r) /\ link[q.t].expired => q.met
    /\ q.op = "reset" /\ q.pc \in {"write", "commit"} => active[q.u] \/ q.met

IInv ==
  /\ TypeOK /\ Subject /\ Rows /\ Locked /\ Meeting /\ ChecksHold
  /\ UsedOnce /\ OnePending
=============================================================================
