------------------------- MODULE AuthSessionsProofs -------------------------
(***************************************************************************)
(* Proofs about AuthSessions, for any number of users, tokens, requests    *)
(* and passwords.                                                          *)
(*                                                                         *)
(* IInv is inductive.  The three invariants of interest are not so alone:  *)
(* what a request commits depends on what it has read (ReadsHold), on the  *)
(* locks it holds (TokenLocks), on what revocations under way have found   *)
(* (RevocationCovers) and on the rehash race (OneOldHash); Shape,          *)
(* Ownership and Reservation say which arguments a request carries.        *)
(*                                                                         *)
(* First the effect of each action on one token row, one request and one   *)
(* account; then a lemma per conjunct of IInv; then the theorems; then the  *)
(* refinement of SessionLedger, one lemma per COMMIT, and what the ledger  *)
(* promises of itself; last the deadlocks.                                 *)
(***************************************************************************)
EXTENDS AuthSessions, TLAPS

LEMMA MarkTyped ==
  ASSUME TypeOK, NEW r \in Requests, NEW q \in Request
  PROVE  MarkOverlap(r, q) \in [Requests -> Request]
<1> DEFINE m(s) == IF s = r THEN q
                   ELSE IF Disturbs(r, s) THEN [req[s] EXCEPT !.overlap = TRUE] ELSE req[s]
<1>1. ASSUME NEW s \in Requests PROVE m(s) \in Request
  <2>1. req[s] \in Request BY DEF TypeOK
  <2>2. [req[s] EXCEPT !.overlap = TRUE] \in Request BY <2>1 DEF Request
  <2> QED BY <2>1, <2>2
<1> QED BY <1>1 DEF MarkOverlap

LEMMA IdleTyped == Idle \in Request
BY DEF Idle, Request

LEMMA TypeStep ==
  ASSUME TypeOK, Shape, [Next]_vars
  PROVE  TypeOK'
<1> USE NoneAssumption
<1>1. CASE UNCHANGED vars BY <1>1 DEF TypeOK, vars
<1>2. ASSUME NEW r \in Requests, Arrive(r) PROVE TypeOK'
  <2>1. ASSUME NEW op \in Ops, NEW u \in Users \cup {None}, NEW t \in Tokens \cup {None}, NEW new \in Tokens \cup {None},
               NEW p \in Passwords \cup {None}, Start(r, op, u, t, new, p)
        PROVE TypeOK'
    BY <2>1 DEF TypeOK, Start, Idle, Request
  <2>2. CASE Login(r) BY <2>2, <2>1 DEF Login, Unused, Ops
  <2>3. CASE Refresh(r) BY <2>3, <2>1 DEF Refresh, Unused, Ops, TypeOK, TokenRow
  <2>4. CASE Logout(r) BY <2>4, <2>1 DEF Logout, Unused, Ops, TypeOK, TokenRow
  <2>5. CASE AdminOrReset(r) BY <2>5, <2>1 DEF AdminOrReset, Ops, Revokers
  <2> QED BY <1>2, <2>2, <2>3, <2>4, <2>5 DEF Arrive
<1>3. ASSUME NEW r \in Requests, Step(r) PROVE TypeOK'
  <2> DEFINE q == req[r]
  <2>0. q \in Request /\ WellFormed(q) BY DEF TypeOK, Shape
  <2>1. CASE ReadUser(r)
    BY <2>1, <2>0, IdleTyped DEF ReadUser, TypeOK, Request, AfterUser, Revoking, Changes
  <2>2. CASE ReadToken(r)
    <3>1. \/ req' = [req EXCEPT ![r] = [q EXCEPT !.pc = IF q.op = "logout" THEN "mark" ELSE "insert"]]
          \/ req' = [req EXCEPT ![r] = [q EXCEPT !.pc = "delete", !.op = "replay", !.new = None]]
          \/ req' = [req EXCEPT ![r] = Idle]
      BY <2>2 DEF ReadToken
    <3>2. UNCHANGED <<user, tok>> BY <2>2 DEF ReadToken
    <3>3. [q EXCEPT !.pc = IF q.op = "logout" THEN "mark" ELSE "insert"] \in Request
      BY <2>0 DEF Request
    <3>4. [q EXCEPT !.pc = "delete", !.op = "replay", !.new = None] \in Request
      BY <2>0 DEF Request, Ops, Revokers
    <3> QED BY <3>1, <3>2, <3>3, <3>4, IdleTyped DEF TypeOK
  <2>3. CASE InsertSuccessor(r)
    BY <2>3, <2>0 DEF InsertSuccessor, TypeOK, Request
  <2>4. CASE MarkConsumed(r)
    BY <2>4, <2>0, IdleTyped DEF MarkConsumed, TypeOK, Request
  <2>5. CASE DeleteTokens(r)
    <3>1. [req[r] EXCEPT !.pc = "lock", !.snap = Rows(req[r].u)] \in Request
      BY <2>0 DEF Request, Rows
    <3> QED BY <2>5, <3>1, MarkTyped DEF DeleteTokens, TypeOK
  <2>6. CASE LockTokens(r)
    BY <2>6, <2>0 DEF LockTokens, TypeOK, Request
  <2>7. CASE WriteUser(r)
    BY <2>7, <2>0 DEF WriteUser, TypeOK, Request
  <2>8. CASE Commit(r)
    <3>1. ASSUME NEW op \in Ops, Ends(r, op) PROVE req' \in [Requests -> Request]
      BY <3>1, MarkTyped, IdleTyped DEF Ends
    <3>2. q.pc # "idle" => Minted(q) \in TokenRow
      BY <2>0 DEF Minted, TokenRow, Request, WellFormed, Idle
    <3>3. Revoked(r) \in [Tokens -> TokenRow]
      BY DEF Revoked, TypeOK, TokenRow
    <3>4. CASE CommitLogin(r)
      <4>1. q.pc = "commit" /\ q.op = "login" /\ q.pass \in Passwords /\ q.new \in Tokens
        BY <3>4, <2>0 DEF CommitLogin, Ends, WellFormed, Idle
      <4>2. tok' \in [Tokens -> TokenRow] BY <3>4, <4>1, <3>2 DEF CommitLogin, TypeOK
      <4>3. user' \in [Users -> UserRow] BY <3>4, <4>1 DEF CommitLogin, TypeOK, UserRow
      <4> QED BY <3>4, <4>2, <4>3, <3>1 DEF CommitLogin, TypeOK, Ops
    <3>5. CASE CommitRefresh(r)
      <4>1. q.pc = "commit" /\ q.new \in Tokens
        BY <3>5, <2>0 DEF CommitRefresh, Ends, WellFormed, Idle
      <4>2. tok' \in [Tokens -> TokenRow] BY <3>5, <4>1, <3>2 DEF CommitRefresh, TypeOK, TokenRow
      <4> QED BY <3>5, <4>2, <3>1 DEF CommitRefresh, TypeOK, Ops
    <3>6. CASE CommitLogout(r)
      BY <3>6, <3>1 DEF CommitLogout, TypeOK, TokenRow, Ops
    <3>7. CASE CommitReplay(r)
      BY <3>7, <3>1, <3>3 DEF CommitReplay, TypeOK, Ops, Revokers
    <3>8. CASE CommitDeactivate(r)
      BY <3>8, <3>1, <3>3 DEF CommitDeactivate, TypeOK, UserRow, Ops, Revokers
    <3>9. CASE CommitReactivate(r)
      BY <3>9, <3>1 DEF CommitReactivate, TypeOK, UserRow, Ops
    <3>10. CASE CommitDelete(r)
      BY <3>10, <3>1, <3>3 DEF CommitDelete, TypeOK, UserRow, Ops, Revokers
    <3>11. CASE CommitReset(r)
      <4>1. q.pass \in Passwords
        BY <3>11, <2>0 DEF CommitReset, Ends, WellFormed, Idle
      <4>2. user' \in [Users -> UserRow] BY <3>11, <4>1 DEF CommitReset, TypeOK, UserRow
      <4> QED BY <3>11, <4>2, <3>1, <3>3 DEF CommitReset, TypeOK, Ops, Revokers
    <3> QED BY <2>8, <3>4, <3>5, <3>6, <3>7, <3>8, <3>9, <3>10, <3>11 DEF Commit
  <2>9. CASE DeadlockVictim(r)
    BY <2>9, IdleTyped DEF DeadlockVictim, Crash, TypeOK
  <2> QED BY <1>3, <2>1, <2>2, <2>3, <2>4, <2>5, <2>6, <2>7, <2>8, <2>9 DEF Step
<1>4. ASSUME NEW r \in Requests, Crash(r) PROVE TypeOK'
  BY <1>4, IdleTyped DEF Crash, TypeOK
<1> QED BY <1>1, <1>2, <1>3, <1>4 DEF Next

-----------------------------------------------------------------------------
(* A step of r leaves the other requests alone, but for their overlap flag *)

Kept(s) ==
  /\ req'[s].op = req[s].op /\ req'[s].pc = req[s].pc /\ req'[s].u = req[s].u
  /\ req'[s].t = req[s].t /\ req'[s].new = req[s].new /\ req'[s].pass = req[s].pass
  /\ req'[s].dirty = req[s].dirty /\ req'[s].snap = req[s].snap
  /\ req[s].overlap => req'[s].overlap
  /\ req[s].pc = "idle" => req'[s] = req[s]

LEMMA Marked ==
  ASSUME TypeOK, NEW r \in Requests, NEW q, req' = MarkOverlap(r, q)
  PROVE  /\ req'[r] = q
         /\ \A s \in Requests \ {r} : Kept(s) /\ (Disturbs(r, s) => req'[s].overlap)
<1>1. req'[r] = q BY DEF MarkOverlap
<1>2. ASSUME NEW s \in Requests \ {r}
      PROVE  Kept(s) /\ (Disturbs(r, s) => req'[s].overlap)
  <2>1. req[s] \in Request BY DEF TypeOK
  <2>2. req'[s] = IF Disturbs(r, s) THEN [req[s] EXCEPT !.overlap = TRUE] ELSE req[s]
    BY DEF MarkOverlap
  <2>3. Disturbs(r, s) => req[s].pc # "idle" BY DEF Disturbs
  <2> QED BY <2>1, <2>2, <2>3 DEF Kept, Request
<1> QED BY <1>1, <1>2

LEMMA OthersKept ==
  ASSUME TypeOK, NEW r \in Requests, Arrive(r) \/ Step(r) \/ Crash(r)
  PROVE  \A s \in Requests \ {r} : Kept(s)
<1> SUFFICES ASSUME NEW s \in Requests \ {r} PROVE Kept(s)
  OBVIOUS
<1>1. ASSUME NEW q, req' = [req EXCEPT ![r] = q] PROVE Kept(s)
  BY <1>1 DEF Kept, TypeOK
<1>2. CASE Arrive(r)
  BY <1>2, <1>1 DEF Arrive, Login, Refresh, Logout, AdminOrReset, Start
<1>3. CASE DeleteTokens(r)
  BY <1>3, Marked DEF DeleteTokens
<1>4. CASE Commit(r)
  BY <1>4, Marked DEF Commit, CommitLogin, CommitRefresh, CommitLogout, CommitReplay,
     CommitDeactivate, CommitReactivate, CommitDelete, CommitReset, Ends
<1>5. CASE ReadUser(r) BY <1>5, <1>1 DEF ReadUser
<1>6. CASE ReadToken(r) BY <1>6, <1>1 DEF ReadToken
<1>7. CASE InsertSuccessor(r) BY <1>7 DEF InsertSuccessor, Kept, TypeOK
<1>8. CASE MarkConsumed(r) BY <1>8, <1>1 DEF MarkConsumed
<1>9. CASE LockTokens(r) BY <1>9 DEF LockTokens, Kept, TypeOK
<1>10. CASE WriteUser(r) BY <1>10 DEF WriteUser, Kept, TypeOK
<1>11. CASE Crash(r) \/ DeadlockVictim(r) BY <1>11, <1>1 DEF Crash, DeadlockVictim
<1> QED BY <1>2, <1>3, <1>4, <1>5, <1>6, <1>7, <1>8, <1>9, <1>10, <1>11 DEF Step

LEMMA ShapeStep ==
  ASSUME TypeOK, Shape, Ownership, [Next]_vars
  PROVE  Shape'
<1> USE NoneAssumption
<1>1. CASE UNCHANGED vars BY <1>1 DEF Shape, vars, WellFormed
<1>2. ASSUME NEW r \in Requests, Arrive(r) \/ Step(r) \/ Crash(r) PROVE Shape'
  <2>1. ASSUME NEW s \in Requests \ {r} PROVE WellFormed(req'[s])
    <3>1. Kept(s) /\ WellFormed(req[s]) BY <1>2, OthersKept DEF Shape
    <3>2. CASE req[s].pc = "idle" BY <3>1, <3>2 DEF Kept
    <3>3. CASE req[s].pc # "idle" BY <3>1, <3>3 DEF Kept, WellFormed, Idle
    <3> QED BY <3>2, <3>3
  <2> SUFFICES WellFormed(req'[r])
    BY <2>1 DEF Shape, WellFormed
  <2> DEFINE q == req[r]
  <2>2. q \in Request /\ WellFormed(q) /\ r \in DOMAIN req BY DEF TypeOK, Shape
  <2>3. CASE Arrive(r)
    <3>0. ASSUME NEW op \in Ops \ {"replay"}, NEW u \in Users, NEW t, NEW new, NEW pass,
                 Start(r, op, u, t, new, pass),
                 IF op \in {"login", "refresh"} THEN new \in Tokens ELSE new = None,
                 IF op \in {"refresh", "logout"} THEN t \in Tokens ELSE t = None,
                 op \in {"login", "reset"} => pass \in Passwords
          PROVE  WellFormed(req'[r])
      <4>1. /\ req'[r].op = op /\ req'[r].pc = "user" /\ req'[r].u = u
            /\ req'[r].t = t /\ req'[r].new = new /\ req'[r].pass = pass
        BY <3>0 DEF Start, Idle, TypeOK
      <4> QED BY <3>0, <4>1 DEF WellFormed
    <3>1. CASE Login(r)
      BY <3>1, <3>0 DEF Login, Unused, Ops
    <3>2. CASE Refresh(r)
      BY <3>2, <3>0 DEF Refresh, Presentable, Ownership, Unused, Ops, Revokers
    <3>3. CASE Logout(r)
      BY <3>3, <3>0 DEF Logout, Presentable, Ownership, Ops, Revokers
    <3>4. CASE AdminOrReset(r)
      BY <3>4, <3>0 DEF AdminOrReset, Ops, Revokers
    <3> QED BY <2>3, <3>1, <3>2, <3>3, <3>4 DEF Arrive
  <2>4. CASE ReadUser(r)
    <3>1. \/ req'[r] = [q EXCEPT !.pc = AfterUser(q.op), !.dirty = Changes(q.op, user[q.u]),
                                 !.overlap = Revoking(q.u)]
          \/ req'[r] = Idle
      BY <2>4, <2>2 DEF ReadUser
    <3>2. q.pc = "user" /\ q # Idle BY <2>4 DEF ReadUser, Idle
    <3>3. /\ q.op \in {"refresh", "logout"} => AfterUser(q.op) = "row"
          /\ q.op \in {"login", "reactivate"} => AfterUser(q.op) = "write"
          /\ q.op \notin {"refresh", "logout", "login", "reactivate"} => AfterUser(q.op) = "delete"
      BY DEF AfterUser
    <3>4. CASE req'[r] # Idle
      <4>1. /\ req'[r].op = q.op /\ req'[r].pc = AfterUser(q.op) /\ req'[r].u = q.u
            /\ req'[r].t = q.t /\ req'[r].new = q.new /\ req'[r].pass = q.pass
        BY <3>1, <3>4, <2>2 DEF Request
      <4>2. q.op # "replay" BY <3>2, <2>2 DEF WellFormed
      <4> QED BY <3>2, <3>3, <4>1, <4>2, <2>2 DEF WellFormed, Ops, Revokers
    <3> QED BY <3>4 DEF WellFormed
  <2>5. CASE ReadToken(r)
    <3>1. \/ req'[r] = [q EXCEPT !.pc = IF q.op = "logout" THEN "mark" ELSE "insert"]
          \/ q.op = "refresh" /\ req'[r] = [q EXCEPT !.pc = "delete", !.op = "replay", !.new = None]
          \/ req'[r] = Idle
      BY <2>5, <2>2 DEF ReadToken
    <3>2. q.pc = "row" /\ q # Idle BY <2>5 DEF ReadToken, Idle
    <3> QED BY <3>1, <3>2, <2>2 DEF WellFormed, Ops, Revokers, Request
  <2>6. CASE InsertSuccessor(r)
    BY <2>6, <2>2 DEF InsertSuccessor, WellFormed, Idle, Request
  <2>7. CASE MarkConsumed(r)
    BY <2>7, <2>2 DEF MarkConsumed, WellFormed, Idle, Request
  <2>8. CASE DeleteTokens(r)
    <3>1. req'[r] = [req[r] EXCEPT !.pc = "lock", !.snap = Rows(req[r].u)]
      BY <2>8, Marked DEF DeleteTokens
    <3>2. req[r].pc = "delete" /\ req[r] # Idle BY <2>8 DEF DeleteTokens, Idle
    <3> QED BY <3>1, <3>2, <2>2 DEF WellFormed, Request
  <2>9. CASE LockTokens(r)
    BY <2>9, <2>2 DEF LockTokens, WellFormed, Idle, Request, Revokers
  <2>10. CASE WriteUser(r)
    BY <2>10, <2>2 DEF WriteUser, WellFormed, Idle, Request
  <2>11. CASE Commit(r)
    BY <2>11, Marked DEF Commit, CommitLogin, CommitRefresh, CommitLogout, CommitReplay,
       CommitDeactivate, CommitReactivate, CommitDelete, CommitReset, Ends, WellFormed
  <2>12. CASE Crash(r) \/ DeadlockVictim(r)
    BY <2>12, <2>2 DEF Crash, DeadlockVictim, WellFormed
  <2> QED BY <1>2, <2>3, <2>4, <2>5, <2>6, <2>7, <2>8, <2>9, <2>10, <2>11, <2>12 DEF Step
<1> QED BY <1>1, <1>2 DEF Next

-----------------------------------------------------------------------------
(* What each step leaves in its own request, when it does not end it *)

Continued(r) ==
  /\ req'[r].u = req[r].u /\ req'[r].t = req[r].t /\ req'[r].pass = req[r].pass
  /\ req'[r].new \in {req[r].new, None}

LEMMA ArriveEffect ==
  ASSUME TypeOK, NEW r \in Requests, Arrive(r)
  PROVE  /\ UNCHANGED <<user, tok>>
         /\ req'[r].pc = "user" /\ req'[r].snap = {}
         /\ req'[r].new # None => req'[r].new \in Unused
         /\ req'[r].t # None => /\ req'[r].t \in Tokens /\ tok[req'[r].t].st # "free"
                                /\ tok[req'[r].t].owner = req'[r].u
<1> USE NoneAssumption
<1>1. ASSUME NEW op, NEW u, NEW t, NEW new, NEW p, Start(r, op, u, t, new, p)
      PROVE  /\ UNCHANGED <<user, tok>>
             /\ req'[r].pc = "user" /\ req'[r].snap = {} /\ req'[r].new = new
             /\ req'[r].t = t /\ req'[r].u = u
  BY <1>1 DEF Start, Idle, TypeOK
<1>2. CASE Login(r) BY <1>2, <1>1 DEF Login
<1>3. CASE Refresh(r) BY <1>3, <1>1 DEF Refresh, Presentable
<1>4. CASE Logout(r) BY <1>4, <1>1 DEF Logout, Presentable
<1>5. CASE AdminOrReset(r) BY <1>5, <1>1 DEF AdminOrReset
<1> QED BY <1>2, <1>3, <1>4, <1>5 DEF Arrive

LEMMA ReadUserEffect ==
  ASSUME TypeOK, Shape, NEW r \in Requests, ReadUser(r), req'[r] # Idle
  PROVE  /\ UNCHANGED <<user, tok>> /\ Continued(r)
         /\ req[r].pc = "user" /\ req'[r].op = req[r].op /\ req'[r].snap = req[r].snap
         /\ req'[r].pc \in {"row", "write", "delete"}
         /\ req'[r].pc = "write" => req[r].op \notin Revokers
         /\ req'[r].overlap <=> Revoking(req[r].u)
         /\ req[r].op \in {"login", "refresh"} => user[req[r].u].active
         /\ req[r].op = "login" => /\ user[req[r].u].pw = req[r].pass
                                   /\ req'[r].dirty => user[req[r].u].old
         /\ req[r].op = "delete" /\ ~req'[r].dirty => ~user[req[r].u].active
<1> DEFINE q == req[r]
<1>1. q \in Request /\ req \in [Requests -> Request] BY DEF TypeOK
<1>2. /\ UNCHANGED <<user, tok>> /\ q.pc = "user" /\ Admitted(q, user[q.u])
      /\ req'[r] = [q EXCEPT !.pc = AfterUser(q.op), !.dirty = Changes(q.op, user[q.u]),
                             !.overlap = Revoking(q.u)]
  BY <1>1 DEF ReadUser
<1>3. /\ req'[r].op = q.op /\ req'[r].u = q.u /\ req'[r].t = q.t /\ req'[r].new = q.new
      /\ req'[r].pass = q.pass /\ req'[r].snap = q.snap /\ req'[r].pc = AfterUser(q.op)
      /\ req'[r].dirty <=> Changes(q.op, user[q.u])
      /\ req'[r].overlap <=> Revoking(q.u)
  BY <1>1, <1>2 DEF Request
<1>4. /\ AfterUser(q.op) \in {"row", "write", "delete"}
      /\ AfterUser(q.op) = "write" => q.op \notin Revokers
  BY DEF AfterUser, Revokers
<1>5. /\ q.op \in {"login", "refresh"} => user[q.u].active
      /\ q.op = "login" => user[q.u].pw = q.pass
  BY <1>2 DEF Admitted
<1> QED BY <1>2, <1>3, <1>4, <1>5 DEF Continued, Changes

LEMMA ReadTokenEffect ==
  ASSUME TypeOK, NEW r \in Requests, ReadToken(r), req'[r] # Idle
  PROVE  /\ UNCHANGED <<user, tok>> /\ Continued(r)
         /\ req[r].pc = "row" /\ req'[r].snap = req[r].snap
         /\ req'[r].overlap <=> req[r].overlap
         /\ \/ req[r].op = "logout" /\ req'[r].op = "logout" /\ req'[r].pc = "mark"
            \/ /\ req[r].op # "logout" /\ req'[r].op = req[r].op /\ req'[r].pc = "insert"
               /\ tok[req[r].t].st = "live"
            \/ req[r].op = "refresh" /\ req'[r].op = "replay" /\ req'[r].pc = "delete"
<1> DEFINE q == req[r]
<1>1. q \in Request /\ req \in [Requests -> Request] BY DEF TypeOK
<1>2. /\ UNCHANGED <<user, tok>> /\ q.pc = "row"
      /\ \/ q.op = "logout" /\ req'[r] = [q EXCEPT !.pc = "mark"]
         \/ q.op # "logout" /\ tok[q.t].st = "live" /\ req'[r] = [q EXCEPT !.pc = "insert"]
         \/ /\ q.op = "refresh"
            /\ req'[r] = [q EXCEPT !.pc = "delete", !.op = "replay", !.new = None]
  BY <1>1 DEF ReadToken
<1> QED BY <1>1, <1>2 DEF Continued, Request

LEMMA LockEffect ==
  ASSUME TypeOK, NEW r \in Requests, req'[r] # Idle,
         InsertSuccessor(r) \/ MarkConsumed(r) \/ LockTokens(r) \/ WriteUser(r)
  PROVE  /\ UNCHANGED <<user, tok>> /\ Continued(r)
         /\ req'[r].op = req[r].op /\ req'[r].snap = req[r].snap
         /\ req'[r].dirty = req[r].dirty /\ req'[r].overlap = req[r].overlap
         /\ \/ req[r].pc = "insert" /\ req'[r].pc = "mark"
            \/ /\ req[r].pc = "mark" /\ req'[r].pc = "commit"
               /\ TokenGranted(r, req[r].t) /\ tok[req[r].t].st # "gone"
            \/ /\ req[r].pc = "lock" /\ req'[r].pc \in {"write", "commit"}
               /\ \A t \in req[r].snap : TokenGranted(r, t)
            \/ req[r].pc = "write" /\ req'[r].pc = "commit"
<1>1. req[r] \in Request /\ req \in [Requests -> Request] BY DEF TypeOK
<1>2. CASE InsertSuccessor(r) BY <1>1, <1>2 DEF InsertSuccessor, Continued, Request
<1>3. CASE MarkConsumed(r) BY <1>1, <1>3 DEF MarkConsumed, Continued, Request
<1>4. CASE LockTokens(r) BY <1>1, <1>4 DEF LockTokens, Continued, Request
<1>5. CASE WriteUser(r) BY <1>1, <1>5 DEF WriteUser, Continued, Request
<1> QED BY <1>2, <1>3, <1>4, <1>5

LEMMA DeleteEffect ==
  ASSUME TypeOK, NEW r \in Requests, DeleteTokens(r)
  PROVE  /\ UNCHANGED <<user, tok>> /\ Continued(r)
         /\ req[r].pc = "delete" /\ req'[r].pc = "lock" /\ req'[r].op = req[r].op
         /\ req'[r].snap = Rows(req[r].u)
         /\ req'[r].dirty = req[r].dirty /\ req'[r].overlap = req[r].overlap
<1>1. req'[r] = [req[r] EXCEPT !.pc = "lock", !.snap = Rows(req[r].u)]
  BY Marked DEF DeleteTokens
<1>2. req[r] \in Request BY DEF TypeOK
<1> QED BY <1>1, <1>2 DEF DeleteTokens, Continued, Request

LEMMA Formed ==
  ASSUME Shape, NEW r \in Requests, req[r].pc # "idle"
  PROVE  /\ req[r].op \in Ops /\ req[r].u \in Users
         /\ IF req[r].op \in {"login", "refresh"} THEN req[r].new \in Tokens ELSE req[r].new = None
         /\ IF req[r].op \in {"refresh", "logout", "replay"}
            THEN req[r].t \in Tokens ELSE req[r].t = None
         /\ req[r].op \in {"login", "reset"} => req[r].pass \in Passwords
         /\ req[r].pc \in {"row", "mark"} => req[r].op \in {"refresh", "logout"}
         /\ req[r].pc = "insert" => req[r].op = "refresh"
         /\ req[r].pc \in {"delete", "lock"} => req[r].op \in Revokers
         /\ req[r].pc = "write" => req[r].op \notin {"refresh", "logout"}
         /\ req[r].op = "replay" => req[r].pc \notin {"user", "write"}
BY DEF Shape, WellFormed, Idle

LEMMA CommitEffect ==
  ASSUME TypeOK, Shape, Ownership, NEW r \in Requests, Commit(r)
  PROVE  /\ req'[r] = Idle /\ req[r].pc = "commit" /\ req[r].u \in Users
         /\ req[r].op \in {"login", "refresh"} => req[r].new \in Tokens
         /\ req[r].op \in {"refresh", "logout"} => req[r].t \in Tokens
         /\ \A s \in Requests \ {r} : Disturbs(r, s) => req'[s].overlap
         /\ \A t \in Tokens :
              /\ tok[t].st # "free" =>
                   /\ tok'[t].st # "free" /\ tok'[t].owner = tok[t].owner
                   /\ tok'[t].from = tok[t].from /\ tok'[t].late = tok[t].late
              /\ tok[t] = Free => tok'[t] = Free \/ (t = req[r].new /\ tok'[t] = Minted(req[r]))
<1> USE NoneAssumption
<1> DEFINE q == req[r]
<1>1. \E op \in Ops : Ends(r, op)
  BY DEF Commit, CommitLogin, CommitRefresh, CommitLogout, CommitReplay, CommitDeactivate,
     CommitReactivate, CommitDelete, CommitReset, Ops, Revokers
<1>2. /\ req'[r] = Idle /\ req[r].pc = "commit"
      /\ \A s \in Requests \ {r} : Disturbs(r, s) => req'[s].overlap
  BY <1>1, Marked DEF Ends
<1>3. /\ q.u \in Users
      /\ q.op \in {"login", "refresh"} => q.new \in Tokens /\ tok[q.new] = Free
      /\ q.op \in {"refresh", "logout"} => q.t \in Tokens /\ tok[q.t].st # "free"
      /\ \A t \in q.snap : tok[t].st # "free"
  BY <1>2 DEF Shape, WellFormed, Idle, Ownership
<1> SUFFICES ASSUME NEW t \in Tokens
             PROVE  /\ tok[t].st # "free" =>
                         /\ tok'[t].st # "free" /\ tok'[t].owner = tok[t].owner
                         /\ tok'[t].from = tok[t].from /\ tok'[t].late = tok[t].late
                    /\ tok[t] = Free => tok'[t] = Free \/ (t = q.new /\ tok'[t] = Minted(q))
  BY <1>2, <1>3
<1>4. tok \in [Tokens -> TokenRow] /\ tok[t] \in TokenRow /\ Free.st = "free"
  BY DEF TypeOK, Free
<1>5. CASE CommitLogin(r)
  BY <1>5, <1>3, <1>4 DEF CommitLogin, Ends
<1>6. CASE CommitRefresh(r)
  BY <1>6, <1>3, <1>4 DEF CommitRefresh, Ends, TokenRow
<1>7. CASE CommitLogout(r)
  BY <1>7, <1>3, <1>4 DEF CommitLogout, Ends, TokenRow
<1>8. CASE tok' = Revoked(r)
  BY <1>8, <1>3, <1>4 DEF Revoked, TokenRow
<1>9. CASE UNCHANGED tok
  BY <1>9
<1> QED BY <1>5, <1>6, <1>7, <1>8, <1>9 DEF Commit, CommitReplay, CommitDeactivate,
        CommitReactivate, CommitDelete, CommitReset

Quits(r) == req'[r] = Idle /\ UNCHANGED <<user, tok>>
Locks(r) == InsertSuccessor(r) \/ MarkConsumed(r) \/ LockTokens(r) \/ WriteUser(r)

LEMMA StepCases ==
  ASSUME TypeOK, Next
  PROVE  \E r \in Requests :
            /\ \A s \in Requests \ {r} : Kept(s)
            /\ Commit(r) \/ UNCHANGED <<user, tok>>
            /\ \/ Arrive(r) \/ Quits(r) \/ DeleteTokens(r) \/ Commit(r)
               \/ req'[r] # Idle /\ (ReadUser(r) \/ ReadToken(r) \/ Locks(r))
<1>1. PICK r \in Requests : Arrive(r) \/ Step(r) \/ Crash(r) BY DEF Next
<1>2. \A s \in Requests \ {r} : Kept(s) BY <1>1, OthersKept
<1>3. Crash(r) \/ DeadlockVictim(r) => Quits(r)
  BY DEF Crash, DeadlockVictim, Quits, TypeOK
<1>4. ReadUser(r) \/ ReadToken(r) \/ Locks(r) => Quits(r) \/ req'[r] # Idle
  BY DEF ReadUser, ReadToken, Locks, InsertSuccessor, MarkConsumed, LockTokens, WriteUser, Quits
<1>5. Arrive(r) \/ Quits(r) \/ DeleteTokens(r) \/ ReadUser(r) \/ ReadToken(r) \/ Locks(r)
      => UNCHANGED <<user, tok>>
  BY DEF Arrive, Login, Refresh, Logout, AdminOrReset, Start, Quits, DeleteTokens, ReadUser,
     ReadToken, Locks, InsertSuccessor, MarkConsumed, LockTokens, WriteUser
<1> QED BY <1>1, <1>2, <1>3, <1>4, <1>5 DEF Step, Locks

LEMMA OwnershipStep ==
  ASSUME TypeOK, Shape, Ownership, Reservation, [Next]_vars
  PROVE  Ownership'
<1> USE NoneAssumption
<1>1. CASE UNCHANGED vars BY <1>1 DEF Ownership, vars, Free
<1>2. CASE Next
  <2>1. PICK r \in Requests :
            /\ \A s \in Requests \ {r} : Kept(s)
            /\ Commit(r) \/ UNCHANGED <<user, tok>>
            /\ \/ Arrive(r) \/ Quits(r) \/ DeleteTokens(r) \/ Commit(r)
               \/ req'[r] # Idle /\ (ReadUser(r) \/ ReadToken(r) \/ Locks(r))
    BY <1>2, StepCases
  <2>2. ASSUME UNCHANGED tok,
               req'[r].t # None =>
                  tok[req'[r].t].st # "free" /\ tok[req'[r].t].owner = req'[r].u,
               req'[r].new # None => tok[req'[r].new] = Free,
               \A t \in req'[r].snap : tok[t].st # "free" /\ tok[t].owner = req'[r].u
        PROVE  Ownership'
    <3>1. ASSUME NEW s \in Requests
          PROVE  /\ req'[s].t # None =>
                      tok[req'[s].t].st # "free" /\ tok[req'[s].t].owner = req'[s].u
                 /\ req'[s].new # None => tok[req'[s].new] = Free
                 /\ \A t \in req'[s].snap : tok[t].st # "free" /\ tok[t].owner = req'[s].u
      BY <2>1, <2>2 DEF Ownership, Kept
    <3> QED BY <3>1, <2>2 DEF Ownership, Free
  <2>3. CASE Arrive(r)
    <3>1. \A n \in Unused : tok[n] = Free BY DEF Unused, Ownership
    <3> QED BY <2>2, <2>3, <3>1, ArriveEffect
  <2>4. CASE Quits(r) BY <2>2, <2>4 DEF Quits, Idle
  <2>5. CASE req'[r] # Idle /\ ReadUser(r)
    BY <2>2, <2>5, ReadUserEffect DEF Ownership, Continued
  <2>6. CASE req'[r] # Idle /\ ReadToken(r)
    BY <2>2, <2>6, ReadTokenEffect DEF Ownership, Continued
  <2>7. CASE req'[r] # Idle /\ Locks(r)
    BY <2>2, <2>7, LockEffect DEF Ownership, Continued, Locks
  <2>8. CASE DeleteTokens(r)
    BY <2>2, <2>8, DeleteEffect DEF Ownership, Continued, Rows, Stored
  <2>9. CASE Commit(r)
    <3>1. \A t \in Tokens : IF tok'[t].st = "free" THEN tok'[t] = Free ELSE tok'[t].owner \in Users
      <4> TAKE t \in Tokens
      <4>1. CASE tok[t] = Free
        <5>1. tok'[t] = Free \/ tok'[t] = Minted(req[r])
          BY <4>1, <2>9, CommitEffect
        <5>2. Minted(req[r]).owner = req[r].u /\ Minted(req[r]).st = "live"
          BY DEF Minted
        <5> QED BY <5>1, <5>2, <2>9, CommitEffect DEF Free
      <4>2. CASE tok[t] # Free BY <4>2, <2>9, CommitEffect DEF Ownership
      <4> QED BY <4>1, <4>2
    <3>2. ASSUME NEW s \in Requests
          PROVE  /\ req'[s].t # None => tok'[req'[s].t].st # "free" /\ tok'[req'[s].t].owner = req'[s].u
                 /\ req'[s].new # None => tok'[req'[s].new] = Free
                 /\ \A t \in req'[s].snap : tok'[t].st # "free" /\ tok'[t].owner = req'[s].u
      <4>1. CASE s = r BY <4>1, <2>9, CommitEffect DEF Idle
      <4>2. CASE s # r
        <5>1. Kept(s) /\ req[s] \in Request BY <2>1, <4>2 DEF TypeOK
        <5>2. /\ req[s].t \in Tokens \cup {None} /\ req[s].new \in Tokens \cup {None}
              /\ req[s].snap \subseteq Tokens
          BY <5>1 DEF Request
        <5>3. req[s].new # None => req[s].new # req[r].new
          BY <4>2 DEF Reservation
        <5> QED BY <5>1, <5>2, <5>3, <2>9, CommitEffect DEF Ownership, Kept
      <4> QED BY <4>1, <4>2
    <3> QED BY <3>1, <3>2 DEF Ownership, Free
  <2> QED BY <2>1, <2>3, <2>4, <2>5, <2>6, <2>7, <2>8, <2>9
<1> QED BY <1>1, <1>2

LEMMA ReservationStep ==
  ASSUME TypeOK, Shape, Ownership, Reservation, [Next]_vars
  PROVE  Reservation'
<1>1. CASE UNCHANGED vars BY <1>1 DEF Reservation, vars
<1>2. CASE Next
  <2>1. PICK r \in Requests :
            /\ \A s \in Requests \ {r} : Kept(s)
            /\ Commit(r) \/ UNCHANGED <<user, tok>>
            /\ \/ Arrive(r) \/ Quits(r) \/ DeleteTokens(r) \/ Commit(r)
               \/ req'[r] # Idle /\ (ReadUser(r) \/ ReadToken(r) \/ Locks(r))
    BY <1>2, StepCases
  <2>2. req'[r].new \in Unused \/ req'[r].new \in {req[r].new, None}
    <3>1. CASE Arrive(r) BY <3>1, ArriveEffect
    <3>2. CASE Quits(r) BY <3>2 DEF Quits, Idle
    <3>3. CASE DeleteTokens(r) BY <3>3, DeleteEffect DEF Continued
    <3>4. CASE Commit(r) BY <3>4, CommitEffect DEF Idle
    <3>5. CASE req'[r] # Idle /\ (ReadUser(r) \/ ReadToken(r) \/ Locks(r))
      BY <3>5, ReadUserEffect, ReadTokenEffect, LockEffect DEF Continued, Locks
    <3> QED BY <2>1, <3>1, <3>2, <3>3, <3>4, <3>5
  <2>3. \A s \in Requests \ {r} : req'[s].new = req[s].new
    BY <2>1 DEF Kept
  <2> QED BY <2>2, <2>3 DEF Reservation, Unused
<1> QED BY <1>1, <1>2

\* A commit writes the row it inserts and rows it has locked.
LEMMA CommitTouches ==
  ASSUME TypeOK, NEW r \in Requests, Commit(r), NEW t \in Tokens, t # req[r].new
  PROVE  tok'[t] = tok[t] \/ HoldsToken(r, t)
<1>1. tok \in [Tokens -> TokenRow] BY DEF TypeOK
<1>2. CASE CommitLogin(r) BY <1>1, <1>2 DEF CommitLogin
<1>3. CASE CommitRefresh(r) BY <1>1, <1>3 DEF CommitRefresh, Ends, HoldsToken
<1>4. CASE CommitLogout(r) BY <1>1, <1>4 DEF CommitLogout, Ends, HoldsToken
<1>5. ASSUME NEW op \in Revokers, Ends(r, op), tok' = Revoked(r)
      PROVE  tok'[t] = tok[t] \/ HoldsToken(r, t)
  BY <1>1, <1>5 DEF Revoked, Ends, HoldsToken
<1> QED BY <1>2, <1>3, <1>4, <1>5 DEF Commit, CommitReplay, CommitDeactivate,
        CommitReactivate, CommitDelete, CommitReset, Revokers

LEMMA TokenLocksStep ==
  ASSUME TypeOK, Shape, Ownership, TokenLocks, [Next]_vars
  PROVE  TokenLocks'
<1> USE NoneAssumption
<1>1. CASE UNCHANGED vars BY <1>1 DEF TokenLocks, vars, HoldsToken, Stored
<1>2. CASE Next
  <2>1. PICK r \in Requests :
            /\ \A s \in Requests \ {r} : Kept(s)
            /\ Commit(r) \/ UNCHANGED <<user, tok>>
            /\ \/ Arrive(r) \/ Quits(r) \/ DeleteTokens(r) \/ Commit(r)
               \/ req'[r] # Idle /\ (ReadUser(r) \/ ReadToken(r) \/ Locks(r))
    BY <1>2, StepCases
  <2>2. \A s \in Requests \ {r}, t \in Tokens : HoldsToken(s, t)' <=> HoldsToken(s, t)
    BY <2>1 DEF Kept, HoldsToken
  <2>3. \A t \in Tokens : HoldsToken(r, t)' => HoldsToken(r, t) \/ TokenGranted(r, t)
    <3>1. CASE Arrive(r) BY <3>1, ArriveEffect DEF HoldsToken
    <3>2. CASE Quits(r) BY <3>2 DEF Quits, Idle, HoldsToken
    <3>3. CASE DeleteTokens(r) BY <3>3, DeleteEffect DEF HoldsToken
    <3>4. CASE Commit(r) BY <3>4, CommitEffect DEF Idle, HoldsToken
    <3>5. CASE req'[r] # Idle /\ ReadUser(r)
      BY <3>5, ReadUserEffect DEF HoldsToken
    <3>6. CASE req'[r] # Idle /\ ReadToken(r)
      BY <3>6, ReadTokenEffect DEF HoldsToken
    <3>7. CASE req'[r] # Idle /\ Locks(r)
      <4>1. /\ req[r].pc = "mark" => req[r].op \in {"refresh", "logout"}
            /\ req[r].pc = "lock" => req[r].op \in Revokers
            /\ req[r].pc = "write" => req[r].op \notin {"refresh", "logout"}
            /\ {"refresh", "logout"} \cap Revokers = {}
        BY DEF Shape, WellFormed, Idle, Revokers
      <4> QED BY <3>7, <4>1, LockEffect DEF Locks, HoldsToken, Continued
    <3> QED BY <2>1, <3>1, <3>2, <3>3, <3>4, <3>5, <3>6, <3>7
  <2>4. \A s1, s2 \in Requests, t \in Tokens : HoldsToken(s1, t)' /\ HoldsToken(s2, t)' => s1 = s2
    BY <2>2, <2>3 DEF TokenLocks, TokenGranted
  <2>5. ASSUME NEW s \in Requests, req'[s].op \in {"refresh", "logout"}, req'[s].pc = "commit"
        PROVE  Stored(req[s].t)' /\ req'[s].t = req[s].t
    <3>1. CASE s # r
      <4>1. /\ req'[s].t = req[s].t /\ Stored(req[s].t) /\ req[s].t \in Tokens
            /\ HoldsToken(s, req[s].t)
        BY <3>1, <2>1, <2>5 DEF Kept, TokenLocks, Shape, WellFormed, Idle, HoldsToken
      <4>2. CASE Commit(r)
        <5>1. ~HoldsToken(r, req[s].t) BY <3>1, <4>1 DEF TokenLocks
        <5>2. req[r].new # None => tok[req[r].new].st = "free" BY DEF Ownership, Free
        <5>3. req[s].t # req[r].new BY <5>2, <4>1 DEF Stored
        <5>4. tok'[req[s].t] = tok[req[s].t] BY <4>1, <4>2, <5>1, <5>3, CommitTouches
        <5> QED BY <4>1, <5>4 DEF Stored
      <4>3. CASE ~Commit(r)
        BY <4>1, <4>3, <2>1 DEF Stored
      <4> QED BY <4>2, <4>3
    <3>2. CASE s = r
      <4>1. req'[r].op \in {"refresh", "logout"} /\ req'[r].pc = "commit" /\ req'[r] # Idle
        BY <3>2, <2>5 DEF Idle
      <4>2. ~Arrive(r) /\ ~Quits(r) /\ ~DeleteTokens(r) /\ ~Commit(r)
        BY <4>1, ArriveEffect, DeleteEffect, CommitEffect DEF Quits
      <4>3. ~ReadUser(r) /\ ~ReadToken(r)
        BY <4>1, ReadUserEffect, ReadTokenEffect
      <4>4. Locks(r) BY <2>1, <4>2, <4>3
      <4>5. /\ UNCHANGED tok /\ req'[r].op = req[r].op /\ req'[r].t = req[r].t
            /\ req[r].pc \in {"mark", "lock", "write"}
            /\ req[r].pc = "mark" => tok[req[r].t].st # "gone"
        BY <4>1, <4>4, LockEffect DEF Locks, Continued
      <4>6. req[r].pc = "mark" /\ req[r].t \in Tokens
        BY <4>1, <4>5 DEF Shape, WellFormed, Idle, Revokers
      <4>7. tok[req[r].t] \in TokenRow /\ tok[req[r].t].st # "free"
        BY <4>6 DEF TypeOK, Ownership
      <4> QED BY <3>2, <4>5, <4>6, <4>7 DEF Stored, TokenRow
    <3> QED BY <3>1, <3>2
  <2> QED BY <2>4, <2>5 DEF TokenLocks, Stored
<1> QED BY <1>1, <1>2

\* Which commits change what in a users row.
LEMMA UserTouches ==
  ASSUME TypeOK, Shape, NEW r \in Requests, Commit(r), NEW u \in Users
  PROVE  /\ u # req[r].u => user'[u] = user[u]
         /\ user'[u].active # user[u].active => req[r].op \in Revokers \cup {"reactivate"}
         /\ user[u].active /\ ~user'[u].active => req[r].op \in Revokers
         /\ user'[u].pw # user[u].pw =>
              \/ req[r].op = "reset"
              \/ req[r].op = "login" /\ req[r].dirty /\ user'[u].pw = req[r].pass
         /\ user'[u].old => user[u].old /\ user'[u].pw = user[u].pw
<1>1. user \in [Users -> UserRow] /\ user[u] \in UserRow BY DEF TypeOK
<1>2. CASE CommitLogin(r) BY <1>1, <1>2 DEF CommitLogin, Ends, UserRow
<1>3. CASE CommitRefresh(r) BY <1>3 DEF CommitRefresh
<1>4. CASE CommitLogout(r) BY <1>4 DEF CommitLogout
<1>5. CASE CommitReplay(r) BY <1>5 DEF CommitReplay
<1>6. CASE CommitDeactivate(r) BY <1>1, <1>6 DEF CommitDeactivate, Ends, UserRow, Revokers
<1>7. CASE CommitReactivate(r) BY <1>1, <1>7 DEF CommitReactivate, Ends, UserRow
<1>8. CASE CommitDelete(r) BY <1>1, <1>8 DEF CommitDelete, Ends, UserRow, Revokers
<1>9. CASE CommitReset(r) BY <1>1, <1>9 DEF CommitReset, Ends, UserRow, Revokers
<1> QED BY <1>2, <1>3, <1>4, <1>5, <1>6, <1>7, <1>8, <1>9 DEF Commit

LEMMA ReadsHoldStep ==
  ASSUME TypeOK, Shape, Ownership, ReadsHold, OneOldHash, [Next]_vars
  PROVE  ReadsHold'
<1> USE NoneAssumption
<1> DEFINE Goal(s) ==
      HasRead(s) /\ ~req[s].overlap =>
        /\ req[s].op \in {"login", "refresh"} => user[req[s].u].active
        /\ Rotating(s) => tok[req[s].t].st = "live"
        /\ req[s].op = "delete" /\ ~req[s].dirty => ~user[req[s].u].active
        /\ Rehashing(s) => user[req[s].u].pw = req[s].pass
<1>1. CASE UNCHANGED vars BY <1>1 DEF ReadsHold, vars, HasRead, Rotating, Rehashing
<1>2. CASE Next
  <2>1. PICK r \in Requests :
            /\ \A s \in Requests \ {r} : Kept(s)
            /\ Commit(r) \/ UNCHANGED <<user, tok>>
            /\ \/ Arrive(r) \/ Quits(r) \/ DeleteTokens(r) \/ Commit(r)
               \/ req'[r] # Idle /\ (ReadUser(r) \/ ReadToken(r) \/ Locks(r))
    BY <1>2, StepCases
  <2>2. ASSUME NEW s \in Requests \ {r} PROVE Goal(s)'
    <3>1. SUFFICES ASSUME HasRead(s)', ~req'[s].overlap PROVE Goal(s)'
      OBVIOUS
    <3>2. Kept(s) /\ HasRead(s) /\ ~req[s].overlap BY <2>1, <3>1 DEF Kept, HasRead
    <3>3. Goal(s) BY DEF ReadsHold
    <3>4. req[s].u \in Users BY <3>2 DEF Shape, WellFormed, HasRead, Idle
    <3>5. CASE ~Commit(r)
      BY <2>1, <3>2, <3>3, <3>5 DEF Kept, HasRead, Rotating, Rehashing
    <3>6. CASE Commit(r)
      <4>1. ~Disturbs(r, s) BY <3>1, <3>6, CommitEffect
      <4>2. req[s].u = req[r].u =>
               req[r].op \notin Revokers \cup {"reactivate"} /\ (req[r].t # None => req[r].t # req[s].t)
        BY <3>2, <4>1 DEF Disturbs, HasRead
      <4>3. user'[req[s].u].active = user[req[s].u].active
        BY <3>4, <3>6, <4>2, UserTouches
      <4>4. Rotating(s) => tok'[req[s].t].st = "live"
        <5>1. SUFFICES ASSUME Rotating(s) PROVE tok'[req[s].t].st = "live"
          OBVIOUS
        <5>2. /\ req[s].t \in Tokens /\ tok[req[s].t].st = "live"
              /\ tok[req[s].t].owner = req[s].u /\ req[s].t # req[r].new
          BY <5>1, <3>2, <3>3 DEF Rotating, Shape, WellFormed, HasRead, Idle, Ownership, Free
        <5>3. HoldsToken(r, req[s].t) => req[r].u = req[s].u
          BY <5>2 DEF HoldsToken, Ownership
        <5>4. ~HoldsToken(r, req[s].t) BY <5>2, <5>3, <4>2 DEF HoldsToken
        <5> QED BY <5>2, <5>4, <3>6, CommitTouches
      <4>5. Rehashing(s) => user'[req[s].u].pw = req[s].pass
        <5>1. SUFFICES ASSUME Rehashing(s), user'[req[s].u].pw # user[req[s].u].pw
                       PROVE  user'[req[s].u].pw = req[s].pass
          BY <3>2, <3>3
        <5>2. req[s].u = req[r].u BY <5>1, <3>4, <3>6, UserTouches
        <5>3. req[r].op = "login" /\ req[r].dirty /\ user'[req[s].u].pw = req[r].pass
          BY <5>1, <5>2, <4>2, <3>4, <3>6, UserTouches DEF Revokers
        <5>4. Rehashing(r) BY <5>3, <3>6, CommitEffect DEF Rehashing, HasRead
        <5> QED BY <5>1, <5>2, <5>3, <5>4 DEF OneOldHash
      <4> QED BY <3>2, <3>3, <4>3, <4>4, <4>5 DEF Kept, HasRead, Rotating, Rehashing
    <3> QED BY <3>5, <3>6
  <2>3. Goal(r)'
    <3>1. CASE Arrive(r) BY <3>1, ArriveEffect DEF HasRead
    <3>2. CASE Quits(r) \/ Commit(r) BY <3>2, CommitEffect DEF Quits, Idle, HasRead
    <3>3. CASE req'[r] # Idle /\ ReadUser(r)
      BY <3>3, ReadUserEffect DEF Continued, Rotating, Rehashing
    <3>4. CASE req'[r] # Idle /\ ReadToken(r)
      <4>1. req[r].op \in {"refresh", "logout"} /\ HasRead(r)
        BY <3>4, ReadTokenEffect, Formed DEF HasRead
      <4> QED BY <3>4, <4>1, ReadTokenEffect DEF ReadsHold, Continued, HasRead, Rotating, Rehashing
    <3>5. CASE req'[r] # Idle /\ Locks(r)
      <4>1. HasRead(r) /\ (Rotating(r)' => Rotating(r))
        BY <3>5, LockEffect, Formed DEF Locks, HasRead, Rotating, Revokers
      <4> QED BY <3>5, <4>1, LockEffect DEF Locks, ReadsHold, Continued, Rehashing
    <3>6. CASE DeleteTokens(r)
      <4>1. HasRead(r) /\ ~Rotating(r)'
        BY <3>6, DeleteEffect DEF HasRead, Rotating
      <4> QED BY <3>6, <4>1, DeleteEffect DEF ReadsHold, Continued, Rehashing
    <3> QED BY <2>1, <3>1, <3>2, <3>3, <3>4, <3>5, <3>6
  <2> QED BY <2>2, <2>3 DEF ReadsHold
<1> QED BY <1>1, <1>2

\* What a commit does to one token.
LEMMA CommitToken ==
  ASSUME TypeOK, Shape, Ownership, TokenLocks, NEW r \in Requests, Commit(r), NEW t \in Tokens
  PROVE  /\ \/ tok'[t] = tok[t]
            \/ /\ req[r].op \in {"login", "refresh"} /\ t = req[r].new
               /\ tok[t] = Free /\ tok'[t] = Minted(req[r])
            \/ /\ Stored(t) /\ tok'[t].st \in {"consumed", "gone"}
               /\ tok'[t].owner = tok[t].owner /\ tok'[t].from = tok[t].from
               /\ tok'[t].late = tok[t].late
               /\ \/ tok'[t].next = tok[t].next
                  \/ /\ req[r].op = "refresh" /\ t = req[r].t
                     /\ tok'[t].st = "consumed" /\ tok'[t].next = req[r].new
         /\ req[r].op = "refresh" /\ t = req[r].t => tok'[t].st = "consumed"
         /\ req[r].op = "refresh" /\ t = req[r].new => tok'[t] = Minted(req[r])
         /\ req[r].op \in Revokers /\ t \in req[r].snap => tok'[t].st = "gone"
         /\ tok'[t].st = "gone" /\ tok[t].st # "gone" => req[r].op \in Revokers /\ t \in req[r].snap
<1> USE NoneAssumption
<1> DEFINE q == req[r]
<1>1. tok \in [Tokens -> TokenRow] /\ tok[t] \in TokenRow BY DEF TypeOK
<1>2. /\ q.pc = "commit"
      /\ q.op \in {"login", "refresh"} => q.new \in Tokens /\ tok[q.new] = Free
      /\ q.op \in {"refresh", "logout"} => q.t \in Tokens /\ Stored(q.t)
      /\ \A n \in q.snap : tok[n].st # "free"
  BY CommitEffect DEF Ownership, TokenLocks
<1>3. CASE CommitLogin(r)
  BY <1>1, <1>2, <1>3 DEF CommitLogin, Ends, Revokers, TokenRow, Free, Minted
<1>4. CASE CommitRefresh(r)
  <2>1. q.op = "refresh" /\ q.new # q.t /\ ~(q.op \in Revokers)
    BY <1>2, <1>4 DEF CommitRefresh, Ends, Stored, Free, Revokers
  <2>2. tok' = [tok EXCEPT ![q.t].st = "consumed", ![q.t].next = q.new, ![q.new] = Minted(q)]
    BY <1>4 DEF CommitRefresh
  <2>3. CASE t = q.new
    BY <1>1, <1>2, <2>1, <2>2, <2>3 DEF Minted
  <2>4. CASE t = q.t
    BY <1>1, <1>2, <2>1, <2>2, <2>4 DEF TokenRow
  <2>5. CASE t \notin {q.t, q.new}
    BY <1>1, <1>2, <2>1, <2>2, <2>5
  <2> QED BY <2>3, <2>4, <2>5
<1>5. CASE CommitLogout(r)
  BY <1>1, <1>2, <1>5 DEF CommitLogout, Ends, Revokers, TokenRow
<1>6. ASSUME q.op \in Revokers, tok' = Revoked(r)
      PROVE  /\ tok'[t] = IF t \in q.snap THEN [tok[t] EXCEPT !.st = "gone"] ELSE tok[t]
             /\ q.op \notin {"login", "refresh"}
  BY <1>6 DEF Revoked, Revokers
<1>7. CASE q.op \in Revokers /\ tok' = Revoked(r)
  BY <1>1, <1>2, <1>6, <1>7 DEF TokenRow, Stored
<1>8. CASE CommitReactivate(r)
  BY <1>8 DEF CommitReactivate, Ends, Revokers
<1> QED BY <1>3, <1>4, <1>5, <1>7, <1>8 DEF Commit, Ends, CommitReplay, CommitDeactivate,
        CommitDelete, CommitReset, Revokers

LEMMA OneOldHashStep ==
  ASSUME TypeOK, Shape, Ownership, OneOldHash, [Next]_vars
  PROVE  OneOldHash'
<1>1. CASE UNCHANGED vars BY <1>1 DEF OneOldHash, vars, HasRead, Rehashing
<1>2. CASE Next
  <2>1. PICK r \in Requests :
            /\ \A s \in Requests \ {r} : Kept(s)
            /\ Commit(r) \/ UNCHANGED <<user, tok>>
            /\ \/ Arrive(r) \/ Quits(r) \/ DeleteTokens(r) \/ Commit(r)
               \/ req'[r] # Idle /\ (ReadUser(r) \/ ReadToken(r) \/ Locks(r))
    BY <1>2, StepCases
  <2> DEFINE Fresh(s) == /\ UNCHANGED user
                         /\ user[req'[s].u].old /\ user[req'[s].u].pw = req'[s].pass
             Same(s) == Rehashing(s) /\ req'[s].u = req[s].u /\ req'[s].pass = req[s].pass
  <2>2. ASSUME NEW s \in Requests, Rehashing(s)' PROVE Same(s) \/ (Fresh(s) /\ s = r)
    <3>1. CASE s # r BY <2>1, <2>2, <3>1 DEF Kept, Rehashing, HasRead
    <3>2. CASE s = r
      <4>1. ~Arrive(r) /\ ~Quits(r) /\ ~Commit(r)
        BY <2>2, <3>2, ArriveEffect, CommitEffect DEF Quits, Idle, Rehashing, HasRead
      <4>2. CASE req'[r] # Idle /\ ReadUser(r)
        BY <2>2, <3>2, <4>2, ReadUserEffect DEF Rehashing, Continued
      <4>3. CASE req'[r] # Idle /\ ReadToken(r)
        BY <2>2, <3>2, <4>3, ReadTokenEffect, Formed DEF Rehashing
      <4>4. CASE req'[r] # Idle /\ Locks(r)
        BY <2>2, <3>2, <4>4, LockEffect DEF Locks, Rehashing, HasRead, Continued
      <4>5. CASE DeleteTokens(r)
        BY <2>2, <3>2, <4>5, DeleteEffect DEF Rehashing, HasRead, Continued
      <4> QED BY <2>1, <4>1, <4>2, <4>3, <4>4, <4>5
    <3> QED BY <3>1, <3>2
  <2>3. ASSUME NEW s \in Requests, Rehashing(s)', user'[req'[s].u].old
        PROVE  user'[req'[s].u].pw = req'[s].pass
    <3>1. CASE Fresh(s) BY <3>1
    <3>2. CASE Same(s)
      <4>1. req[s].u \in Users BY <3>2, Formed DEF Rehashing, HasRead
      <4>2. user[req[s].u].old /\ user'[req[s].u].pw = user[req[s].u].pw
        BY <2>1, <2>3, <3>2, <4>1, UserTouches
      <4> QED BY <3>2, <4>2 DEF OneOldHash
    <3> QED BY <2>2, <2>3, <3>1, <3>2
  <2>4. ASSUME NEW s1 \in Requests, NEW s2 \in Requests, Rehashing(s1)', Rehashing(s2)',
               req'[s1].u = req'[s2].u
        PROVE  req'[s1].pass = req'[s2].pass
    <3>1. Same(s1) \/ (Fresh(s1) /\ s1 = r) BY <2>2, <2>4
    <3>2. Same(s2) \/ (Fresh(s2) /\ s2 = r) BY <2>2, <2>4
    <3> QED BY <2>4, <3>1, <3>2 DEF OneOldHash
  <2> QED BY <2>3, <2>4 DEF OneOldHash
<1> QED BY <1>1, <1>2

LEMMA RevocationCoversStep ==
  ASSUME TypeOK, Shape, Ownership, TokenLocks, RevocationCovers, [Next]_vars
  PROVE  RevocationCovers'
<1> USE NoneAssumption
<1>1. CASE UNCHANGED vars BY <1>1 DEF RevocationCovers, vars, Deleting, Stored, HasRead
<1>2. CASE Next
  <2>1. PICK r \in Requests :
            /\ \A s \in Requests \ {r} : Kept(s)
            /\ Commit(r) \/ UNCHANGED <<user, tok>>
            /\ \/ Arrive(r) \/ Quits(r) \/ DeleteTokens(r) \/ Commit(r)
               \/ req'[r] # Idle /\ (ReadUser(r) \/ ReadToken(r) \/ Locks(r))
    BY <1>2, StepCases
  <2>2. ASSUME NEW d \in Requests, Deleting(d)'
        PROVE  \/ DeleteTokens(r) /\ d = r
               \/ /\ Deleting(d) /\ req'[d].u = req[d].u /\ req'[d].snap = req[d].snap
                  /\ d = r => Locks(r)
    <3>1. CASE d # r BY <2>1, <2>2, <3>1 DEF Kept, Deleting
    <3>2. CASE d = r
      <4>1. ~Arrive(r) /\ ~Quits(r) /\ ~Commit(r)
        BY <2>2, <3>2, ArriveEffect, CommitEffect DEF Quits, Idle, Deleting
      <4>2. ~(req'[r] # Idle /\ (ReadUser(r) \/ ReadToken(r)))
        BY <2>2, <3>2, ReadUserEffect, ReadTokenEffect DEF Deleting
      <4>3. CASE req'[r] # Idle /\ Locks(r)
        BY <2>2, <3>2, <4>3, LockEffect, Formed DEF Locks, Deleting, Continued, Revokers
      <4> QED BY <2>1, <3>2, <4>1, <4>2, <4>3
    <3> QED BY <3>1, <3>2
  <2>3. ASSUME NEW d \in Requests, Deleting(d)', NEW t \in Tokens, Stored(t)',
               tok'[t].owner = req'[d].u
        PROVE  t \in req'[d].snap \/ (tok'[t].late /\ tok'[t].next \notin req'[d].snap)
    <3>1. CASE DeleteTokens(r) /\ d = r
      BY <2>3, <3>1, DeleteEffect DEF Continued, Rows, Stored
    <3>2. CASE Deleting(d) /\ req'[d].u = req[d].u /\ req'[d].snap = req[d].snap /\ ~Commit(r)
      BY <2>1, <2>3, <3>2 DEF RevocationCovers, Stored
    <3>3. CASE Deleting(d) /\ req'[d].u = req[d].u /\ req'[d].snap = req[d].snap /\ Commit(r)
      <4>1. d # r /\ req[r].pc = "commit"
        BY <2>3, <3>3, CommitEffect DEF Deleting, Idle
      <4>2. req[d].snap \subseteq Tokens BY DEF TypeOK, Request
      <4>3. CASE tok'[t] = tok[t]
        BY <2>3, <3>3, <4>3 DEF RevocationCovers, Stored
      <4>4. CASE tok[t] = Free /\ tok'[t] = Minted(req[r])
        <5>1. tok'[t].owner = req[r].u /\ tok'[t].late = req[r].overlap /\ tok'[t].next = None
          BY <4>4 DEF Minted
        <5>2. req[r].overlap
          BY <2>3, <3>3, <4>1, <5>1 DEF RevocationCovers, HasRead
        <5> QED BY <3>3, <4>2, <5>1, <5>2
      <4>5. CASE /\ Stored(t) /\ tok'[t].owner = tok[t].owner /\ tok'[t].late = tok[t].late
                 /\ tok'[t].next \in {tok[t].next, req[r].new}
        <5>1. t \in req[d].snap \/ (tok[t].late /\ tok[t].next \notin req[d].snap)
          BY <2>3, <3>3, <4>5 DEF RevocationCovers
        <5>2. req[r].new \notin req[d].snap
          BY <4>2 DEF Ownership, Free
        <5> QED BY <3>3, <4>5, <5>1, <5>2
      <4> QED BY <3>3, <4>3, <4>4, <4>5, CommitToken
    <3> QED BY <2>2, <2>3, <3>1, <3>2, <3>3
  <2>4. ASSUME NEW d \in Requests, Deleting(d)', NEW s \in Requests \ {d}, HasRead(s)',
               req'[s].u = req'[d].u
        PROVE  req'[s].overlap
    <3>1. CASE s = r
      <4>1. Deleting(d) /\ req'[d].u = req[d].u BY <2>2, <2>4, <3>1
      <4>2. ~Arrive(r) /\ ~Quits(r) /\ ~Commit(r)
        BY <2>4, <3>1, ArriveEffect, CommitEffect DEF Quits, Idle, HasRead
      <4>3. CASE req'[r] # Idle /\ ReadUser(r)
        BY <2>4, <3>1, <4>1, <4>3, ReadUserEffect DEF Continued, Revoking, Deleting
      <4>4. CASE req'[r] # Idle /\ (ReadToken(r) \/ Locks(r))
        BY <2>4, <3>1, <4>1, <4>4, ReadTokenEffect, LockEffect
           DEF Locks, Continued, RevocationCovers, HasRead
      <4>5. CASE DeleteTokens(r)
        BY <2>4, <3>1, <4>1, <4>5, DeleteEffect DEF Continued, RevocationCovers, HasRead
      <4> QED BY <2>1, <4>2, <4>3, <4>4, <4>5
    <3>2. CASE s # r /\ Deleting(d) /\ req'[d].u = req[d].u
      BY <2>1, <2>4, <3>2 DEF Kept, RevocationCovers, HasRead
    <3>3. CASE s # r /\ DeleteTokens(r) /\ d = r
      <4>1. Disturbs(r, s)
        BY <2>1, <2>4, <3>3, DeleteEffect, Formed DEF Kept, HasRead, Disturbs, Continued
      <4> QED BY <3>3, <4>1, Marked DEF DeleteTokens
    <3> QED BY <2>2, <2>4, <3>1, <3>2, <3>3
  <2> QED BY <2>3, <2>4 DEF RevocationCovers
<1> QED BY <1>1, <1>2

-----------------------------------------------------------------------------
(* The invariants about tokens: only a commit can disturb them *)

LEMMA TokensChange ==
  ASSUME TypeOK, [Next]_vars
  PROVE  UNCHANGED <<user, tok>> \/ \E r \in Requests : Commit(r)
BY StepCases DEF vars

LEMMA RotatedStep ==
  ASSUME TypeOK, Shape, Ownership, TokenLocks, Rotated, [Next]_vars
  PROVE  Rotated'
<1> USE NoneAssumption
<1>1. CASE UNCHANGED <<user, tok>> BY <1>1 DEF Rotated
<1>2. ASSUME NEW r \in Requests, Commit(r) PROVE Rotated'
  <2> SUFFICES ASSUME NEW n \in Tokens, tok'[n].from # None
               PROVE  tok'[tok'[n].from].st \in {"consumed", "gone"}
    BY DEF Rotated
  <2>1. CASE tok'[n].from = tok[n].from
    <3> DEFINE f == tok[n].from
    <3>1. f \in Tokens /\ tok[f].st \in {"consumed", "gone"}
      BY <2>1 DEF Rotated, TypeOK, TokenRow
    <3>2. tok[f] # Free BY <3>1 DEF Free
    <3>3. tok'[f].st \in {"consumed", "gone"}
      BY <1>2, <3>1, <3>2, CommitToken
    <3> QED BY <2>1, <3>3
  <2>2. CASE tok'[n] = Minted(req[r])
    <3>1. tok'[n].from = req[r].t BY <2>2 DEF Minted
    <3>2. tok'[n].from = tok[n].from \/ req[r].op \in {"login", "refresh"}
      BY <1>2, CommitToken
    <3>3. CASE req[r].op \in {"login", "refresh"}
      <4>1. req[r].op = "refresh" /\ req[r].t \in Tokens
        BY <1>2, <3>1, <3>3, CommitEffect, Formed
      <4> QED BY <1>2, <3>1, <4>1, CommitToken
    <3> QED BY <2>1, <3>2, <3>3
  <2> QED BY <1>2, <2>1, <2>2, CommitToken
<1> QED BY <1>1, <1>2, TokensChange

LEMMA SuccessorStoredStep ==
  ASSUME TypeOK, Shape, Ownership, TokenLocks, RevocationCovers, SuccessorStored, [Next]_vars
  PROVE  SuccessorStored'
<1> USE NoneAssumption
<1>1. CASE UNCHANGED <<user, tok>> BY <1>1 DEF SuccessorStored, Stored
<1>2. ASSUME NEW r \in Requests, Commit(r) PROVE SuccessorStored'
  <2> SUFFICES ASSUME NEW t \in Tokens, Stored(t)', tok'[t].next # None
               PROVE  /\ tok'[t].st = "consumed"
                      /\ tok'[tok'[t].next].st \in {"live", "consumed"}
                      /\ tok'[tok'[t].next].owner = tok'[t].owner
    BY DEF SuccessorStored, Stored
  <2> DEFINE n == tok'[t].next
  <2>1. tok'[t] # Minted(req[r]) BY DEF Minted
  <2>2. Stored(t) /\ tok'[t].owner = tok[t].owner
    BY <1>2, <2>1, CommitToken DEF Stored
  <2>3. CASE req[r].op = "refresh" /\ t = req[r].t /\ n = req[r].new
    <3>1. req[r].new \in Tokens /\ tok[t].owner = req[r].u
      BY <1>2, <2>3, CommitEffect DEF Ownership
    <3>2. tok'[t].st = "consumed" /\ tok'[n] = Minted(req[r])
      BY <1>2, <2>3, <3>1, CommitToken
    <3> QED BY <2>2, <3>1, <3>2 DEF Minted, Stored
  <2>4. CASE n = tok[t].next
    <3>1. /\ tok[t].st = "consumed" /\ n \in Tokens
          /\ Stored(n) /\ tok[n].owner = tok[t].owner
      BY <2>2, <2>4 DEF SuccessorStored, TypeOK, TokenRow
    <3>2. tok'[t].st = "consumed"
      BY <1>2, <2>1, <3>1, CommitToken DEF Stored
    <3>3. tok'[n].owner = tok[n].owner /\ tok'[n].st \in {"live", "consumed", "gone"}
      BY <1>2, <3>1, CommitToken DEF Stored, Free
    <3>4. ASSUME tok'[n].st = "gone" PROVE FALSE
      <4>1. req[r].op \in Revokers /\ n \in req[r].snap /\ req[r].pc = "commit"
        BY <1>2, <3>1, <3>4, CommitToken, CommitEffect DEF Stored
      <4>2. Deleting(r) /\ tok[t].owner = req[r].u
        BY <3>1, <4>1 DEF Deleting, Ownership
      <4>3. t \in req[r].snap
        BY <2>2, <2>4, <4>1, <4>2 DEF RevocationCovers
      <4> QED BY <1>2, <3>2, <4>1, <4>3, CommitToken
    <3> QED BY <2>2, <3>1, <3>2, <3>3, <3>4 DEF Stored
  <2> QED BY <1>2, <2>1, <2>3, <2>4, CommitToken
<1> QED BY <1>1, <1>2, TokensChange

LEMMA RevocationCompleteStep ==
  ASSUME TypeOK, Shape, Ownership, TokenLocks, ReadsHold, RevocationCovers,
         RevocationComplete, [Next]_vars
  PROVE  RevocationComplete'
<1> USE NoneAssumption
<1>1. CASE UNCHANGED <<user, tok>> BY <1>1 DEF RevocationComplete
<1>2. ASSUME NEW r \in Requests, Commit(r) PROVE RevocationComplete'
  <2> SUFFICES ASSUME NEW t \in Tokens, tok'[t].st = "live", ~tok'[t].late
               PROVE  user'[tok'[t].owner].active
    BY DEF RevocationComplete
  <2>1. CASE req[r].op \in {"login", "refresh"} /\ tok'[t] = Minted(req[r])
    <3>1. tok'[t].owner = req[r].u /\ ~req[r].overlap /\ req[r].pc = "commit" /\ req[r].u \in Users
      BY <1>2, <2>1, CommitEffect DEF Minted
    <3>2. user[req[r].u].active
      BY <2>1, <3>1 DEF ReadsHold, HasRead
    <3>3. req[r].op \notin Revokers BY <2>1 DEF Revokers
    <3>4. user'[req[r].u].active BY <1>2, <3>1, <3>2, <3>3, UserTouches
    <3> QED BY <3>1, <3>4
  <2>2. CASE tok'[t] = tok[t]
    <3>1. /\ tok[t].st = "live" /\ tok[t].owner \in Users
          /\ user[tok[t].owner].active /\ Stored(t)
      BY <2>2 DEF RevocationComplete, Ownership, Stored
    <3>2. ASSUME ~user'[tok[t].owner].active PROVE FALSE
      <4>1. req[r].op \in Revokers /\ req[r].u = tok[t].owner /\ req[r].pc = "commit"
        BY <1>2, <3>1, <3>2, UserTouches, CommitEffect
      <4>2. t \in req[r].snap
        BY <2>2, <3>1, <4>1 DEF RevocationCovers, Deleting
      <4> QED BY <1>2, <2>2, <3>1, <4>1, <4>2, CommitToken
    <3> QED BY <2>2, <3>2
  <2> QED BY <1>2, <2>1, <2>2, CommitToken
<1> QED BY <1>1, <1>2, TokensChange

LEMMA RotatedOnceStep ==
  ASSUME TypeOK, Shape, Ownership, TokenLocks, ReadsHold, Rotated, RotatedOnce, [Next]_vars
  PROVE  RotatedOnce'
<1> USE NoneAssumption
<1>1. CASE UNCHANGED <<user, tok>> BY <1>1 DEF RotatedOnce
<1>2. ASSUME NEW r \in Requests, Commit(r) PROVE RotatedOnce'
  <2>1. ASSUME NEW m \in Tokens
        PROVE  \/ tok'[m].from = tok[m].from /\ tok'[m].late = tok[m].late
               \/ req[r].op \in {"login", "refresh"} /\ m = req[r].new /\ tok'[m] = Minted(req[r])
    BY <1>2, CommitToken
  <2>2. ASSUME NEW m \in Tokens, NEW n \in Tokens, m # n, tok'[m] = Minted(req[r]),
               req[r].op \in {"login", "refresh"},
               tok'[n].from = tok[n].from, tok'[m].from # None, tok'[m].from = tok'[n].from
        PROVE  tok'[m].late
    <3>1. tok'[m].from = req[r].t /\ tok'[m].late = req[r].overlap
      BY <2>2 DEF Minted
    <3>2. req[r].op = "refresh" /\ req[r].pc = "commit"
      BY <1>2, <2>2, <3>1, CommitEffect, Formed
    <3>3. tok[req[r].t].st # "live"
      BY <2>2, <3>1 DEF Rotated
    <3> QED BY <3>1, <3>2, <3>3 DEF ReadsHold, HasRead, Rotating
  <2> QED BY <2>1, <2>2 DEF RotatedOnce
<1> QED BY <1>1, <1>2, TokensChange

-----------------------------------------------------------------------------
(* The inductive invariant *)

LEMMA InitIInv ==
  ASSUME Init
  PROVE  IInv
<1> USE NoneAssumption
<1>1. /\ \A t \in Tokens : tok[t] = Free
      /\ \A r \in Requests : req[r] = Idle
  BY DEF Init
<1>2. TypeOK
  <2>1. Free \in TokenRow BY DEF Free, TokenRow
  <2>2. user \in [Users -> UserRow] BY DEF Init, UserRow
  <2> QED BY <2>1, <2>2, IdleTyped DEF Init, TypeOK
<1>3. Shape BY <1>1 DEF Shape, WellFormed
<1>4. \A r \in Requests : ~HasRead(r) /\ ~Deleting(r) /\ ~Rehashing(r)
  BY <1>1 DEF Idle, HasRead, Deleting, Rehashing
<1>5. Ownership /\ Reservation /\ TokenLocks
  <2>0. Free.st = "free" BY DEF Free
  <2>1. Ownership BY <1>1, <2>0 DEF Ownership, Idle
  <2>2. Reservation BY <1>1 DEF Reservation, Idle
  <2>3. \A r \in Requests, t \in Tokens : ~HoldsToken(r, t)
    BY <1>1 DEF HoldsToken, Idle, Revokers
  <2>4. \A r \in Requests : req[r].pc # "commit" BY <1>1 DEF Idle
  <2> QED BY <2>1, <2>2, <2>3, <2>4 DEF TokenLocks
<1>6. ReadsHold /\ OneOldHash /\ RevocationCovers
  BY <1>4 DEF ReadsHold, OneOldHash, RevocationCovers
<1>7. Rotated /\ SuccessorStored /\ RevocationComplete /\ RotatedOnce
  BY <1>1 DEF Free, Rotated, SuccessorStored, RevocationComplete, RotatedOnce, Stored
<1> QED BY <1>2, <1>3, <1>5, <1>6, <1>7 DEF IInv

LEMMA NextIInv ==
  ASSUME IInv, [Next]_vars
  PROVE  IInv'
BY TypeStep, ShapeStep, OwnershipStep, ReservationStep, TokenLocksStep, ReadsHoldStep,
   OneOldHashStep, RevocationCoversStep, RotatedStep, SuccessorStoredStep,
   RevocationCompleteStep, RotatedOnceStep
   DEF IInv

\* The strengthening holds in every reachable state.
THEOREM Invariance == Spec => []IInv
<1>1. Init => IInv BY InitIInv
<1>2. IInv /\ [Next]_vars => IInv' BY NextIInv
<1> QED BY <1>1, <1>2, PTL DEF Spec

\* Every row and every request in flight has its type.
THEOREM TypeCorrect == Spec => []TypeOK
<1>1. IInv => TypeOK BY DEF IInv
<1> QED BY <1>1, Invariance, PTL

\* replaced_by_id never dangles, whatever rotations a revocation races with.
THEOREM SuccessorStoredHolds == Spec => []SuccessorStored
<1>1. IInv => SuccessorStored BY DEF IInv
<1> QED BY <1>1, Invariance, PTL

\* Only a request that overlapped another one's write can leave a live token
\* to a user who is inactive.
THEOREM RevocationCompleteHolds == Spec => []RevocationComplete
<1>1. IInv => RevocationComplete BY DEF IInv
<1> QED BY <1>1, Invariance, PTL

\* A token is rotated once, overlapping requests excepted.
THEOREM RotatedOnceHolds == Spec => []RotatedOnce
<1>1. IInv => RotatedOnce BY DEF IInv
<1> QED BY <1>1, Invariance, PTL

-----------------------------------------------------------------------------
(* Action properties *)

LEMMA CommitByOp ==
  ASSUME NEW r \in Requests, Commit(r)
  PROVE  /\ req[r].op = "reset" => CommitReset(r)
         /\ req[r].op = "login" => CommitLogin(r)
BY DEF Commit, CommitLogin, CommitRefresh, CommitLogout, CommitReplay, CommitDeactivate,
   CommitReactivate, CommitDelete, CommitReset, Ends

\* Only a reset, or a login that overlapped another write, changes the password
\* that opens an account.
THEOREM OnlyResetChangesPasswordHolds == Spec => OnlyResetChangesPassword
<1> DEFINE A == \A u \in Users : user'[u].pw # user[u].pw =>
                  \E r \in Requests :
                     /\ req[r].u = u
                     /\ \/ CommitReset(r)
                        \/ CommitLogin(r) /\ req[r].overlap
<1>1. ASSUME IInv, [Next]_vars PROVE A
  <2> SUFFICES ASSUME NEW u \in Users, user'[u].pw # user[u].pw
               PROVE  \E r \in Requests :
                         /\ req[r].u = u
                         /\ \/ CommitReset(r)
                            \/ CommitLogin(r) /\ req[r].overlap
    OBVIOUS
  <2>1. TypeOK /\ Shape /\ Ownership /\ ReadsHold BY <1>1 DEF IInv
  <2>2. PICK r \in Requests : Commit(r) BY <1>1, <2>1, TokensChange
  <2>3. /\ req[r].u = u /\ req[r].pc = "commit"
        /\ \/ req[r].op = "reset"
           \/ req[r].op = "login" /\ req[r].dirty /\ user'[u].pw = req[r].pass
    BY <2>1, <2>2, UserTouches, CommitEffect
  <2>4. req[r].op = "login" => req[r].overlap
    BY <2>1, <2>3 DEF ReadsHold, HasRead, Rehashing
  <2> QED BY <2>2, <2>3, <2>4, CommitByOp
<1>2. IInv /\ [Next]_vars => [A]_vars BY <1>1
<1> QED BY <1>2, Invariance, PTL DEF Spec, OnlyResetChangesPassword

\* A deletion leaves the account inactive unless a reactivation overlapped it.
THEOREM DeleteDeactivatesHolds == Spec => DeleteDeactivates
<1> DEFINE A == \A r \in Requests :
                  CommitDelete(r) => ~user'[req[r].u].active \/ req[r].overlap
<1>1. ASSUME IInv, [Next]_vars PROVE A
  <2> SUFFICES ASSUME NEW r \in Requests, CommitDelete(r), ~req[r].overlap
               PROVE  ~user'[req[r].u].active
    OBVIOUS
  <2> DEFINE u == req[r].u
  <2>1. req[r].pc = "commit" /\ req[r].op = "delete" BY DEF CommitDelete, Ends
  <2>2. u \in Users /\ user[u] \in UserRow /\ user \in [Users -> UserRow]
    BY <1>1, <2>1, Formed DEF IInv, TypeOK
  <2>3. ~req[r].dirty => ~user[u].active
    BY <1>1, <2>1 DEF IInv, ReadsHold, HasRead
  <2> QED BY <2>2, <2>3 DEF CommitDelete, UserRow
<1>2. IInv /\ [Next]_vars => [A]_vars BY <1>1
<1> QED BY <1>2, Invariance, PTL DEF Spec, DeleteDeactivates

-----------------------------------------------------------------------------
(* Refinement: the sessions implement the ledger *)

Account == [u \in Users |-> [active |-> user[u].active, pw |-> user[u].pw]]

LEMMA LedgerInit ==
  ASSUME Init
  PROVE  Ledger!Init
<1>1. Account \in [Users -> [active : {TRUE}, pw : Passwords]]
  BY DEF Init, Account
<1>2. tok = [t \in Tokens |-> [st |-> "free", owner |-> None, next |-> None,
                               from |-> None, late |-> FALSE]]
  BY DEF Init, Free
<1> QED BY <1>1, <1>2 DEF Ledger!Init, Account

LEMMA AccountKept ==
  ASSUME UNCHANGED user
  PROVE  Account' = Account
BY DEF Account

LEMMA LedgerOpen ==
  ASSUME IInv, NEW r \in Requests, CommitLogin(r)
  PROVE  Ledger!Open(req[r].u, req[r].new, req[r].overlap)
<1> USE NoneAssumption
<1> DEFINE q == req[r]
           u == q.u
<1>1. q.pc = "commit" /\ q.op = "login" BY DEF CommitLogin, Ends
<1>2. /\ u \in Users /\ q.new \in Tokens /\ tok[q.new].st = "free" /\ q.t = None
      /\ q.pass \in Passwords
  BY <1>1, Formed DEF IInv, Ownership, Free
<1>3. ~q.overlap => user[u].active
  BY <1>1 DEF IInv, ReadsHold, HasRead
<1>4. tok' = [tok EXCEPT ![q.new] = Ledger!Row(u, None, q.overlap)]
  BY <1>2 DEF CommitLogin, Minted, Ledger!Row
<1>5. user \in [Users -> UserRow] BY DEF IInv, TypeOK
<1>6. CASE ~q.dirty
  BY <1>2, <1>3, <1>4, <1>6 DEF CommitLogin, Ledger!Open, Ledger!Free
<1>7. CASE q.dirty
  <2>1. user' = [user EXCEPT ![u].pw = q.pass, ![u].old = FALSE] BY <1>7 DEF CommitLogin
  <2>2. Account' = [Account EXCEPT ![u].pw = q.pass]
    BY <1>2, <1>5, <2>1 DEF Account, UserRow
  <2>3. ~q.overlap => user[u].pw = q.pass
    BY <1>1, <1>7 DEF IInv, ReadsHold, HasRead, Rehashing
  <2>4. ~q.overlap => Account' = Account
    BY <1>2, <2>2, <2>3 DEF Account
  <2> QED BY <1>2, <1>3, <1>4, <2>2, <2>4 DEF Account, Ledger!Open, Ledger!Free
<1> QED BY <1>6, <1>7

LEMMA LedgerRotate ==
  ASSUME IInv, NEW r \in Requests, CommitRefresh(r)
  PROVE  /\ req[r].t \in Tokens /\ req[r].new \in Tokens /\ req[r].u \in Users
         /\ Ledger!Rotate(req[r].u, req[r].t, req[r].new, req[r].overlap)
<1> USE NoneAssumption
<1> DEFINE q == req[r]
<1>1. q.pc = "commit" /\ q.op = "refresh" BY DEF CommitRefresh, Ends
<1>2. /\ q.u \in Users /\ q.new \in Tokens /\ q.t \in Tokens
      /\ tok[q.new].st = "free" /\ tok[q.t].owner = q.u /\ Stored(q.t)
  BY <1>1, Formed DEF IInv, Ownership, TokenLocks, Free
<1>3. ~q.overlap => user[q.u].active /\ tok[q.t].st = "live"
  BY <1>1 DEF IInv, ReadsHold, HasRead, Rotating
<1>4. tok' = [tok EXCEPT ![q.t].st = "consumed", ![q.t].next = q.new,
                         ![q.new] = Ledger!Row(q.u, q.t, q.overlap)]
  BY DEF CommitRefresh, Minted, Ledger!Row
<1>5. q.t \in Ledger!Held(q.u) BY <1>2 DEF Ledger!Held, Stored
<1>6. UNCHANGED user BY DEF CommitRefresh
<1> QED BY <1>2, <1>3, <1>4, <1>5, <1>6 DEF Ledger!Rotate, Ledger!Free

LEMMA LedgerClose ==
  ASSUME IInv, NEW r \in Requests, CommitLogout(r)
  PROVE  req[r].t \in Tokens /\ req[r].u \in Users /\ Ledger!Close(req[r].u, req[r].t)
<1> USE NoneAssumption
<1>1. req[r].pc = "commit" /\ req[r].op = "logout" BY DEF CommitLogout, Ends
<1>2. /\ req[r].u \in Users /\ req[r].t \in Tokens
      /\ tok[req[r].t].owner = req[r].u /\ Stored(req[r].t)
  BY <1>1, Formed DEF IInv, Ownership, TokenLocks
<1>3. req[r].t \in Ledger!Held(req[r].u) BY <1>2 DEF Ledger!Held, Stored
<1> QED BY <1>2, <1>3 DEF CommitLogout, Ledger!Close

LEMMA LedgerRevoke ==
  ASSUME IInv, NEW r \in Requests, Commit(r), req[r].op \in Revokers
  PROVE  /\ req[r].u \in Users /\ req[r].snap \in SUBSET Ledger!Revocable(req[r].u)
         /\ Ledger!Revoke(req[r].u, req[r].snap)
<1> USE NoneAssumption
<1> DEFINE q == req[r]
           u == q.u
<1>1. q.pc = "commit" /\ u \in Users /\ q \in Request
  BY CommitEffect DEF IInv, TypeOK
<1>2. user \in [Users -> UserRow] /\ user[u] \in UserRow BY <1>1 DEF IInv, TypeOK
<1>3. q.snap \in SUBSET Ledger!Revocable(u)
  BY <1>1 DEF IInv, Ownership, Request, Ledger!Revocable, Ledger!Free
<1>4. \A t \in Ledger!Held(u) : tok[t].late \/ t \in q.snap
  BY <1>1 DEF IInv, RevocationCovers, Deleting, Ledger!Held, Stored
<1>5. tok' = [t \in Tokens |-> IF t \in q.snap THEN [tok[t] EXCEPT !.st = "gone"] ELSE tok[t]]
  BY DEF Commit, CommitLogin, CommitRefresh, CommitLogout, CommitReplay, CommitDeactivate,
     CommitReactivate, CommitDelete, CommitReset, Ends, Revoked, Revokers
<1>6. \/ Account' = Account
      \/ Account' = [Account EXCEPT ![u].active = FALSE]
      \/ \E p \in Passwords : Account' = [Account EXCEPT ![u].pw = p]
  <2>1. CASE CommitReplay(r) BY <2>1, AccountKept DEF CommitReplay
  <2>2. CASE CommitDeactivate(r)
    <3>1. user' = [user EXCEPT ![u].active = FALSE] BY <2>2 DEF CommitDeactivate
    <3> QED BY <1>1, <1>2, <3>1 DEF Account, UserRow
  <2>3. CASE CommitDelete(r)
    <3>1. user' = [user EXCEPT ![u].deleted = TRUE,
                               ![u].active = IF q.dirty THEN FALSE ELSE @]
      BY <2>3 DEF CommitDelete
    <3>2. CASE q.dirty
      <4>1. Account' = [Account EXCEPT ![u].active = FALSE]
        BY <1>1, <1>2, <3>1, <3>2 DEF Account, UserRow
      <4> QED BY <4>1
    <3>3. CASE ~q.dirty
      <4>1. Account' = Account
        BY <1>1, <1>2, <3>1, <3>3 DEF Account, UserRow
      <4> QED BY <4>1
    <3> QED BY <3>2, <3>3
  <2>4. CASE CommitReset(r)
    <3>1. user' = [user EXCEPT ![u].pw = q.pass, ![u].old = FALSE] /\ q.op = "reset"
      BY <2>4 DEF CommitReset, Ends
    <3>2. q.pass \in Passwords BY <1>1, <3>1, Formed DEF IInv
    <3>3. Account' = [Account EXCEPT ![u].pw = q.pass]
      BY <1>1, <1>2, <3>1 DEF Account, UserRow
    <3> QED BY <3>2, <3>3
  <2> QED BY <2>1, <2>2, <2>3, <2>4 DEF Commit, CommitLogin, CommitRefresh, CommitLogout,
          CommitReactivate, Ends, Revokers
<1> QED BY <1>1, <1>3, <1>4, <1>5, <1>6 DEF Ledger!Revoke, Account

LEMMA LedgerReactivate ==
  ASSUME IInv, NEW r \in Requests, CommitReactivate(r)
  PROVE  req[r].u \in Users /\ Ledger!Reactivate(req[r].u)
<1>1. req[r].u \in Users /\ user \in [Users -> UserRow]
  BY CommitEffect DEF Commit, IInv, TypeOK
<1>2. Account' = [Account EXCEPT ![req[r].u].active = TRUE]
  BY <1>1 DEF CommitReactivate, Account, UserRow
<1> QED BY <1>1, <1>2 DEF CommitReactivate, Ledger!Reactivate, Account

\* Every behaviour of the sessions, projected on accounts and token rows, is one
\* of the ledger of atomic operations.
THEOREM SessionsImplementLedger == Spec => LedgerSpec
<1>1. Init => Ledger!Init BY LedgerInit
<1>2. ASSUME IInv, [Next]_vars
      PROVE  Ledger!Next \/ (Account' = Account /\ tok' = tok)
  <2>1. CASE UNCHANGED <<user, tok>> BY <2>1, AccountKept
  <2>2. ASSUME NEW r \in Requests, Commit(r) PROVE Ledger!Next
    <3>1. CASE CommitLogin(r)
      <4>1. req[r].u \in Users /\ req[r].new \in Tokens /\ req[r].overlap \in BOOLEAN
        BY <1>2, <2>2, <3>1, CommitEffect DEF CommitLogin, Ends, IInv, TypeOK, Request
      <4>2. Ledger!Open(req[r].u, req[r].new, req[r].overlap) BY <1>2, <3>1, LedgerOpen
      <4>3. \E n \in Tokens, late \in BOOLEAN : Ledger!Open(req[r].u, n, late)
        BY <4>1, <4>2 DEF Ledger!Open
      <4> QED BY <4>1, <4>3 DEF Ledger!Next
    <3>2. CASE CommitRefresh(r)
      <4>1. req[r].overlap \in BOOLEAN BY <1>2 DEF IInv, TypeOK, Request
      <4> QED BY <1>2, <3>2, <4>1, LedgerRotate DEF Ledger!Next
    <3>3. CASE CommitLogout(r) BY <1>2, <3>3, LedgerClose DEF Ledger!Next
    <3>4. CASE req[r].op \in Revokers
      <4>1. /\ req[r].u \in Users /\ req[r].snap \in SUBSET Ledger!Revocable(req[r].u)
            /\ Ledger!Revoke(req[r].u, req[r].snap)
        BY <1>2, <2>2, <3>4, LedgerRevoke
      <4>2. \E S \in SUBSET Ledger!Revocable(req[r].u) : Ledger!Revoke(req[r].u, S)
        BY <4>1 DEF Ledger!Revoke
      <4> QED BY <4>1, <4>2 DEF Ledger!Next
    <3>5. CASE CommitReactivate(r)
      <4>1. req[r].u \in Users /\ Ledger!Reactivate(req[r].u)
        BY <1>2, <3>5, LedgerReactivate
      <4> QED BY <4>1 DEF Ledger!Next, Ledger!Reactivate
    <3> QED BY <2>2, <3>1, <3>2, <3>3, <3>4, <3>5 DEF Commit, CommitReplay, CommitDeactivate,
            CommitDelete, CommitReset, Ends, Revokers
  <2>3. TypeOK BY <1>2 DEF IInv
  <2> QED BY <1>2, <2>1, <2>2, <2>3, TokensChange
<1>3. IInv /\ [Next]_vars => [Ledger!Next]_<<Account, tok>>
  BY <1>2
<1> QED BY <1>1, <1>3, Invariance, PTL DEF Spec, LedgerSpec, Ledger!Spec, Account

\* What the abstract ledger is good for: of itself it keeps RevocationComplete and
\* RotatedOnce, whatever implements it.
LedgerInv ==
  /\ tok \in [Tokens -> TokenRow]
  /\ Account \in [Users -> [active : BOOLEAN, pw : Passwords]]
  /\ \A t \in Tokens :
       /\ tok[t].st = "live" => tok[t].owner \in Users
       /\ tok[t].st = "live" /\ ~tok[t].late => Account[tok[t].owner].active
       /\ tok[t].from # None => tok[tok[t].from].st \in {"consumed", "gone"}
  /\ RotatedOnce

\* The rows of a step that mints n for u out of p.
LEMMA LedgerMints ==
  ASSUME LedgerInv, NEW u \in Users, NEW n \in Tokens, NEW late \in BOOLEAN,
         NEW p \in Tokens \cup {None}, NEW ts \in [Tokens -> TokenRow],
         tok' = [ts EXCEPT ![n] = Ledger!Row(u, p, late)],
         tok[n].st = "free", p # n,
         \A t \in Tokens \ {p} : ts[t] = tok[t],
         p # None =>
           /\ ts[p].st = "consumed" /\ ts[p].owner = tok[p].owner
           /\ ts[p].from = tok[p].from /\ ts[p].late = tok[p].late
           /\ ~late => tok[p].st = "live",
         tok[p].st \in {"live", "consumed"} \/ p = None,
         ~late => Account[u].active,
         Account' \in [Users -> [active : BOOLEAN, pw : Passwords]],
         \A v \in Users : Account'[v].active = Account[v].active
  PROVE  LedgerInv'
<1> USE NoneAssumption
<1> DEFINE row == Ledger!Row(u, p, late)
<1>0. tok' = [ts EXCEPT ![n] = row] OBVIOUS
<1>1. /\ row \in TokenRow /\ row.st = "live" /\ row.owner = u /\ row.from = p
      /\ row.late = late
  BY DEF Ledger!Row, TokenRow
<1> HIDE DEF row
<1>2. /\ tok'[n] = row /\ \A t \in Tokens \ {n} : tok'[t] = ts[t]
      /\ tok' \in [Tokens -> TokenRow]
  BY <1>0, <1>1
<1>3. ASSUME NEW t \in Tokens
      PROVE  /\ tok'[t].st = "live" => tok'[t].owner \in Users
             /\ tok'[t].st = "live" /\ ~tok'[t].late => Account'[tok'[t].owner].active
             /\ tok'[t].from # None => tok'[tok'[t].from].st \in {"consumed", "gone"}
  <2>1. CASE t = n BY <1>1, <1>2, <2>1
  <2>2. CASE t # n
    <3>1. /\ tok'[t].from = tok[t].from /\ tok'[t].late = tok[t].late
          /\ tok'[t].owner = tok[t].owner /\ tok'[t].st \in {tok[t].st, "consumed"}
      BY <1>2, <2>2
    <3>2. /\ tok[t].st = "live" => tok[t].owner \in Users
          /\ tok[t].st = "live" /\ ~tok[t].late => Account[tok[t].owner].active
          /\ tok[t].from # None => tok[tok[t].from].st \in {"consumed", "gone"}
      BY DEF LedgerInv
    <3>3. ASSUME tok[t].from # None PROVE tok'[tok[t].from].st \in {"consumed", "gone"}
      <4>1. tok[t].from \in Tokens BY <3>3 DEF LedgerInv, TokenRow
      <4>2. tok[t].from # n BY <3>2, <3>3
      <4> QED BY <1>2, <3>2, <3>3, <4>1, <4>2
    <3> QED BY <3>1, <3>2, <3>3
  <2> QED BY <2>1, <2>2
<1>4. ASSUME NEW m \in Tokens, NEW k \in Tokens, m # k, tok'[m].from # None,
             tok'[m].from = tok'[k].from
      PROVE  tok'[m].late \/ tok'[k].late
  <2>1. \A t \in Tokens \ {n} : tok'[t].from = tok[t].from /\ tok'[t].late = tok[t].late
    BY <1>2
  <2>2. \A t \in Tokens \ {n} : tok[t].from = p /\ p # None => late
    BY DEF LedgerInv
  <2>3. CASE m # n /\ k # n BY <1>4, <2>1, <2>3 DEF LedgerInv, RotatedOnce
  <2>4. CASE m = n \/ k = n BY <1>1, <1>2, <1>4, <2>1, <2>2, <2>4
  <2> QED BY <2>3, <2>4
<1> QED BY <1>2, <1>3, <1>4 DEF LedgerInv, RotatedOnce

\* The rows of a step that ends sessions.
LEMMA LedgerEnds ==
  ASSUME LedgerInv, tok' \in [Tokens -> TokenRow],
         Account' \in [Users -> [active : BOOLEAN, pw : Passwords]],
         \A t \in Tokens :
            /\ tok'[t].owner = tok[t].owner /\ tok'[t].from = tok[t].from
            /\ tok'[t].late = tok[t].late
            /\ tok'[t].st = tok[t].st \/ tok'[t].st = "gone"
                 \/ (tok'[t].st = "consumed" /\ tok[t].st # "free")
            /\ tok'[t].st = "live" /\ ~tok[t].late /\ Account[tok[t].owner].active
                 => Account'[tok[t].owner].active
  PROVE  LedgerInv'
<1>1. ASSUME NEW t \in Tokens
      PROVE  /\ tok'[t].st = "live" => tok'[t].owner \in Users
             /\ tok'[t].st = "live" /\ ~tok'[t].late => Account'[tok'[t].owner].active
             /\ tok'[t].from # None => tok'[tok'[t].from].st \in {"consumed", "gone"}
  <2>1. tok'[t].st = "live" => tok[t].st = "live" OBVIOUS
  <2>2. ASSUME tok[t].from # None PROVE tok'[tok[t].from].st \in {"consumed", "gone"}
    <3>1. tok[t].from \in Tokens /\ tok[tok[t].from].st \in {"consumed", "gone"}
      BY <2>2 DEF LedgerInv, TokenRow
    <3> QED BY <3>1
  <2> QED BY <2>1, <2>2 DEF LedgerInv
<1>2. RotatedOnce' BY DEF LedgerInv, RotatedOnce
<1> QED BY <1>1, <1>2 DEF LedgerInv

LEMMA LedgerStep ==
  ASSUME LedgerInv, Ledger!Next
  PROVE  LedgerInv'
<1> USE NoneAssumption
<1>1. PICK u \in Users :
        \/ \E n \in Tokens, late \in BOOLEAN : Ledger!Open(u, n, late)
        \/ \E t, n \in Tokens, late \in BOOLEAN : Ledger!Rotate(u, t, n, late)
        \/ \E t \in Tokens : Ledger!Close(u, t)
        \/ \E S \in SUBSET Ledger!Revocable(u) : Ledger!Revoke(u, S)
        \/ Ledger!Reactivate(u)
  BY DEF Ledger!Next
<1>2. tok \in [Tokens -> TokenRow] /\ Account \in [Users -> [active : BOOLEAN, pw : Passwords]]
  BY DEF LedgerInv
<1>3. ASSUME NEW n \in Tokens, NEW late \in BOOLEAN, Ledger!Open(u, n, late) PROVE LedgerInv'
  <2>1. /\ tok[n].st = "free" /\ (~late => Account[u].active)
        /\ tok' = [tok EXCEPT ![n] = Ledger!Row(u, None, late)]
        /\ \/ Account' = Account
           \/ \E p \in Passwords : Account' = [Account EXCEPT ![u].pw = p]
    BY <1>3 DEF Ledger!Open, Ledger!Free, Account
  <2>2. /\ Account' \in [Users -> [active : BOOLEAN, pw : Passwords]]
        /\ \A v \in Users : Account'[v].active = Account[v].active
    BY <1>2, <2>1
  <2> QED BY <1>2, <2>1, <2>2, LedgerMints
<1>4. ASSUME NEW t \in Tokens, NEW n \in Tokens, NEW late \in BOOLEAN,
             Ledger!Rotate(u, t, n, late)
      PROVE  LedgerInv'
  <2>1. /\ tok[n].st = "free" /\ tok[t].st \in {"live", "consumed"}
        /\ ~late => Account[u].active /\ tok[t].st = "live"
        /\ tok' = [tok EXCEPT ![t].st = "consumed", ![t].next = n,
                              ![n] = Ledger!Row(u, t, late)]
        /\ Account' = Account
    BY <1>4 DEF Ledger!Rotate, Ledger!Free, Ledger!Held, Account
  <2>2. PICK ts \in [Tokens -> TokenRow] :
           ts = [tok EXCEPT ![t].st = "consumed", ![t].next = n]
    BY <1>2 DEF TokenRow
  <2>3. tok' = [ts EXCEPT ![n] = Ledger!Row(u, t, late)] BY <2>1, <2>2
  <2>4. /\ \A k \in Tokens \ {t} : ts[k] = tok[k]
        /\ ts[t].st = "consumed" /\ ts[t].owner = tok[t].owner
        /\ ts[t].from = tok[t].from /\ ts[t].late = tok[t].late
    BY <1>2, <2>2 DEF TokenRow
  <2>5. t # n /\ t # None BY <2>1
  <2>6. /\ Account' \in [Users -> [active : BOOLEAN, pw : Passwords]]
        /\ \A v \in Users : Account'[v].active = Account[v].active
    BY <1>2, <2>1
  <2>7. tok[t].st \in {"live", "consumed"} /\ (~late => tok[t].st = "live" /\ Account[u].active)
    BY <2>1
  <2>8. tok[n].st = "free" BY <2>1
  <2> QED BY <2>3, <2>4, <2>5, <2>6, <2>7, <2>8, LedgerMints
<1>5. ASSUME NEW t \in Tokens, Ledger!Close(u, t) PROVE LedgerInv'
  <2>1. /\ tok[t].st \in {"live", "consumed"} /\ tok' = [tok EXCEPT ![t].st = "consumed"]
        /\ Account' = Account
    BY <1>5 DEF Ledger!Close, Ledger!Held, Account
  <2>2. tok' \in [Tokens -> TokenRow] BY <1>2, <2>1 DEF TokenRow
  <2>3. ASSUME NEW k \in Tokens
        PROVE  /\ tok'[k].owner = tok[k].owner /\ tok'[k].from = tok[k].from
               /\ tok'[k].late = tok[k].late
               /\ tok'[k].st = tok[k].st \/ (tok'[k].st = "consumed" /\ tok[k].st # "free")
    BY <1>2, <2>1 DEF TokenRow
  <2> QED BY <1>2, <2>1, <2>2, <2>3, LedgerEnds
<1>6. ASSUME NEW S \in SUBSET Ledger!Revocable(u), Ledger!Revoke(u, S) PROVE LedgerInv'
  <2>1. /\ \A t \in Tokens : tok[t].st = "live" /\ tok[t].owner = u => tok[t].late \/ t \in S
        /\ tok' = [t \in Tokens |-> IF t \in S THEN [tok[t] EXCEPT !.st = "gone"] ELSE tok[t]]
        /\ \/ Account' = Account
           \/ Account' = [Account EXCEPT ![u].active = FALSE]
           \/ \E p \in Passwords : Account' = [Account EXCEPT ![u].pw = p]
    BY <1>6 DEF Ledger!Revoke, Ledger!Held, Account
  <2>2. tok' \in [Tokens -> TokenRow] BY <1>2, <2>1 DEF TokenRow
  <2>3. ASSUME NEW k \in Tokens
        PROVE  /\ tok'[k].owner = tok[k].owner /\ tok'[k].from = tok[k].from
               /\ tok'[k].late = tok[k].late
               /\ tok'[k].st = tok[k].st \/ tok'[k].st = "gone"
               /\ tok'[k].st = "live" => k \notin S /\ tok[k].st = "live"
    BY <1>2, <2>1 DEF TokenRow
  <2>4. /\ Account' \in [Users -> [active : BOOLEAN, pw : Passwords]]
        /\ \A v \in Users \ {u} : Account'[v] = Account[v]
    BY <1>2, <2>1
  <2>5. ASSUME NEW k \in Tokens, tok'[k].st = "live", ~tok[k].late, Account[tok[k].owner].active
        PROVE  Account'[tok[k].owner].active
    <3>1. tok[k].owner \in Users /\ tok[k].owner # u
      BY <2>1, <2>3, <2>5 DEF LedgerInv
    <3> QED BY <2>4, <2>5, <3>1
  <2> QED BY <2>2, <2>3, <2>4, <2>5, LedgerEnds
<1>7. ASSUME Ledger!Reactivate(u) PROVE LedgerInv'
  <2>1. tok' = tok /\ Account' = [Account EXCEPT ![u].active = TRUE]
    BY <1>7 DEF Ledger!Reactivate, Account
  <2>2. /\ Account' \in [Users -> [active : BOOLEAN, pw : Passwords]]
        /\ \A v \in Users : Account[v].active => Account'[v].active
    BY <1>2, <2>1
  <2>3. \A t \in Tokens : tok[t].st = "live" => tok[t].owner \in Users BY DEF LedgerInv
  <2> QED BY <1>2, <2>1, <2>2, <2>3, LedgerEnds
<1> QED BY <1>1, <1>3, <1>4, <1>5, <1>6, <1>7

\* Whoever implements the ledger keeps its sessions: a live one of an inactive user is
\* late, and so is one of two successors of a token.
THEOREM LedgerKeepsItsPromise == Ledger!Spec => [](RevocationComplete /\ RotatedOnce)
<1> USE NoneAssumption
<1>1. ASSUME Ledger!Init PROVE LedgerInv
  <2>1. Account \in [Users -> [active : {TRUE}, pw : Passwords]]
    BY <1>1 DEF Ledger!Init, Account
  <2>2. tok = [t \in Tokens |-> [st |-> "free", owner |-> None, next |-> None,
                                 from |-> None, late |-> FALSE]]
    BY <1>1 DEF Ledger!Init
  <2>3. Account \in [Users -> [active : BOOLEAN, pw : Passwords]] BY <2>1
  <2>4. tok \in [Tokens -> TokenRow] BY <2>2 DEF TokenRow
  <2> QED BY <2>2, <2>3, <2>4 DEF LedgerInv, RotatedOnce
<1>2. LedgerInv /\ [Ledger!Next]_<<Account, tok>> => LedgerInv'
  <2>1. ASSUME LedgerInv, Account' = Account, tok' = tok PROVE LedgerInv'
    BY <2>1 DEF LedgerInv, RotatedOnce
  <2> QED BY <2>1, LedgerStep
<1>3. LedgerInv => RevocationComplete /\ RotatedOnce
  BY DEF LedgerInv, RevocationComplete, Account
<1> QED BY <1>1, <1>2, <1>3, PTL DEF Ledger!Spec, Account

-----------------------------------------------------------------------------
(* Deadlocks *)

\* Blocks is what the guards of the statements ask for.
LEMMA BlocksIsTheGuards ==
  ASSUME NEW r \in Requests
  PROVE  /\ req[r].pc = "insert" \/ (req[r].pc = "commit" /\ req[r].op \in {"logout", "replay"}) =>
              (ShareGranted(r, req[r].u) <=> \A s \in Requests : ~Blocks(s, r))
         /\ req[r].pc = "mark" =>
              (TokenGranted(r, req[r].t) <=> \A s \in Requests : ~Blocks(s, r))
         /\ req[r].pc = "lock" =>
              ((\A t \in req[r].snap : TokenGranted(r, t)) <=> \A s \in Requests : ~Blocks(s, r))
         /\ req[r].pc = "write" =>
              (UpdateGranted(r, req[r].u) <=> \A s \in Requests : ~Blocks(s, r))
BY DEF Blocks, ShareGranted, TokenGranted, UpdateGranted

\* The wait-for cycles of the sessions: a refresh that has referenced the user and
\* waits for its token, and a deletion of that user that has the token and waits for
\* the reference to go.
THEOREM DeadlocksAreFoundHolds == Spec => []DeadlocksAreFound
<1>1. ASSUME TypeOK, Shape, Ownership, NEW C \in SUBSET Requests, NEW r \in C,
             \A x \in C : \E s \in C : Blocks(s, x)
      PROVE  \E m, d \in C : WaitCycle(m, d)
  <2>1. \A x \in C : req[x].pc # "commit" \/ req[x].op \in {"logout", "replay"}
    BY <1>1 DEF Blocks
  <2>2. \A x \in C : \A u : ~HoldsKeyLock(x, u) /\ ~HoldsRowLock(x, u)
    BY <2>1 DEF HoldsKeyLock, HoldsRowLock
  <2>3. \A x \in C : req[x].pc # "commit" /\ req[x].pc # "insert"
    BY <1>1, <2>1, <2>2 DEF Blocks
  <2>4. ASSUME NEW s \in C, NEW t, HoldsToken(s, t)
        PROVE  req[s].pc = "write" /\ req[s].op \in Revokers /\ t \in req[s].snap
    BY <2>3, <2>4 DEF HoldsToken
  <2>5. ASSUME NEW w \in C, req[w].pc = "write"
        PROVE  /\ req[w].op = "delete"
               /\ \E m \in C : HoldsShare(m, req[w].u) /\ req[m].pc = "mark"
    BY <1>1, <2>2, <2>3, <2>5 DEF Blocks, HoldsShare
  <2>6. PICK w \in C : req[w].pc = "write"
    BY <1>1, <2>3, <2>4 DEF Blocks
  <2>7. PICK m \in C : HoldsShare(m, req[w].u) /\ req[m].pc = "mark"
    BY <2>5, <2>6
  <2>8. PICK d \in C : HoldsToken(d, req[m].t)
    BY <1>1, <2>7 DEF Blocks
  <2>9. req[d].pc = "write" /\ req[m].t \in req[d].snap
    BY <2>4, <2>8
  <2>10. req[d].op = "delete" BY <2>5, <2>9
  <2>11. req[m].t \in Tokens /\ req[m].t # None
    BY <1>1, <2>9, NoneAssumption DEF TypeOK, Request
  <2>12. tok[req[m].t].owner = req[m].u /\ tok[req[m].t].owner = req[d].u
    BY <1>1, <2>9, <2>11 DEF Ownership
  <2>13. HoldsShare(m, req[d].u) BY <2>7, <2>12 DEF HoldsShare
  <2> QED BY <2>7, <2>8, <2>9, <2>10, <2>13 DEF WaitCycle
<1>2. IInv => DeadlocksAreFound BY <1>1 DEF IInv, DeadlocksAreFound
<1> QED BY <1>2, Invariance, PTL
=============================================================================
