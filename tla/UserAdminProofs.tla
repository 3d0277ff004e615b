--------------------------- MODULE UserAdminProofs --------------------------
(***************************************************************************)
(* Proofs about UserAdmin, for any number of users and requests.  One      *)
(* invariant carries them: what a request relies on, its own authority and *)
(* the target it has loaded, holds unless `lost` records that a commit has *)
(* taken it away.                                                          *)
(***************************************************************************)
EXTENDS UserAdmin, TLAPS

LEMMA IdleTyped == Idle \in Request
BY DEF Idle, Request

\* A step before COMMIT changes the request alone, by one of these.
LEMMA Quiet ==
  ASSUME TypeOK, NEW r \in Requests, NEW q \in Request, req' = [req EXCEPT ![r] = q],
         UNCHANGED <<account, script>>
  PROVE  /\ TypeOK'
         /\ req'[r] = q
         /\ \A s \in Requests \ {r} : req'[s] = req[s]
BY DEF TypeOK

\* Authority of the others survives a step that only changes r's own record.
LEMMA QuietAuthority ==
  ASSUME IInv, NEW r \in Requests, NEW q \in Request, req' = [req EXCEPT ![r] = q],
         UNCHANGED <<account, script>>,
         WellFormed(q),
         q.pc \notin {"idle", "auth"} /\ q.actor \notin q.lost => ActiveAdmin(q.actor),
         q.pc = "count" /\ q.wasActive /\ q.target \notin q.lost => ActiveAdmin(q.target),
         q.pc \notin {"idle", "auth", "load"} /\ q.op # "noop" => q.actor # q.target
  PROVE  IInv'
<1>1. /\ TypeOK' /\ req'[r] = q
      /\ \A s \in Requests \ {r} : req'[s] = req[s]
  BY Quiet DEF IInv
<1>2. \A u \in Users : ActiveAdmin(u)' <=> ActiveAdmin(u) BY DEF ActiveAdmin
<1>3. ASSUME NEW s \in Requests
      PROVE  /\ WellFormed(req'[s])
             /\ Past(s)' /\ req'[s].actor \notin req'[s].lost => ActiveAdmin(req[s].actor)'
             /\ req'[s].pc = "count" /\ req'[s].wasActive /\ req'[s].target \notin req'[s].lost
                  => ActiveAdmin(req[s].target)'
             /\ Past(s)' /\ req'[s].pc # "load" /\ req'[s].op # "noop"
                  => req'[s].actor # req'[s].target
  <2>1. CASE s = r BY <1>1, <2>1 DEF Past, ActiveAdmin
  <2>2. CASE s # r BY <1>1, <2>2 DEF IInv, Authority, Past, ActiveAdmin
  <2> QED BY <2>1, <2>2
<1> QED BY <1>1, <1>3 DEF IInv, Authority, WellFormed

LEMMA StopKeeps ==
  ASSUME IInv, NEW r \in Requests, Stop(r)
  PROVE  IInv'
<1>1. Idle.pc = "idle" BY DEF Idle
<1> QED BY <1>1, IdleTyped, QuietAuthority DEF Stop, WellFormed

LEMMA StepIInv ==
  ASSUME IInv, NEW r \in Requests, Start(r) \/ Step(r) \/ Crash(r)
  PROVE  IInv'
<1> DEFINE q == req[r]
<1>1. q \in Request /\ TypeOK /\ WellFormed(q) BY DEF IInv, TypeOK, Authority
<1>2. q.pc # "idle" => /\ q.actor \in Users /\ q.target \in Users
                       /\ q.op \in Ops \/ (q.op = "noop" /\ q.pc \in {"audit", "commit"})
  BY <1>1 DEF WellFormed, Idle
<1>3. /\ Past(r) /\ q.actor \notin q.lost => ActiveAdmin(q.actor)
      /\ Past(r) /\ q.pc # "load" /\ q.op # "noop" => q.actor # q.target
  BY DEF IInv, Authority
<1>4. CASE Start(r)
  <2>1. PICK op \in Ops, a \in Registered, u \in Registered :
           req' = [req EXCEPT ![r] = [Idle EXCEPT !.op = op, !.pc = "auth",
                                                  !.actor = a, !.target = u]]
    BY <1>4 DEF Start
  <2> DEFINE n == [Idle EXCEPT !.op = op, !.pc = "auth", !.actor = a, !.target = u]
  <2>2. n.op = op /\ n.pc = "auth" /\ n.actor = a /\ n.target = u BY DEF Idle
  <2>3. n \in Request BY DEF Idle, Request, Registered
  <2> HIDE DEF n
  <2>4. WellFormed(n) BY <2>2 DEF WellFormed, Registered
  <2>5. UNCHANGED <<account, script>> BY <1>4 DEF Start
  <2>6. req' = [req EXCEPT ![r] = n] BY <2>1 DEF n
  <2> QED BY <2>2, <2>3, <2>4, <2>5, <2>6, QuietAuthority
<1>5. ASSUME NEW p \in {"load", "write", "audit", "commit"}, Goto(r, p), q.pc # "idle",
             p # "load" => Past(r) /\ q.pc # "load",
             p \notin {"audit", "commit"} => q.op \in Ops,
             q.actor \notin q.lost => ActiveAdmin(q.actor)
      PROVE  IInv'
  <2> DEFINE n == [q EXCEPT !.pc = p]
  <2>1. /\ n \in Request /\ n.op = q.op /\ n.pc = p /\ n.actor = q.actor
        /\ n.target = q.target /\ n.lost = q.lost
    BY <1>1 DEF Request
  <2>2. req' = [req EXCEPT ![r] = n] /\ UNCHANGED <<account, script>> BY <1>5 DEF Goto
  <2> HIDE DEF n
  <2>3. WellFormed(n) BY <1>2, <1>5, <2>1 DEF WellFormed
  <2> QED BY <1>3, <1>5, <2>1, <2>2, <2>3, QuietAuthority
<1>6. CASE Authorise(r)
  <2>1. CASE Stop(r) BY <2>1, StopKeeps
  <2>2. CASE Goto(r, "load") /\ ActiveAdmin(q.actor) /\ q.pc = "auth"
    BY <2>2, <1>2, <1>5
  <2> QED BY <1>6, <2>1, <2>2 DEF Authorise
<1>7. CASE Load(r)
  <2>1. CASE Stop(r) BY <2>1, StopKeeps
  <2>2. CASE UNCHANGED <<account, script>> /\ req' = [req EXCEPT ![r].op = "noop", ![r].pc = "audit"]
    <3> DEFINE n == [q EXCEPT !.op = "noop", !.pc = "audit"]
    <3>1. /\ n \in Request /\ n.op = "noop" /\ n.pc = "audit" /\ n.actor = q.actor
          /\ n.target = q.target /\ n.lost = q.lost
      BY <1>1 DEF Request
    <3>2. UNCHANGED <<account, script>> /\ req' = [req EXCEPT ![r] = n] BY <2>2
    <3>3. q.pc = "load" BY <1>7 DEF Load
    <3> HIDE DEF n
    <3>4. WellFormed(n) BY <1>2, <3>1, <3>3 DEF WellFormed
    <3>5. q.actor \notin q.lost => ActiveAdmin(q.actor) BY <1>3, <3>3 DEF Past
    <3> QED BY <3>1, <3>2, <3>4, <3>5, QuietAuthority
  <2>3. CASE ~Stop(r) /\ ~(UNCHANGED <<account, script>> /\ req' = [req EXCEPT ![r].op = "noop", ![r].pc = "audit"])
    <3> DEFINE row == account[q.target]
               n == [q EXCEPT !.pc = IF Guarded(q.op, row) THEN "count" ELSE "write",
                              !.wasActive = q.op \in Removals /\ row.active]
    <3>1. /\ q.pc = "load" /\ q.target # q.actor /\ UNCHANGED <<account, script>>
          /\ req' = [req EXCEPT ![r] = n]
      BY <1>7, <2>3, <1>1 DEF Load, TypeOK
    <3>2. /\ n \in Request /\ n.op = q.op /\ n.actor = q.actor /\ n.target = q.target
          /\ n.lost = q.lost /\ n.pc \in {"count", "write"}
          /\ n.pc = "count" => Guarded(q.op, row)
          /\ n.wasActive => row.active
      BY <1>1 DEF Request
    <3> HIDE DEF n
    <3>3. WellFormed(n) BY <1>2, <3>1, <3>2 DEF WellFormed
    <3>4. n.pc = "count" /\ n.wasActive => ActiveAdmin(q.target)
      BY <3>2 DEF Guarded, ActiveAdmin
    <3>5. q.actor \notin q.lost => ActiveAdmin(q.actor)
      BY <1>3, <3>1 DEF Past
    <3> QED BY <3>1, <3>2, <3>3, <3>4, <3>5, QuietAuthority
  <2> QED BY <2>1, <2>2, <2>3
<1>8. CASE Count(r)
  <2>1. CASE Stop(r) BY <2>1, StopKeeps
  <2>2. CASE Goto(r, "write") /\ q.pc = "count" BY <2>2, <1>2, <1>3, <1>5 DEF Past
  <2> QED BY <1>8, <2>1, <2>2 DEF Count
<1>9. CASE Write(r) BY <1>9, <1>2, <1>3, <1>5 DEF Write, Past
<1>10. CASE Audit(r) BY <1>10, <1>2, <1>3, <1>5 DEF Audit, Past
<1>11. CASE Crash(r) \/ DeadlockVictim(r)
  BY <1>11, StopKeeps DEF Crash, DeadlockVictim
<1>12. CASE Commit(r)
  <2>1. q.pc = "commit" /\ q.op \in Ops \cup {"noop"} /\ q.target \in Users BY <1>2, <1>12 DEF Commit
  <2>2. account' = [account EXCEPT ![q.target] = Updated(q, account[q.target])]
    BY <1>12 DEF Commit
  <2>3. Updated(q, account[q.target]) \in AccountRow
    BY <1>1, <2>1 DEF Updated, AccountRow, TypeOK, Ops, Removals
  <2>4. account' \in [Users -> AccountRow] BY <1>1, <2>2, <2>3 DEF TypeOK
  <2>5. ASSUME NEW u \in Users, ActiveAdmin(u), ~ActiveAdmin(u)'
        PROVE  q.op \in Removals /\ u = q.target
    BY <1>1, <2>1, <2>2, <2>5 DEF ActiveAdmin, Updated, AccountRow, TypeOK, Ops
  <2>6. req'[r] = Idle /\ Idle.pc = "idle" BY <1>12 DEF Commit, Idle
  <2>7. ASSUME NEW s \in Requests \ {r}
        PROVE  /\ req'[s] \in Request /\ req'[s].op = req[s].op /\ req'[s].pc = req[s].pc
               /\ req'[s].actor = req[s].actor /\ req'[s].target = req[s].target
               /\ req'[s].wasActive = req[s].wasActive
               /\ req[s].lost \subseteq req'[s].lost
               /\ q.op \in Removals /\ Past(s) /\ q.target \in {req[s].actor, req[s].target}
                    => q.target \in req'[s].lost
               /\ req[s].pc = "idle" => req'[s] = req[s]
    <3>1. req[s] \in Request BY <1>1 DEF TypeOK
    <3>2. req'[s] = IF /\ q.op \in Removals /\ req[s].pc \notin {"idle", "auth"}
                       /\ q.target \in {req[s].actor, req[s].target}
                    THEN [req[s] EXCEPT !.lost = @ \cup {q.target}]
                    ELSE req[s]
      BY <1>12 DEF Commit
    <3> QED BY <2>1, <3>1, <3>2 DEF Request, Past
  <2>8. TypeOK'
    <3>1. req' \in [Requests -> Request]
      BY <2>6, <2>7, IdleTyped, <1>12 DEF Commit
    <3> QED BY <1>1, <2>4, <3>1, <1>12 DEF TypeOK, Commit
  <2>9. ASSUME NEW s \in Requests
        PROVE  /\ WellFormed(req'[s])
               /\ Past(s)' /\ req'[s].actor \notin req'[s].lost => ActiveAdmin(req[s].actor)'
               /\ req'[s].pc = "count" /\ req'[s].wasActive /\ req'[s].target \notin req'[s].lost
                    => ActiveAdmin(req[s].target)'
               /\ Past(s)' /\ req'[s].pc # "load" /\ req'[s].op # "noop"
                  => req'[s].actor # req'[s].target
    <3>1. CASE s = r BY <2>6, <3>1 DEF Past, WellFormed
    <3>2. CASE s # r
      <4>1. WellFormed(req[s]) BY DEF IInv, Authority
      <4>2. CASE req[s].pc = "idle" BY <2>7, <3>2, <4>1, <4>2 DEF Past
      <4>3. CASE req[s].pc # "idle"
        <5>1. /\ req[s].actor \in Users /\ req[s].target \in Users
              /\ req[s].op \in Ops \/ (req[s].op = "noop" /\ req[s].pc \in {"audit", "commit"})
          BY <4>1, <4>3 DEF WellFormed, Idle
        <5>2. WellFormed(req'[s]) BY <2>7, <3>2, <4>3, <5>1 DEF WellFormed
        <5>3. Past(s)' <=> Past(s) BY <2>7, <3>2 DEF Past
        <5>4. Past(s) /\ req'[s].actor \notin req'[s].lost => ActiveAdmin(req[s].actor)'
          <6>1. SUFFICES ASSUME Past(s), req'[s].actor \notin req'[s].lost
                         PROVE  ActiveAdmin(req[s].actor)'
            OBVIOUS
          <6>2. ActiveAdmin(req[s].actor) BY <2>7, <3>2, <6>1 DEF IInv, Authority
          <6>3. ~(q.op \in Removals /\ req[s].actor = q.target) BY <2>7, <3>2, <6>1
          <6>4. req'[s].actor = req[s].actor BY <2>7, <3>2
          <6> QED BY <2>5, <5>1, <6>2, <6>3, <6>4 DEF ActiveAdmin
        <5>5. req'[s].pc = "count" /\ req'[s].wasActive /\ req'[s].target \notin req'[s].lost
                => ActiveAdmin(req[s].target)'
          <6>1. SUFFICES ASSUME req'[s].pc = "count", req'[s].wasActive,
                                req'[s].target \notin req'[s].lost
                         PROVE  ActiveAdmin(req[s].target)'
            OBVIOUS
          <6>2. ActiveAdmin(req[s].target) /\ Past(s)
            BY <2>7, <3>2, <6>1 DEF IInv, Authority, Past
          <6>3. ~(q.op \in Removals /\ req[s].target = q.target) BY <2>7, <3>2, <6>1, <6>2
          <6>4. req'[s].target = req[s].target BY <2>7, <3>2
          <6> QED BY <2>5, <5>1, <6>2, <6>3, <6>4 DEF ActiveAdmin
        <5>6. Past(s)' /\ req'[s].pc # "load" /\ req'[s].op # "noop"
                  => req'[s].actor # req'[s].target
          BY <2>7, <3>2, <5>3 DEF IInv, Authority
        <5> QED BY <5>2, <5>3, <5>4, <5>5, <5>6
      <4> QED BY <4>2, <4>3
    <3> QED BY <3>1, <3>2
  <2> QED BY <2>8, <2>9 DEF IInv, Authority, WellFormed
<1> QED BY <1>4, <1>6, <1>7, <1>8, <1>9, <1>10, <1>11, <1>12 DEF Step

\* A new row takes nothing away from anybody.
LEMMA ArrivalsKeep ==
  ASSUME IInv, Arrivals
  PROVE  IInv' /\ (SomeAdmin => SomeAdmin')
<1>1. UNCHANGED req /\ script' \in {"idle", "insert"}
  BY DEF Arrivals, BootstrapChecks, BootstrapInserts, Register, IInv, TypeOK
<1>2. /\ account' \in [Users -> AccountRow]
      /\ \A u \in Registered : account'[u] = account[u]
  <2>1. account \in [Users -> AccountRow]
    BY DEF IInv, TypeOK
  <2>2. CASE UNCHANGED account
    BY <2>1, <2>2
  <2>3. CASE \E u \in Users \ Registered, role \in {"admin", "staff"} :
               account' = [account EXCEPT ![u] = [NoRow EXCEPT !.role = role, !.active = TRUE]]
    <3>1. PICK u \in Users \ Registered, role \in {"admin", "staff"} :
             account' = [account EXCEPT ![u] = [NoRow EXCEPT !.role = role, !.active = TRUE]]
      BY <2>3
    <3>2. [NoRow EXCEPT !.role = role, !.active = TRUE] \in AccountRow
      BY DEF NoRow, AccountRow
    <3> QED
      BY <2>1, <3>1, <3>2 DEF Registered
  <2> QED
    BY <2>2, <2>3 DEF Arrivals, BootstrapChecks, BootstrapInserts, Register
<1>3. \A u \in Users : ActiveAdmin(u) => ActiveAdmin(u)'
  BY <1>2 DEF ActiveAdmin, Registered
<1>4. TypeOK'
  BY <1>1, <1>2 DEF TypeOK, IInv
<1>5. Authority'
  <2> SUFFICES ASSUME NEW r \in Requests
               PROVE  /\ WellFormed(req[r])
                      /\ Past(r) /\ req[r].actor \notin req[r].lost => ActiveAdmin(req[r].actor)'
                      /\ req[r].pc = "count" /\ req[r].wasActive /\ req[r].target \notin req[r].lost
                           => ActiveAdmin(req[r].target)'
                      /\ Past(r) /\ req[r].pc # "load" /\ req[r].op # "noop"
                           => req[r].actor # req[r].target
    BY <1>1 DEF Authority, Past, WellFormed, ActiveAdmin
  <2>1. Past(r) => req[r].actor \in Users /\ req[r].target \in Users
    BY DEF IInv, Authority, WellFormed, Past, Idle
  <2>2. req[r].pc = "count" => Past(r)
    BY DEF Past
  <2>3. /\ WellFormed(req[r])
        /\ Past(r) /\ req[r].actor \notin req[r].lost => ActiveAdmin(req[r].actor)
        /\ req[r].pc = "count" /\ req[r].wasActive /\ req[r].target \notin req[r].lost
             => ActiveAdmin(req[r].target)
        /\ Past(r) /\ req[r].pc # "load" /\ req[r].op # "noop" => req[r].actor # req[r].target
    BY DEF IInv, Authority
  <2> QED
    BY <1>3, <2>1, <2>2, <2>3, <1>1 DEF ActiveAdmin
<1> QED
  BY <1>3, <1>4, <1>5 DEF IInv, SomeAdmin

LEMMA InitIInv ==
  ASSUME Init
  PROVE  IInv
<1>1. TypeOK BY IdleTyped DEF Init, TypeOK, AccountRow, NoRow
<1>2. Authority
  <2>1. \A r \in Requests : req[r] = Idle BY DEF Init
  <2>2. Idle.pc = "idle" BY DEF Idle
  <2> QED BY <2>1, <2>2 DEF Authority, WellFormed, Past
<1> QED BY <1>1, <1>2 DEF IInv

\* What a request relies on holds unless `lost` says otherwise.
THEOREM Invariance == Spec => []IInv
<1>1. Init => IInv BY InitIInv
<1>2. IInv /\ [Next]_vars => IInv'
  <2>1. ASSUME IInv, UNCHANGED vars PROVE IInv'
    BY <2>1 DEF vars, IInv, TypeOK, Authority, Past, ActiveAdmin, WellFormed
  <2> QED BY <2>1, StepIInv, ArrivalsKeep DEF Next
<1> QED BY <1>1, <1>2, PTL DEF Spec

\* Every row and every request has its type.
THEOREM TypeCorrect == Spec => []TypeOK
<1>1. IInv => TypeOK BY DEF IInv
<1> QED BY <1>1, Invariance, PTL

\* The count of active admins can only be too low if a removal of the actor or
\* of the target came in between.
THEOREM CountGuardNeedsARaceHolds == Spec => []CountGuardNeedsARace
<1>1. IInv => CountGuardNeedsARace
  <2> SUFFICES ASSUME IInv, NEW r \in Requests, req[r].pc = "count", req[r].wasActive,
                      req[r].lost = {}
               PROVE  SeveralAdmins
    BY DEF CountGuardNeedsARace
  <2>1. req[r].actor \in Users /\ req[r].target \in Users /\ req[r].op \in Ops
    BY DEF IInv, Authority, WellFormed, Idle
  <2>2. ActiveAdmin(req[r].actor) /\ ActiveAdmin(req[r].target) /\ req[r].actor # req[r].target
    BY <2>1 DEF IInv, Authority, Past, Ops, Removals
  <2> QED BY <2>1, <2>2 DEF SeveralAdmins
<1> QED BY <1>1, Invariance, PTL

\* The last active admin falls only to a request whose own authority is gone.
THEOREM LastAdminHolds == Spec => LastAdminFallsToALostActor
<1> DEFINE A == SomeAdmin /\ ~SomeAdmin' =>
                  \E r \in Requests : Commit(r) /\ req[r].actor \in req[r].lost
<1>1. ASSUME IInv, [Next]_vars PROVE A
  <2> SUFFICES ASSUME SomeAdmin, ~SomeAdmin'
               PROVE  \E r \in Requests : Commit(r) /\ req[r].actor \in req[r].lost
    OBVIOUS
  <2>1. account' # account BY DEF SomeAdmin, ActiveAdmin
  <2>2. PICK r \in Requests : Commit(r)
    BY <1>1, <2>1, ArrivalsKeep DEF Next, vars, Start, Step, Crash, DeadlockVictim, Authorise,
       Load, Count, Write, Audit, Goto, Stop
  <2>3. ASSUME req[r].actor \notin req[r].lost PROVE FALSE
    <3>1. req[r].pc = "commit" /\ req[r].op # "noop"
      BY <1>1, <2>1, <2>2 DEF Commit, Updated, IInv, TypeOK
    <3>2. req[r].actor \in Users BY <1>1, <3>1 DEF IInv, Authority, WellFormed, Idle
    <3>3. ActiveAdmin(req[r].actor) /\ req[r].actor # req[r].target
      BY <1>1, <2>3, <3>1 DEF IInv, Authority, Past
    <3>4. account'[req[r].actor] = account[req[r].actor]
      BY <1>1, <2>2, <3>2, <3>3 DEF Commit, IInv, TypeOK
    <3> QED BY <3>2, <3>3, <3>4 DEF SomeAdmin, ActiveAdmin
  <2> QED BY <2>2, <2>3
<1>2. IInv /\ [Next]_vars => [A]_vars BY <1>1
<1> QED BY <1>2, Invariance, PTL DEF Spec, LastAdminFallsToALostActor
\* A commit is the commit of a request past require_admin: in a lockout there is none.
LEMMA LockoutStays ==
  ASSUME IInv, LockedOut, NEW r \in Requests, Start(r) \/ Step(r) \/ Crash(r)
  PROVE  LockedOut'
<1>1. req[r].pc \in {"idle", "auth"} /\ script = "idle" /\ req[r] \in Request
  BY DEF LockedOut, IInv, TypeOK
<1>2. ASSUME UNCHANGED <<account, script>>, NEW q \in Request, q.pc \in {"idle", "auth"},
             req' = [req EXCEPT ![r] = q]
      PROVE  LockedOut'
  BY <1>2 DEF LockedOut, SomeAdmin, ActiveAdmin, AdminRow, IInv, TypeOK
<1>3. ASSUME Stop(r) PROVE LockedOut'
  BY <1>2, <1>3, IdleTyped DEF Stop, Idle
<1>4. CASE Start(r)
  <2>1. PICK op \in Ops, a \in Registered, u \in Registered :
           req' = [req EXCEPT ![r] = [Idle EXCEPT !.op = op, !.pc = "auth",
                                                  !.actor = a, !.target = u]]
    BY <1>4 DEF Start
  <2> DEFINE n == [Idle EXCEPT !.op = op, !.pc = "auth", !.actor = a, !.target = u]
  <2>2. n \in Request /\ n.pc = "auth" BY DEF Idle, Request, Registered
  <2>3. req' = [req EXCEPT ![r] = n] BY <2>1
  <2> QED BY <1>2, <1>4, <2>2, <2>3 DEF Start
<1>5. CASE Authorise(r)
  <2>1. req[r].actor \in Users
    BY <1>5 DEF Authorise, IInv, Authority, WellFormed, Idle
  <2>2. ~ActiveAdmin(req[r].actor) BY <2>1 DEF LockedOut, SomeAdmin
  <2> QED BY <1>3, <1>5, <2>2 DEF Authorise
<1>6. CASE Crash(r) \/ DeadlockVictim(r)
  BY <1>3, <1>6 DEF Crash, DeadlockVictim
<1> QED
  BY <1>1, <1>4, <1>5, <1>6 DEF Step, Load, Count, Write, Audit, Commit

\* Neither an admin request nor the script ends a lockout.
THEOREM LockoutHolds == Spec => OnlyAnInvitationEndsALockout
<1> DEFINE A == LockedOut => LockedOut' \/ \E u \in Users : Register(u)
<1>1. ASSUME IInv, Next PROVE A
  <2> SUFFICES ASSUME LockedOut PROVE LockedOut' \/ \E u \in Users : Register(u)
    OBVIOUS
  <2>1. ~BootstrapChecks /\ ~BootstrapInserts
    BY DEF LockedOut, BootstrapChecks, BootstrapInserts
  <2> QED BY <1>1, <2>1, LockoutStays DEF Next, Arrivals
<1>2. IInv /\ [Next]_vars => [A]_vars BY <1>1
<1> QED BY <1>2, Invariance, PTL DEF Spec, OnlyAnInvitationEndsALockout
\* Whatever requests wait for one another, two of them are deletions of which one
\* removes the actor of the other.
THEOREM DeadlocksAreMutualDeletionsHolds == Spec => []DeadlocksAreMutualDeletions
<1>1. ASSUME NEW C \in SUBSET Requests, NEW r \in C, WaitCycle(C)
      PROVE  \E x, y \in C :
                /\ x # y /\ req[y].target = req[x].actor
                /\ \A z \in {x, y} : req[z].op = "delete" /\ req[z].pc = "audit"
  <2>1. \A x \in C : req[x].pc \in {"write", "audit"}
    BY <1>1 DEF WaitCycle, Blocks
  <2>2. PICK a \in C : req[a].pc = "audit"
    BY <1>1, <2>1 DEF WaitCycle, Blocks, Holds, HoldsShare
  <2>3. ASSUME NEW x \in C, req[x].pc = "audit"
        PROVE  \E y \in C : /\ x # y /\ req[y].target = req[x].actor
                            /\ req[y].op = "delete" /\ req[y].pc = "audit"
    BY <1>1, <2>1, <2>3 DEF WaitCycle, Blocks, HoldsKey, Holds
  <2>4. PICK x \in C : req[x].op = "delete" /\ req[x].pc = "audit"
    BY <2>2, <2>3
  <2> QED BY <2>3, <2>4
<1>2. DeadlocksAreMutualDeletions BY <1>1 DEF DeadlocksAreMutualDeletions
<1> QED BY <1>2, PTL
=============================================================================
