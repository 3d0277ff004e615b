------------------------- MODULE InvitationsProofs --------------------------
(***************************************************************************)
(* Proofs about Invitations, for any number of emails, invitations and     *)
(* requests.  The properties except requests in flight together; Meeting   *)
(* says that those know it, and ChecksHold that what a request has checked *)
(* still holds when it commits, unless it has met another.                 *)
(***************************************************************************)
EXTENDS Invitations, TLAPS

LEMMA Constants ==
  /\ Idle \in Request /\ Idle.op = "none" /\ Idle.pc = "idle" /\ Idle.email = None
  /\ Idle.i = None /\ WellFormed(Idle)
  /\ Free \in InviteRow /\ Free.st = "free" /\ ~Free.revoked /\ ~Free.handed /\ Free.made = 0
  /\ Nobody \in Holder /\ Nobody.by = None
BY DEF Idle, Request, Free, InviteRow, Nobody, Holder, WellFormed

\* The fields of a request in flight.
LEMMA Formed ==
  ASSUME IInv, NEW r \in Requests
  PROVE  /\ req[r] \in Request /\ WellFormed(req[r])
         /\ req[r].op \in {"none", "issue", "revoke", "register"}
         /\ req[r].op # "none" =>
              /\ req[r].email \in Emails /\ req[r].i \in Invites
              /\ req[r].email # None /\ req[r].i # None
              /\ req[r].op = "issue" => req[r].pc \in {"user", "pending", "commit", "respond"}
              /\ req[r].op = "revoke" => req[r].pc \in {"lock", "write", "commit"}
              /\ req[r].op = "register" => req[r].pc \in {"lock", "user", "insert", "commit"}
         /\ req[r].op = "none" <=> req[r] = Idle
         /\ req[r].pc = "idle" <=> req[r] = Idle
<1>1. req[r] \in Request /\ WellFormed(req[r]) BY DEF IInv, TypeOK, Subject
<1>2. req[r] = Idle => req[r].op = "none" /\ req[r].pc = "idle" BY Constants
<1>3. req[r] # Idle =>
        /\ req[r].op \in {"issue", "revoke", "register"} /\ req[r].pc # "idle"
        /\ req[r].email \in Emails /\ req[r].i \in Invites
        /\ req[r].op = "issue" => req[r].pc \in {"user", "pending", "commit", "respond"}
        /\ req[r].op = "revoke" => req[r].pc \in {"lock", "write", "commit"}
        /\ req[r].op = "register" => req[r].pc \in {"lock", "user", "insert", "commit"}
  BY <1>1 DEF WellFormed, Request
<1>4. req[r].op \in {"none", "issue", "revoke", "register"} BY <1>1 DEF Request
<1> QED BY <1>1, <1>2, <1>3, <1>4, NoInviteAssumption

-----------------------------------------------------------------------------
(* A step of one request that changes no row *)

LEMMA LocalStep ==
  ASSUME IInv, NEW r \in Requests, NEW q \in Request,
         req' = [req EXCEPT ![r] = q], UNCHANGED <<invite, holder>>,
         WellFormed(q),
         \/ q = Idle
         \/ /\ q.op = req[r].op /\ q.email = req[r].email /\ q.i = req[r].i
            /\ q.met = req[r].met /\ q.pc # "respond" /\ req[r].pc # "respond",
         \* the locks it takes, and what it reads under them
         (q.op = "register" /\ q.pc \in {"user", "insert", "commit"})
           \/ (q.op = "revoke" /\ q.pc = "commit")
           => \A s \in Requests \ {r} : ~HoldsInvite(s, q.i),
         q.op = "register" /\ q.pc = "commit" =>
           ~Taken(q.email) /\ \A s \in Requests \ {r} : ~HoldsEmail(s, q.email),
         q.op = "register" /\ q.pc \in {"user", "insert", "commit"} =>
           invite[q.i].st = "open" /\ ~invite[q.i].revoked,
         \* its checks
         ~q.met /\ q.op = "issue" /\ q.pc \in {"pending", "commit"} => ~Taken(q.email),
         ~q.met /\ q.op = "issue" /\ q.pc = "commit" =>
           \A j \in Invites : Pending(j) => invite[j].email # q.email,
         ~q.met /\ q.op = "register" /\ q.pc \in {"user", "insert", "commit"} =>
           \A j \in Invites \ {q.i} :
              Pending(j) /\ invite[j].email = q.email => invite[j].met \/ invite[q.i].met
  PROVE  IInv'
<1>1. /\ req'[r] = q /\ \A s \in Requests \ {r} : req'[s] = req[s]
      /\ req' \in [Requests -> Request]
  BY DEF IInv, TypeOK
<1>2. /\ \A j \in Invites : Pending(j)' <=> Pending(j)
      /\ \A e \in Emails : Taken(e)' <=> Taken(e)
      /\ \A s \in Requests \ {r} :
           /\ Registering(s)' <=> Registering(s)
           /\ \A i \in Invites : HoldsInvite(s, i)' <=> HoldsInvite(s, i)
           /\ \A e \in Emails : HoldsEmail(s, e)' <=> HoldsEmail(s, e)
  BY <1>1 DEF Pending, Taken, Registering, HoldsInvite, HoldsEmail
<1>3. TypeOK' BY <1>1 DEF TypeOK, IInv
<1>4. Subject'
  <2>1. ASSUME NEW s \in Requests
        PROVE  /\ WellFormed(req'[s])
               /\ req'[s].op = "issue" /\ req'[s].pc # "respond" =>
                    /\ invite[req'[s].i] = Free
                    /\ \A x \in Requests \ {s} : req'[x].i # req'[s].i
               /\ req'[s].op \in {"revoke", "register"} \/ req'[s].pc = "respond" =>
                    invite[req'[s].i].st # "free" /\ invite[req'[s].i].email = req'[s].email
    <3>1. CASE s = r BY <1>1, <3>1, Constants DEF IInv, Subject
    <3>2. CASE s # r
      <4>1. req'[s] = req[s] BY <1>1, <3>2
      <4>2. req[s].op = "issue" => req[s].i # None BY Formed
      <4>3. req'[r].i \in {None, req[r].i} BY <1>1, Constants
      <4> QED BY <1>1, <3>2, <4>1, <4>2, <4>3 DEF IInv, Subject
    <3> QED BY <3>1, <3>2
  <2> QED BY <2>1 DEF Subject, WellFormed
<1>5. Rows' BY DEF IInv, Rows
<1>6. Locked'
  <2>1. ASSUME NEW i \in Invites, HoldsInvite(r, i)'
        PROVE  \A s \in Requests \ {r} : ~HoldsInvite(s, i)'
    BY <1>1, <1>2, <2>1, Constants DEF HoldsInvite
  <2>2. ASSUME NEW e \in Emails, HoldsEmail(r, e)'
        PROVE  ~Taken(e) /\ \A s \in Requests \ {r} : ~HoldsEmail(s, e)'
    BY <1>1, <1>2, <2>2, Constants DEF HoldsEmail
  <2>3. \A s, t \in Requests, i \in Invites : HoldsInvite(s, i)' /\ HoldsInvite(t, i)' => s = t
    BY <1>2, <2>1 DEF IInv, Locked
  <2>4. \A s, t \in Requests, e \in Emails : HoldsEmail(s, e)' /\ HoldsEmail(t, e)' => s = t
    BY <1>2, <2>2 DEF IInv, Locked
  <2>5. ASSUME NEW s \in Requests
        PROVE  /\ Registering(s)' => invite[req'[s].i].st = "open" /\ ~invite[req'[s].i].revoked
               /\ \A e \in Emails : HoldsEmail(s, e)' => ~Taken(e)'
    <3>1. CASE s = r BY <1>1, <1>2, <2>2, <3>1 DEF Registering
    <3>2. CASE s # r BY <1>1, <1>2, <3>2 DEF IInv, Locked
    <3> QED BY <3>1, <3>2
  <2> QED BY <2>3, <2>4, <2>5 DEF Locked
<1>7. Meeting' BY <1>1, Constants DEF IInv, Meeting
<1>8. ChecksHold'
  <2>1. ASSUME NEW s \in Requests, ~req'[s].met
        PROVE  /\ req'[s].op = "issue" /\ req'[s].pc \in {"pending", "commit"} =>
                    ~Taken(req[s].email)'
               /\ req'[s].op = "issue" /\ req'[s].pc = "commit" =>
                    \A j \in Invites : Pending(j)' => invite'[j].email # req'[s].email
               /\ Registering(s)' =>
                    \A j \in Invites \ {req'[s].i} :
                       Pending(j)' /\ invite'[j].email = req'[s].email
                         => invite'[j].met \/ invite'[req'[s].i].met
    <3>1. CASE s = r BY <1>1, <1>2, <2>1, <3>1, Constants DEF Registering, Taken
    <3>2. CASE s # r BY <1>1, <1>2, <2>1, <3>2 DEF IInv, ChecksHold, Taken
    <3> QED BY <3>1, <3>2
  <2> QED BY <2>1 DEF ChecksHold, Taken
<1>9. ConsumedOnce' /\ PendingIsUnique' /\ NoneLeftAfterRegistration'
  BY DEF IInv, ConsumedOnce, PendingIsUnique, NoneLeftAfterRegistration, Pending, Taken
<1> QED BY <1>3, <1>4, <1>5, <1>6, <1>7, <1>8, <1>9 DEF IInv

LEMMA StopKeeps ==
  ASSUME IInv, NEW r \in Requests, Stop(r)
  PROVE  IInv'
BY LocalStep, Constants DEF Stop

\* Going on: the locks are held from here on, the checks have just been made.
LEMMA GotoKeeps ==
  ASSUME IInv, NEW r \in Requests, NEW p, Goto(r, p), req[r].op # "none", req[r].pc # "respond",
         \/ req[r].op = "issue" /\ p = "pending" /\ ~Taken(req[r].email)
         \/ /\ req[r].op = "issue" /\ req[r].pc = "pending" /\ p = "commit"
            /\ \A j \in Invites : Pending(j) => invite[j].email # req[r].email
         \/ req[r].op = "revoke" /\ p = "write"
         \/ req[r].op = "revoke" /\ p = "commit" /\ InviteGranted(r)
         \/ /\ req[r].op = "register" /\ p = "user"
            /\ InviteGranted(r) /\ Pending(req[r].i)
         \/ req[r].op = "register" /\ req[r].pc = "user" /\ p = "insert"
         \/ /\ req[r].op = "register" /\ req[r].pc = "insert" /\ p = "commit"
            /\ EmailGranted(r) /\ ~Taken(req[r].email)
  PROVE  IInv'
<1> DEFINE q == [req[r] EXCEPT !.pc = p]
<1>1. req[r] \in Request /\ req[r].email \in Emails /\ req[r].i \in Invites BY Formed
<1>2. p \in {"pending", "commit", "write", "user", "insert"} OBVIOUS
<1>3. /\ q \in Request /\ q.pc = p /\ q.op = req[r].op /\ q.email = req[r].email
      /\ q.i = req[r].i /\ q.met = req[r].met
  BY <1>1, <1>2 DEF Request
<1>4. req' = [req EXCEPT ![r] = q] /\ UNCHANGED <<invite, holder>> BY DEF Goto
<1> HIDE DEF q
<1>5. WellFormed(q) BY <1>1, <1>3 DEF WellFormed
<1>6. q.op = "register" \/ (q.op = "revoke" /\ q.pc = "commit")
        => \A s \in Requests \ {r} : ~HoldsInvite(s, q.i)
  <2>1. CASE InviteGranted(r) BY <1>3, <2>1 DEF InviteGranted
  <2>2. CASE q.op = "register" /\ req[r].pc \in {"user", "insert"}
    <3>1. HoldsInvite(r, q.i) BY <1>3, <2>2 DEF HoldsInvite
    <3> QED BY <1>1, <1>3, <3>1 DEF IInv, Locked
  <2> QED BY <1>3, <2>1, <2>2
<1>7. q.op = "register" => invite[q.i].st = "open" /\ ~invite[q.i].revoked
  <2>1. CASE Pending(req[r].i) BY <1>1, <1>3, <2>1 DEF IInv, Rows, Pending
  <2>2. CASE Registering(r) BY <1>3, <2>2 DEF IInv, Locked
  <2> QED BY <1>3, <2>1, <2>2 DEF Registering
<1>8. q.op = "register" /\ q.pc = "commit" =>
        ~Taken(q.email) /\ \A s \in Requests \ {r} : ~HoldsEmail(s, q.email)
  BY <1>3 DEF EmailGranted
<1>9. ~q.met /\ q.op = "issue" /\ q.pc \in {"pending", "commit"} => ~Taken(q.email)
  BY <1>3 DEF IInv, ChecksHold
<1>10. ~q.met /\ q.op = "issue" /\ q.pc = "commit" =>
         \A j \in Invites : Pending(j) => invite[j].email # q.email
  BY <1>3
<1>11. ~q.met /\ q.op = "register" =>
         \A j \in Invites \ {q.i} :
            Pending(j) /\ invite[j].email = q.email => invite[j].met \/ invite[q.i].met
  <2>1. CASE q.op = "register" /\ Pending(req[r].i)
    <3>1. invite[q.i].email = q.email BY <1>3, <2>1 DEF IInv, Subject
    <3> QED BY <1>1, <1>3, <2>1, <3>1 DEF IInv, PendingIsUnique
  <2>2. CASE Registering(r) BY <1>3, <2>2 DEF IInv, ChecksHold
  <2> QED BY <1>3, <2>1, <2>2 DEF Registering
<1> QED BY <1>3, <1>4, <1>5, <1>6, <1>7, <1>8, <1>9, <1>10, <1>11, <1>2, LocalStep

-----------------------------------------------------------------------------
(* The start of a request *)

LEMMA StartKeeps ==
  ASSUME IInv, NEW r \in Requests, NEW op, NEW pc, NEW e \in Emails, NEW i \in Invites,
         Start(r, op, pc, e, i),
         \/ /\ op = "issue" /\ pc = "user" /\ invite[i] = Free
            /\ \A s \in Requests : req[s].i # i
         \/ op \in {"revoke", "register"} /\ pc = "lock" /\ invite[i] # Free
            /\ invite[i].email = e
  PROVE  IInv'
<1> DEFINE m == \E x \in Requests : Meets(op, e, x)
           n(s) == IF s = r THEN [op |-> op, pc |-> pc, email |-> e, i |-> i, met |-> m]
                   ELSE [req[s] EXCEPT !.met = @ \/ Meets(op, e, s)]
<1>1. req' = [s \in Requests |-> n(s)] /\ UNCHANGED <<invite, holder>> /\ req[r] = Idle
  BY DEF Start
<1>2. /\ req'[r].op = op /\ req'[r].pc = pc /\ req'[r].email = e /\ req'[r].i = i
      /\ req'[r].met = m /\ m \in BOOLEAN /\ req'[r] \in Request
  BY <1>1 DEF Request
<1>3. ASSUME NEW s \in Requests \ {r}
      PROVE  /\ req'[s].op = req[s].op /\ req'[s].pc = req[s].pc /\ req'[s].i = req[s].i
             /\ req'[s].email = req[s].email /\ req'[s] \in Request
             /\ req'[s].met <=> req[s].met \/ Meets(op, e, s)
             /\ req[s] = Idle => req'[s] = Idle
  <2>1. req[s] \in Request BY Formed
  <2>2. req'[s] = [req[s] EXCEPT !.met = req[s].met \/ Meets(op, e, s)] BY <1>1
  <2>3. Meets(op, e, s) \in BOOLEAN BY DEF Meets
  <2>4. req[s] = Idle => ~Meets(op, e, s) BY Constants DEF Meets
  <2> QED BY <2>1, <2>2, <2>3, <2>4 DEF Request
<1> HIDE DEF m, n
<1>4. /\ \A j \in Invites : Pending(j)' <=> Pending(j)
      /\ \A x \in Emails : Taken(x)' <=> Taken(x)
      /\ \A s \in Requests \ {r} :
           /\ Registering(s)' <=> Registering(s)
           /\ \A j \in Invites : HoldsInvite(s, j)' <=> HoldsInvite(s, j)
           /\ \A x \in Emails : HoldsEmail(s, x)' <=> HoldsEmail(s, x)
      /\ ~Registering(r)'
      /\ \A j \in Invites : ~HoldsInvite(r, j)'
      /\ \A x \in Emails : ~HoldsEmail(r, x)'
  BY <1>1, <1>2, <1>3 DEF Pending, Taken, Registering, HoldsInvite, HoldsEmail
<1>5. TypeOK'
  <2>1. req' \in [Requests -> Request] BY <1>1, <1>2, <1>3
  <2> QED BY <1>1, <2>1 DEF IInv, TypeOK
<1>6. Subject'
  <2>1. ASSUME NEW s \in Requests
        PROVE  /\ WellFormed(req'[s])
               /\ req'[s].op = "issue" /\ req'[s].pc # "respond" =>
                    /\ invite[req'[s].i] = Free
                    /\ \A x \in Requests \ {s} : req'[x].i # req'[s].i
               /\ req'[s].op \in {"revoke", "register"} \/ req'[s].pc = "respond" =>
                    invite[req'[s].i].st # "free" /\ invite[req'[s].i].email = req'[s].email
    <3>1. CASE s = r
      <4>1. WellFormed(req'[r]) BY <1>2 DEF WellFormed
      <4>2. invite[i].st = "free" => invite[i] = Free BY DEF IInv, Rows
      <4> QED BY <1>2, <1>3, <3>1, <4>1, <4>2
    <3>2. CASE s # r
      <4>1. WellFormed(req'[s]) BY <1>3, <3>2, Formed DEF WellFormed
      <4>2. req[s].op = "issue" /\ req[s].pc # "respond" =>
              invite[req[s].i] = Free /\ \A x \in Requests \ {s} : req[x].i # req[s].i
        BY DEF IInv, Subject
      <4>3. req[s].op \in {"revoke", "register"} \/ req[s].pc = "respond" =>
              invite[req[s].i].st # "free" /\ invite[req[s].i].email = req[s].email
        BY DEF IInv, Subject
      <4>4. req[s].op = "issue" /\ req[s].pc # "respond" => req[s].i # i
        BY <4>2
      <4> QED BY <1>2, <1>3, <3>2, <4>1, <4>2, <4>3, <4>4
    <3> QED BY <3>1, <3>2
  <2> QED BY <1>1, <2>1 DEF Subject, WellFormed
<1>7. Rows' BY <1>1 DEF IInv, Rows
<1>8. Locked'
  <2>1. \A s \in Requests : Registering(s)' =>
          invite[req'[s].i].st = "open" /\ ~invite[req'[s].i].revoked
    BY <1>3, <1>4 DEF IInv, Locked
  <2> QED BY <1>1, <1>4, <2>1 DEF IInv, Locked
<1>9. Meeting'
  <2>1. ASSUME NEW s \in Requests \ {r}, req'[s].email = e,
               {op, req'[s].op} \subseteq {"issue", "register"}
        PROVE  req'[s].met /\ req'[r].met
    <3>1. Meets(op, e, s) BY <1>3, <2>1 DEF Meets
    <3> QED BY <1>2, <1>3, <3>1 DEF m
  <2>2. \A s, t \in Requests \ {r} :
           /\ s # t /\ req'[s].email # None /\ req'[s].email = req'[t].email
           /\ {req'[s].op, req'[t].op} \subseteq {"issue", "register"}
           => req'[s].met /\ req'[t].met
    BY <1>3 DEF IInv, Meeting
  <2> QED BY <1>2, <2>1, <2>2 DEF Meeting
<1>10. ChecksHold'
  <2>1. ASSUME NEW s \in Requests, ~req'[s].met
        PROVE  /\ req'[s].op = "issue" /\ req'[s].pc \in {"pending", "commit"} =>
                    ~Taken(req'[s].email)
               /\ req'[s].op = "issue" /\ req'[s].pc = "commit" =>
                    \A j \in Invites : Pending(j) => invite[j].email # req'[s].email
               /\ Registering(s)' =>
                    \A j \in Invites \ {req'[s].i} :
                       Pending(j) /\ invite[j].email = req'[s].email
                         => invite[j].met \/ invite[req'[s].i].met
    <3>1. CASE s = r BY <1>2, <1>4, <3>1
    <3>2. CASE s # r BY <1>3, <1>4, <2>1, <3>2 DEF IInv, ChecksHold
    <3> QED BY <3>1, <3>2
  <2> QED BY <1>1, <2>1 DEF ChecksHold, Taken, Pending
<1>11. ConsumedOnce' /\ PendingIsUnique' /\ NoneLeftAfterRegistration'
  BY <1>1 DEF IInv, ConsumedOnce, PendingIsUnique, NoneLeftAfterRegistration, Pending, Taken
<1> QED BY <1>5, <1>6, <1>7, <1>8, <1>9, <1>10, <1>11 DEF IInv

-----------------------------------------------------------------------------
(* Steps that only take away: expiry, revocation, a freed email, an answer *)

LEMMA FewerKeeps ==
  ASSUME IInv, invite' \in [Invites -> InviteRow], holder' \in [Emails -> Holder],
         req' \in [Requests -> Request],
         \A i \in Invites :
           /\ invite'[i].st = invite[i].st /\ invite'[i].email = invite[i].email
           /\ invite'[i].made = invite[i].made /\ invite'[i].met = invite[i].met
           /\ invite[i].expired => invite'[i].expired
           /\ invite[i].st = "free" => invite'[i] = invite[i]
           /\ invite'[i].revoked => invite'[i].expired
           /\ \/ invite'[i].revoked = invite[i].revoked
              \/ \A s \in Requests : Registering(s) => req[s].i # i,
         \A e \in Emails : holder'[e] = holder[e] \/ holder'[e] = Nobody,
         \A s \in Requests : req'[s] = req[s] \/ req'[s] = Idle
  PROVE  IInv'
<1>1. /\ \A i \in Invites : Pending(i)' => Pending(i)
      /\ \A e \in Emails : Taken(e)' => Taken(e) /\ holder'[e] = holder[e]
  BY Constants DEF Pending, Taken, IInv, TypeOK, InviteRow
<1>2. \A s \in Requests :
        /\ Registering(s)' => Registering(s) /\ req'[s] = req[s]
        /\ \A i \in Invites : HoldsInvite(s, i)' => HoldsInvite(s, i)
        /\ \A e \in Emails : HoldsEmail(s, e)' => HoldsEmail(s, e)
        /\ req'[s].op # "none" => req'[s] = req[s]
        /\ req'[s].email # None => req'[s] = req[s]
  BY Constants DEF Registering, HoldsInvite, HoldsEmail
<1>3. TypeOK' BY DEF TypeOK
<1>4. Subject'
  <2>1. ASSUME NEW s \in Requests
        PROVE  /\ WellFormed(req'[s])
               /\ req'[s].op = "issue" /\ req'[s].pc # "respond" =>
                    /\ invite'[req'[s].i] = Free
                    /\ \A x \in Requests \ {s} : req'[x].i # req'[s].i
               /\ req'[s].op \in {"revoke", "register"} \/ req'[s].pc = "respond" =>
                    invite'[req'[s].i].st # "free" /\ invite'[req'[s].i].email = req'[s].email
    <3>1. CASE req'[s] = Idle BY <3>1, Constants
    <3>2. CASE req'[s] = req[s] /\ req[s] # Idle
      <4>1. req[s].i \in Invites /\ req[s].i # None BY <3>2, Formed
      <4>2. WellFormed(req[s]) BY Formed
      <4>3. req[s].op = "issue" /\ req[s].pc # "respond" =>
              invite[req[s].i] = Free /\ \A x \in Requests \ {s} : req[x].i # req[s].i
        BY DEF IInv, Subject
      <4>4. req[s].op \in {"revoke", "register"} \/ req[s].pc = "respond" =>
              invite[req[s].i].st # "free" /\ invite[req[s].i].email = req[s].email
        BY DEF IInv, Subject
      <4> QED BY <3>2, <4>1, <4>2, <4>3, <4>4, Constants
    <3> QED BY <3>1, <3>2
  <2> QED BY <2>1 DEF Subject, WellFormed
<1>5. Rows' BY DEF IInv, Rows
<1>6. Locked'
  <2>1. ASSUME NEW s \in Requests, Registering(s)'
        PROVE  invite'[req'[s].i].st = "open" /\ ~invite'[req'[s].i].revoked
    <3>1. Registering(s) /\ req'[s] = req[s] BY <1>2, <2>1
    <3>2. req[s].i \in Invites BY <3>1, Formed DEF Registering
    <3> QED BY <3>1, <3>2 DEF IInv, Locked
  <2> QED BY <1>1, <1>2, <2>1 DEF IInv, Locked
<1>7. Meeting' BY <1>2 DEF IInv, Meeting
<1>8. ChecksHold'
  <2>1. ASSUME NEW s \in Requests, ~req'[s].met
        PROVE  /\ req'[s].op = "issue" /\ req'[s].pc \in {"pending", "commit"} =>
                    ~(holder'[req'[s].email].by # None)
               /\ req'[s].op = "issue" /\ req'[s].pc = "commit" =>
                    \A j \in Invites : Pending(j)' => invite'[j].email # req'[s].email
               /\ Registering(s)' =>
                    \A j \in Invites \ {req'[s].i} :
                       Pending(j)' /\ invite'[j].email = req'[s].email
                         => invite'[j].met \/ invite'[req'[s].i].met
    <3>1. CASE req'[s].op = "none" BY <3>1 DEF Registering
    <3>2. CASE req'[s].op # "none"
      <4>1. req'[s] = req[s] /\ req[s].email \in Emails /\ req[s].i \in Invites
        BY <1>2, <3>2, Formed
      <4> QED BY <1>1, <1>2, <2>1, <4>1 DEF IInv, ChecksHold, Taken
    <3> QED BY <3>1, <3>2
  <2> QED BY <2>1 DEF ChecksHold, Taken
<1>9. ConsumedOnce' BY DEF IInv, ConsumedOnce
<1>10. PendingIsUnique' BY <1>1 DEF IInv, PendingIsUnique
<1>11. NoneLeftAfterRegistration'
  <2>1. ASSUME NEW i \in Invites, Pending(i)', holder'[invite'[i].email].by # None
        PROVE  invite'[i].met \/ holder'[invite'[i].email].met
    <3>1. Pending(i) BY <1>1, <2>1
    <3>2. invite[i].email \in Emails BY <3>1 DEF IInv, Rows, Pending
    <3> QED BY <1>1, <2>1, <3>1, <3>2 DEF IInv, NoneLeftAfterRegistration, Taken
  <2> QED BY <2>1 DEF NoneLeftAfterRegistration, Taken
<1> QED BY <1>3, <1>4, <1>5, <1>6, <1>7, <1>8, <1>9, <1>10, <1>11 DEF IInv

LEMMA ExpireKeeps ==
  ASSUME IInv, NEW i \in Invites, Expire(i)
  PROVE  IInv'
<1>1. invite[i] \in InviteRow BY DEF IInv, TypeOK
<1>2. invite' = [invite EXCEPT ![i] = [invite[i] EXCEPT !.expired = TRUE]]
  BY DEF Expire
<1>3. /\ invite' \in [Invites -> InviteRow]
      /\ \A j \in Invites \ {i} : invite'[j] = invite[j]
      /\ invite'[i].st = invite[i].st /\ invite'[i].email = invite[i].email
      /\ invite'[i].made = invite[i].made /\ invite'[i].met = invite[i].met
      /\ invite'[i].expired /\ invite'[i].revoked = invite[i].revoked
  BY <1>1, <1>2 DEF IInv, TypeOK, InviteRow
<1>4. invite[i].st # "free" BY DEF Expire, Pending
<1>5. \A j \in Invites : invite[j].revoked => invite[j].expired BY DEF IInv, Rows
<1>6. UNCHANGED <<holder, req>> BY DEF Expire
<1> QED BY <1>3, <1>4, <1>5, <1>6, FewerKeeps DEF IInv, TypeOK

LEMMA ReleaseEmailKeeps ==
  ASSUME IInv, NEW e \in Emails, ReleaseEmail(e)
  PROVE  IInv'
<1>1. \A j \in Invites : invite[j].revoked => invite[j].expired BY DEF IInv, Rows
<1> QED BY <1>1, Constants, FewerKeeps DEF ReleaseEmail, IInv, TypeOK

LEMMA RespondKeeps ==
  ASSUME IInv, NEW r \in Requests, Respond(r)
  PROVE  IInv'
<1> DEFINE i == req[r].i
<1>1. i \in Invites /\ invite[i] \in InviteRow /\ invite[i].st # "free"
  BY Formed DEF Respond, IInv, TypeOK, Subject
<1>2. PICK ok \in BOOLEAN : invite' = [invite EXCEPT ![i] = [invite[i] EXCEPT !.handed = ok]]
  BY DEF Respond
<1>3. /\ invite' \in [Invites -> InviteRow]
      /\ \A j \in Invites \ {i} : invite'[j] = invite[j]
      /\ invite'[i].st = invite[i].st /\ invite'[i].email = invite[i].email
      /\ invite'[i].made = invite[i].made /\ invite'[i].met = invite[i].met
      /\ invite'[i].expired = invite[i].expired /\ invite'[i].revoked = invite[i].revoked
  BY <1>1, <1>2 DEF IInv, TypeOK, InviteRow
<1>4. \A j \in Invites : invite[j].revoked => invite[j].expired BY DEF IInv, Rows
<1>5. req' = [req EXCEPT ![r] = Idle] /\ UNCHANGED holder BY DEF Respond
<1> QED BY <1>1, <1>3, <1>4, <1>5, Constants, FewerKeeps DEF IInv, TypeOK

LEMMA CommitRevokeKeeps ==
  ASSUME IInv, NEW r \in Requests, CommitRevoke(r)
  PROVE  IInv'
<1> DEFINE i == req[r].i
<1>1. i \in Invites /\ invite[i] \in InviteRow /\ invite[i].st # "free"
  BY Formed DEF CommitRevoke, IInv, TypeOK, Subject
<1>2. invite' = [invite EXCEPT ![i] = [invite[i] EXCEPT !.expired = TRUE, !.revoked = TRUE]]
  BY DEF CommitRevoke
<1>3. /\ invite' \in [Invites -> InviteRow]
      /\ \A j \in Invites \ {i} : invite'[j] = invite[j]
      /\ invite'[i].st = invite[i].st /\ invite'[i].email = invite[i].email
      /\ invite'[i].made = invite[i].made /\ invite'[i].met = invite[i].met
      /\ invite'[i].expired
  BY <1>1, <1>2 DEF IInv, TypeOK, InviteRow
<1>4. \A j \in Invites : invite[j].revoked => invite[j].expired BY DEF IInv, Rows
<1>5. req' = [req EXCEPT ![r] = Idle] /\ UNCHANGED holder BY DEF CommitRevoke
<1>6. HoldsInvite(r, i) BY DEF CommitRevoke, HoldsInvite
<1>7. \A s \in Requests : Registering(s) => req[s].i # i
  BY <1>1, <1>6 DEF IInv, Locked, Registering, HoldsInvite, CommitRevoke
<1> QED BY <1>1, <1>3, <1>4, <1>5, <1>7, Constants, FewerKeeps DEF IInv, TypeOK

-----------------------------------------------------------------------------
(* A new invitation *)

LEMMA CommitIssueKeeps ==
  ASSUME IInv, NEW r \in Requests, CommitIssue(r)
  PROVE  IInv'
<1>0. PICK i \in Invites, e \in Emails : i = req[r].i /\ e = req[r].email
  BY Formed, Constants DEF CommitIssue
<1> DEFINE n == [Free EXCEPT !.st = "open", !.email = e, !.met = req[r].met]
           q == [req[r] EXCEPT !.pc = "respond"]
<1>1. /\ req[r].op = "issue" /\ req[r].pc = "commit" /\ req[r].i = i /\ req[r].email = e
      /\ req[r] \in Request /\ i # None
  BY <1>0, NoInviteAssumption, Formed DEF CommitIssue
<1>2. /\ n \in InviteRow /\ n.st = "open" /\ n.email = e /\ n.met = req[r].met
      /\ ~n.expired /\ ~n.revoked /\ n.made = 0
  BY <1>1 DEF Free, InviteRow, Request
<1>3. /\ q \in Request /\ q.op = "issue" /\ q.pc = "respond" /\ q.email = e /\ q.i = i
      /\ q.met = req[r].met
  BY <1>1 DEF Request
<1>4. invite' = [invite EXCEPT ![i] = n] /\ req' = [req EXCEPT ![r] = q] /\ UNCHANGED holder
  BY <1>1 DEF CommitIssue
<1> HIDE DEF n, q
<1>5. /\ invite[i] = Free /\ \A s \in Requests \ {r} : req[s].i # i
  BY <1>1 DEF IInv, Subject
<1>eff. /\ invite'[i] = n /\ \A j \in Invites \ {i} : invite'[j] = invite[j]
       /\ req'[r] = q /\ \A s \in Requests \ {r} : req'[s] = req[s]
  BY <1>1, <1>4 DEF IInv, TypeOK
<1>6. /\ invite'[i] = n /\ \A j \in Invites \ {i} : invite'[j] = invite[j]
      /\ req'[r] = q /\ \A s \in Requests \ {r} : req'[s] = req[s]
      /\ ~Pending(i) /\ Pending(i)' /\ \A j \in Invites \ {i} : Pending(j)' <=> Pending(j)
      /\ \A x \in Emails : Taken(x)' <=> Taken(x)
  BY <1>2, <1>4, <1>5, <1>eff, Constants DEF Pending, Taken
<1>7. \A s \in Requests :
        /\ Registering(s)' <=> Registering(s)
        /\ \A j \in Invites : HoldsInvite(s, j)' <=> HoldsInvite(s, j)
        /\ \A x \in Emails : HoldsEmail(s, x)' <=> HoldsEmail(s, x)
  BY <1>1, <1>3, <1>6 DEF Registering, HoldsInvite, HoldsEmail
<1>8. TypeOK' BY <1>2, <1>3, <1>4 DEF IInv, TypeOK
<1>9. Subject'
  <2>1. ASSUME NEW s \in Requests
        PROVE  /\ WellFormed(req'[s])
               /\ req'[s].op = "issue" /\ req'[s].pc # "respond" =>
                    /\ invite'[req'[s].i] = Free
                    /\ \A x \in Requests \ {s} : req'[x].i # req'[s].i
               /\ req'[s].op \in {"revoke", "register"} \/ req'[s].pc = "respond" =>
                    invite'[req'[s].i].st # "free" /\ invite'[req'[s].i].email = req'[s].email
    <3>1. CASE s = r
      <4>1. WellFormed(q) BY <1>1, <1>3 DEF WellFormed
      <4> QED BY <1>2, <1>3, <1>6, <3>1, <4>1
    <3>2. CASE s # r
      <4>1. WellFormed(req[s]) BY Formed
      <4>2. req[s].op = "issue" /\ req[s].pc # "respond" =>
              invite[req[s].i] = Free /\ \A x \in Requests \ {s} : req[x].i # req[s].i
        BY DEF IInv, Subject
      <4>3. req[s].op \in {"revoke", "register"} \/ req[s].pc = "respond" =>
              invite[req[s].i].st # "free" /\ invite[req[s].i].email = req[s].email
        BY DEF IInv, Subject
      <4>4. req[s].op # "none" => req[s].i \in Invites \ {i} BY <1>5, <3>2, Formed
      <4>5. req[s].pc = "respond" => req[s].op # "none" BY Formed, Constants
      <4> QED BY <1>3, <1>6, <3>2, <4>1, <4>2, <4>3, <4>4, <4>5
    <3> QED BY <3>1, <3>2
  <2> QED BY <2>1 DEF Subject, WellFormed
<1>10. Rows' BY <1>1, <1>2, <1>6 DEF IInv, Rows
<1>11. Locked'
  <2>1. ASSUME NEW s \in Requests, Registering(s)'
        PROVE  invite'[req'[s].i].st = "open" /\ ~invite'[req'[s].i].revoked
    <3>1. s # r /\ Registering(s) /\ req'[s] = req[s] BY <1>1, <1>6, <1>7, <2>1 DEF Registering
    <3>2. req[s].i \in Invites \ {i} BY <1>5, <3>1, Formed DEF Registering
    <3> QED BY <1>6, <3>1, <3>2 DEF IInv, Locked
  <2> QED BY <1>6, <1>7, <2>1 DEF IInv, Locked
<1>12. Meeting' BY <1>1, <1>3, <1>6 DEF IInv, Meeting
<1>13. ASSUME NEW s \in Requests \ {r}, req[s].email = e, req[s].op \in {"issue", "register"}
       PROVE  req[s].met /\ req[r].met
  BY <1>1, <1>13, NoInviteAssumption DEF IInv, Meeting
<1>14. ChecksHold'
  <2>1. ASSUME NEW s \in Requests, ~req'[s].met
        PROVE  /\ req'[s].op = "issue" /\ req'[s].pc \in {"pending", "commit"} =>
                    ~(holder'[req'[s].email].by # None)
               /\ req'[s].op = "issue" /\ req'[s].pc = "commit" =>
                    \A j \in Invites : Pending(j)' => invite'[j].email # req'[s].email
               /\ Registering(s)' =>
                    \A j \in Invites \ {req'[s].i} :
                       Pending(j)' /\ invite'[j].email = req'[s].email
                         => invite'[j].met \/ invite'[req'[s].i].met
    <3>1. CASE s = r BY <1>1, <1>3, <1>6, <1>7, <3>1 DEF Registering
    <3>2. CASE s # r
      <4>1. req'[s] = req[s] BY <1>6, <3>2
      <4>2. req[s].op \in {"issue", "register"} => req[s].email # e BY <1>13, <2>1, <3>2, <4>1
      <4>3. Registering(s) => req[s].i \in Invites \ {i}
        BY <1>5, <3>2, Formed DEF Registering
      <4>4. /\ req[s].op = "issue" /\ req[s].pc \in {"pending", "commit"} => ~Taken(req[s].email)
            /\ req[s].op = "issue" /\ req[s].pc = "commit" =>
                 \A j \in Invites : Pending(j) => invite[j].email # req[s].email
            /\ Registering(s) =>
                 \A j \in Invites \ {req[s].i} :
                    Pending(j) /\ invite[j].email = req[s].email
                      => invite[j].met \/ invite[req[s].i].met
        BY <2>1, <4>1 DEF IInv, ChecksHold
      <4> QED BY <1>2, <1>4, <1>6, <1>7, <4>1, <4>2, <4>3, <4>4 DEF Taken, Registering
    <3> QED BY <3>1, <3>2
  <2> QED BY <2>1 DEF ChecksHold, Taken
<1>15. ConsumedOnce' BY <1>2, <1>6 DEF IInv, ConsumedOnce
<1>16. PendingIsUnique'
  <2>1. ~req[r].met => \A j \in Invites : Pending(j) => invite[j].email # e
    BY <1>1 DEF IInv, ChecksHold
  <2> QED BY <1>2, <1>6, <2>1 DEF IInv, PendingIsUnique
<1>17. NoneLeftAfterRegistration'
  <2>1. ~req[r].met => ~Taken(e) BY <1>1 DEF IInv, ChecksHold
  <2>2. ASSUME NEW j \in Invites, Pending(j)', holder'[invite'[j].email].by # None
        PROVE  invite'[j].met \/ holder'[invite'[j].email].met
    <3>1. CASE j = i BY <1>2, <1>4, <1>6, <2>1, <2>2, <3>1 DEF Taken
    <3>2. CASE j # i
      BY <1>4, <1>6, <2>2, <3>2 DEF IInv, NoneLeftAfterRegistration, Taken
    <3> QED BY <3>1, <3>2
  <2> QED BY <2>2 DEF NoneLeftAfterRegistration, Taken
<1> QED BY <1>8, <1>9, <1>10, <1>11, <1>12, <1>14, <1>15, <1>16, <1>17 DEF IInv

-----------------------------------------------------------------------------
(* A new account *)

LEMMA CommitRegisterKeeps ==
  ASSUME IInv, NEW r \in Requests, CommitRegister(r)
  PROVE  IInv'
<1>0. PICK i \in Invites, e \in Emails : i = req[r].i /\ e = req[r].email
  BY Formed, Constants DEF CommitRegister
<1> DEFINE n == [invite[i] EXCEPT !.st = "consumed", !.made = invite[i].made + 1]
           h == [by |-> i, met |-> req[r].met \/ invite[i].met]
<1>1. /\ req[r].op = "register" /\ req[r].pc = "commit" /\ req[r].i = i /\ req[r].email = e
      /\ req[r] \in Request /\ invite[i] \in InviteRow
  BY <1>0, Formed DEF CommitRegister, IInv, TypeOK
<1>2. /\ n \in InviteRow /\ n.st = "consumed" /\ n.email = invite[i].email
      /\ n.met = invite[i].met /\ n.expired = invite[i].expired
      /\ n.revoked = invite[i].revoked /\ n.made = invite[i].made + 1
  <2>1. invite[i].made + 1 \in Nat BY <1>1 DEF InviteRow
  <2> QED BY <1>1, <2>1 DEF InviteRow
<1>3. h \in Holder /\ h.by = i /\ h.met = (req[r].met \/ invite[i].met)
  BY <1>1 DEF Holder, Request, InviteRow
<1>4. /\ invite' = [invite EXCEPT ![i] = n] /\ holder' = [holder EXCEPT ![e] = h]
      /\ req' = [req EXCEPT ![r] = Idle]
  BY <1>1 DEF CommitRegister
<1> HIDE DEF n, h
<1>5. /\ invite[i].st = "open" /\ ~invite[i].revoked /\ invite[i].email = e
      /\ HoldsInvite(r, i) /\ HoldsEmail(r, e) /\ ~Taken(e) /\ Registering(r)
  BY <1>1 DEF IInv, Locked, Subject, Registering, HoldsInvite, HoldsEmail
<1>6. /\ invite'[i] = n /\ \A j \in Invites \ {i} : invite'[j] = invite[j]
      /\ holder'[e] = h /\ \A x \in Emails \ {e} : holder'[x] = holder[x]
      /\ req'[r] = Idle /\ \A s \in Requests \ {r} : req'[s] = req[s]
  BY <1>1, <1>4 DEF IInv, TypeOK
<1>7. /\ ~Pending(i)' /\ \A j \in Invites \ {i} : Pending(j)' <=> Pending(j)
      /\ \A x \in Emails \ {e} : Taken(x)' <=> Taken(x)
  BY <1>2, <1>6 DEF Pending, Taken
<1>8. /\ ~Registering(r)' /\ \A j \in Invites : ~HoldsInvite(r, j)'
      /\ \A x \in Emails : ~HoldsEmail(r, x)'
      /\ \A s \in Requests \ {r} :
           /\ Registering(s)' <=> Registering(s)
           /\ \A j \in Invites : HoldsInvite(s, j)' <=> HoldsInvite(s, j)
           /\ \A x \in Emails : HoldsEmail(s, x)' <=> HoldsEmail(s, x)
  BY <1>6, Constants DEF Registering, HoldsInvite, HoldsEmail
<1>9. TypeOK' BY <1>2, <1>3, <1>4, Constants DEF IInv, TypeOK
<1>10. Subject'
  <2>1. ASSUME NEW s \in Requests
        PROVE  /\ WellFormed(req'[s])
               /\ req'[s].op = "issue" /\ req'[s].pc # "respond" =>
                    /\ invite'[req'[s].i] = Free
                    /\ \A x \in Requests \ {s} : req'[x].i # req'[s].i
               /\ req'[s].op \in {"revoke", "register"} \/ req'[s].pc = "respond" =>
                    invite'[req'[s].i].st # "free" /\ invite'[req'[s].i].email = req'[s].email
    <3>1. CASE s = r BY <1>6, <3>1, Constants
    <3>2. CASE s # r
      <4>1. WellFormed(req[s]) /\ req'[s] = req[s] BY <1>6, <3>2, Formed
      <4>2. req[s].op = "issue" /\ req[s].pc # "respond" =>
              invite[req[s].i] = Free /\ \A x \in Requests \ {s} : req[x].i # req[s].i
        BY DEF IInv, Subject
      <4>3. req[s].op \in {"revoke", "register"} \/ req[s].pc = "respond" =>
              invite[req[s].i].st # "free" /\ invite[req[s].i].email = req[s].email
        BY DEF IInv, Subject
      <4>4. req[s].op # "none" => req[s].i \in Invites /\ req[s].i # None BY Formed
      <4>5. req[s].op = "issue" /\ req[s].pc # "respond" => req[s].i # i
        BY <1>5, <4>2, Constants
      <4>6. req[s].pc = "respond" => req[s].op # "none" BY Formed, Constants
      <4> QED BY <1>2, <1>6, <3>2, <4>1, <4>2, <4>3, <4>4, <4>5, <4>6, Constants
    <3> QED BY <3>1, <3>2
  <2> QED BY <2>1 DEF Subject, WellFormed
<1>11. Rows' BY <1>1, <1>2, <1>5, <1>6 DEF IInv, Rows
<1>12. Locked'
  <2>1. ASSUME NEW s \in Requests \ {r}
        PROVE  /\ Registering(s)' => invite'[req'[s].i].st = "open" /\ ~invite'[req'[s].i].revoked
               /\ \A x \in Emails : HoldsEmail(s, x)' => ~Taken(x)'
    <3>1. Registering(s) => req[s].i \in Invites /\ req[s].i # i
      BY <1>1, <1>5, Formed DEF Registering, HoldsInvite, IInv, Locked
    <3>2. ~HoldsEmail(s, e) BY <1>1, <1>5 DEF IInv, Locked
    <3> QED BY <1>6, <1>7, <1>8, <3>1, <3>2 DEF IInv, Locked
  <2> QED BY <1>8, <2>1 DEF IInv, Locked
<1>13. Meeting' BY <1>6, Constants DEF IInv, Meeting
<1>14. ASSUME NEW s \in Requests \ {r}, req[s].email = e, req[s].op \in {"issue", "register"}
       PROVE  req[s].met
  BY <1>1, <1>14, NoInviteAssumption DEF IInv, Meeting
<1>15. ChecksHold'
  <2>1. ASSUME NEW s \in Requests, ~req'[s].met
        PROVE  /\ req'[s].op = "issue" /\ req'[s].pc \in {"pending", "commit"} =>
                    ~(holder'[req'[s].email].by # None)
               /\ req'[s].op = "issue" /\ req'[s].pc = "commit" =>
                    \A j \in Invites : Pending(j)' => invite'[j].email # req'[s].email
               /\ Registering(s)' =>
                    \A j \in Invites \ {req'[s].i} :
                       Pending(j)' /\ invite'[j].email = req'[s].email
                         => invite'[j].met \/ invite'[req'[s].i].met
    <3>1. CASE s = r BY <1>6, <1>8, <3>1, Constants
    <3>2. CASE s # r
      <4>1. req'[s] = req[s] BY <1>6, <3>2
      <4>2. req[s].op \in {"issue", "register"} => req[s].email \in Emails \ {e}
        BY <1>14, <2>1, <3>2, <4>1, Formed
      <4>3. Registering(s) => req[s].i \in Invites /\ req[s].i # i
        BY <1>1, <1>5, <3>2, Formed DEF Registering, HoldsInvite, IInv, Locked
      <4>4. /\ req[s].op = "issue" /\ req[s].pc \in {"pending", "commit"} => ~Taken(req[s].email)
            /\ req[s].op = "issue" /\ req[s].pc = "commit" =>
                 \A j \in Invites : Pending(j) => invite[j].email # req[s].email
            /\ Registering(s) =>
                 \A j \in Invites \ {req[s].i} :
                    Pending(j) /\ invite[j].email = req[s].email
                      => invite[j].met \/ invite[req[s].i].met
        BY <2>1, <4>1 DEF IInv, ChecksHold
      <4>5. req[s].op = "issue" /\ req[s].pc \in {"pending", "commit"} =>
              ~(holder'[req[s].email].by # None)
        BY <1>6, <4>2, <4>4 DEF Taken
      <4> QED BY <1>6, <1>7, <1>8, <3>2, <4>1, <4>3, <4>4, <4>5
    <3> QED BY <3>1, <3>2
  <2> QED BY <2>1 DEF ChecksHold, Taken
<1>16. ConsumedOnce'
  <2>1. invite[i].made = 0 BY <1>1, <1>5 DEF IInv, ConsumedOnce
  <2> QED BY <1>2, <1>6, <2>1 DEF IInv, ConsumedOnce
<1>17. PendingIsUnique' BY <1>6, <1>7 DEF IInv, PendingIsUnique
<1>18. NoneLeftAfterRegistration'
  <2>1. ASSUME NEW j \in Invites, Pending(j)', holder'[invite'[j].email].by # None
        PROVE  invite'[j].met \/ holder'[invite'[j].email].met
    <3>1. j # i /\ Pending(j) /\ invite'[j] = invite[j] BY <1>6, <1>7, <2>1
    <3>2. CASE invite[j].email = e
      <4>1. ~req[r].met => invite[j].met \/ invite[i].met
        BY <1>1, <1>5, <3>1, <3>2 DEF IInv, ChecksHold
      <4> QED BY <1>3, <1>6, <3>1, <3>2, <4>1
    <3>3. CASE invite[j].email # e
      <4>1. invite[j].email \in Emails BY <3>1 DEF IInv, Rows, Pending
      <4> QED BY <1>6, <2>1, <3>1, <3>3, <4>1 DEF IInv, NoneLeftAfterRegistration, Taken
    <3> QED BY <3>2, <3>3
  <2> QED BY <2>1 DEF NoneLeftAfterRegistration, Taken
<1> QED BY <1>9, <1>10, <1>11, <1>12, <1>13, <1>15, <1>16, <1>17, <1>18 DEF IInv

-----------------------------------------------------------------------------
(* The theorems *)

LEMMA NextKeeps ==
  ASSUME IInv, [Next]_vars
  PROVE  IInv'
<1>1. CASE UNCHANGED vars
  BY <1>1 DEF vars, IInv, TypeOK, Subject, Rows, Locked, Meeting, ChecksHold, ConsumedOnce,
     PendingIsUnique, NoneLeftAfterRegistration, Pending, Taken, Registering, HoldsInvite,
     HoldsEmail, WellFormed
<1>2. ASSUME NEW r \in Requests, Arrive(r) PROVE IInv'
  <2>1. CASE Issue(r) BY <2>1, StartKeeps DEF Issue
  <2>2. ASSUME NEW i \in Invites, invite[i] # Free \/ invite[i].handed
        PROVE  invite[i] # Free /\ invite[i].email \in Emails
    BY <2>2, Constants DEF IInv, Rows
  <2>3. CASE Revoke(r) BY <2>2, <2>3, StartKeeps DEF Revoke
  <2>4. CASE Register(r) BY <2>2, <2>4, StartKeeps DEF Register
  <2> QED BY <1>2, <2>1, <2>3, <2>4 DEF Arrive
<1>3. ASSUME NEW r \in Requests, Step(r) PROVE IInv'
  <2>1. CASE CheckUser(r)
    <3>1. req[r].op \in {"issue", "register"} /\ req[r].pc = "user"
      BY <2>1, Formed, Constants DEF CheckUser
    <3> QED BY <2>1, <3>1, GotoKeeps, StopKeeps DEF CheckUser
  <2>2. CASE CheckPending(r)
    <3>1. req[r].op = "issue" /\ req[r].pc = "pending" BY <2>2, Formed, Constants DEF CheckPending
    <3> QED BY <2>2, <3>1, GotoKeeps, StopKeeps DEF CheckPending
  <2>3. CASE LockInvite(r) BY <2>3, GotoKeeps, StopKeeps DEF LockInvite
  <2>4. CASE InsertUser(r)
    <3>1. req[r].op = "register" /\ req[r].pc = "insert" BY <2>4, Formed, Constants DEF InsertUser
    <3> QED BY <2>4, <3>1, GotoKeeps, StopKeeps DEF InsertUser
  <2>5. CASE ReadInvite(r) BY <2>5, GotoKeeps, StopKeeps DEF ReadInvite
  <2>6. CASE WriteRevoked(r)
    <3>1. req[r].op = "revoke" /\ req[r].pc = "write" BY <2>6, Formed, Constants DEF WriteRevoked
    <3> QED BY <2>6, <3>1, GotoKeeps DEF WriteRevoked
  <2> QED BY <1>3, <2>1, <2>2, <2>3, <2>4, <2>5, <2>6, CommitIssueKeeps, RespondKeeps,
          CommitRegisterKeeps, CommitRevokeKeeps DEF Step
<1>4. ASSUME NEW r \in Requests, Crash(r) PROVE IInv' BY <1>4, StopKeeps DEF Crash
<1> QED BY <1>1, <1>2, <1>3, <1>4, ExpireKeeps, ReleaseEmailKeeps DEF Next

LEMMA InitIInv ==
  ASSUME Init
  PROVE  IInv
<1>1. /\ \A i \in Invites : invite[i] = Free /\ ~Pending(i)
      /\ \A r \in Requests : req[r] = Idle /\ ~Registering(r)
      /\ \A r \in Requests, i \in Invites : ~HoldsInvite(r, i)
      /\ \A r \in Requests, e \in Emails : ~HoldsEmail(r, e)
  BY Constants DEF Init, Pending, Registering, HoldsInvite, HoldsEmail
<1>2. TypeOK BY Constants DEF Init, TypeOK
<1>3. Subject BY <1>1, Constants DEF Subject
<1>4. Rows /\ Locked /\ ConsumedOnce BY <1>1, Constants DEF Rows, Locked, ConsumedOnce
<1>5. Meeting /\ ChecksHold BY <1>1, Constants DEF Meeting, ChecksHold
<1>6. PendingIsUnique /\ NoneLeftAfterRegistration
  BY <1>1 DEF PendingIsUnique, NoneLeftAfterRegistration
<1> QED BY <1>2, <1>3, <1>4, <1>5, <1>6 DEF IInv

\* The strengthening holds in every reachable state.
THEOREM Invariance == Spec => []IInv
<1>1. Init => IInv BY InitIInv
<1>2. IInv /\ [Next]_vars => IInv' BY NextKeeps
<1> QED BY <1>1, <1>2, PTL DEF Spec

\* Every row and every request in flight has its type.
THEOREM TypeCorrect == Spec => []TypeOK
<1>1. IInv => TypeOK BY DEF IInv
<1> QED BY <1>1, Invariance, PTL

\* No invitation makes a second account, deletions and freed emails included.
THEOREM ConsumedOnceHolds == Spec => []ConsumedOnce
<1>1. IInv => ConsumedOnce BY DEF IInv
<1> QED BY <1>1, Invariance, PTL

\* Two invitations are pending for one email only if requests met.
THEOREM PendingIsUniqueHolds == Spec => []PendingIsUnique
<1>1. IInv => PendingIsUnique BY DEF IInv
<1> QED BY <1>1, Invariance, PTL

\* A registration leaves no usable invitation for its email, unless requests met.
THEOREM NoneLeftHolds == Spec => []NoneLeftAfterRegistration
<1>1. IInv => NoneLeftAfterRegistration BY DEF IInv
<1> QED BY <1>1, Invariance, PTL

\* An acknowledged revocation is final.
THEOREM RevokedNeverUsedHolds == Spec => RevokedNeverUsed
<1>1. IInv => \A r \in Requests : CommitRegister(r) => ~invite[req[r].i].revoked
  BY DEF CommitRegister, IInv, Locked, Registering
<1>2. IInv /\ [Next]_vars =>
        [\A r \in Requests : CommitRegister(r) => ~invite[req[r].i].revoked]_vars
  BY <1>1
<1> QED BY <1>2, Invariance, PTL DEF Spec, RevokedNeverUsed
-----------------------------------------------------------------------------
(* Deadlocks *)

\* Blocks is what the guards of the statements ask for.
LEMMA BlocksIsTheGuards ==
  ASSUME NEW r \in Requests
  PROVE  /\ req[r].pc = "write" \/ (req[r].pc = "lock" /\ req[r].op = "register") =>
              (InviteGranted(r) <=> \A s \in Requests : ~Blocks(s, r))
         /\ req[r].pc = "insert" =>
              (EmailGranted(r) <=> \A s \in Requests : ~Blocks(s, r))
BY DEF Blocks, InviteGranted, EmailGranted

\* Requests about invitations never need a deadlock to be broken.
THEOREM NoWaitCycleHolds == Spec => []NoWaitCycle
<1>1. ASSUME NEW C \in SUBSET Requests, NEW c \in C,
             \A r \in C : \E s \in C : Blocks(s, r)
      PROVE  FALSE
  <2>1. \A r \in C : req[r].pc \in {"lock", "write", "insert"} BY <1>1 DEF Blocks
  <2>2. \A r \in C : \A e : ~HoldsEmail(r, e) BY <2>1 DEF HoldsEmail
  <2>3. \A r \in C : req[r].pc \in {"lock", "write"} BY <1>1, <2>1, <2>2 DEF Blocks
  <2>4. \A r \in C : \A i : ~HoldsInvite(r, i) BY <2>3 DEF HoldsInvite
  <2> QED BY <1>1, <2>2, <2>4 DEF Blocks
<1>2. NoWaitCycle BY <1>1 DEF NoWaitCycle
<1> QED BY <1>2, PTL
-----------------------------------------------------------------------------
(* Refinement: an invitation is a one-time link *)

State == [i \in Invites |-> InviteState(i)]
Claims == {c \in Requests \X Invites : Registering(c[1]) /\ req[c[1]].i = c[2]}
Uses == [i \in Invites |-> invite[i].made]

Simulated == OneTime!Next \/ (State' = State /\ Claims' = Claims /\ Uses' = Uses)

\* What the others have claimed stays as it is.
OthersKept(r) ==
  \A s \in Requests \ {r} :
     (Registering(s)' <=> Registering(s)) /\ req'[s].i = req[s].i

LEMMA RowsSame ==
  ASSUME UNCHANGED invite
  PROVE  State' = State /\ Uses' = Uses
BY DEF State, Uses, InviteState

LEMMA ClaimsSame ==
  ASSUME NEW r \in Requests, OthersKept(r),
         Registering(r)' <=> Registering(r), Registering(r) => req'[r].i = req[r].i
  PROVE  Claims' = Claims
BY DEF Claims, OthersKept

LEMMA ClaimEnds ==
  ASSUME NEW r \in Requests, OthersKept(r), Registering(r), ~Registering(r)'
  PROVE  Claims' = Claims \ {<<r, req[r].i>>}
BY DEF Claims, OthersKept

LEMMA ClaimBegins ==
  ASSUME NEW r \in Requests, OthersKept(r), ~Registering(r), Registering(r)',
         req'[r].i \in Invites
  PROVE  Claims' = Claims \cup {<<r, req'[r].i>>}
BY DEF Claims, OthersKept

\* The program counters outside Registering make no claim.
LEMMA RequestStep ==
  ASSUME IInv, NEW r \in Requests, NEW q, req' = [req EXCEPT ![r] = q]
  PROVE  /\ OthersKept(r) /\ req'[r] = q
         /\ Registering(r)' <=> q.op = "register" /\ q.pc \in {"user", "insert", "commit"}
BY DEF IInv, TypeOK, OthersKept, Registering

LEMMA StopSimulates ==
  ASSUME IInv, NEW r \in Requests, Stop(r)
  PROVE  Simulated
<1>1. OthersKept(r) /\ ~Registering(r)' BY RequestStep, Constants DEF Stop
<1>2. State' = State /\ Uses' = Uses BY RowsSame DEF Stop
<1>3. CASE ~Registering(r) BY <1>1, <1>2, <1>3, ClaimsSame DEF Simulated
<1>4. CASE Registering(r)
  <2>1. PICK i \in Invites : i = req[r].i BY <1>4, Formed DEF Registering
  <2>2. Claims' = Claims \ {<<r, i>>} BY <1>1, <1>4, <2>1, ClaimEnds
  <2>3. OneTime!Release(r, i)
    BY <1>2, <2>2 DEF OneTime!Release, State, Claims, Uses
  <2> QED BY <2>1, <2>3 DEF Simulated, OneTime!Next
<1> QED BY <1>3, <1>4

\* Going on keeps what is claimed, but for the lock that makes the claim.
LEMMA GotoSimulates ==
  ASSUME IInv, NEW r \in Requests, NEW p, Goto(r, p),
         (req[r].op = "register" /\ p \in {"user", "insert", "commit"}) <=> Registering(r)
  PROVE  Simulated
<1> DEFINE q == [req[r] EXCEPT !.pc = p]
<1>1. req' = [req EXCEPT ![r] = q] BY DEF Goto
<1>2. req[r] \in Request BY DEF IInv, TypeOK
<1>3. q.op = req[r].op /\ q.i = req[r].i /\ q.pc = p BY <1>2 DEF Request
<1> HIDE DEF q
<1>4. OthersKept(r) /\ (Registering(r)' <=> Registering(r)) /\ req'[r].i = req[r].i
  BY <1>1, <1>3, RequestStep
<1> QED BY <1>4, RowsSame, ClaimsSame DEF Simulated, Goto

LEMMA LockSimulates ==
  ASSUME IInv, NEW r \in Requests, LockInvite(r)
  PROVE  Simulated
<1>1. CASE ~Pending(req[r].i) BY <1>1, StopSimulates DEF LockInvite
<1>2. CASE Pending(req[r].i)
  <2> DEFINE q == [req[r] EXCEPT !.pc = "user"]
  <2>0. PICK i \in Invites : i = req[r].i BY Formed DEF LockInvite
  <2>1. req' = [req EXCEPT ![r] = q] /\ UNCHANGED invite BY <1>2 DEF LockInvite, Goto
  <2>2. req[r] \in Request /\ req[r].op = "register" /\ req[r].pc = "lock" /\ i = req[r].i
    BY <1>2, <2>0, Formed DEF LockInvite
  <2>3. q.op = "register" /\ q.pc = "user" /\ q.i = i BY <2>2 DEF Request
  <2> HIDE DEF q
  <2>4. /\ OthersKept(r) /\ ~Registering(r) /\ Registering(r)' /\ req'[r].i = i
    BY <2>1, <2>2, <2>3, RequestStep DEF Registering
  <2>5. Claims' = Claims \cup {<<r, i>>} BY <2>2, <2>4, ClaimBegins
  <2>6. \A c \in Requests : ~(Registering(c) /\ req[c].i = i)
    BY <1>2, <2>0, <2>4 DEF LockInvite, InviteGranted, HoldsInvite, Registering
  <2>7. \A c \in Requests : <<c, i>> \notin Claims BY <2>6 DEF Claims
  <2>8. State[i] = "live" BY <1>2, <2>2 DEF State, InviteState, Pending
  <2>9. State' = State /\ Uses' = Uses BY <2>1, RowsSame
  <2>10. OneTime!Claim(r, i)
    BY <2>5, <2>7, <2>8, <2>9 DEF OneTime!Claim, OneTime!Claimed, State, Claims, Uses
  <2> QED BY <2>2, <2>10 DEF Simulated, OneTime!Next
<1> QED BY <1>1, <1>2

LEMMA StartSimulates ==
  ASSUME IInv, NEW r \in Requests, NEW op, NEW pc, NEW e, NEW i, Start(r, op, pc, e, i),
         pc = "lock" \/ op = "issue"
  PROVE  Simulated
<1> DEFINE new == [op |-> op, pc |-> pc, email |-> e, i |-> i,
                   met |-> \E x \in Requests : Meets(op, e, x)]
<1>1. req'[r] = new BY DEF Start
<1>2. ~Registering(r) /\ ~Registering(r)'
  BY <1>1, Constants DEF Start, Registering
<1>3. ASSUME NEW s \in Requests \ {r}
      PROVE  (Registering(s)' <=> Registering(s)) /\ req'[s].i = req[s].i
  <2>1. req'[s] = [req[s] EXCEPT !.met = @ \/ Meets(op, e, s)] /\ req[s] \in Request
    BY DEF Start, IInv, TypeOK
  <2>2. req'[s].op = req[s].op /\ req'[s].pc = req[s].pc /\ req'[s].i = req[s].i
    BY <2>1 DEF Request
  <2> QED BY <2>2 DEF Registering
<1> QED BY <1>2, <1>3, RowsSame, ClaimsSame DEF OthersKept, Simulated, Start

LEMMA CommitIssueSimulates ==
  ASSUME IInv, NEW r \in Requests, CommitIssue(r)
  PROVE  Simulated
<1> DEFINE i == req[r].i
           q == [req[r] EXCEPT !.pc = "respond"]
           row == [Free EXCEPT !.st = "open", !.email = req[r].email, !.met = req[r].met]
<1>1. req' = [req EXCEPT ![r] = q] /\ invite' = [invite EXCEPT ![i] = row]
  BY DEF CommitIssue
<1>2. /\ req[r].op = "issue" /\ req[r].pc = "commit" /\ req[r] \in Request /\ i \in Invites
      /\ invite[i] = Free /\ invite \in [Invites -> InviteRow]
  BY Formed DEF CommitIssue, IInv, Subject, TypeOK
<1>3. q.op = "issue" BY <1>2 DEF Request
<1>4. row.st = "open" /\ ~row.expired /\ row.made = 0 BY DEF Free
<1> HIDE DEF q, row
<1>5. OthersKept(r) /\ ~Registering(r) /\ ~Registering(r)'
  BY <1>1, <1>2, <1>3, RequestStep DEF Registering
<1>6. Claims' = Claims BY <1>5, ClaimsSame
<1>7. State[i] = "none" /\ Uses[i] = 0 BY <1>2, Constants DEF State, Uses, InviteState
<1>8. State' = [k \in Invites |->
                  IF k = i THEN "live"
                  ELSE IF k \in {} /\ State[k] = "live" THEN "dead" ELSE State[k]]
  BY <1>1, <1>2, <1>4 DEF State, InviteState
<1>9. Uses' = Uses BY <1>1, <1>2, <1>4, <1>7 DEF Uses
<1>10. OneTime!Issue(i, {})
  BY <1>6, <1>7, <1>8, <1>9 DEF OneTime!Issue, State, Claims, Uses
<1>11. {} \in SUBSET Invites OBVIOUS
<1> QED BY <1>2, <1>10, <1>11 DEF Simulated, OneTime!Next

LEMMA RespondSimulates ==
  ASSUME IInv, NEW r \in Requests, Respond(r)
  PROVE  Simulated
<1>1. PICK ok \in BOOLEAN : invite' = [invite EXCEPT ![req[r].i].handed = ok]
  BY DEF Respond
<1>2. /\ req' = [req EXCEPT ![r] = Idle] /\ req[r].pc = "respond"
      /\ invite \in [Invites -> InviteRow]
  BY DEF Respond, IInv, TypeOK
<1>3. \A j \in Invites : invite'[j].st = invite[j].st /\ invite'[j].expired = invite[j].expired
                         /\ invite'[j].made = invite[j].made
  BY <1>1, <1>2 DEF InviteRow
<1>4. State' = State /\ Uses' = Uses BY <1>3 DEF State, Uses, InviteState
<1>5. OthersKept(r) /\ ~Registering(r) /\ ~Registering(r)'
  BY <1>2, RequestStep, Constants DEF Registering
<1> QED BY <1>4, <1>5, ClaimsSame DEF Simulated

LEMMA CommitRegisterSimulates ==
  ASSUME IInv, NEW r \in Requests, CommitRegister(r)
  PROVE  Simulated
<1>0. PICK i \in Invites : i = req[r].i BY Formed DEF CommitRegister
<1>1. /\ req[r].op = "register" /\ req[r].pc = "commit" /\ i = req[r].i
      /\ req' = [req EXCEPT ![r] = Idle] /\ invite \in [Invites -> InviteRow]
  BY <1>0 DEF CommitRegister, IInv, TypeOK
<1>2. invite' = [invite EXCEPT ![i].st = "consumed", ![i].made = @ + 1]
  BY <1>0 DEF CommitRegister
<1>3. Registering(r) /\ invite[i].st = "open"
  BY <1>1 DEF Registering, IInv, Locked
<1>4. OthersKept(r) /\ ~Registering(r)' BY <1>1, RequestStep, Constants
<1>5. Claims' = Claims \ {<<r, i>>} BY <1>1, <1>3, <1>4, ClaimEnds
<1>6. <<r, i>> \in Claims BY <1>1, <1>3 DEF Claims
<1>7. State[i] # "used" BY <1>1, <1>3 DEF State, InviteState
<1>8. /\ invite'[i].st = "consumed" /\ invite'[i].made = invite[i].made + 1
      /\ \A j \in Invites \ {i} : invite'[j] = invite[j]
  BY <1>1, <1>2 DEF InviteRow
<1>9. State' = [State EXCEPT ![i] = "used"] BY <1>1, <1>8 DEF State, InviteState
<1>10. Uses' = [Uses EXCEPT ![i] = @ + 1] BY <1>1, <1>8 DEF Uses
<1>11. OneTime!Use(r, i)
  BY <1>5, <1>6, <1>7, <1>9, <1>10 DEF OneTime!Use, State, Claims, Uses
<1> QED BY <1>0, <1>11 DEF Simulated, OneTime!Next

\* A row that only runs out: it dies if it was pending, else nothing is seen.
LEMMA DyingSimulates ==
  ASSUME IInv, NEW i \in Invites, Claims' = Claims, invite[i].st # "free",
         invite'[i].st = invite[i].st, invite'[i].made = invite[i].made, invite'[i].expired,
         \A j \in Invites \ {i} : invite'[j] = invite[j]
  PROVE  Simulated
<1>1. Uses' = Uses BY DEF Uses
<1>2. CASE State[i] = "live"
  <2>1. State' = [State EXCEPT ![i] = "dead"] BY <1>2 DEF State, InviteState
  <2>2. OneTime!Die(i) BY <1>1, <1>2, <2>1 DEF OneTime!Die, State, Claims, Uses
  <2> QED BY <2>2 DEF Simulated, OneTime!Next
<1>3. CASE State[i] # "live"
  <2>1. State' = State BY <1>3 DEF State, InviteState
  <2> QED BY <1>1, <2>1 DEF Simulated
<1> QED BY <1>2, <1>3

LEMMA CommitRevokeSimulates ==
  ASSUME IInv, NEW r \in Requests, CommitRevoke(r)
  PROVE  Simulated
<1> DEFINE i == req[r].i
<1>1. /\ req[r].op = "revoke" /\ req[r].pc = "commit" /\ i \in Invites
      /\ req' = [req EXCEPT ![r] = Idle] /\ invite \in [Invites -> InviteRow]
      /\ invite[i].st # "free"
  BY Formed DEF CommitRevoke, IInv, TypeOK, Subject
<1>2. invite' = [invite EXCEPT ![i].expired = TRUE, ![i].revoked = TRUE]
  BY DEF CommitRevoke
<1>3. /\ invite'[i].st = invite[i].st /\ invite'[i].made = invite[i].made /\ invite'[i].expired
      /\ \A j \in Invites \ {i} : invite'[j] = invite[j]
  BY <1>1, <1>2 DEF InviteRow
<1>4. OthersKept(r) /\ ~Registering(r) /\ ~Registering(r)'
  BY <1>1, RequestStep, Constants DEF Registering
<1> QED BY <1>1, <1>3, <1>4, ClaimsSame, DyingSimulates

LEMMA ExpireSimulates ==
  ASSUME IInv, NEW i \in Invites, Expire(i)
  PROVE  Simulated
<1>1. /\ invite[i].st = "open" /\ invite' = [invite EXCEPT ![i].expired = TRUE]
      /\ invite \in [Invites -> InviteRow] /\ UNCHANGED req
  BY DEF Expire, Pending, IInv, TypeOK
<1>2. /\ invite'[i].st = invite[i].st /\ invite'[i].made = invite[i].made /\ invite'[i].expired
      /\ \A j \in Invites \ {i} : invite'[j] = invite[j]
  BY <1>1 DEF InviteRow
<1>3. Claims' = Claims BY <1>1 DEF Claims, Registering
<1> QED BY <1>1, <1>2, <1>3, DyingSimulates

LEMMA StepSimulates ==
  ASSUME IInv, NEW r \in Requests, Arrive(r) \/ Step(r) \/ Crash(r)
  PROVE  Simulated
<1>1. CASE Arrive(r) BY <1>1, StartSimulates DEF Arrive, Issue, Revoke, Register
<1>2. CASE CheckUser(r)
  <2>1. req[r].op \in {"issue", "register"} /\ req[r].pc = "user"
    BY <1>2, Formed, Constants DEF CheckUser
  <2> QED BY <1>2, <2>1, GotoSimulates, StopSimulates DEF CheckUser, Registering
<1>3. CASE CheckPending(r)
  <2>1. req[r].op = "issue" BY <1>3, Formed, Constants DEF CheckPending
  <2> QED BY <1>3, <2>1, GotoSimulates, StopSimulates DEF CheckPending, Registering
<1>4. CASE InsertUser(r)
  <2>1. req[r].op = "register" /\ req[r].pc = "insert"
    BY <1>4, Formed, Constants DEF InsertUser
  <2> QED BY <1>4, <2>1, GotoSimulates, StopSimulates DEF InsertUser, Registering
<1>5. CASE ReadInvite(r)
  BY <1>5, GotoSimulates, StopSimulates DEF ReadInvite, Registering
<1>6. CASE WriteRevoked(r)
  <2>1. req[r].op = "revoke" BY <1>6, Formed, Constants DEF WriteRevoked
  <2> QED BY <1>6, <2>1, GotoSimulates DEF WriteRevoked, Registering
<1>7. CASE Crash(r) BY <1>7, StopSimulates DEF Crash
<1> QED
  BY <1>1, <1>2, <1>3, <1>4, <1>5, <1>6, <1>7, LockSimulates, CommitIssueSimulates,
     RespondSimulates, CommitRegisterSimulates, CommitRevokeSimulates DEF Step

LEMMA OneTimeInit ==
  ASSUME Init
  PROVE  OneTime!Init
<1>1. State = [i \in Invites |-> "none"] /\ Uses = [i \in Invites |-> 0]
  BY Constants DEF Init, State, Uses, InviteState
<1>2. Claims = {} BY Constants DEF Init, Claims, Registering
<1> QED BY <1>1, <1>2 DEF OneTime!Init, State, Claims, Uses

\* Every behaviour of the invitations, projected on what becomes of the links, is
\* one of links that work once.
THEOREM InvitationsAreOneTimeLinks == Spec => OneTimeSpec
<1>1. Init => OneTime!Init BY OneTimeInit
<1>2. ASSUME IInv, [Next]_vars PROVE Simulated
  <2>1. CASE UNCHANGED vars
    BY <2>1, RowsSame DEF vars, Simulated, Claims, Registering
  <2>2. ASSUME NEW e \in Emails, ReleaseEmail(e) PROVE Simulated
    BY <2>2, RowsSame DEF ReleaseEmail, Simulated, Claims, Registering
  <2> QED BY <1>2, <2>1, <2>2, StepSimulates, ExpireSimulates DEF Next
<1>3. IInv /\ [Next]_vars => [OneTime!Next]_<<State, Claims, Uses>>
  BY <1>2 DEF Simulated
<1> QED BY <1>1, <1>3, Invariance, PTL DEF Spec, OneTimeSpec, OneTime!Spec, State, Claims, Uses

\* A link that works once is used at most once: for an invitation, ConsumedOnce.
THEOREM OneTimeLinksAreUsedOnce == OneTime!Spec => []ConsumedOnce
<1>1. OneTime!Init => OneTime!UsedOnce BY DEF OneTime!Init, OneTime!UsedOnce
<1>2. ASSUME OneTime!UsedOnce, OneTime!Next PROVE OneTime!UsedOnce'
  <2> USE DEF State, Uses
  <2>1. \A l \in Invites : Uses[l] = IF State[l] = "used" THEN 1 ELSE 0
    BY <1>2 DEF OneTime!UsedOnce
  <2>2. ASSUME NEW l \in Invites, NEW S \in SUBSET Invites, OneTime!Issue(l, S)
        PROVE  \A k \in Invites : Uses'[k] = IF State'[k] = "used" THEN 1 ELSE 0
    BY <2>1, <2>2 DEF OneTime!Issue
  <2>3. ASSUME NEW l \in Invites, OneTime!Die(l)
        PROVE  \A k \in Invites : Uses'[k] = IF State'[k] = "used" THEN 1 ELSE 0
    BY <2>1, <2>3 DEF OneTime!Die
  <2>4. ASSUME NEW l \in Invites, NEW c \in Requests, OneTime!Use(c, l)
        PROVE  \A k \in Invites : Uses'[k] = IF State'[k] = "used" THEN 1 ELSE 0
    <3>1. /\ State[l] # "used" /\ State' = [State EXCEPT ![l] = "used"]
          /\ Uses' = [Uses EXCEPT ![l] = Uses[l] + 1]
      BY <2>4 DEF OneTime!Use
    <3>2. DOMAIN State = Invites /\ DOMAIN Uses = Invites OBVIOUS
    <3> HIDE DEF State, Uses
    <3>3. Uses[l] = 0 BY <2>1, <3>1
    <3>4. /\ State'[l] = "used" /\ Uses'[l] = 1
          /\ \A k \in Invites \ {l} : State'[k] = State[k] /\ Uses'[k] = Uses[k]
      BY <3>1, <3>2, <3>3
    <3> QED BY <2>1, <3>4
  <2>5. ASSUME NEW l \in Invites, NEW c \in Requests,
               OneTime!Claim(c, l) \/ OneTime!Release(c, l)
        PROVE  \A k \in Invites : Uses'[k] = IF State'[k] = "used" THEN 1 ELSE 0
    BY <2>1, <2>5 DEF OneTime!Claim, OneTime!Release
  <2>6. \A k \in Invites : Uses'[k] = IF State'[k] = "used" THEN 1 ELSE 0
    BY <1>2, <2>2, <2>3, <2>4, <2>5 DEF OneTime!Next
  <2> QED BY <2>6 DEF OneTime!UsedOnce
<1>3. ASSUME OneTime!UsedOnce, State' = State, Claims' = Claims, Uses' = Uses
      PROVE  OneTime!UsedOnce'
  BY <1>3 DEF OneTime!UsedOnce, State, Uses
<1>4. OneTime!UsedOnce => ConsumedOnce
  BY DEF OneTime!UsedOnce, ConsumedOnce, InviteState
<1>5. OneTime!UsedOnce /\ [OneTime!Next]_<<State, Claims, Uses>> => OneTime!UsedOnce'
  BY <1>2, <1>3
<1> QED BY <1>1, <1>4, <1>5, PTL DEF OneTime!Spec, State, Claims, Uses
=============================================================================
