----------------------- MODULE PasswordResetsProofs ------------------------
(***************************************************************************)
(* Proofs about PasswordResets, for any number of users, links and         *)
(* requests.  Meeting says that issuers in flight together know it, Locked *)
(* and ChecksHold that what a request has read still holds when it         *)
(* commits, and Rows that an overridden link is dead.                      *)
(***************************************************************************)
EXTENDS PasswordResets, TLAPS

LEMMA Constants ==
  /\ Idle \in Request /\ Idle.op = "none" /\ Idle.pc = "idle" /\ Idle.u = None
  /\ Idle.t = None /\ WellFormed(Idle)
  /\ Free \in LinkRow /\ Free.st = "free" /\ ~Free.expired /\ ~Free.over /\ Free.made = 0
BY DEF Idle, Request, Free, LinkRow, WellFormed

\* The fields of a request in flight.
LEMMA Formed ==
  ASSUME IInv, NEW r \in Requests
  PROVE  /\ req[r] \in Request /\ WellFormed(req[r])
         /\ req[r].op \in {"none", "forgot", "override", "reset"}
         /\ req[r].op # "none" =>
              /\ req[r].u \in Users /\ req[r].t \in Links
              /\ req[r].u # None /\ req[r].t # None
              /\ req[r].op = "forgot" => req[r].pc \in {"user", "pending", "commit", "respond"}
              /\ req[r].op = "override" =>
                   req[r].pc \in {"user", "revoke", "wait", "commit", "respond"}
              /\ req[r].op = "reset" => req[r].pc \in {"lock", "user", "write", "commit"}
         /\ req[r].op = "none" <=> req[r] = Idle
         /\ req[r].pc = "idle" <=> req[r] = Idle
<1>1. req[r] \in Request /\ WellFormed(req[r]) BY DEF IInv, TypeOK, Subject
<1>2. req[r] = Idle => req[r].op = "none" /\ req[r].pc = "idle" BY Constants
<1>3. req[r] # Idle =>
        /\ req[r].op \in {"forgot", "override", "reset"} /\ req[r].pc # "idle"
        /\ req[r].u \in Users /\ req[r].t \in Links
        /\ req[r].op = "forgot" => req[r].pc \in {"user", "pending", "commit", "respond"}
        /\ req[r].op = "override" =>
             req[r].pc \in {"user", "revoke", "wait", "commit", "respond"}
        /\ req[r].op = "reset" => req[r].pc \in {"lock", "user", "write", "commit"}
  BY <1>1 DEF WellFormed, Request
<1>4. req[r].op \in {"none", "forgot", "override", "reset"} BY <1>1 DEF Request
<1> QED BY <1>1, <1>2, <1>3, <1>4, ResetAssumption

-----------------------------------------------------------------------------
(* A step of one request that changes no row *)

LEMMA LocalStep ==
  ASSUME IInv, NEW r \in Requests, NEW q \in Request,
         req' = [req EXCEPT ![r] = q], UNCHANGED <<link, active>>,
         WellFormed(q),
         \/ q = Idle
         \/ /\ q.op = req[r].op /\ q.u = req[r].u /\ q.t = req[r].t
            /\ q.met = req[r].met /\ q.pc # "respond" /\ req[r].pc # "respond",
         \* the locks it takes, and what it reads under them
         q.op = "override" /\ q.pc = "commit" =>
           \A t \in q.snap : \A s \in Requests \ {r} : ~HoldsLink(s, t),
         q.op = "reset" /\ q.pc \in {"user", "write", "commit"} =>
           /\ \A s \in Requests \ {r} : ~HoldsLink(s, q.t)
           /\ link[q.t].st = "open" /\ (link[q.t].expired => q.met),
         \* its checks
         q.op = "forgot" /\ q.pc = "commit" => \A t \in PendingOf(q.u) : link[t].met,
         q.op = "override" /\ q.pc \in {"wait", "commit"} =>
           \A t \in PendingOf(q.u) : t \in q.snap \/ link[t].met,
         q.op = "reset" /\ q.pc \in {"write", "commit"} => active[q.u] \/ q.met
  PROVE  IInv'
<1>1. /\ req'[r] = q /\ \A s \in Requests \ {r} : req'[s] = req[s]
      /\ req' \in [Requests -> Request]
  BY DEF IInv, TypeOK
<1>2. /\ \A u \in Users : PendingOf(u)' = PendingOf(u)
      /\ \A s \in Requests \ {r} :
           /\ Resetting(s)' <=> Resetting(s)
           /\ \A t \in Links : HoldsLink(s, t)' <=> HoldsLink(s, t)
  BY <1>1 DEF PendingOf, Resetting, HoldsLink
<1>3. TypeOK' BY <1>1 DEF TypeOK, IInv
<1>4. Subject'
  <2>1. ASSUME NEW s \in Requests
        PROVE  /\ WellFormed(req'[s])
               /\ req'[s].op \in Issuers /\ req'[s].pc # "respond" =>
                    /\ link[req'[s].t] = Free
                    /\ \A x \in Requests \ {s} : req'[x].t # req'[s].t
               /\ req'[s].op = "reset" \/ req'[s].pc = "respond" =>
                    link[req'[s].t].st # "free" /\ link[req'[s].t].owner = req'[s].u
    <3>1. CASE s = r BY <1>1, <3>1, Constants DEF IInv, Subject, Issuers
    <3>2. CASE s # r
      <4>1. req'[s] = req[s] BY <1>1, <3>2
      <4>2. req[s].op \in Issuers => req[s].t # None BY Formed DEF Issuers
      <4>3. req'[r].t \in {None, req[r].t} BY <1>1, Constants
      <4> QED BY <1>1, <3>2, <4>1, <4>2, <4>3 DEF IInv, Subject
    <3> QED BY <3>1, <3>2
  <2> QED BY <2>1 DEF Subject, WellFormed
<1>5. Rows' BY DEF IInv, Rows
<1>6. Locked'
  <2>1. ASSUME NEW t \in Links, HoldsLink(r, t)'
        PROVE  \A s \in Requests \ {r} : ~HoldsLink(s, t)'
    BY <1>1, <1>2, <2>1, Constants DEF HoldsLink
  <2>2. \A s, x \in Requests, t \in Links : HoldsLink(s, t)' /\ HoldsLink(x, t)' => s = x
    BY <1>2, <2>1 DEF IInv, Locked
  <2>3. ASSUME NEW s \in Requests, Resetting(s)' PROVE link[req'[s].t].st = "open"
    <3>1. CASE s = r BY <1>1, <2>3, <3>1 DEF Resetting
    <3>2. CASE s # r BY <1>1, <1>2, <2>3, <3>2 DEF IInv, Locked
    <3> QED BY <3>1, <3>2
  <2> QED BY <2>2, <2>3 DEF Locked
<1>7. Meeting'
  <2>1. ASSUME NEW s \in Requests, NEW x \in Requests, s # x, Meets(req[s].op, req[s].u, x)'
        PROVE  req'[s].met
    <3>1. req'[s].op # "none" /\ req'[x].op # "none" BY <2>1 DEF Meets, Issuers
    <3>2. /\ req'[s].op = req[s].op /\ req'[s].u = req[s].u /\ req'[s].met = req[s].met
          /\ req'[x].op = req[x].op /\ req'[x].u = req[x].u
      BY <1>1, <3>1, Constants
    <3> QED BY <2>1, <3>2 DEF IInv, Meeting, Meets
  <2> QED BY <2>1 DEF Meeting, Meets
<1>8. ChecksHold'
  <2>1. ASSUME NEW s \in Requests
        PROVE  /\ req'[s].op = "forgot" /\ req'[s].pc = "commit" =>
                    \A t \in PendingOf(req'[s].u) : link[t].met
               /\ req'[s].op = "override" /\ req'[s].pc \in {"wait", "commit"} =>
                    \A t \in PendingOf(req'[s].u) : t \in req'[s].snap \/ link[t].met
               /\ Resetting(s)' /\ link[req'[s].t].expired => req'[s].met
               /\ req'[s].op = "reset" /\ req'[s].pc \in {"write", "commit"} =>
                    active[req'[s].u] \/ req'[s].met
    <3>1. CASE s = r BY <1>1, <3>1 DEF Resetting
    <3>2. CASE s # r BY <1>1, <1>2, <3>2 DEF IInv, ChecksHold
    <3> QED BY <3>1, <3>2
  <2> QED BY <2>1 DEF ChecksHold, PendingOf
<1>9. UsedOnce' /\ OnePending' BY DEF IInv, UsedOnce, OnePending, PendingOf
<1> QED BY <1>3, <1>4, <1>5, <1>6, <1>7, <1>8, <1>9 DEF IInv

LEMMA StopKeeps ==
  ASSUME IInv, NEW r \in Requests, Stop(r)
  PROVE  IInv'
BY LocalStep, Constants DEF Stop

\* Going on: the locks are held from here on, the checks have just been made.
LEMMA GotoKeeps ==
  ASSUME IInv, NEW r \in Requests, NEW p, Goto(r, p), req[r].op # "none", req[r].pc # "respond",
         \/ req[r].op = "forgot" /\ p = "pending"
         \/ req[r].op = "forgot" /\ p = "commit" /\ PendingOf(req[r].u) = {}
         \/ req[r].op = "override" /\ p = "revoke"
         \/ /\ req[r].op = "override" /\ req[r].pc = "wait" /\ p = "commit"
            /\ \A t \in req[r].snap : LinkGranted(r, t)
         \/ /\ req[r].op = "reset" /\ p = "user" /\ LinkGranted(r, req[r].t)
            /\ req[r].t \in PendingOf(req[r].u)
         \/ req[r].op = "reset" /\ req[r].pc = "user" /\ p = "write" /\ active[req[r].u]
         \/ req[r].op = "reset" /\ req[r].pc = "write" /\ p = "commit"
  PROVE  IInv'
<1> DEFINE q == [req[r] EXCEPT !.pc = p]
<1>1. req[r] \in Request /\ req[r].u \in Users /\ req[r].t \in Links BY Formed
<1>2. p \in {"pending", "commit", "write", "user", "revoke"} OBVIOUS
<1>3. /\ q \in Request /\ q.pc = p /\ q.op = req[r].op /\ q.u = req[r].u
      /\ q.t = req[r].t /\ q.met = req[r].met /\ q.snap = req[r].snap
  BY <1>1, <1>2 DEF Request
<1>4. req' = [req EXCEPT ![r] = q] /\ UNCHANGED <<link, active>> BY DEF Goto
<1> HIDE DEF q
<1>5. WellFormed(q) BY <1>1, <1>3 DEF WellFormed
<1>6. q.op = "override" /\ q.pc = "commit" =>
        \A t \in q.snap : \A s \in Requests \ {r} : ~HoldsLink(s, t)
  BY <1>3 DEF LinkGranted
<1>7. q.op = "reset" => /\ \A s \in Requests \ {r} : ~HoldsLink(s, q.t)
                        /\ link[q.t].st = "open" /\ (link[q.t].expired => q.met)
  <2>1. CASE q.op = "reset" /\ p = "user" BY <1>3, <2>1 DEF LinkGranted, PendingOf
  <2>2. CASE Resetting(r)
    <3>1. HoldsLink(r, q.t) BY <1>3, <2>2 DEF HoldsLink, Resetting
    <3> QED BY <1>1, <1>3, <2>2, <3>1 DEF IInv, Locked, ChecksHold
  <2> QED BY <1>3, <2>1, <2>2 DEF Resetting
<1>8. q.op = "override" /\ q.pc \in {"wait", "commit"} =>
        \A t \in PendingOf(q.u) : t \in q.snap \/ link[t].met
  BY <1>3 DEF IInv, ChecksHold
<1>9. q.op = "reset" /\ q.pc \in {"write", "commit"} => active[q.u] \/ q.met
  BY <1>3 DEF IInv, ChecksHold
<1>10. q.op = "forgot" /\ q.pc = "commit" => \A t \in PendingOf(q.u) : link[t].met
  BY <1>3
<1> QED BY <1>2, <1>3, <1>4, <1>5, <1>6, <1>7, <1>8, <1>9, <1>10, LocalStep

\* The UPDATE of an override finds every pending link.
LEMMA RevokePendingKeeps ==
  ASSUME IInv, NEW r \in Requests, RevokePending(r)
  PROVE  IInv'
<1> DEFINE q == [req[r] EXCEPT !.pc = "wait", !.snap = PendingOf(req[r].u)]
<1>1. /\ req[r] \in Request /\ req[r].op = "override" /\ req[r].pc = "revoke"
      /\ req[r].u \in Users /\ req[r].t \in Links
  BY Formed, Constants DEF RevokePending
<1>2. PendingOf(req[r].u) \subseteq Links BY DEF PendingOf
<1>3. /\ q \in Request /\ q.pc = "wait" /\ q.op = "override" /\ q.u = req[r].u
      /\ q.t = req[r].t /\ q.met = req[r].met /\ q.snap = PendingOf(req[r].u)
  BY <1>1, <1>2 DEF Request
<1>4. req' = [req EXCEPT ![r] = q] /\ UNCHANGED <<link, active>> BY DEF RevokePending
<1> HIDE DEF q
<1>5. WellFormed(q) BY <1>1, <1>3 DEF WellFormed
<1> QED BY <1>1, <1>3, <1>4, <1>5, LocalStep

-----------------------------------------------------------------------------
(* The start of a request *)

LEMMA StartKeeps ==
  ASSUME IInv, NEW r \in Requests, NEW op, NEW pc, NEW u \in Users, NEW t \in Links,
         Start(r, op, pc, u, t),
         \/ /\ op \in Issuers /\ pc = "user" /\ link[t] = Free
            /\ \A s \in Requests : req[s].t # t
         \/ op = "reset" /\ pc = "lock" /\ link[t] # Free /\ link[t].owner = u
  PROVE  IInv'
<1> DEFINE m == \E x \in Requests : Meets(op, u, x)
           n(s) == IF s = r
                   THEN [op |-> op, pc |-> pc, u |-> u, t |-> t, snap |-> {}, met |-> m]
                   ELSE [req[s] EXCEPT !.met = @ \/ Meets(op, u, s)]
<1>1. req' = [s \in Requests |-> n(s)] /\ UNCHANGED <<link, active>> /\ req[r] = Idle
  BY DEF Start
<1>2. /\ req'[r].op = op /\ req'[r].pc = pc /\ req'[r].u = u /\ req'[r].t = t
      /\ req'[r].met = m /\ m \in BOOLEAN /\ req'[r] \in Request
  BY <1>1 DEF Request, Issuers
<1>3. ASSUME NEW s \in Requests \ {r}
      PROVE  /\ req'[s].op = req[s].op /\ req'[s].pc = req[s].pc /\ req'[s].t = req[s].t
             /\ req'[s].u = req[s].u /\ req'[s].snap = req[s].snap /\ req'[s] \in Request
             /\ req'[s].met <=> req[s].met \/ Meets(op, u, s)
             /\ req[s] = Idle => req'[s] = Idle
  <2>1. req[s] \in Request BY Formed
  <2>2. req'[s] = [req[s] EXCEPT !.met = req[s].met \/ Meets(op, u, s)] BY <1>1
  <2>3. Meets(op, u, s) \in BOOLEAN BY DEF Meets
  <2>4. req[s] = Idle => ~Meets(op, u, s) BY Constants DEF Meets, Issuers
  <2> QED BY <2>1, <2>2, <2>3, <2>4 DEF Request
<1> HIDE DEF m, n
<1>4. /\ \A x \in Users : PendingOf(x)' = PendingOf(x)
      /\ \A s \in Requests \ {r} :
           /\ Resetting(s)' <=> Resetting(s)
           /\ \A x \in Links : HoldsLink(s, x)' <=> HoldsLink(s, x)
      /\ ~Resetting(r)'
      /\ \A x \in Links : ~HoldsLink(r, x)'
  <2>1. \A x \in Users : PendingOf(x)' = PendingOf(x) BY <1>1 DEF PendingOf
  <2>2. \A s \in Requests \ {r} :
          /\ Resetting(s)' <=> Resetting(s)
          /\ \A x \in Links : HoldsLink(s, x)' <=> HoldsLink(s, x)
    BY <1>3 DEF Resetting, HoldsLink
  <2>3. ~Resetting(r)' /\ \A x \in Links : ~HoldsLink(r, x)'
    BY <1>2 DEF Resetting, HoldsLink, Issuers
  <2> QED BY <2>1, <2>2, <2>3
<1>5. TypeOK'
  <2>1. req' \in [Requests -> Request] BY <1>1, <1>2, <1>3
  <2> QED BY <1>1, <2>1 DEF IInv, TypeOK
<1>6. Subject'
  <2>1. ASSUME NEW s \in Requests
        PROVE  /\ WellFormed(req'[s])
               /\ req'[s].op \in Issuers /\ req'[s].pc # "respond" =>
                    /\ link[req'[s].t] = Free
                    /\ \A x \in Requests \ {s} : req'[x].t # req'[s].t
               /\ req'[s].op = "reset" \/ req'[s].pc = "respond" =>
                    link[req'[s].t].st # "free" /\ link[req'[s].t].owner = req'[s].u
    <3>1. CASE s = r
      <4>1. WellFormed(req'[r]) BY <1>2 DEF WellFormed, Issuers
      <4>2. link[t].st = "free" => link[t] = Free BY DEF IInv, Rows
      <4> QED BY <1>2, <1>3, <3>1, <4>1, <4>2 DEF Issuers
    <3>2. CASE s # r
      <4>1. WellFormed(req'[s]) BY <1>3, <3>2, Formed DEF WellFormed
      <4>2. req[s].op \in Issuers /\ req[s].pc # "respond" =>
              link[req[s].t] = Free /\ \A x \in Requests \ {s} : req[x].t # req[s].t
        BY DEF IInv, Subject
      <4>3. req[s].op = "reset" \/ req[s].pc = "respond" =>
              link[req[s].t].st # "free" /\ link[req[s].t].owner = req[s].u
        BY DEF IInv, Subject
      <4>4. req[s].op \in Issuers /\ req[s].pc # "respond" => req[s].t # t
        BY <4>2
      <4> QED BY <1>2, <1>3, <3>2, <4>1, <4>2, <4>3, <4>4
    <3> QED BY <3>1, <3>2
  <2> QED BY <1>1, <2>1 DEF Subject, WellFormed
<1>7. Rows' BY <1>1 DEF IInv, Rows
<1>8. Locked'
  <2>1. \A s \in Requests : Resetting(s)' => link[req'[s].t].st = "open"
    BY <1>3, <1>4 DEF IInv, Locked
  <2> QED BY <1>1, <1>4, <2>1 DEF IInv, Locked
<1>9. Meeting'
  <2>1. ASSUME NEW s \in Requests, NEW x \in Requests, s # x,
               req'[x].u = req'[s].u, {req'[s].op, req'[x].op} \subseteq Issuers
        PROVE  req'[s].met
    <3>1. CASE s = r
      <4>1. Meets(op, u, x) BY <1>2, <1>3, <2>1, <3>1 DEF Meets
      <4>2. m BY <4>1 DEF m
      <4> QED BY <1>2, <3>1, <4>2
    <3>2. CASE x = r BY <1>2, <1>3, <2>1, <3>2 DEF Meets
    <3>3. CASE s # r /\ x # r
      <4>1. Meets(req[s].op, req[s].u, x) BY <1>3, <2>1, <3>3 DEF Meets
      <4> QED BY <1>3, <2>1, <3>3, <4>1 DEF IInv, Meeting
    <3> QED BY <3>1, <3>2, <3>3
  <2> QED BY <2>1 DEF Meeting, Meets
<1>10. ChecksHold'
  <2>1. ASSUME NEW s \in Requests
        PROVE  /\ req'[s].op = "forgot" /\ req'[s].pc = "commit" =>
                    \A x \in PendingOf(req'[s].u) : link[x].met
               /\ req'[s].op = "override" /\ req'[s].pc \in {"wait", "commit"} =>
                    \A x \in PendingOf(req'[s].u) : x \in req'[s].snap \/ link[x].met
               /\ Resetting(s)' /\ link[req'[s].t].expired => req'[s].met
               /\ req'[s].op = "reset" /\ req'[s].pc \in {"write", "commit"} =>
                    active[req'[s].u] \/ req'[s].met
    <3>1. CASE s = r BY <1>2, <1>4, <3>1
    <3>2. CASE s # r BY <1>3, <1>4, <3>2 DEF IInv, ChecksHold
    <3> QED BY <3>1, <3>2
  <2> QED BY <1>1, <2>1 DEF ChecksHold, PendingOf
<1>11. UsedOnce' /\ OnePending' BY <1>1 DEF IInv, UsedOnce, OnePending, PendingOf
<1> QED BY <1>5, <1>6, <1>7, <1>8, <1>9, <1>10, <1>11 DEF IInv

-----------------------------------------------------------------------------
(* Steps that only take away: expiry, an answer, an account switched *)

LEMMA FewerKeeps ==
  ASSUME IInv, link' \in [Links -> LinkRow], active' \in [Users -> BOOLEAN],
         req' \in [Requests -> Request],
         \A t \in Links :
           /\ link'[t].st = link[t].st /\ link'[t].owner = link[t].owner
           /\ link'[t].made = link[t].made /\ link'[t].met = link[t].met
           /\ link'[t].over = link[t].over /\ (link[t].expired => link'[t].expired)
           /\ link[t].st = "free" => link'[t] = link[t],
         \A s \in Requests :
           \/ req'[s] = Idle
           \/ /\ req'[s].op = req[s].op /\ req'[s].pc = req[s].pc /\ req'[s].u = req[s].u
              /\ req'[s].t = req[s].t /\ req'[s].snap = req[s].snap
              /\ req[s].met => req'[s].met
              /\ req[s] # Idle
              /\ Resetting(s) /\ link'[req[s].t].expired =>
                   link[req[s].t].expired \/ req'[s].met
              /\ req[s].op = "reset" /\ active[req[s].u] => active'[req[s].u] \/ req'[s].met
  PROVE  IInv'
<1>1. ASSUME NEW s \in Requests, req'[s].op # "none"
      PROVE  /\ req'[s].op = req[s].op /\ req'[s].pc = req[s].pc /\ req'[s].u = req[s].u
             /\ req'[s].t = req[s].t /\ req'[s].snap = req[s].snap
             /\ req[s].met => req'[s].met
             /\ req[s].u \in Users /\ req[s].t \in Links /\ req[s].t # None
             /\ WellFormed(req[s]) /\ req[s] # Idle
             /\ Resetting(s) /\ link'[req[s].t].expired =>
                  link[req[s].t].expired \/ req'[s].met
             /\ req[s].op = "reset" /\ active[req[s].u] => active'[req[s].u] \/ req'[s].met
  BY <1>1, Constants, Formed
<1>2. \A s \in Requests :
        /\ req'[s].op = "none" => req'[s] = Idle
        /\ req'[s].t \in {req[s].t, None}
        /\ Resetting(s)' => Resetting(s) /\ req'[s].op # "none"
        /\ \A t \in Links : HoldsLink(s, t)' => HoldsLink(s, t)
        /\ req'[s].pc = "respond" => req'[s].op # "none"
  BY <1>1, Formed, Constants DEF Resetting, HoldsLink
<1>3. \A u \in Users : PendingOf(u)' \subseteq PendingOf(u) BY DEF PendingOf
<1>4. TypeOK' BY DEF TypeOK
<1>5. Subject'
  <2>1. ASSUME NEW s \in Requests
        PROVE  /\ WellFormed(req'[s])
               /\ req'[s].op \in Issuers /\ req'[s].pc # "respond" =>
                    /\ link'[req'[s].t] = Free
                    /\ \A x \in Requests \ {s} : req'[x].t # req'[s].t
               /\ req'[s].op = "reset" \/ req'[s].pc = "respond" =>
                    link'[req'[s].t].st # "free" /\ link'[req'[s].t].owner = req'[s].u
    <3>1. CASE req'[s].op = "none" BY <1>2, <3>1, Constants DEF Issuers
    <3>2. CASE req'[s].op # "none"
      <4>1. WellFormed(req'[s]) BY <1>1, <3>2 DEF WellFormed
      <4>2. req[s].op \in Issuers /\ req[s].pc # "respond" =>
              link[req[s].t] = Free /\ \A x \in Requests \ {s} : req[x].t # req[s].t
        BY DEF IInv, Subject
      <4>3. req[s].op = "reset" \/ req[s].pc = "respond" =>
              link[req[s].t].st # "free" /\ link[req[s].t].owner = req[s].u
        BY DEF IInv, Subject
      <4> QED BY <1>1, <1>2, <3>2, <4>1, <4>2, <4>3, Constants
    <3> QED BY <3>1, <3>2
  <2> QED BY <2>1 DEF Subject, WellFormed
<1>6. Rows' BY DEF IInv, Rows
<1>7. Locked'
  <2>1. ASSUME NEW s \in Requests, Resetting(s)' PROVE link'[req'[s].t].st = "open"
    BY <1>1, <1>2, <2>1 DEF IInv, Locked
  <2> QED BY <1>2, <2>1 DEF IInv, Locked
<1>8. Meeting'
  <2>1. ASSUME NEW s \in Requests, NEW x \in Requests, s # x,
               req'[x].u = req'[s].u, {req'[s].op, req'[x].op} \subseteq Issuers
        PROVE  req'[s].met
    <3>1. req'[s].op # "none" /\ req'[x].op # "none" BY <2>1 DEF Issuers
    <3>2. Meets(req[s].op, req[s].u, x) BY <1>1, <2>1, <3>1 DEF Meets
    <3> QED BY <1>1, <2>1, <3>1, <3>2 DEF IInv, Meeting
  <2> QED BY <2>1 DEF Meeting, Meets
<1>9. ChecksHold'
  <2>1. ASSUME NEW s \in Requests
        PROVE  /\ req'[s].op = "forgot" /\ req'[s].pc = "commit" =>
                    \A t \in PendingOf(req[s].u)' : link'[t].met
               /\ req'[s].op = "override" /\ req'[s].pc \in {"wait", "commit"} =>
                    \A t \in PendingOf(req[s].u)' : t \in req'[s].snap \/ link'[t].met
               /\ Resetting(s)' /\ link'[req'[s].t].expired => req'[s].met
               /\ req'[s].op = "reset" /\ req'[s].pc \in {"write", "commit"} =>
                    active'[req'[s].u] \/ req'[s].met
    <3>1. CASE req'[s].op = "none" BY <1>2, <3>1
    <3>2. CASE req'[s].op # "none"
      <4>1. PendingOf(req[s].u)' \subseteq PendingOf(req[s].u) /\ PendingOf(req[s].u) \subseteq Links
        BY <1>1, <3>2 DEF PendingOf
      <4> QED BY <1>1, <1>2, <3>2, <4>1 DEF IInv, ChecksHold
    <3> QED BY <3>1, <3>2
  <2> QED BY <2>1 DEF ChecksHold, PendingOf
<1>10. UsedOnce' BY DEF IInv, UsedOnce
<1>11. OnePending' BY <1>3 DEF IInv, OnePending, PendingOf
<1> QED BY <1>4, <1>5, <1>6, <1>7, <1>8, <1>9, <1>10, <1>11 DEF IInv

LEMMA ExpireKeeps ==
  ASSUME IInv, NEW t \in Links, Expire(t)
  PROVE  IInv'
<1>1. link[t] \in LinkRow /\ link[t].st # "free" BY DEF IInv, TypeOK, Expire
<1>2. /\ link' = [link EXCEPT ![t] = [link[t] EXCEPT !.expired = TRUE]]
      /\ req' = [s \in Requests |->
           [req[s] EXCEPT !.met = req[s].met \/ (req[s].op = "reset" /\ req[s].t = t)]]
      /\ UNCHANGED active
  BY DEF Expire
<1>3. /\ link' \in [Links -> LinkRow]
      /\ \A x \in Links \ {t} : link'[x] = link[x]
      /\ link'[t].st = link[t].st /\ link'[t].owner = link[t].owner
      /\ link'[t].made = link[t].made /\ link'[t].met = link[t].met
      /\ link'[t].over = link[t].over /\ link'[t].expired
  BY <1>1, <1>2 DEF IInv, TypeOK, LinkRow
<1>4. ASSUME NEW s \in Requests
      PROVE  /\ req'[s] \in Request
             /\ \/ req'[s] = Idle
                \/ /\ req'[s].op = req[s].op /\ req'[s].pc = req[s].pc /\ req'[s].u = req[s].u
                   /\ req'[s].t = req[s].t /\ req'[s].snap = req[s].snap
                   /\ req[s].met => req'[s].met
                   /\ req[s] # Idle
                   /\ req[s].op = "reset" /\ req[s].t = t => req'[s].met
  <2>1. req[s] \in Request /\ (req[s] = Idle => req[s].op = "none") BY Formed
  <2>2. req'[s] = [req[s] EXCEPT !.met = req[s].met \/ (req[s].op = "reset" /\ req[s].t = t)]
    BY <1>2
  <2>3. req[s].op = "none" => req'[s] = req[s] BY <2>1, <2>2 DEF Request
  <2> QED BY <2>1, <2>2, <2>3 DEF Request
<1>5. \A s \in Requests : Resetting(s) => req[s].op = "reset" /\ req[s].t \in Links
  BY Formed DEF Resetting
<1>6. req' \in [Requests -> Request] BY <1>2, <1>4
<1> QED BY <1>1, <1>2, <1>3, <1>4, <1>5, <1>6, FewerKeeps DEF IInv, TypeOK

LEMMA SwitchKeeps ==
  ASSUME IInv, NEW u \in Users, SwitchAccount(u)
  PROVE  IInv'
<1>1. /\ active' = [active EXCEPT ![u] = ~active[u]]
      /\ req' = [s \in Requests |->
           [req[s] EXCEPT !.met = req[s].met \/ (req[s].op = "reset" /\ req[s].u = u)]]
      /\ UNCHANGED link
  BY DEF SwitchAccount
<1>2. active' \in [Users -> BOOLEAN] /\ \A x \in Users \ {u} : active'[x] = active[x]
  BY <1>1 DEF IInv, TypeOK
<1>3. ASSUME NEW s \in Requests
      PROVE  /\ req'[s] \in Request
             /\ \/ req'[s] = Idle
                \/ /\ req'[s].op = req[s].op /\ req'[s].pc = req[s].pc /\ req'[s].u = req[s].u
                   /\ req'[s].t = req[s].t /\ req'[s].snap = req[s].snap
                   /\ req[s].met => req'[s].met
                   /\ req[s] # Idle /\ (req[s].op = "reset" => req[s].u \in Users)
                   /\ req[s].op = "reset" /\ req[s].u = u => req'[s].met
  <2>1. /\ req[s] \in Request /\ (req[s] = Idle => req[s].op = "none")
        /\ req[s].op = "reset" => req[s].u \in Users
    BY Formed
  <2>2. req'[s] = [req[s] EXCEPT !.met = req[s].met \/ (req[s].op = "reset" /\ req[s].u = u)]
    BY <1>1
  <2>3. req[s].op = "none" => req'[s] = req[s] BY <2>1, <2>2 DEF Request
  <2> QED BY <2>1, <2>2, <2>3 DEF Request
<1>4. req' \in [Requests -> Request] BY <1>1, <1>3
<1> QED BY <1>1, <1>2, <1>3, <1>4, FewerKeeps DEF IInv, TypeOK

LEMMA RespondKeeps ==
  ASSUME IInv, NEW r \in Requests, Respond(r)
  PROVE  IInv'
<1>0. PICK t \in Links : t = req[r].t BY Formed, Constants DEF Respond
<1>1. link[t] \in LinkRow /\ link[t].st # "free" /\ Delivers \in BOOLEAN
  BY <1>0, ResetAssumption DEF Respond, IInv, TypeOK, Subject
<1>2. /\ link' = [link EXCEPT ![t] = [link[t] EXCEPT !.handed = Delivers]]
      /\ req' = [req EXCEPT ![r] = Idle] /\ UNCHANGED active
  BY <1>0 DEF Respond
<1>3. /\ link' \in [Links -> LinkRow]
      /\ \A x \in Links \ {t} : link'[x] = link[x]
      /\ link'[t].st = link[t].st /\ link'[t].owner = link[t].owner
      /\ link'[t].made = link[t].made /\ link'[t].met = link[t].met
      /\ link'[t].over = link[t].over /\ link'[t].expired = link[t].expired
  BY <1>1, <1>2 DEF IInv, TypeOK, LinkRow
<1>4. \A s \in Requests : /\ req'[s] = Idle \/ (req'[s] = req[s] /\ req[s] # Idle)
                          /\ Resetting(s) => req[s].t \in Links
  BY <1>2, Formed DEF IInv, TypeOK, Resetting
<1> QED BY <1>1, <1>2, <1>3, <1>4, Constants, FewerKeeps DEF IInv, TypeOK

-----------------------------------------------------------------------------
(* A new link *)

LEMMA IssueKeeps ==
  ASSUME IInv, NEW r \in Requests, NEW t \in Links, NEW u \in Users, NEW q \in Request,
         req[r].op \in Issuers, req[r].pc = "commit", req[r].t = t, req[r].u = u,
         q.op = req[r].op, q.pc = "respond", q.u = u, q.t = t, q.met = req[r].met,
         req' = [req EXCEPT ![r] = q], UNCHANGED active,
         link' \in [Links -> LinkRow],
         link'[t].st = "open", link'[t].owner = u, link'[t].met = req[r].met,
         ~link'[t].expired, ~link'[t].over, link'[t].made = 0,
         \A x \in Links \ {t} :
           /\ link'[x].st = link[x].st /\ link'[x].owner = link[x].owner
           /\ link'[x].made = link[x].made /\ link'[x].met = link[x].met
           /\ link[x].expired => link'[x].expired
           /\ link[x].st = "free" => link'[x] = link[x]
           /\ link'[x].over /\ link'[x].st = "open" => link'[x].expired \/ link'[x].met
           /\ link'[x].st = "open" /\ ~link'[x].expired /\ link'[x].owner = u => link'[x].met,
         \A s \in Requests \ {r} :
           Resetting(s) => link'[req[s].t].expired = link[req[s].t].expired
  PROVE  IInv'
<1>1. /\ link'[t].st = "open" /\ link'[t].owner = u /\ link'[t].met = req[r].met
      /\ ~link'[t].expired /\ ~link'[t].over /\ link'[t].made = 0
  OBVIOUS
<1>2. /\ link[t] = Free /\ \A s \in Requests \ {r} : req[s].t # t
  BY DEF IInv, Subject
<1>3. /\ req'[r] = q /\ \A s \in Requests \ {r} : req'[s] = req[s]
      /\ req' \in [Requests -> Request] /\ WellFormed(q) /\ t # None
  BY ResetAssumption DEF IInv, TypeOK, WellFormed, Issuers
<1>4. /\ ~Resetting(r)' /\ \A x \in Links : ~HoldsLink(r, x)'
      /\ \A s \in Requests \ {r} :
           /\ Resetting(s)' <=> Resetting(s)
           /\ \A x \in Links : HoldsLink(s, x)' <=> HoldsLink(s, x)
  BY <1>3 DEF Resetting, HoldsLink, Issuers
<1>5. ASSUME NEW x \in Users, NEW y \in PendingOf(x)'
      PROVE  /\ y \in Links /\ (y = t => x = u) /\ (y # t => y \in PendingOf(x))
             /\ x = u /\ y # t => link'[y].met
  BY <1>1, <1>5 DEF PendingOf
<1>6. ASSUME NEW s \in Requests \ {r}, req[s].op \in Issuers, req[s].u = u
      PROVE  req[s].met /\ req[r].met
  <2>1. Meets(req[s].op, req[s].u, r) /\ Meets(req[r].op, req[r].u, s) BY <1>6 DEF Meets
  <2> QED BY <2>1 DEF IInv, Meeting
<1>7. TypeOK' BY <1>3 DEF IInv, TypeOK
<1>8. Subject'
  <2>1. ASSUME NEW s \in Requests
        PROVE  /\ WellFormed(req'[s])
               /\ req'[s].op \in Issuers /\ req'[s].pc # "respond" =>
                    /\ link'[req'[s].t] = Free
                    /\ \A x \in Requests \ {s} : req'[x].t # req'[s].t
               /\ req'[s].op = "reset" \/ req'[s].pc = "respond" =>
                    link'[req'[s].t].st # "free" /\ link'[req'[s].t].owner = req'[s].u
    <3>1. CASE s = r BY <1>1, <1>3, <3>1 DEF Issuers
    <3>2. CASE s # r
      <4>1. WellFormed(req[s]) BY Formed
      <4>2. req[s].op \in Issuers /\ req[s].pc # "respond" =>
              link[req[s].t] = Free /\ \A x \in Requests \ {s} : req[x].t # req[s].t
        BY DEF IInv, Subject
      <4>3. req[s].op = "reset" \/ req[s].pc = "respond" =>
              link[req[s].t].st # "free" /\ link[req[s].t].owner = req[s].u
        BY DEF IInv, Subject
      <4>4. req[s].op # "none" => req[s].t \in Links \ {t} BY <1>2, <3>2, Formed
      <4>5. req[s].pc = "respond" => req[s].op # "none" BY Formed, Constants
      <4> QED BY <1>2, <1>3, <3>2, <4>1, <4>2, <4>3, <4>4, <4>5, Constants DEF Issuers
    <3> QED BY <3>1, <3>2
  <2> QED BY <2>1 DEF Subject, WellFormed
<1>9. Rows'
  <2>1. ASSUME NEW x \in Links
        PROVE  /\ IF link'[x].st = "free" THEN link'[x] = Free ELSE link'[x].owner \in Users
               /\ link'[x].over /\ link'[x].st = "open" => link'[x].expired \/ link'[x].met
    BY <1>1 DEF IInv, Rows
  <2> QED BY <2>1 DEF Rows
<1>10. Locked'
  <2>1. ASSUME NEW s \in Requests, Resetting(s)' PROVE link'[req'[s].t].st = "open"
    <3>1. s # r /\ Resetting(s) /\ req'[s] = req[s] BY <1>3, <1>4, <2>1
    <3>2. req[s].t \in Links \ {t} BY <1>2, <3>1, Formed DEF Resetting
    <3> QED BY <3>1, <3>2 DEF IInv, Locked
  <2> QED BY <1>4, <2>1 DEF IInv, Locked
<1>11. Meeting'
  <2>1. ASSUME NEW s \in Requests, NEW x \in Requests, s # x,
               req'[x].u = req'[s].u, {req'[s].op, req'[x].op} \subseteq Issuers
        PROVE  req'[s].met
    <3>1. Meets(req[s].op, req[s].u, x) BY <1>3, <2>1 DEF Meets
    <3> QED BY <1>3, <2>1, <3>1 DEF IInv, Meeting
  <2> QED BY <2>1 DEF Meeting, Meets
<1>12. ChecksHold'
  <2>1. ASSUME NEW s \in Requests
        PROVE  /\ req'[s].op = "forgot" /\ req'[s].pc = "commit" =>
                    \A x \in PendingOf(req[s].u)' : link'[x].met
               /\ req'[s].op = "override" /\ req'[s].pc \in {"wait", "commit"} =>
                    \A x \in PendingOf(req[s].u)' : x \in req'[s].snap \/ link'[x].met
               /\ Resetting(s)' /\ link'[req'[s].t].expired => req'[s].met
               /\ req'[s].op = "reset" /\ req'[s].pc \in {"write", "commit"} =>
                    active[req'[s].u] \/ req'[s].met
    <3>1. CASE s = r BY <1>3, <1>4, <3>1 DEF Issuers
    <3>2. CASE s # r
      <4>1. req'[s] = req[s] BY <1>3, <3>2
      <4>2. req[s].op \in Issuers /\ req[s].u = u => link'[t].met BY <1>1, <1>6, <3>2
      <4>3. req[s].op \in Issuers => req[s].u \in Users BY Formed DEF Issuers
      <4>4. req[s].op \in Issuers =>
              \A x \in PendingOf(req[s].u)' :
                 x \in Links /\ (link'[x].met \/ (x \in PendingOf(req[s].u) /\ x # t))
        BY <1>5, <4>2, <4>3
      <4>5. req[s].op = "forgot" /\ req[s].pc = "commit" =>
              \A x \in PendingOf(req[s].u)' : link'[x].met
        BY <4>4 DEF IInv, ChecksHold, Issuers
      <4>6. req[s].op = "override" /\ req[s].pc \in {"wait", "commit"} =>
              \A x \in PendingOf(req[s].u)' : x \in req[s].snap \/ link'[x].met
        BY <4>4 DEF IInv, ChecksHold, Issuers
      <4>7. Resetting(s) /\ link'[req[s].t].expired => req[s].met
        BY <3>2 DEF IInv, ChecksHold
      <4> QED BY <1>4, <3>2, <4>1, <4>5, <4>6, <4>7 DEF IInv, ChecksHold
    <3> QED BY <3>1, <3>2
  <2> QED BY <2>1, <1>3 DEF ChecksHold, PendingOf
<1>13. UsedOnce' BY <1>1 DEF IInv, UsedOnce
<1>14. OnePending'
  <2>1. ASSUME NEW v \in Users, NEW x \in PendingOf(v)', NEW y \in PendingOf(v)', x # y
        PROVE  link'[x].met \/ link'[y].met
    <3>1. CASE x = t \/ y = t BY <1>5, <2>1, <3>1
    <3>2. CASE x # t /\ y # t
      BY <1>5, <2>1, <3>2 DEF IInv, OnePending
    <3> QED BY <3>1, <3>2
  <2> QED BY <2>1 DEF OnePending, PendingOf
<1> QED BY <1>7, <1>8, <1>9, <1>10, <1>11, <1>12, <1>13, <1>14 DEF IInv

LEMMA CommitForgotKeeps ==
  ASSUME IInv, NEW r \in Requests, CommitForgot(r)
  PROVE  IInv'
<1>0. PICK t \in Links, u \in Users : t = req[r].t /\ u = req[r].u
  BY Formed, Constants DEF CommitForgot
<1> DEFINE q == [req[r] EXCEPT !.pc = "respond"]
<1>1. /\ req[r].op = "forgot" /\ req[r].pc = "commit" /\ req[r] \in Request
      /\ req[r].t = t /\ req[r].u = u
  BY <1>0, Formed DEF CommitForgot
<1>2. /\ q \in Request /\ q.op = "forgot" /\ q.pc = "respond" /\ q.u = u /\ q.t = t
      /\ q.met = req[r].met
  BY <1>1 DEF Request
<1>3. /\ link' = [link EXCEPT ![t] = Issued(req[r])] /\ req' = [req EXCEPT ![r] = q]
      /\ UNCHANGED active
  BY <1>1 DEF CommitForgot
<1> HIDE DEF q
<1>4. Issued(req[r]) \in LinkRow BY <1>1 DEF Issued, Free, LinkRow, Request
<1>5. /\ link' \in [Links -> LinkRow] /\ link'[t] = Issued(req[r])
      /\ \A x \in Links \ {t} : link'[x] = link[x]
  BY <1>3, <1>4 DEF IInv, TypeOK
<1>6. \A x \in Links : link[x].st = "open" /\ ~link[x].expired /\ link[x].owner = u
                         => link[x].met
  BY <1>1 DEF IInv, ChecksHold, PendingOf
<1>7. \A x \in Links : link[x].over /\ link[x].st = "open" => link[x].expired \/ link[x].met
  BY DEF IInv, Rows
<1>8. \A s \in Requests \ {r} : Resetting(s) => req[s].t \in Links \ {t}
  BY <1>1, Formed DEF IInv, Subject, Issuers, Resetting
<1>9. req[r].op \in Issuers BY <1>1 DEF Issuers
<1>10. \A x \in Links \ {t} :
         /\ link'[x].st = link[x].st /\ link'[x].owner = link[x].owner
         /\ link'[x].made = link[x].made /\ link'[x].met = link[x].met
         /\ link[x].expired => link'[x].expired
         /\ link[x].st = "free" => link'[x] = link[x]
         /\ link'[x].over /\ link'[x].st = "open" => link'[x].expired \/ link'[x].met
         /\ link'[x].st = "open" /\ ~link'[x].expired /\ link'[x].owner = u => link'[x].met
  BY <1>5, <1>6, <1>7
<1>11. \A s \in Requests \ {r} :
         Resetting(s) => link'[req[s].t].expired = link[req[s].t].expired
  BY <1>5, <1>8
<1>12. /\ req[r].op \in Issuers /\ req[r].pc = "commit" /\ req[r].t = t /\ req[r].u = u
       /\ q \in Request /\ q.op = req[r].op /\ q.pc = "respond" /\ q.u = u /\ q.t = t
       /\ q.met = req[r].met /\ req' = [req EXCEPT ![r] = q]
  BY <1>1, <1>2, <1>3, <1>9
<1>13. /\ active' = active /\ link' \in [Links -> LinkRow]
       /\ link'[t].st = "open" /\ link'[t].owner = u /\ link'[t].met = req[r].met
       /\ ~link'[t].expired /\ ~link'[t].over /\ link'[t].made = 0
  BY <1>1, <1>3, <1>5 DEF Issued, Free
<1> QED BY <1>10, <1>11, <1>12, <1>13, IssueKeeps

LEMMA CommitOverrideKeeps ==
  ASSUME IInv, NEW r \in Requests, CommitOverride(r)
  PROVE  IInv'
<1>0. PICK t \in Links, u \in Users : t = req[r].t /\ u = req[r].u
  BY Formed, Constants DEF CommitOverride
<1> DEFINE q == [req[r] EXCEPT !.pc = "respond", !.snap = {}]
           n(x) == IF x = t THEN Issued(req[r])
                   ELSE IF link[x].owner # u THEN link[x]
                   ELSE [link[x] EXCEPT !.over = TRUE,
                           !.expired = link[x].expired
                                         \/ (x \in req[r].snap /\ link[x].st = "open")]
<1>1. /\ req[r].op = "override" /\ req[r].pc = "commit" /\ req[r] \in Request
      /\ req[r].t = t /\ req[r].u = u
  BY <1>0, Formed DEF CommitOverride
<1>2. /\ q \in Request /\ q.op = "override" /\ q.pc = "respond" /\ q.u = u /\ q.t = t
      /\ q.met = req[r].met
  BY <1>1 DEF Request
<1>3. /\ link' = [x \in Links |-> n(x)] /\ req' = [req EXCEPT ![r] = q] /\ UNCHANGED active
  BY <1>1 DEF CommitOverride
<1>4. Issued(req[r]) \in LinkRow BY <1>1 DEF Issued, Free, LinkRow, Request
<1>5. ASSUME NEW x \in Links \ {t}
      PROVE  /\ link'[x] \in LinkRow
             /\ link'[x].st = link[x].st /\ link'[x].owner = link[x].owner
             /\ link'[x].made = link[x].made /\ link'[x].met = link[x].met
             /\ link'[x].expired <=> \/ link[x].expired
                                     \/ /\ link[x].owner = u /\ x \in req[r].snap
                                        /\ link[x].st = "open"
             /\ link[x].owner # u => link'[x] = link[x]
  <2>1. link[x] \in LinkRow BY DEF IInv, TypeOK
  <2>2. CASE link[x].owner # u BY <1>3, <2>1, <2>2
  <2>3. CASE link[x].owner = u
    <3>1. link'[x] = [link[x] EXCEPT !.over = TRUE,
                        !.expired = link[x].expired
                                      \/ (x \in req[r].snap /\ link[x].st = "open")]
      BY <1>3, <2>3
    <3> QED BY <2>1, <2>3, <3>1 DEF LinkRow
  <2> QED BY <2>2, <2>3
<1>6. link' \in [Links -> LinkRow] /\ link'[t] = Issued(req[r]) BY <1>3, <1>4, <1>5
<1> HIDE DEF q, n
<1>7. ASSUME NEW x \in Links \ {t}, link'[x].st = "open", ~link'[x].expired, link'[x].owner = u
      PROVE  link'[x].met
  <2>1. x \in PendingOf(u) /\ x \notin req[r].snap BY <1>5, <1>7 DEF PendingOf
  <2> QED BY <1>1, <1>5, <2>1 DEF IInv, ChecksHold
<1>8. ASSUME NEW x \in Links \ {t}
      PROVE  /\ link'[x].over /\ link'[x].st = "open" => link'[x].expired \/ link'[x].met
             /\ link[x].st = "free" => link'[x] = link[x]
  <2>1. link[x].st = "free" => link[x].owner = None BY DEF IInv, Rows, Free
  <2>2. CASE link[x].owner = u BY <1>5, <1>7, <2>1, <2>2, ResetAssumption
  <2>3. CASE link[x].owner # u BY <1>5, <2>3 DEF IInv, Rows
  <2> QED BY <2>2, <2>3
<1>9. ASSUME NEW s \in Requests \ {r}, Resetting(s)
      PROVE  req[s].t \in Links \ {t} /\ req[s].t \notin req[r].snap
  <2>1. req[s].t \in Links \ {t}
    BY <1>1, <1>9, Formed DEF IInv, Subject, Issuers, Resetting
  <2>2. HoldsLink(s, req[s].t) BY <1>9 DEF Resetting, HoldsLink
  <2>3. ~HoldsLink(r, req[s].t) BY <2>1, <2>2 DEF IInv, Locked
  <2> QED BY <1>1, <2>1, <2>3 DEF HoldsLink
<1>10. \A s \in Requests \ {r} :
         Resetting(s) => link'[req[s].t].expired = link[req[s].t].expired
  <2>1. \A x \in Links : link[x].expired \in BOOLEAN /\ link'[x].expired \in BOOLEAN
    BY <1>6 DEF IInv, TypeOK, LinkRow
  <2> QED BY <1>5, <1>9, <2>1
<1>11. req[r].op \in Issuers BY <1>1 DEF Issuers
<1>12. \A x \in Links \ {t} :
         /\ link'[x].st = link[x].st /\ link'[x].owner = link[x].owner
         /\ link'[x].made = link[x].made /\ link'[x].met = link[x].met
         /\ link[x].expired => link'[x].expired
         /\ link[x].st = "free" => link'[x] = link[x]
         /\ link'[x].over /\ link'[x].st = "open" => link'[x].expired \/ link'[x].met
         /\ link'[x].st = "open" /\ ~link'[x].expired /\ link'[x].owner = u => link'[x].met
  BY <1>5, <1>7, <1>8
<1>13. /\ req[r].op \in Issuers /\ req[r].pc = "commit" /\ req[r].t = t /\ req[r].u = u
       /\ q \in Request /\ q.op = req[r].op /\ q.pc = "respond" /\ q.u = u /\ q.t = t
       /\ q.met = req[r].met /\ req' = [req EXCEPT ![r] = q]
  BY <1>1, <1>2, <1>3, <1>11
<1>14. /\ active' = active /\ link' \in [Links -> LinkRow]
       /\ link'[t].st = "open" /\ link'[t].owner = u /\ link'[t].met = req[r].met
       /\ ~link'[t].expired /\ ~link'[t].over /\ link'[t].made = 0
  BY <1>1, <1>3, <1>6 DEF Issued, Free
<1> QED BY <1>10, <1>12, <1>13, <1>14, IssueKeeps

-----------------------------------------------------------------------------
(* A new password *)

LEMMA CommitResetKeeps ==
  ASSUME IInv, NEW r \in Requests, CommitReset(r)
  PROVE  IInv'
<1>0. PICK t \in Links, u \in Users : t = req[r].t /\ u = req[r].u
  BY Formed, Constants DEF CommitReset
<1> DEFINE n == [link[t] EXCEPT !.st = "consumed", !.made = link[t].made + 1]
<1>1. /\ req[r].op = "reset" /\ req[r].pc = "commit" /\ req[r].t = t /\ req[r].u = u
      /\ link[t] \in LinkRow /\ Resetting(r)
  BY <1>0 DEF CommitReset, IInv, TypeOK, Resetting
<1>2. /\ n \in LinkRow /\ n.st = "consumed" /\ n.made = link[t].made + 1
      /\ n.owner = link[t].owner /\ n.met = link[t].met
  <2>1. link[t].made + 1 \in Nat BY <1>1 DEF LinkRow
  <2> QED BY <1>1, <2>1 DEF LinkRow
<1>3. link' = [link EXCEPT ![t] = n] /\ req' = [req EXCEPT ![r] = Idle] /\ UNCHANGED active
  BY <1>1 DEF CommitReset
<1> HIDE DEF n
<1>4. link[t].st = "open" /\ HoldsLink(r, t)
  BY <1>1 DEF IInv, Locked, Resetting, HoldsLink
<1>5. /\ link'[t] = n /\ \A x \in Links \ {t} : link'[x] = link[x]
      /\ req'[r] = Idle /\ \A s \in Requests \ {r} : req'[s] = req[s]
  BY <1>3 DEF IInv, TypeOK
<1>6. \A x \in Users : PendingOf(x)' \subseteq PendingOf(x) /\ t \notin PendingOf(x)'
  BY <1>2, <1>5 DEF PendingOf
<1>7. /\ ~Resetting(r)' /\ \A x \in Links : ~HoldsLink(r, x)'
      /\ \A s \in Requests \ {r} :
           /\ Resetting(s)' <=> Resetting(s)
           /\ \A x \in Links : HoldsLink(s, x)' <=> HoldsLink(s, x)
  BY <1>5, Constants DEF Resetting, HoldsLink
<1>8. \A s \in Requests \ {r} : Resetting(s) => req[s].t \in Links \ {t}
  BY <1>1, <1>4, Formed DEF Resetting, HoldsLink, IInv, Locked
<1>9. TypeOK' BY <1>2, <1>3, Constants DEF IInv, TypeOK
<1>10. Subject'
  <2>1. ASSUME NEW s \in Requests
        PROVE  /\ WellFormed(req'[s])
               /\ req'[s].op \in Issuers /\ req'[s].pc # "respond" =>
                    /\ link'[req'[s].t] = Free
                    /\ \A x \in Requests \ {s} : req'[x].t # req'[s].t
               /\ req'[s].op = "reset" \/ req'[s].pc = "respond" =>
                    link'[req'[s].t].st # "free" /\ link'[req'[s].t].owner = req'[s].u
    <3>1. CASE s = r BY <1>5, <3>1, Constants DEF Issuers
    <3>2. CASE s # r
      <4>1. WellFormed(req[s]) /\ req'[s] = req[s] BY <1>5, <3>2, Formed
      <4>2. req[s].op \in Issuers /\ req[s].pc # "respond" =>
              link[req[s].t] = Free /\ \A x \in Requests \ {s} : req[x].t # req[s].t
        BY DEF IInv, Subject
      <4>3. req[s].op = "reset" \/ req[s].pc = "respond" =>
              link[req[s].t].st # "free" /\ link[req[s].t].owner = req[s].u
        BY DEF IInv, Subject
      <4>4. req[s].op # "none" => req[s].t \in Links /\ req[s].t # None BY Formed
      <4>5. req[s].op \in Issuers /\ req[s].pc # "respond" => req[s].t # t
        BY <1>4, <4>2, Constants
      <4>6. req[s].pc = "respond" => req[s].op # "none" BY Formed, Constants
      <4>7. req[s].op \in Issuers => req[s].op # "none" BY DEF Issuers
      <4> QED BY <1>2, <1>5, <3>2, <4>1, <4>2, <4>3, <4>4, <4>5, <4>6, <4>7, Constants
    <3> QED BY <3>1, <3>2
  <2> QED BY <2>1 DEF Subject, WellFormed
<1>11. Rows' BY <1>2, <1>4, <1>5 DEF IInv, Rows
<1>12. Locked'
  <2>1. ASSUME NEW s \in Requests, Resetting(s)' PROVE link'[req'[s].t].st = "open"
    BY <1>5, <1>7, <1>8, <2>1 DEF IInv, Locked
  <2> QED BY <1>7, <2>1 DEF IInv, Locked
<1>13. Meeting'
  <2>1. ASSUME NEW s \in Requests, NEW x \in Requests, s # x,
               req'[x].u = req'[s].u, {req'[s].op, req'[x].op} \subseteq Issuers
        PROVE  req'[s].met
    <3>1. s # r /\ x # r BY <1>5, <2>1, Constants DEF Issuers
    <3>2. Meets(req[s].op, req[s].u, x) BY <1>5, <2>1, <3>1 DEF Meets
    <3> QED BY <1>5, <2>1, <3>1, <3>2 DEF IInv, Meeting
  <2> QED BY <2>1 DEF Meeting, Meets
<1>14. ChecksHold'
  <2>1. ASSUME NEW s \in Requests
        PROVE  /\ req'[s].op = "forgot" /\ req'[s].pc = "commit" =>
                    \A x \in PendingOf(req[s].u)' : link'[x].met
               /\ req'[s].op = "override" /\ req'[s].pc \in {"wait", "commit"} =>
                    \A x \in PendingOf(req[s].u)' : x \in req'[s].snap \/ link'[x].met
               /\ Resetting(s)' /\ link'[req'[s].t].expired => req'[s].met
               /\ req'[s].op = "reset" /\ req'[s].pc \in {"write", "commit"} =>
                    active[req'[s].u] \/ req'[s].met
    <3>1. CASE s = r BY <1>5, <1>7, <3>1, Constants
    <3>2. CASE s # r
      <4>1. req'[s] = req[s] BY <1>5, <3>2
      <4>2. req[s].op \in {"forgot", "override"} =>
              \A x \in PendingOf(req[s].u)' :
                 x \in PendingOf(req[s].u) /\ x \in Links /\ link'[x] = link[x]
        <5>1. req[s].op \in {"forgot", "override"} => req[s].u \in Users BY Formed
        <5>2. \A v \in Users : PendingOf(v) \subseteq Links BY DEF PendingOf
        <5>3. ASSUME NEW v \in Users, NEW x \in PendingOf(v)'
              PROVE  x \in PendingOf(v) /\ x \in Links /\ link'[x] = link[x]
          BY <1>5, <1>6, <5>2, <5>3
        <5> QED BY <4>1, <5>1, <5>3
      <4> QED BY <1>5, <1>7, <1>8, <3>2, <4>1, <4>2 DEF IInv, ChecksHold
    <3> QED BY <3>1, <3>2
  <2> QED BY <2>1, <1>5, <1>3 DEF ChecksHold, PendingOf
<1>15. UsedOnce'
  <2>1. link[t].made = 0 BY <1>4 DEF IInv, UsedOnce
  <2> QED BY <1>2, <1>5, <2>1 DEF IInv, UsedOnce
<1>16. OnePending'
  <2>1. ASSUME NEW v \in Users, NEW x \in PendingOf(v)', NEW y \in PendingOf(v)', x # y
        PROVE  link'[x].met \/ link'[y].met
    <3>1. \A v_1 \in Users : PendingOf(v_1) \subseteq Links BY DEF PendingOf
    <3> QED BY <1>5, <1>6, <2>1, <3>1 DEF IInv, OnePending
  <2> QED BY <2>1 DEF OnePending, PendingOf
<1> QED BY <1>9, <1>10, <1>11, <1>12, <1>13, <1>14, <1>15, <1>16 DEF IInv

-----------------------------------------------------------------------------
(* The theorems *)

LEMMA NextKeeps ==
  ASSUME IInv, [Next]_vars
  PROVE  IInv'
<1>1. CASE UNCHANGED vars
  BY <1>1 DEF vars, IInv, TypeOK, Subject, Rows, Locked, Meeting, ChecksHold, UsedOnce,
     OnePending, PendingOf, Resetting, HoldsLink, Meets, WellFormed
<1>2. ASSUME NEW r \in Requests, Arrive(r) PROVE IInv'
  <2>1. CASE AskForLink(r) BY <2>1, StartKeeps DEF AskForLink
  <2>2. CASE Reset(r)
    <3>1. PICK t \in Links : link[t].handed /\ Start(r, "reset", "lock", link[t].owner, t)
      BY <2>2 DEF Reset
    <3>2. link[t] # Free /\ link[t].owner \in Users BY <3>1 DEF IInv, Rows, Free
    <3> QED BY <3>1, <3>2, StartKeeps
  <2> QED BY <1>2, <2>1, <2>2 DEF Arrive
<1>3. ASSUME NEW r \in Requests, Step(r) PROVE IInv'
  <2>1. CASE CheckUser(r)
    <3>1. /\ req[r].op \in {"forgot", "override", "reset"} /\ req[r].pc = "user"
      BY <2>1, Formed, Constants DEF CheckUser
    <3> QED BY <2>1, <3>1, GotoKeeps, StopKeeps DEF CheckUser, AfterUser
  <2>2. CASE CheckPending(r)
    <3>1. req[r].op = "forgot" /\ req[r].pc = "pending" BY <2>2, Formed, Constants DEF CheckPending
    <3> QED BY <2>2, <3>1, GotoKeeps, StopKeeps DEF CheckPending
  <2>3. CASE WaitForLinks(r)
    <3>1. req[r].op = "override" /\ req[r].pc = "wait" BY <2>3, Formed, Constants DEF WaitForLinks
    <3> QED BY <2>3, <3>1, GotoKeeps DEF WaitForLinks
  <2>4. CASE LockLink(r)
    <3>1. req[r].op = "reset" /\ req[r].pc = "lock" BY <2>4, Formed, Constants DEF LockLink
    <3> QED BY <2>4, <3>1, GotoKeeps, StopKeeps DEF LockLink
  <2>5. CASE WriteUser(r)
    <3>1. req[r].op = "reset" /\ req[r].pc = "write" BY <2>5, Formed, Constants DEF WriteUser
    <3> QED BY <2>5, <3>1, GotoKeeps DEF WriteUser
  <2> QED BY <1>3, <2>1, <2>2, <2>3, <2>4, <2>5, RevokePendingKeeps, CommitForgotKeeps,
          CommitOverrideKeeps, RespondKeeps, CommitResetKeeps DEF Step
<1>4. ASSUME NEW r \in Requests, Crash(r) PROVE IInv' BY <1>4, StopKeeps DEF Crash
<1> QED BY <1>1, <1>2, <1>3, <1>4, ExpireKeeps, SwitchKeeps DEF Next

LEMMA InitIInv ==
  ASSUME Init
  PROVE  IInv
<1>1. /\ \A t \in Links : link[t] = Free
      /\ \A r \in Requests : req[r] = Idle /\ ~Resetting(r)
      /\ \A r \in Requests, t \in Links : ~HoldsLink(r, t)
      /\ \A u \in Users : PendingOf(u) = {}
  BY Constants DEF Init, PendingOf, Resetting, HoldsLink
<1>2. TypeOK BY Constants DEF Init, TypeOK
<1>3. Subject BY <1>1, Constants DEF Subject, Issuers
<1>4. Rows /\ Locked /\ UsedOnce BY <1>1, Constants DEF Rows, Locked, UsedOnce
<1>5. Meeting /\ ChecksHold BY <1>1, Constants DEF Meeting, Meets, Issuers, ChecksHold
<1>6. OnePending BY <1>1 DEF OnePending
<1> QED BY <1>2, <1>3, <1>4, <1>5, <1>6 DEF IInv

\* The strengthening holds in every reachable state.
THEOREM Invariance == Spec => []IInv
<1>1. Init => IInv BY InitIInv
<1>2. IInv /\ [Next]_vars => IInv' BY NextKeeps
<1> QED BY <1>1, <1>2, PTL DEF Spec

\* Every row and every request in flight has its type.
THEOREM TypeCorrect == Spec => []TypeOK
<1>1. IInv => TypeOK BY DEF IInv
<1> QED BY <1>1, Invariance, PTL

\* A link changes a password once, however many clients present it.
THEOREM UsedOnceHolds == Spec => []UsedOnce
<1>1. IInv => UsedOnce BY DEF IInv
<1> QED BY <1>1, Invariance, PTL

\* Two links of a user are pending only if the requests for them met.
THEOREM OnePendingHolds == Spec => []OnePending
<1>1. IInv => OnePending BY DEF IInv
<1> QED BY <1>1, Invariance, PTL

\* After an admin's override no older link changes the password, but for links
\* whose issuer met another and links that ran out under the reset.
THEOREM OverrideIsFinalHolds == Spec => OverrideIsFinal
<1>1. ASSUME IInv, NEW r \in Requests, CommitReset(r), link[req[r].t].over
      PROVE  link[req[r].t].met \/ req[r].met
  <2>1. Resetting(r) /\ req[r].t \in Links
    BY <1>1, Formed, Constants DEF CommitReset, Resetting
  <2> QED BY <1>1, <2>1 DEF IInv, Locked, Rows, ChecksHold
<1>2. IInv /\ [Next]_vars =>
        [\A r \in Requests :
           CommitReset(r) /\ link[req[r].t].over => link[req[r].t].met \/ req[r].met]_vars
  BY <1>1
<1> QED BY <1>2, Invariance, PTL DEF Spec, OverrideIsFinal

\* A reset never changes the password of an account that was inactive when the
\* reset began and stayed so.
THEOREM InactiveKeepsPasswordHolds == Spec => InactiveKeepsPassword
<1>1. ASSUME IInv, NEW r \in Requests, CommitReset(r) PROVE active[req[r].u] \/ req[r].met
  BY <1>1 DEF IInv, ChecksHold, CommitReset
<1>2. IInv /\ [Next]_vars =>
        [\A r \in Requests : CommitReset(r) => active[req[r].u] \/ req[r].met]_vars
  BY <1>1
<1> QED BY <1>2, Invariance, PTL DEF Spec, InactiveKeepsPassword
-----------------------------------------------------------------------------
(* Deadlocks *)

\* Blocks is what the guards of the statements ask for.
LEMMA BlocksIsTheGuards ==
  ASSUME NEW r \in Requests
  PROVE  /\ req[r].pc = "lock" =>
              (LinkGranted(r, req[r].t) <=> \A s \in Requests : ~Blocks(s, r))
         /\ req[r].pc = "wait" =>
              ((\A t \in req[r].snap : LinkGranted(r, t)) <=> \A s \in Requests : ~Blocks(s, r))
         /\ req[r].pc = "write" =>
              (UserGranted(r, req[r].u) <=> \A s \in Requests : ~Blocks(s, r))
BY DEF Blocks, LinkGranted, UserGranted

\* Requests about reset links never need a deadlock to be broken.
THEOREM NoWaitCycleHolds == Spec => []NoWaitCycle
<1>1. ASSUME NEW C \in SUBSET Requests, NEW c \in C,
             \A r \in C : \E s \in C : Blocks(s, r)
      PROVE  FALSE
  <2>1. \A r \in C : req[r].pc \in {"lock", "wait", "write"} BY <1>1 DEF Blocks
  <2>2. \A r \in C : \A u : ~HoldsUser(r, u) BY <2>1 DEF HoldsUser
  <2>3. \A r \in C : req[r].pc \in {"lock", "wait"} BY <1>1, <2>1, <2>2 DEF Blocks
  <2>4. \A r \in C : \A t : ~HoldsLink(r, t) BY <2>3 DEF HoldsLink
  <2> QED BY <1>1, <2>2, <2>4 DEF Blocks
<1>2. NoWaitCycle BY <1>1 DEF NoWaitCycle
<1> QED BY <1>2, PTL
-----------------------------------------------------------------------------
(* Refinement: a reset link is a one-time link *)

State == [t \in Links |-> LinkState(t)]
Claims == {c \in Requests \X Links : Resetting(c[1]) /\ req[c[1]].t = c[2]}
Uses == [t \in Links |-> link[t].made]

Simulated == OneTime!Next \/ (State' = State /\ Claims' = Claims /\ Uses' = Uses)

\* What the others have claimed stays as it is.
OthersKept(r) ==
  \A s \in Requests \ {r} : (Resetting(s)' <=> Resetting(s)) /\ req'[s].t = req[s].t

LEMMA RowsSame ==
  ASSUME UNCHANGED link
  PROVE  State' = State /\ Uses' = Uses
BY DEF State, Uses, LinkState

LEMMA ClaimsSame ==
  ASSUME NEW r \in Requests, OthersKept(r),
         Resetting(r)' <=> Resetting(r), Resetting(r) => req'[r].t = req[r].t
  PROVE  Claims' = Claims
BY DEF Claims, OthersKept

LEMMA ClaimEnds ==
  ASSUME NEW r \in Requests, OthersKept(r), Resetting(r), ~Resetting(r)'
  PROVE  Claims' = Claims \ {<<r, req[r].t>>}
BY DEF Claims, OthersKept

LEMMA ClaimBegins ==
  ASSUME NEW r \in Requests, OthersKept(r), ~Resetting(r), Resetting(r)', req'[r].t \in Links
  PROVE  Claims' = Claims \cup {<<r, req'[r].t>>}
BY DEF Claims, OthersKept

\* The program counters outside Resetting make no claim.
LEMMA RequestStep ==
  ASSUME IInv, NEW r \in Requests, NEW q, req' = [req EXCEPT ![r] = q]
  PROVE  /\ OthersKept(r) /\ req'[r] = q
         /\ Resetting(r)' <=> q.op = "reset" /\ q.pc \in {"user", "write", "commit"}
BY DEF IInv, TypeOK, OthersKept, Resetting

LEMMA StopSimulates ==
  ASSUME IInv, NEW r \in Requests, Stop(r)
  PROVE  Simulated
<1>1. OthersKept(r) /\ ~Resetting(r)' BY RequestStep, Constants DEF Stop
<1>2. State' = State /\ Uses' = Uses BY RowsSame DEF Stop
<1>3. CASE ~Resetting(r) BY <1>1, <1>2, <1>3, ClaimsSame DEF Simulated
<1>4. CASE Resetting(r)
  <2>1. PICK t \in Links : t = req[r].t BY <1>4, Formed DEF Resetting
  <2>2. Claims' = Claims \ {<<r, t>>} BY <1>1, <1>4, <2>1, ClaimEnds
  <2>3. OneTime!Release(r, t)
    BY <1>2, <2>2 DEF OneTime!Release, State, Claims, Uses
  <2> QED BY <2>1, <2>3 DEF Simulated, OneTime!Next
<1> QED BY <1>3, <1>4

\* A step of a request between its statements keeps what is claimed.
LEMMA LocalSimulates ==
  ASSUME IInv, NEW r \in Requests, NEW q, req' = [req EXCEPT ![r] = q], UNCHANGED link,
         q.t = req[r].t,
         (q.op = "reset" /\ q.pc \in {"user", "write", "commit"}) <=> Resetting(r)
  PROVE  Simulated
<1>1. OthersKept(r) /\ (Resetting(r)' <=> Resetting(r)) /\ req'[r].t = req[r].t
  BY RequestStep
<1> QED BY <1>1, RowsSame, ClaimsSame DEF Simulated

LEMMA GotoSimulates ==
  ASSUME IInv, NEW r \in Requests, NEW p, Goto(r, p),
         (req[r].op = "reset" /\ p \in {"user", "write", "commit"}) <=> Resetting(r)
  PROVE  Simulated
<1> DEFINE q == [req[r] EXCEPT !.pc = p]
<1>1. req' = [req EXCEPT ![r] = q] /\ UNCHANGED link BY DEF Goto
<1>2. req[r] \in Request BY DEF IInv, TypeOK
<1>3. q.op = req[r].op /\ q.t = req[r].t /\ q.pc = p BY <1>2 DEF Request
<1> HIDE DEF q
<1> QED BY <1>1, <1>3, LocalSimulates

LEMMA RevokePendingSimulates ==
  ASSUME IInv, NEW r \in Requests, RevokePending(r)
  PROVE  Simulated
<1> DEFINE q == [req[r] EXCEPT !.pc = "wait", !.snap = PendingOf(req[r].u)]
<1>1. req' = [req EXCEPT ![r] = q] /\ UNCHANGED link BY DEF RevokePending
<1>2. req[r] \in Request /\ req[r].pc = "revoke" BY DEF RevokePending, IInv, TypeOK
<1>3. q.pc = "wait" /\ q.t = req[r].t BY <1>2 DEF Request
<1> HIDE DEF q
<1>4. ~Resetting(r) BY <1>2 DEF Resetting
<1> QED BY <1>1, <1>3, <1>4, LocalSimulates

LEMMA LockSimulates ==
  ASSUME IInv, NEW r \in Requests, LockLink(r)
  PROVE  Simulated
<1>1. CASE req[r].t \notin PendingOf(req[r].u) BY <1>1, StopSimulates DEF LockLink
<1>2. CASE req[r].t \in PendingOf(req[r].u)
  <2> DEFINE q == [req[r] EXCEPT !.pc = "user"]
  <2>1. PICK t \in Links : t = req[r].t BY <1>2 DEF PendingOf
  <2>2. req' = [req EXCEPT ![r] = q] /\ UNCHANGED link BY <1>2 DEF LockLink, Goto
  <2>3. req[r] \in Request /\ req[r].op = "reset" /\ req[r].pc = "lock"
    BY Formed, Constants DEF LockLink
  <2>4. q.op = "reset" /\ q.pc = "user" /\ q.t = t BY <2>1, <2>3 DEF Request
  <2> HIDE DEF q
  <2>5. OthersKept(r) /\ ~Resetting(r) /\ Resetting(r)' /\ req'[r].t = t
    BY <2>2, <2>3, <2>4, RequestStep DEF Resetting
  <2>6. Claims' = Claims \cup {<<r, t>>} BY <2>5, ClaimBegins
  <2>7. \A c \in Requests : ~(Resetting(c) /\ req[c].t = t)
    BY <2>1, <2>5 DEF LockLink, LinkGranted, HoldsLink, Resetting
  <2>8. \A c \in Requests : <<c, t>> \notin Claims BY <2>7 DEF Claims
  <2>9. State[t] = "live" BY <1>2, <2>1 DEF State, LinkState, PendingOf
  <2>10. State' = State /\ Uses' = Uses BY <2>2, RowsSame
  <2>11. OneTime!Claim(r, t)
    BY <2>6, <2>8, <2>9, <2>10 DEF OneTime!Claim, OneTime!Claimed, State, Claims, Uses
  <2> QED BY <2>11 DEF Simulated, OneTime!Next
<1> QED BY <1>1, <1>2

LEMMA StartSimulates ==
  ASSUME IInv, NEW r \in Requests, NEW op, NEW pc, NEW u, NEW t, Start(r, op, pc, u, t),
         pc = "lock" \/ op \in Issuers
  PROVE  Simulated
<1> DEFINE new == [op |-> op, pc |-> pc, u |-> u, t |-> t, snap |-> {},
                   met |-> \E x \in Requests : Meets(op, u, x)]
<1>1. req'[r] = new BY DEF Start
<1>2. ~Resetting(r) /\ ~Resetting(r)'
  BY <1>1, Constants DEF Start, Resetting, Issuers
<1>3. ASSUME NEW s \in Requests \ {r}
      PROVE  (Resetting(s)' <=> Resetting(s)) /\ req'[s].t = req[s].t
  <2>1. req'[s] = [req[s] EXCEPT !.met = @ \/ Meets(op, u, s)] /\ req[s] \in Request
    BY DEF Start, IInv, TypeOK
  <2>2. req'[s].op = req[s].op /\ req'[s].pc = req[s].pc /\ req'[s].t = req[s].t
    BY <2>1 DEF Request
  <2> QED BY <2>2 DEF Resetting
<1> QED BY <1>2, <1>3, RowsSame, ClaimsSame DEF OthersKept, Simulated, Start

\* A link that was free is issued, and of the others some may die.
LEMMA IssueSimulates ==
  ASSUME IInv, NEW t \in Links, NEW S \in SUBSET Links, Claims' = Claims,
         link[t] = Free, link'[t].st = "open", ~link'[t].expired, link'[t].made = 0,
         \A k \in Links \ {t} :
            /\ link'[k].st = link[k].st /\ link'[k].made = link[k].made
            /\ link'[k].expired <=> link[k].expired \/ (k \in S /\ link[k].st = "open")
  PROVE  Simulated
<1>1. State[t] = "none" /\ Uses[t] = 0 BY Constants DEF State, Uses, LinkState
<1>2. State' = [k \in Links |->
                  IF k = t THEN "live"
                  ELSE IF k \in S /\ State[k] = "live" THEN "dead" ELSE State[k]]
  <2>1. ASSUME NEW k \in Links
        PROVE  LinkState(k)' =
                 IF k = t THEN "live"
                 ELSE IF k \in S /\ LinkState(k) = "live" THEN "dead" ELSE LinkState(k)
    <3>1. link[k].st \in {"free", "open", "consumed"} BY DEF IInv, TypeOK, LinkRow
    <3> QED BY <3>1 DEF LinkState
  <2> QED BY <2>1 DEF State
<1>3. Uses' = Uses BY <1>1 DEF Uses
<1>4. OneTime!Issue(t, S) BY <1>1, <1>2, <1>3 DEF OneTime!Issue, State, Claims, Uses
<1> QED BY <1>4 DEF Simulated, OneTime!Next

LEMMA CommitForgotSimulates ==
  ASSUME IInv, NEW r \in Requests, CommitForgot(r)
  PROVE  Simulated
<1> DEFINE q == [req[r] EXCEPT !.pc = "respond"]
<1>1. PICK t \in Links : t = req[r].t BY Formed DEF CommitForgot
<1>2. /\ req[r].op = "forgot" /\ req[r].pc = "commit" /\ req[r] \in Request
      /\ link[t] = Free /\ link \in [Links -> LinkRow]
  BY <1>1, Formed DEF CommitForgot, IInv, Subject, TypeOK, Issuers
<1>3. req' = [req EXCEPT ![r] = q] /\ link' = [link EXCEPT ![t] = Issued(req[r])]
  BY <1>1 DEF CommitForgot
<1>4. q.op = "forgot" BY <1>2 DEF Request
<1>5. Issued(req[r]).st = "open" /\ ~Issued(req[r]).expired /\ Issued(req[r]).made = 0
  BY DEF Issued, Free
<1> HIDE DEF q
<1>6. OthersKept(r) /\ ~Resetting(r) /\ ~Resetting(r)'
  BY <1>2, <1>3, <1>4, RequestStep DEF Resetting
<1>7. Claims' = Claims BY <1>6, ClaimsSame
<1>8. link'[t] = Issued(req[r]) /\ \A k \in Links \ {t} : link'[k] = link[k]
  BY <1>2, <1>3
<1>9. {} \in SUBSET Links OBVIOUS
<1>10. \A k \in Links \ {t} :
         /\ link'[k].st = link[k].st /\ link'[k].made = link[k].made
         /\ link'[k].expired <=> link[k].expired \/ (k \in {} /\ link[k].st = "open")
  BY <1>8
<1> QED BY <1>2, <1>5, <1>7, <1>8, <1>9, <1>10, IssueSimulates

LEMMA CommitOverrideSimulates ==
  ASSUME IInv, NEW r \in Requests, CommitOverride(r)
  PROVE  Simulated
<1> DEFINE q == [req[r] EXCEPT !.pc = "respond", !.snap = {}]
<1>1. PICK t \in Links : t = req[r].t BY Formed DEF CommitOverride
<1>2. /\ req[r].op = "override" /\ req[r].pc = "commit" /\ req[r] \in Request
      /\ link[t] = Free /\ link \in [Links -> LinkRow]
  BY <1>1, Formed DEF CommitOverride, IInv, Subject, TypeOK, Issuers
<1>3. req' = [req EXCEPT ![r] = q] BY DEF CommitOverride
<1>4. q.op = "override" BY <1>2 DEF Request
<1>5. Issued(req[r]).st = "open" /\ ~Issued(req[r]).expired /\ Issued(req[r]).made = 0
  BY DEF Issued, Free
<1> HIDE DEF q
<1>6. OthersKept(r) /\ ~Resetting(r) /\ ~Resetting(r)'
  BY <1>2, <1>3, <1>4, RequestStep DEF Resetting
<1>7. Claims' = Claims BY <1>6, ClaimsSame
<1>8. PICK S \in SUBSET Links : S = {k \in req[r].snap : link[k].owner = req[r].u}
  BY <1>2 DEF Request
<1>9. link'[t] = Issued(req[r]) BY <1>1 DEF CommitOverride
<1>10. ASSUME NEW k \in Links \ {t}
       PROVE  /\ link'[k].st = link[k].st /\ link'[k].made = link[k].made
              /\ link'[k].expired <=> link[k].expired \/ (k \in S /\ link[k].st = "open")
  <2>1. link[k] \in LinkRow BY <1>2
  <2>2. CASE link[k].owner # req[r].u
    <3>1. link'[k] = link[k] BY <1>1, <2>2 DEF CommitOverride
    <3> QED BY <1>8, <2>2, <3>1
  <2>3. CASE link[k].owner = req[r].u
    <3>1. link'[k] = [link[k] EXCEPT !.over = TRUE,
                        !.expired = @ \/ (k \in req[r].snap /\ link[k].st = "open")]
      BY <1>1, <2>3 DEF CommitOverride
    <3>2. /\ link'[k].st = link[k].st /\ link'[k].made = link[k].made
          /\ link'[k].expired = (link[k].expired \/ (k \in req[r].snap /\ link[k].st = "open"))
      BY <2>1, <3>1 DEF LinkRow
    <3> QED BY <1>8, <2>3, <3>2
  <2> QED BY <2>2, <2>3
<1> QED BY <1>2, <1>5, <1>7, <1>9, <1>10, IssueSimulates

LEMMA RespondSimulates ==
  ASSUME IInv, NEW r \in Requests, Respond(r)
  PROVE  Simulated
<1>1. /\ req' = [req EXCEPT ![r] = Idle] /\ req[r].pc = "respond"
      /\ link' = [link EXCEPT ![req[r].t].handed = Delivers] /\ link \in [Links -> LinkRow]
  BY DEF Respond, IInv, TypeOK
<1>2. \A k \in Links : link'[k].st = link[k].st /\ link'[k].expired = link[k].expired
                       /\ link'[k].made = link[k].made
  BY <1>1 DEF LinkRow
<1>3. State' = State /\ Uses' = Uses BY <1>2 DEF State, Uses, LinkState
<1>4. OthersKept(r) /\ ~Resetting(r) /\ ~Resetting(r)'
  BY <1>1, RequestStep, Constants DEF Resetting
<1> QED BY <1>3, <1>4, ClaimsSame DEF Simulated

LEMMA CommitResetSimulates ==
  ASSUME IInv, NEW r \in Requests, CommitReset(r)
  PROVE  Simulated
<1>1. PICK t \in Links : t = req[r].t BY Formed DEF CommitReset
<1>2. /\ req[r].op = "reset" /\ req[r].pc = "commit"
      /\ req' = [req EXCEPT ![r] = Idle] /\ link \in [Links -> LinkRow]
      /\ link' = [link EXCEPT ![t].st = "consumed", ![t].made = @ + 1]
  BY <1>1 DEF CommitReset, IInv, TypeOK
<1>3. Resetting(r) /\ link[t].st = "open"
  BY <1>1, <1>2 DEF Resetting, IInv, Locked
<1>4. OthersKept(r) /\ ~Resetting(r)' BY <1>2, RequestStep, Constants
<1>5. Claims' = Claims \ {<<r, t>>} BY <1>1, <1>3, <1>4, ClaimEnds
<1>6. <<r, t>> \in Claims BY <1>1, <1>3 DEF Claims
<1>7. State[t] # "used" BY <1>3 DEF State, LinkState
<1>8. /\ link'[t].st = "consumed" /\ link'[t].made = link[t].made + 1
      /\ \A k \in Links \ {t} : link'[k] = link[k]
  BY <1>2 DEF LinkRow
<1>9. State' = [State EXCEPT ![t] = "used"] BY <1>8 DEF State, LinkState
<1>10. Uses' = [Uses EXCEPT ![t] = @ + 1] BY <1>8 DEF Uses
<1>11. OneTime!Use(r, t)
  BY <1>5, <1>6, <1>7, <1>9, <1>10 DEF OneTime!Use, State, Claims, Uses
<1> QED BY <1>11 DEF Simulated, OneTime!Next

\* A step that sets `met` of requests and nothing else of them.
LEMMA MarkingSame ==
  ASSUME IInv, \A s \in Requests : \E m \in BOOLEAN : req'[s] = [req[s] EXCEPT !.met = m]
  PROVE  Claims' = Claims
<1>1. ASSUME NEW s \in Requests
      PROVE  (Resetting(s)' <=> Resetting(s)) /\ req'[s].t = req[s].t
  <2>1. req[s] \in Request BY DEF IInv, TypeOK
  <2>2. req'[s].op = req[s].op /\ req'[s].pc = req[s].pc /\ req'[s].t = req[s].t
    BY <2>1 DEF Request
  <2> QED BY <2>2 DEF Resetting
<1> QED BY <1>1 DEF Claims

LEMMA ExpireSimulates ==
  ASSUME IInv, NEW t \in Links, Expire(t)
  PROVE  Simulated
<1>1. /\ link[t].st = "open" /\ ~link[t].expired /\ link \in [Links -> LinkRow]
      /\ link' = [link EXCEPT ![t].expired = TRUE]
  BY DEF Expire, IInv, TypeOK
<1>2. /\ link'[t].st = "open" /\ link'[t].made = link[t].made /\ link'[t].expired
      /\ \A k \in Links \ {t} : link'[k] = link[k]
  BY <1>1 DEF LinkRow
<1>3. State[t] = "live" BY <1>1 DEF State, LinkState
<1>4. State' = [State EXCEPT ![t] = "dead"] BY <1>2 DEF State, LinkState
<1>5. Uses' = Uses BY <1>2 DEF Uses
<1>6. \A s \in Requests : \E m \in BOOLEAN : req'[s] = [req[s] EXCEPT !.met = m]
  <2>1. \A s \in Requests :
          req'[s] = [req[s] EXCEPT !.met = @ \/ (req[s].op = "reset" /\ req[s].t = t)]
    BY DEF Expire
  <2>2. \A s \in Requests : (req[s].met \/ (req[s].op = "reset" /\ req[s].t = t)) \in BOOLEAN
    OBVIOUS
  <2> QED BY <2>1, <2>2
<1>7. Claims' = Claims BY <1>6, MarkingSame
<1>8. OneTime!Die(t) BY <1>3, <1>4, <1>5, <1>7 DEF OneTime!Die, State, Claims, Uses
<1> QED BY <1>8 DEF Simulated, OneTime!Next

LEMMA SwitchSimulates ==
  ASSUME IInv, NEW u \in Users, SwitchAccount(u)
  PROVE  Simulated
<1>1. \A s \in Requests : \E m \in BOOLEAN : req'[s] = [req[s] EXCEPT !.met = m]
  <2>1. \A s \in Requests :
          req'[s] = [req[s] EXCEPT !.met = @ \/ (req[s].op = "reset" /\ req[s].u = u)]
    BY DEF SwitchAccount
  <2>2. \A s \in Requests : (req[s].met \/ (req[s].op = "reset" /\ req[s].u = u)) \in BOOLEAN
    OBVIOUS
  <2> QED BY <2>1, <2>2
<1>2. Claims' = Claims BY <1>1, MarkingSame
<1> QED BY <1>2, RowsSame DEF SwitchAccount, Simulated

LEMMA StepSimulates ==
  ASSUME IInv, NEW r \in Requests, Arrive(r) \/ Step(r) \/ Crash(r)
  PROVE  Simulated
<1>1. CASE Arrive(r) BY <1>1, StartSimulates DEF Arrive, AskForLink, Reset
<1>2. CASE CheckUser(r)
  <2>1. req[r].op \in {"forgot", "override", "reset"} /\ req[r].pc = "user"
    BY <1>2, Formed, Constants DEF CheckUser
  <2> QED BY <1>2, <2>1, GotoSimulates, StopSimulates DEF CheckUser, AfterUser, Resetting
<1>3. CASE CheckPending(r)
  <2>1. req[r].op = "forgot" BY <1>3, Formed, Constants DEF CheckPending
  <2> QED BY <1>3, <2>1, GotoSimulates, StopSimulates DEF CheckPending, Resetting
<1>4. CASE WaitForLinks(r)
  <2>1. req[r].op = "override" BY <1>4, Formed, Constants DEF WaitForLinks
  <2> QED BY <1>4, <2>1, GotoSimulates DEF WaitForLinks, Resetting
<1>5. CASE WriteUser(r)
  <2>1. req[r].op = "reset" /\ req[r].pc = "write"
    BY <1>5, Formed, Constants DEF WriteUser
  <2> QED BY <1>5, <2>1, GotoSimulates DEF WriteUser, Resetting
<1>6. CASE Crash(r) BY <1>6, StopSimulates DEF Crash
<1> QED
  BY <1>1, <1>2, <1>3, <1>4, <1>5, <1>6, RevokePendingSimulates, LockSimulates,
     CommitForgotSimulates, CommitOverrideSimulates, RespondSimulates, CommitResetSimulates
     DEF Step

LEMMA OneTimeInit ==
  ASSUME Init
  PROVE  OneTime!Init
<1>1. State = [t \in Links |-> "none"] /\ Uses = [t \in Links |-> 0]
  BY Constants DEF Init, State, Uses, LinkState
<1>2. Claims = {} BY Constants DEF Init, Claims, Resetting
<1> QED BY <1>1, <1>2 DEF OneTime!Init, State, Claims, Uses

\* Every behaviour of the reset links, projected on what becomes of them, is one of
\* links that work once; an admin's override kills the links it supersedes in the very
\* step that issues its own.
THEOREM ResetLinksAreOneTimeLinks == Spec => OneTimeSpec
<1>1. Init => OneTime!Init BY OneTimeInit
<1>2. ASSUME IInv, [Next]_vars PROVE Simulated
  <2>1. CASE UNCHANGED vars
    BY <2>1, RowsSame DEF vars, Simulated, Claims, Resetting
  <2> QED BY <1>2, <2>1, StepSimulates, ExpireSimulates, SwitchSimulates DEF Next
<1>3. IInv /\ [Next]_vars => [OneTime!Next]_<<State, Claims, Uses>>
  BY <1>2 DEF Simulated
<1> QED BY <1>1, <1>3, Invariance, PTL DEF Spec, OneTimeSpec, OneTime!Spec, State, Claims, Uses
=============================================================================
