--------------------------- MODULE RequestsProofs ---------------------------
(***************************************************************************)
(* Requests, for any number of requests and any pool: what the pool holds, *)
(* what the audit log says of the changes, what a reader of the log        *)
(* misses, and what an update is answered.  The invariant follows a        *)
(* request by its statements: its row is written, open and committed at    *)
(* three of them, and no other request touches it.                         *)
(***************************************************************************)
EXTENDS Requests, FiniteSetTheorems, WellFoundedInduction, TLAPS

PCs == {"idle", "user", "dispatch", "train", "closing", "ended"} \cup Statements

-----------------------------------------------------------------------------
(* Rows and records *)

LEMMA RowSets ==
  ASSUME NEW r
  PROVE  /\ OpenRows(r) = {i \in RowsOf(r) : trail[i].state = "open"}
         /\ Audited(r) <=> \E i \in RowsOf(r) : trail[i].state = "committed"
         /\ OpenRows(r)' = {i \in RowsOf(r)' : trail'[i].state = "open"}
         /\ Audited(r)' <=> \E i \in RowsOf(r)' : trail'[i].state = "committed"
BY DEF OpenRows, Audited, Committed, RowsOf

LEMMA RequestType ==
  ASSUME TypeOK, NEW r \in Requests
  PROVE  /\ req[r] \in Request
         /\ req[r].kind \in Kinds \cup {"none"} /\ req[r].pc \in PCs
         /\ req[r].old \in Values /\ req[r].failed \in BOOLEAN
         /\ req[r].answer \in {"none", "ok", "error"} /\ req[r].changed \in BOOLEAN
         /\ req[r].met \subseteq Requests
<1>1. req[r] \in Request
  BY DEF TypeOK
<1> QED
  BY <1>1 DEF Request, PCs

LEMMA TrailType ==
  ASSUME TypeOK
  PROVE  /\ trail \in Seq(AuditRow) /\ DOMAIN trail = 1..Len(trail) /\ Len(trail) \in Nat
         /\ \A i \in DOMAIN trail : trail[i] \in AuditRow /\ trail[i].by \in Requests
<1>1. trail \in Seq(AuditRow)
  BY DEF TypeOK, AuditTypeOK
<1>2. DOMAIN trail = 1..Len(trail) /\ Len(trail) \in Nat
  BY <1>1
<1>3. \A i \in DOMAIN trail : trail[i] \in AuditRow
  BY <1>1, <1>2
<1>4. \A x \in AuditRow : x.by \in Requests
  BY DEF AuditRow
<1> QED
  BY <1>1, <1>2, <1>3, <1>4

LEMMA GotoEffect ==
  ASSUME TypeOK, NEW r \in Requests, NEW pc \in PCs, Goto(r, pc)
  PROVE  /\ req' \in [Requests -> Request]
         /\ \A s \in Requests \ {r} : req'[s] = req[s]
         /\ req'[r].pc = pc /\ req'[r].kind = req[r].kind /\ req'[r].old = req[r].old
         /\ req'[r].failed = req[r].failed /\ req'[r].answer = req[r].answer
         /\ req'[r].changed = req[r].changed /\ req'[r].met = req[r].met /\ req'[r].told = req[r].told
<1> DEFINE q == [req[r] EXCEPT !.pc = pc]
<1>1. req \in [Requests -> Request] /\ req' = [req EXCEPT ![r] = q]
  BY DEF TypeOK, Goto
<1>2. req[r] \in Request
  BY <1>1
<1>3. /\ q \in Request /\ q.pc = pc /\ q.kind = req[r].kind /\ q.old = req[r].old
      /\ q.failed = req[r].failed /\ q.answer = req[r].answer
      /\ q.changed = req[r].changed /\ q.met = req[r].met /\ q.told = req[r].told
  BY ONLY <1>2, pc \in PCs DEF Request, PCs
<1> HIDE DEF q
<1> QED
  BY <1>1, <1>3

LEMMA AnswerEffect ==
  ASSUME TypeOK, NEW r \in Requests, NEW a \in {"none", "ok", "error"}, Answer(r, a)
  PROVE  /\ req' \in [Requests -> Request]
         /\ \A s \in Requests \ {r} : req'[s] = req[s]
         /\ req'[r].pc = "closing" /\ req'[r].kind = req[r].kind
         /\ req'[r].old = req[r].old /\ req'[r].failed = req[r].failed
         /\ req'[r].answer = a
         /\ req'[r].changed = req[r].changed /\ req'[r].met = req[r].met /\ req'[r].told = req[r].told
<1> DEFINE q == [req[r] EXCEPT !.pc = "closing", !.answer = a]
<1>1. req \in [Requests -> Request] /\ req' = [req EXCEPT ![r] = q]
  BY DEF TypeOK, Answer
<1>2. req[r] \in Request
  BY <1>1
<1>3. /\ q \in Request /\ q.pc = "closing" /\ q.kind = req[r].kind /\ q.old = req[r].old
      /\ q.failed = req[r].failed /\ q.answer = a
      /\ q.changed = req[r].changed /\ q.met = req[r].met /\ q.told = req[r].told
  BY ONLY <1>2, a \in {"none", "ok", "error"} DEF Request
<1> HIDE DEF q
<1> QED
  BY <1>1, <1>3

LEMMA FailedEffect ==
  ASSUME TypeOK, NEW r \in Requests, NEW pc \in PCs, NEW failed \in BOOLEAN,
         req' = [req EXCEPT ![r].pc = pc, ![r].failed = failed]
  PROVE  /\ req' \in [Requests -> Request]
         /\ \A s \in Requests \ {r} : req'[s] = req[s]
         /\ req'[r].pc = pc /\ req'[r].kind = req[r].kind /\ req'[r].met = req[r].met /\ req'[r].told = req[r].told
         /\ req'[r].old = req[r].old /\ req'[r].failed = failed
         /\ req'[r].answer = req[r].answer /\ req'[r].changed = req[r].changed
<1> DEFINE q == [req[r] EXCEPT !.pc = pc, !.failed = failed]
<1>1. req \in [Requests -> Request] /\ req' = [req EXCEPT ![r] = q]
  BY DEF TypeOK
<1>2. req[r] \in Request
  BY <1>1
<1>3. /\ q \in Request
      /\ q.pc = pc /\ q.kind = req[r].kind /\ q.met = req[r].met /\ q.told = req[r].told
      /\ q.old = req[r].old /\ q.failed = failed
      /\ q.answer = req[r].answer /\ q.changed = req[r].changed
  BY ONLY <1>2, pc \in PCs, failed \in BOOLEAN DEF Request, PCs
<1> HIDE DEF q
<1> QED
  BY <1>1, <1>3

LEMMA OldEffect ==
  ASSUME TypeOK, NEW r \in Requests, NEW pc \in PCs, NEW old \in Values,
         req' = [req EXCEPT ![r].pc = pc, ![r].old = old]
  PROVE  /\ req' \in [Requests -> Request]
         /\ \A s \in Requests \ {r} : req'[s] = req[s]
         /\ req'[r].pc = pc /\ req'[r].kind = req[r].kind /\ req'[r].met = req[r].met /\ req'[r].told = req[r].told
         /\ req'[r].old = old /\ req'[r].failed = req[r].failed
         /\ req'[r].answer = req[r].answer /\ req'[r].changed = req[r].changed
<1> DEFINE q == [req[r] EXCEPT !.pc = pc, !.old = old]
<1>1. req \in [Requests -> Request] /\ req' = [req EXCEPT ![r] = q]
  BY DEF TypeOK
<1>2. req[r] \in Request
  BY <1>1
<1>3. /\ q \in Request
      /\ q.pc = pc /\ q.kind = req[r].kind /\ q.met = req[r].met /\ q.told = req[r].told
      /\ q.old = old /\ q.failed = req[r].failed
      /\ q.answer = req[r].answer /\ q.changed = req[r].changed
  BY ONLY <1>2, pc \in PCs, old \in Values DEF Request, PCs
<1> HIDE DEF q
<1> QED
  BY <1>1, <1>3

LEMMA ChangedEffect ==
  ASSUME TypeOK, NEW r \in Requests, NEW pc \in PCs, NEW changed \in BOOLEAN,
         req' = [req EXCEPT ![r].pc = pc, ![r].changed = changed]
  PROVE  /\ req' \in [Requests -> Request]
         /\ \A s \in Requests \ {r} : req'[s] = req[s]
         /\ req'[r].pc = pc /\ req'[r].kind = req[r].kind /\ req'[r].met = req[r].met /\ req'[r].told = req[r].told
         /\ req'[r].old = req[r].old /\ req'[r].failed = req[r].failed
         /\ req'[r].answer = req[r].answer /\ req'[r].changed = changed
<1> DEFINE q == [req[r] EXCEPT !.pc = pc, !.changed = changed]
<1>1. req \in [Requests -> Request] /\ req' = [req EXCEPT ![r] = q]
  BY DEF TypeOK
<1>2. req[r] \in Request
  BY <1>1
<1>3. /\ q \in Request
      /\ q.pc = pc /\ q.kind = req[r].kind /\ q.met = req[r].met /\ q.told = req[r].told
      /\ q.old = req[r].old /\ q.failed = req[r].failed
      /\ q.answer = req[r].answer /\ q.changed = changed
  BY ONLY <1>2, pc \in PCs, changed \in BOOLEAN DEF Request, PCs
<1> HIDE DEF q
<1> QED
  BY <1>1, <1>3

LEMMA ResultEffect ==
  ASSUME TypeOK, NEW r \in Requests, NEW pc \in PCs, NEW changed \in BOOLEAN, NEW failed \in BOOLEAN,
         req' = [req EXCEPT ![r].pc = pc, ![r].changed = changed, ![r].failed = failed]
  PROVE  /\ req' \in [Requests -> Request]
         /\ \A s \in Requests \ {r} : req'[s] = req[s]
         /\ req'[r].pc = pc /\ req'[r].kind = req[r].kind /\ req'[r].met = req[r].met /\ req'[r].told = req[r].told
         /\ req'[r].old = req[r].old /\ req'[r].failed = failed
         /\ req'[r].answer = req[r].answer /\ req'[r].changed = changed
<1> DEFINE q == [req[r] EXCEPT !.pc = pc, !.changed = changed, !.failed = failed]
<1>1. req \in [Requests -> Request] /\ req' = [req EXCEPT ![r] = q]
  BY DEF TypeOK
<1>2. req[r] \in Request
  BY <1>1
<1>3. /\ q \in Request
      /\ q.pc = pc /\ q.kind = req[r].kind /\ q.met = req[r].met /\ q.told = req[r].told
      /\ q.old = req[r].old /\ q.failed = failed
      /\ q.answer = req[r].answer /\ q.changed = changed
  BY ONLY <1>2, pc \in PCs, changed \in BOOLEAN, failed \in BOOLEAN DEF Request, PCs
<1> HIDE DEF q
<1> QED
  BY <1>1, <1>3

LEMMA RefreshEffect ==
  ASSUME TypeOK, NEW r \in Requests, Refresh(r)
  PROVE  /\ req' \in [Requests -> Request]
         /\ \A s \in Requests \ {r} : req'[s] = req[s]
         /\ req'[r].pc = "closing" /\ req'[r].kind = req[r].kind
         /\ req'[r].old = req[r].old /\ req'[r].told = setting /\ req'[r].answer = "ok"
         /\ req'[r].changed = req[r].changed /\ req'[r].met = req[r].met
         /\ setting' = setting /\ UNCHANGED <<out, trail, reader>> /\ req[r].pc = "refresh"
<1> DEFINE q == [req[r] EXCEPT !.pc = "closing", !.answer = "ok", !.told = setting]
<1>1. req \in [Requests -> Request] /\ req' = [req EXCEPT ![r] = q] /\ setting \in Values
      /\ setting' = setting /\ UNCHANGED <<out, trail, reader>> /\ req[r].pc = "refresh"
  BY DEF TypeOK, Refresh
<1>2. req[r] \in Request
  BY <1>1
<1>3. /\ q \in Request /\ q.pc = "closing" /\ q.kind = req[r].kind /\ q.old = req[r].old
      /\ q.told = setting /\ q.answer = "ok"
      /\ q.changed = req[r].changed /\ q.met = req[r].met
  BY ONLY <1>1, <1>2 DEF Request
<1> HIDE DEF q
<1> QED
  BY <1>1, <1>3

-----------------------------------------------------------------------------
(* A request that does nothing *)

SameRequest(s) ==
  /\ req'[s].kind = req[s].kind /\ req'[s].pc = req[s].pc
  /\ req'[s].answer = req[s].answer /\ req'[s].changed = req[s].changed
  /\ req'[s].failed = req[s].failed

SameRows(s) ==
  /\ RowsOf(s)' = RowsOf(s)
  /\ \A i \in RowsOf(s) : trail'[i] = trail[i]

SameConnections(s) == \A x \in Sessions : <<s, x>> \in out' <=> <<s, x>> \in out

LEMMA ReadyOf ==
  ASSUME NEW s
  PROVE  /\ Ready(s) <=> IF req[s].pc = "user" \/ req[s].kind = "setting"
                         THEN Connected(s, "auth") ELSE Connected(s, "db")
         /\ Ready(s)' <=> IF req'[s].pc = "user" \/ req'[s].kind = "setting"
                          THEN Connected(s, "auth")' ELSE Connected(s, "db")'
BY DEF Ready, SessionOf, Connected

LEMMA SameRowSets ==
  ASSUME NEW s, SameRows(s)
  PROVE  /\ RowsOf(s)' = RowsOf(s) /\ \A i \in RowsOf(s) : trail'[i] = trail[i]
         /\ OpenRows(s)' = OpenRows(s)
         /\ Audited(s)' <=> Audited(s)
<1>1. RowsOf(s)' = RowsOf(s) /\ \A i \in RowsOf(s) : trail'[i] = trail[i]
  BY DEF SameRows
<1>2. /\ OpenRows(s) = {i \in RowsOf(s) : trail[i].state = "open"}
      /\ OpenRows(s)' = {i \in RowsOf(s)' : trail'[i].state = "open"}
  BY RowSets
<1>3. /\ Audited(s) <=> \E i \in RowsOf(s) : trail[i].state = "committed"
      /\ Audited(s)' <=> \E i \in RowsOf(s)' : trail'[i].state = "committed"
  BY RowSets
<1> QED
  BY <1>1, <1>2, <1>3

LEMMA Frame ==
  ASSUME NEW s \in Requests, RequestInv(s), SameRequest(s), SameRows(s), SameConnections(s)
  PROVE  RequestInv(s)' /\ (OnLoop(s)' <=> OnLoop(s))
<1> USE DEF SameRequest
<1>1. OpenRows(s)' = OpenRows(s) /\ (Audited(s)' <=> Audited(s))
  BY SameRowSets
<1>2. (Connected(s, "auth")' <=> Connected(s, "auth"))
      /\ (Connected(s, "db")' <=> Connected(s, "db"))
  BY DEF SameConnections, Connected, Sessions
<1>3. Ready(s)' <=> Ready(s)
  BY <1>2, ReadyOf
<1>4. KindHasStatement(s)'
  BY DEF RequestInv, KindHasStatement
<1>5. RowsFollow(s)'
  BY <1>1 DEF RequestInv, RowsFollow, SameRows
<1>6. AnswersTell(s)'
  BY <1>1 DEF RequestInv, AnswersTell
<1>7. ChangesTell(s)'
  BY <1>1 DEF RequestInv, ChangesTell, SameRows
<1>8. ConnectionsFollow(s)'
  BY <1>2, <1>3 DEF RequestInv, ConnectionsFollow, Statements
<1>9. OnLoop(s)' <=> OnLoop(s)
  BY DEF OnLoop, Statements
<1> QED
  BY <1>4, <1>5, <1>6, <1>7, <1>8, <1>9 DEF RequestInv

\* A step of r: it keeps the invariant if it does so for r, the pool and the reader.
LEMMA StepOf ==
  ASSUME RequestsInv, NEW r \in Requests, TypeOK',
         Cardinality(out') <= PoolSize + MaxOverflow,
         RequestInv(r)', ReaderInv',
         OnLoop(r)' => OnLoop(r) \/ ~LoopBusy,
         \A s \in Requests \ {r} : SameRequest(s) /\ SameRows(s) /\ SameConnections(s)
  PROVE  RequestsInv'
<1>1. \A s \in Requests \ {r} : RequestInv(s)' /\ (OnLoop(s)' <=> OnLoop(s))
  BY Frame DEF RequestsInv
<1>2. \A s \in Requests : RequestInv(s)'
  BY <1>1
<1>3. \A s, t \in Requests : OnLoop(s)' /\ OnLoop(t)' => s = t
  BY <1>1 DEF RequestsInv, LoopBusy
<1> QED
  BY <1>2, <1>3 DEF RequestsInv

-----------------------------------------------------------------------------
(* The pool *)

LEMMA PoolFinite ==
  ASSUME TypeOK
  PROVE  IsFiniteSet(out) /\ Cardinality(out) \in Nat /\ out \subseteq Requests \X Sessions
<1>1. IsFiniteSet(Requests) /\ IsFiniteSet(Sessions)
  <2>1. IsFiniteSet({"auth"}) /\ IsFiniteSet({"db"})
    BY FS_Singleton
  <2>2. IsFiniteSet({"auth"} \cup {"db"})
    BY <2>1, FS_Union
  <2>3. {"auth"} \cup {"db"} = Sessions
    BY DEF Sessions
  <2> QED
    BY <2>2, <2>3, PoolAssumption
<1>2. IsFiniteSet(Requests \X Sessions)
  BY <1>1, FS_Product
<1>3. out \subseteq Requests \X Sessions
  BY DEF TypeOK, PoolTypeOK
<1> QED
  BY <1>2, <1>3, FS_Subset, FS_CardinalityType

LEMMA FewerConnections ==
  ASSUME RequestsInv, out' \subseteq out
  PROVE  PoolTypeOK' /\ Cardinality(out') <= PoolSize + MaxOverflow
<1>1. TypeOK /\ Cardinality(out) <= PoolSize + MaxOverflow
  BY DEF RequestsInv
<1>2. IsFiniteSet(out) /\ Cardinality(out) \in Nat /\ out \subseteq Requests \X Sessions
  BY <1>1, PoolFinite
<1>3. IsFiniteSet(out') /\ Cardinality(out') <= Cardinality(out)
  BY <1>2, FS_Subset
<1>4. Cardinality(out') \in Nat
  BY <1>3, FS_CardinalityType
<1> QED
  BY <1>1, <1>2, <1>3, <1>4, PoolAssumption DEF PoolTypeOK

LEMMA SameOut ==
  ASSUME RequestsInv, UNCHANGED out
  PROVE  /\ PoolTypeOK' /\ Cardinality(out') <= PoolSize + MaxOverflow
         /\ \A s \in Requests : SameConnections(s)
         /\ \A s \in Requests, x \in Sessions : Connected(s, x)' <=> Connected(s, x)
BY FewerConnections DEF SameConnections, Connected

LEMMA ReturnEffect ==
  ASSUME RequestsInv, NEW r \in Requests, NEW x \in Sessions, Return(r, x)
  PROVE  /\ PoolTypeOK' /\ Cardinality(out') <= PoolSize + MaxOverflow
         /\ \A s \in Requests \ {r} : SameConnections(s)
         /\ \A y \in Sessions : Connected(r, y)' <=> Connected(r, y) /\ y # x
<1>1. out' = out \ {<<r, x>>}
  BY DEF Return
<1>2. \A s \in Requests \ {r} : SameConnections(s)
  BY <1>1 DEF SameConnections
<1>3. \A y \in Sessions : Connected(r, y)' <=> Connected(r, y) /\ y # x
  BY <1>1 DEF Connected
<1> QED
  BY <1>1, <1>2, <1>3, FewerConnections

LEMMA CloseEffect ==
  ASSUME RequestsInv, NEW r \in Requests, CloseSessions(r)
  PROVE  /\ PoolTypeOK' /\ Cardinality(out') <= PoolSize + MaxOverflow
         /\ \A s \in Requests \ {r} : SameConnections(s)
         /\ \A y \in Sessions : ~Connected(r, y)'
<1>1. out' = out \ ({r} \X Sessions)
  BY DEF CloseSessions
<1>2. \A s \in Requests \ {r} : SameConnections(s)
  BY <1>1 DEF SameConnections
<1>3. \A y \in Sessions : ~Connected(r, y)'
  BY <1>1 DEF Connected
<1> QED
  BY <1>1, <1>2, <1>3, FewerConnections

LEMMA CheckoutEffect ==
  ASSUME RequestsInv, NEW r \in Requests, NEW x \in Sessions, Checkout(r, x)
  PROVE  /\ PoolTypeOK' /\ Cardinality(out') <= PoolSize + MaxOverflow
         /\ \A s \in Requests \ {r} : SameConnections(s)
         /\ \A y \in Sessions : Connected(r, y)' <=> Connected(r, y) \/ y = x
<1>1. <<r, x>> \notin out /\ out' = out \cup {<<r, x>>}
      /\ Cardinality(out) < PoolSize + MaxOverflow
  BY DEF Checkout, Connected, Available
<1>2. IsFiniteSet(out) /\ Cardinality(out) \in Nat /\ out \subseteq Requests \X Sessions
  BY PoolFinite DEF RequestsInv
<1>3. Cardinality(out') = Cardinality(out) + 1
  BY <1>1, <1>2, FS_AddElement
<1>4. PoolTypeOK' /\ Cardinality(out') <= PoolSize + MaxOverflow
  BY <1>1, <1>2, <1>3, PoolAssumption DEF PoolTypeOK
<1>5. \A s \in Requests \ {r} : SameConnections(s)
  BY <1>1 DEF SameConnections
<1>6. \A y \in Sessions : Connected(r, y)' <=> Connected(r, y) \/ y = x
  BY <1>1 DEF Connected
<1> QED
  BY <1>4, <1>5, <1>6

-----------------------------------------------------------------------------
(* Steps that leave the log alone *)

LEMMA SameLog ==
  ASSUME UNCHANGED <<trail, reader>>
  PROVE  /\ \A s \in Requests : SameRows(s)
         /\ AuditTypeOK => AuditTypeOK'
         /\ ReaderInv => ReaderInv'
<1>1. trail' = trail /\ reader' = reader
  OBVIOUS
<1>2. \A s \in Requests : SameRows(s)
  BY <1>1 DEF SameRows, RowsOf
<1>3. AuditTypeOK => AuditTypeOK'
  BY <1>1 DEF AuditTypeOK
<1>4. ReaderInv => ReaderInv'
  BY <1>1 DEF ReaderInv, PagesMissOnlyLateRows, Committed
<1> QED
  BY <1>2, <1>3, <1>4

LEMMA QuietStep ==
  ASSUME RequestsInv, NEW r \in Requests, UNCHANGED <<trail, reader>>,
         req' \in [Requests -> Request], setting' \in Values,
         PoolTypeOK', Cardinality(out') <= PoolSize + MaxOverflow,
         \A s \in Requests \ {r} : req'[s] = req[s] /\ SameConnections(s),
         RequestInv(r)',
         OnLoop(r)' => OnLoop(r) \/ ~LoopBusy
  PROVE  RequestsInv'
<1>1. \A s \in Requests : SameRows(s)
  BY SameLog
<1>2. ReaderInv' /\ AuditTypeOK'
  BY SameLog DEF RequestsInv, TypeOK
<1>3. \A s \in Requests \ {r} : SameRequest(s)
  BY DEF SameRequest
<1>4. TypeOK'
  BY <1>2 DEF TypeOK
<1> QED
  BY <1>1, <1>2, <1>3, <1>4, StepOf

LEMMA ConnectStep ==
  ASSUME RequestsInv, NEW r \in Requests, Connect(r) PROVE RequestsInv'
<1>1. /\ req' = req /\ setting' = setting /\ UNCHANGED <<trail, reader>>
      /\ Checkout(r, SessionOf(r)) /\ NeedsConnection(r) /\ TypeOK /\ RequestInv(r)
  BY DEF Connect, Waiting, RequestsInv
<1>2. SessionOf(r) \in Sessions
  BY DEF SessionOf, Sessions
<1>3. /\ PoolTypeOK' /\ Cardinality(out') <= PoolSize + MaxOverflow
      /\ \A s \in Requests \ {r} : SameConnections(s)
      /\ \A y \in Sessions : Connected(r, y)' <=> Connected(r, y) \/ y = SessionOf(r)
  BY <1>1, <1>2, CheckoutEffect
<1>4. /\ RowsOf(r)' = RowsOf(r) /\ \A i \in RowsOf(r) : trail'[i] = trail[i]
      /\ OpenRows(r)' = OpenRows(r) /\ (Audited(r)' <=> Audited(r))
  BY <1>1, SameLog, SameRowSets
<1>5. RequestInv(r)'
  <2>1. KindHasStatement(r)' /\ RowsFollow(r)' /\ AnswersTell(r)' /\ ChangesTell(r)'
    BY <1>1, <1>4
    DEF RequestInv, KindHasStatement, RowsFollow, AnswersTell, ChangesTell
  <2>2. ConnectionsFollow(r)'
    BY <1>1, <1>3, ReadyOf
    DEF RequestInv, ConnectionsFollow, KindHasStatement, SessionOf, Sessions, Statements,
        NeedsConnection, Ready
  <2> QED
    BY <2>1, <2>2 DEF RequestInv
<1>6. OnLoop(r)' <=> OnLoop(r)
  BY <1>1 DEF OnLoop
<1> QED
  BY <1>1, <1>3, <1>5, <1>6, QuietStep DEF TypeOK

LEMMA QuietSets ==
  ASSUME RequestsInv, NEW r \in Requests, UNCHANGED <<trail, reader>>
  PROVE  /\ TypeOK /\ RequestInv(r)
         /\ RowsOf(r)' = RowsOf(r) /\ \A i \in RowsOf(r) : trail'[i] = trail[i]
         /\ OpenRows(r)' = OpenRows(r) /\ (Audited(r)' <=> Audited(r))
         /\ Ready(r) <=> IF req[r].pc = "user" \/ req[r].kind = "setting"
                         THEN Connected(r, "auth") ELSE Connected(r, "db")
         /\ Ready(r)' <=> IF req'[r].pc = "user" \/ req'[r].kind = "setting"
                          THEN Connected(r, "auth")' ELSE Connected(r, "db")'
BY SameLog, SameRowSets, ReadyOf DEF RequestsInv

\* Only r and its session have changed.
LEMMA HandlerStep ==
  ASSUME RequestsInv, NEW r \in Requests, UNCHANGED <<out, trail, reader>>,
         req' \in [Requests -> Request], setting' \in Values,
         \A s \in Requests \ {r} : req'[s] = req[s],
         RequestInv(r)',
         OnLoop(r)' => OnLoop(r) \/ ~LoopBusy
  PROVE  RequestsInv'
BY SameOut, QuietStep

LEMMA AuthenticateStep ==
  ASSUME RequestsInv, NEW r \in Requests, Authenticate(r) PROVE RequestsInv'
<1>1. /\ setting' = setting /\ UNCHANGED <<out, trail, reader>>
      /\ req[r].pc = "user"
      /\ Goto(r, "dispatch") \/ Answer(r, "error")
  BY DEF Authenticate
<1>2. PICK pc \in {"dispatch", "closing"}, a \in {"none", "ok", "error"} :
        /\ req' \in [Requests -> Request] /\ \A s \in Requests \ {r} : req'[s] = req[s]
        /\ req'[r].pc = pc /\ req'[r].kind = req[r].kind
        /\ req'[r].failed = req[r].failed /\ req'[r].changed = req[r].changed
        /\ req'[r].answer = a /\ (pc = "dispatch" => a = req[r].answer) /\ a # "ok"
  <2>1. TypeOK /\ "dispatch" \in PCs /\ req[r].answer \in {"none", "ok", "error"}
    BY RequestType DEF RequestsInv, PCs
  <2>2. req[r].answer = "none"
    BY <1>1, <2>1 DEF RequestsInv, RequestInv, AnswersTell
  <2> QED
    BY <1>1, <2>1, <2>2, GotoEffect, AnswerEffect
<1>3. RequestInv(r)'
  <2>1. Connected(r, "auth")' <=> Connected(r, "auth")
    BY <1>1, SameOut DEF Sessions
  <2>2. Connected(r, "db")' <=> Connected(r, "db")
    BY <1>1, SameOut DEF Sessions
  <2>3. KindHasStatement(r)' /\ RowsFollow(r)' /\ AnswersTell(r)' /\ ChangesTell(r)'
    BY <1>1, <1>2, QuietSets
    DEF RequestInv, KindHasStatement, RowsFollow, AnswersTell, ChangesTell
  <2>4. ConnectionsFollow(r)'
    BY <1>1, <1>2, <2>1, <2>2, QuietSets DEF RequestInv, ConnectionsFollow, Statements
  <2> QED
    BY <2>3, <2>4 DEF RequestInv
<1>4. ~OnLoop(r)'
  BY <1>2 DEF OnLoop, Statements
<1> QED
  BY <1>1, <1>2, <1>3, <1>4, HandlerStep DEF RequestsInv, TypeOK

\* A step of the handler of r between two statements.
LEMMA HandlerInv ==
  ASSUME RequestsInv, NEW r \in Requests, UNCHANGED <<out, trail, reader>>,
         KindHasStatement(r)', RowsFollow(r)', AnswersTell(r)', ChangesTell(r)',
         req[r].pc \notin {"idle", "user", "closing", "ended"},
         req'[r].pc \notin {"idle", "user", "ended"}, req'[r].kind = req[r].kind,
         req[r].pc \in Statements => req'[r].pc \in Statements \cup {"closing"},
         req'[r].pc \in {"update", "commit"} => Ready(r)
  PROVE  RequestInv(r)'
<1>1. Connected(r, "auth")' <=> Connected(r, "auth")
  BY SameOut DEF Sessions
<1>2. Connected(r, "db")' <=> Connected(r, "db")
  BY SameOut DEF Sessions
<1>3. ConnectionsFollow(r)'
  BY <1>1, <1>2, QuietSets DEF RequestInv, ConnectionsFollow, Statements
<1> QED
  BY <1>3 DEF RequestInv

LEMMA DispatchStep ==
  ASSUME RequestsInv, NEW r \in Requests, Dispatch(r) PROVE RequestsInv'
<1>1. /\ setting' = setting /\ UNCHANGED <<out, trail, reader>>
      /\ req[r].pc = "dispatch" /\ ~LoopBusy /\ TypeOK
      /\ \/ Goto(r, FirstStep(r))
         \/ req[r].kind = "setting" /\ Answer(r, "error")
         \/ /\ req[r].kind = "upload"
            /\ req' = [req EXCEPT ![r].pc = "append", ![r].failed = TRUE]
  BY DEF Dispatch, RequestsInv
<1>2. req[r].answer = "none" /\ req[r].kind # "none"
  BY <1>1, RequestType DEF RequestsInv, RequestInv, AnswersTell, KindHasStatement
<1>3. FirstStep(r) = CASE req[r].kind = "upload" -> "delete"
                       [] req[r].kind = "retrain" -> "train"
                       [] OTHER -> "select"
  BY DEF FirstStep
<1>4. FirstStep(r) \in PCs /\ "append" \in PCs /\ TRUE \in BOOLEAN
  BY <1>3 DEF PCs, Statements
<1>5. /\ req' \in [Requests -> Request] /\ \A s \in Requests \ {r} : req'[s] = req[s]
      /\ req'[r].kind = req[r].kind /\ req'[r].changed = req[r].changed
      /\ \/ /\ req'[r].pc = FirstStep(r) /\ req'[r].answer = "none"
            /\ req'[r].failed = req[r].failed
         \/ /\ req[r].kind = "setting" /\ req'[r].pc = "closing" /\ req'[r].answer = "error"
            /\ req'[r].failed = req[r].failed
         \/ /\ req[r].kind = "upload" /\ req'[r].pc = "append" /\ req'[r].answer = "none"
            /\ req'[r].failed = TRUE
  <2>1. CASE Goto(r, FirstStep(r))
    BY <1>1, <1>2, <1>4, <2>1, GotoEffect
  <2>2. CASE req[r].kind = "setting" /\ Answer(r, "error")
    BY <1>1, <1>2, <2>2, AnswerEffect
  <2>3. CASE req[r].kind = "upload" /\ req' = [req EXCEPT ![r].pc = "append", ![r].failed = TRUE]
    BY <1>1, <1>2, <1>4, <2>3, FailedEffect
  <2> QED
    BY <1>1, <2>1, <2>2, <2>3
<1>6. KindHasStatement(r)'
  BY <1>1, <1>2, <1>3, <1>5 DEF KindHasStatement
<1>7. RowsFollow(r)' /\ AnswersTell(r)' /\ ChangesTell(r)'
  BY <1>1, <1>2, <1>3, <1>5, QuietSets DEF RequestInv, RowsFollow, AnswersTell, ChangesTell
<1>8. RequestInv(r)'
  BY <1>1, <1>3, <1>5, <1>6, <1>7, HandlerInv DEF Statements
<1> QED
  BY <1>1, <1>5, <1>8, HandlerStep DEF RequestsInv, TypeOK

LEMMA TrainStep ==
  ASSUME RequestsInv, NEW r \in Requests, Train(r) PROVE RequestsInv'
<1>1. /\ setting' = setting /\ UNCHANGED <<out, trail, reader>>
      /\ req[r].pc = "train" /\ TypeOK
  BY DEF Train, RequestsInv
<1>2. PICK ok \in BOOLEAN, changed \in BOOLEAN :
        /\ ok => changed
        /\ req' = [req EXCEPT ![r].pc = IF ok THEN "select" ELSE "append",
                              ![r].changed = changed, ![r].failed = ~ok]
  BY DEF Train
<1>3. /\ req' \in [Requests -> Request] /\ \A s \in Requests \ {r} : req'[s] = req[s]
      /\ req'[r].kind = req[r].kind /\ req'[r].answer = req[r].answer
      /\ \/ req'[r].pc = "select" /\ req'[r].changed = TRUE
         \/ req'[r].pc = "append" /\ req'[r].failed = TRUE
  <2>1. "select" \in PCs /\ "append" \in PCs
    BY DEF PCs, Statements
  <2>2. CASE ok = TRUE
    <3>1. changed = TRUE
      BY <1>2, <2>2
    <3>2. req' = [req EXCEPT ![r].pc = "select", ![r].changed = changed, ![r].failed = FALSE]
      BY <1>2, <2>2
    <3> QED
      BY <1>1, <2>1, <3>1, <3>2, ResultEffect
  <2>3. CASE ok = FALSE
    <3>1. req' = [req EXCEPT ![r].pc = "append", ![r].changed = changed, ![r].failed = TRUE]
      BY <1>2, <2>3
    <3> QED
      BY <1>1, <2>1, <3>1, ResultEffect
  <2> QED
    BY <2>2, <2>3
<1>4. "append" \in Statements /\ "select" \in Statements
  BY DEF Statements
<1>5. req[r].kind = "retrain"
  BY <1>1 DEF RequestsInv, RequestInv, KindHasStatement
<1>6. KindHasStatement(r)'
  BY <1>3, <1>5 DEF KindHasStatement
<1>7. RowsFollow(r)' /\ AnswersTell(r)' /\ ChangesTell(r)'
  BY <1>1, <1>3, <1>5, QuietSets DEF RequestInv, RowsFollow, AnswersTell, ChangesTell
<1>8. RequestInv(r)'
  BY <1>1, <1>3, <1>4, <1>6, <1>7, HandlerInv
<1>9. ~OnLoop(r)'
  BY <1>3, <1>5 DEF OnLoop
<1> QED
  BY <1>1, <1>3, <1>8, <1>9, HandlerStep DEF RequestsInv, TypeOK

LEMMA SelectStep ==
  ASSUME RequestsInv, NEW r \in Requests, Select(r) PROVE RequestsInv'
<1>1. /\ setting' = setting /\ UNCHANGED <<out, trail, reader>>
      /\ req[r].pc = "select" /\ TypeOK /\ setting \in Values
      /\ \/ req[r].kind = "read" /\ Answer(r, "ok")
         \/ /\ req[r].kind = "setting"
            /\ req' = [req EXCEPT ![r].pc = "append", ![r].old = setting]
         \/ /\ req[r].kind = "retrain"
            /\ \E found \in BOOLEAN :
                 req' = [req EXCEPT ![r].pc = "append", ![r].failed = ~found]
  BY DEF Select, RequestsInv, TypeOK
<1>2. req[r].answer = "none" /\ req[r].kind # "upload" /\ "append" \in PCs
  BY <1>1, RequestType
  DEF RequestsInv, RequestInv, AnswersTell, KindHasStatement, PCs, Statements
<1>3. /\ req' \in [Requests -> Request] /\ \A s \in Requests \ {r} : req'[s] = req[s]
      /\ req'[r].kind = req[r].kind /\ req'[r].changed = req[r].changed
      /\ \/ req[r].kind = "read" /\ req'[r].pc = "closing"
         \/ /\ req[r].kind \in {"setting", "retrain"} /\ req'[r].pc = "append"
            /\ req'[r].answer = "none"
  <2>1. CASE req[r].kind = "read" /\ Answer(r, "ok")
    BY <1>1, <2>1, AnswerEffect
  <2>2. CASE req[r].kind = "setting" /\ req' = [req EXCEPT ![r].pc = "append", ![r].old = setting]
    BY <1>1, <1>2, <2>2, OldEffect
  <2>3. ASSUME req[r].kind = "retrain", NEW found \in BOOLEAN,
               req' = [req EXCEPT ![r].pc = "append", ![r].failed = ~found]
        PROVE  <1>3!1 /\ <1>3!2 /\ <1>3!3
    BY <1>1, <1>2, <2>3, (~found) \in BOOLEAN, FailedEffect
  <2> QED
    BY <1>1, <2>1, <2>2, <2>3
<1>4. KindHasStatement(r)'
  BY <1>1, <1>3 DEF KindHasStatement
<1>5. RowsFollow(r)' /\ AnswersTell(r)' /\ ChangesTell(r)'
  BY <1>1, <1>2, <1>3, QuietSets DEF RequestInv, RowsFollow, AnswersTell, ChangesTell
<1>6. RequestInv(r)'
  BY <1>1, <1>3, <1>4, <1>5, HandlerInv DEF Statements
<1>7. ~OnLoop(r)'
  BY <1>2, <1>3 DEF OnLoop
<1> QED
  BY <1>1, <1>3, <1>6, <1>7, HandlerStep DEF RequestsInv, TypeOK

LEMMA UpdateStep ==
  ASSUME RequestsInv, NEW r \in Requests, Update(r) PROVE RequestsInv'
<1>1. /\ setting' = setting /\ UNCHANGED <<out, trail, reader>>
      /\ req[r].pc = "update" /\ TypeOK /\ Ready(r) /\ Goto(r, "commit")
  BY DEF Update, RequestsInv
<1>2. "commit" \in PCs /\ req[r].kind = "setting"
  BY <1>1 DEF RequestsInv, RequestInv, KindHasStatement, PCs, Statements
<1>3. /\ req' \in [Requests -> Request] /\ \A s \in Requests \ {r} : req'[s] = req[s]
      /\ req'[r].kind = req[r].kind /\ req'[r].changed = req[r].changed
      /\ req'[r].pc = "commit" /\ req'[r].answer = req[r].answer
  BY <1>1, <1>2, GotoEffect
<1>4. KindHasStatement(r)' /\ RowsFollow(r)' /\ AnswersTell(r)' /\ ChangesTell(r)'
  BY <1>1, <1>2, <1>3, QuietSets
  DEF RequestInv, KindHasStatement, RowsFollow, AnswersTell, ChangesTell
<1>5. RequestInv(r)'
  BY <1>1, <1>3, <1>4, HandlerInv DEF Statements
<1>6. ~OnLoop(r)'
  BY <1>2, <1>3 DEF OnLoop
<1> QED
  BY <1>1, <1>3, <1>5, <1>6, HandlerStep DEF RequestsInv, TypeOK

LEMMA CommitDoomedStep ==
  ASSUME RequestsInv, NEW r \in Requests, CommitDoomed(r) PROVE RequestsInv'
<1>1. /\ setting' = setting /\ UNCHANGED <<out, trail, reader>>
      /\ req[r].pc = "doomed" /\ TypeOK /\ Answer(r, "error")
  BY DEF CommitDoomed, RequestsInv
<1>2. /\ req' \in [Requests -> Request] /\ \A s \in Requests \ {r} : req'[s] = req[s]
      /\ req'[r].kind = req[r].kind /\ req'[r].changed = req[r].changed
      /\ req'[r].pc = "closing" /\ req'[r].answer = "error"
  BY <1>1, AnswerEffect
<1>3. KindHasStatement(r)' /\ RowsFollow(r)' /\ AnswersTell(r)' /\ ChangesTell(r)'
  BY <1>1, <1>2, QuietSets
  DEF RequestInv, KindHasStatement, RowsFollow, AnswersTell, ChangesTell
<1>4. RequestInv(r)'
  BY <1>1, <1>2, <1>3, HandlerInv DEF Statements
<1>5. ~OnLoop(r)'
  BY <1>2 DEF OnLoop, Statements
<1> QED
  BY <1>1, <1>2, <1>4, <1>5, HandlerStep DEF RequestsInv, TypeOK

LEMMA RefreshStep ==
  ASSUME RequestsInv, NEW r \in Requests, Refresh(r) PROVE RequestsInv'
<1>1. /\ setting' = setting /\ UNCHANGED <<out, trail, reader>>
      /\ req[r].pc = "refresh" /\ TypeOK
  BY RefreshEffect DEF RequestsInv
<1>2. /\ req' \in [Requests -> Request] /\ \A s \in Requests \ {r} : req'[s] = req[s]
      /\ req'[r].kind = req[r].kind /\ req'[r].changed = req[r].changed
      /\ req'[r].pc = "closing" /\ req'[r].answer = "ok"
  BY <1>1, RefreshEffect
<1>3. KindHasStatement(r)' /\ RowsFollow(r)' /\ AnswersTell(r)' /\ ChangesTell(r)'
  BY <1>1, <1>2, QuietSets
  DEF RequestInv, KindHasStatement, RowsFollow, AnswersTell, ChangesTell
<1>4. RequestInv(r)'
  BY <1>1, <1>2, <1>3, HandlerInv DEF Statements
<1>5. ~OnLoop(r)'
  BY <1>2 DEF OnLoop, Statements
<1> QED
  BY <1>1, <1>2, <1>4, <1>5, HandlerStep DEF RequestsInv, TypeOK

\* A statement that fails, whether or not it had written a row.
LEMMA RaisesEffect ==
  ASSUME RequestsInv, NEW r \in Requests, Raises(r),
         RowsOf(r)' = RowsOf(r), \A i \in RowsOf(r) : trail'[i].status = trail[i].status,
         OpenRows(r)' = {}, Audited(r)' <=> Audited(r)
  PROVE  /\ req' \in [Requests -> Request]
         /\ PoolTypeOK' /\ Cardinality(out') <= PoolSize + MaxOverflow
         /\ \A s \in Requests \ {r} : req'[s] = req[s] /\ SameConnections(s)
         /\ RequestInv(r)'
         /\ OnLoop(r)' => OnLoop(r)
<1>1. TypeOK /\ RequestInv(r) /\ req[r].answer \in {"none", "ok", "error"}
  BY RequestType DEF RequestsInv
<1>2. CASE req[r].pc \in {"append", "update"} /\ Goto(r, "doomed") /\ UNCHANGED out
  <2>1. "doomed" \in PCs
    BY DEF PCs, Statements
  <2>2. /\ req' \in [Requests -> Request] /\ \A s \in Requests \ {r} : req'[s] = req[s]
        /\ req'[r].kind = req[r].kind /\ req'[r].changed = req[r].changed
        /\ req'[r].pc = "doomed" /\ req'[r].answer = req[r].answer
    BY <1>1, <1>2, <2>1, GotoEffect
  <2>3. ~Audited(r)
    BY <1>1, <1>2, RowSets DEF RequestInv, RowsFollow
  <2>4. KindHasStatement(r)'
    BY <1>1, <1>2, <2>2 DEF RequestInv, KindHasStatement
  <2>5. RowsFollow(r)' /\ AnswersTell(r)'
    BY <1>1, <1>2, <2>2, <2>3 DEF RequestInv, RowsFollow, AnswersTell
  <2>6. ChangesTell(r)'
    BY <1>1, <1>2, <2>2 DEF RequestInv, ChangesTell
  <2>7. \A x \in Sessions : Connected(r, x)' <=> Connected(r, x)
    BY <1>2, SameOut
  <2>8. ConnectionsFollow(r)'
    BY <1>1, <1>2, <2>2, <2>7 DEF RequestInv, ConnectionsFollow, Statements, Sessions
  <2> QED
    BY <1>2, <2>2, <2>4, <2>5, <2>6, <2>8, SameOut DEF RequestInv, OnLoop, Statements
<1>3. CASE /\ req[r].pc \in {"delete", "insert"}
           /\ req' = [req EXCEPT ![r].pc = "append", ![r].failed = TRUE]
           /\ Return(r, "db")
  <2>1. "append" \in PCs /\ TRUE \in BOOLEAN
    BY DEF PCs, Statements
  <2>2. /\ req' \in [Requests -> Request] /\ \A s \in Requests \ {r} : req'[s] = req[s]
        /\ req'[r].kind = req[r].kind /\ req'[r].changed = req[r].changed
        /\ req'[r].pc = "append" /\ req'[r].answer = req[r].answer
        /\ req'[r].failed = TRUE
    BY <1>1, <1>3, <2>1, FailedEffect
  <2>3. req[r].kind = "upload"
    BY <1>1, <1>3 DEF RequestInv, KindHasStatement
  <2>4. KindHasStatement(r)'
    BY <1>1, <1>3, <2>2, <2>3 DEF RequestInv, KindHasStatement
  <2>5. RowsFollow(r)' /\ AnswersTell(r)' /\ ChangesTell(r)'
    BY <1>1, <1>3, <2>2, <2>3 DEF RequestInv, RowsFollow, AnswersTell, ChangesTell
  <2>6. /\ PoolTypeOK' /\ Cardinality(out') <= PoolSize + MaxOverflow
        /\ \A s \in Requests \ {r} : SameConnections(s)
        /\ \A y \in Sessions : Connected(r, y)' => Connected(r, y)
    BY <1>3, ReturnEffect DEF Sessions
  <2>7. ConnectionsFollow(r)'
    BY <1>1, <1>3, <2>2, <2>3, <2>6 DEF RequestInv, ConnectionsFollow, Statements, Sessions
  <2> QED
    BY <1>3, <2>2, <2>4, <2>5, <2>6, <2>7 DEF RequestInv, OnLoop, Statements
<1>4. CASE req[r].pc \in {"user", "select", "refresh"} /\ Answer(r, "error") /\ UNCHANGED out
  <2>1. /\ req' \in [Requests -> Request] /\ \A s \in Requests \ {r} : req'[s] = req[s]
        /\ req'[r].kind = req[r].kind /\ req'[r].changed = req[r].changed
        /\ req'[r].pc = "closing" /\ req'[r].answer = "error"
    BY <1>1, <1>4, AnswerEffect
  <2>2. KindHasStatement(r)'
    BY <1>1, <1>4, <2>1 DEF RequestInv, KindHasStatement
  <2>3. RowsFollow(r)' /\ AnswersTell(r)'
    BY <1>1, <1>4, <2>1 DEF RequestInv, RowsFollow, AnswersTell
  <2>4. ChangesTell(r)'
    BY <1>1, <1>4, <2>1 DEF RequestInv, ChangesTell
  <2>5. \A x \in Sessions : Connected(r, x)' <=> Connected(r, x)
    BY <1>4, SameOut
  <2>6. ConnectionsFollow(r)'
    BY <1>1, <1>4, <2>1, <2>5 DEF RequestInv, ConnectionsFollow, Statements, Sessions
  <2> QED
    BY <1>4, <2>1, <2>2, <2>3, <2>4, <2>6, SameOut DEF RequestInv, OnLoop, Statements
<1> QED
  BY <1>2, <1>3, <1>4 DEF Raises

LEMMA TimedOutStep ==
  ASSUME RequestsInv, NEW r \in Requests, TimedOut(r) PROVE RequestsInv'
<1>1. /\ setting' = setting /\ UNCHANGED <<trail, reader>>
      /\ Waiting(r) /\ Raises(r) /\ TypeOK /\ RequestInv(r)
  BY DEF TimedOut, RequestsInv
<1>2. ~Ready(r) /\ req[r].pc # "commit"
  BY <1>1 DEF Waiting, NeedsConnection, Statements
<1>3. OpenRows(r) = {}
  BY <1>1, <1>2 DEF RequestInv, ConnectionsFollow, RowsFollow
<1>4. /\ RowsOf(r)' = RowsOf(r) /\ \A i \in RowsOf(r) : trail'[i].status = trail[i].status
      /\ OpenRows(r)' = {} /\ (Audited(r)' <=> Audited(r))
  BY <1>1, <1>3, QuietSets
<1>5. /\ req' \in [Requests -> Request]
      /\ PoolTypeOK' /\ Cardinality(out') <= PoolSize + MaxOverflow
      /\ \A s \in Requests \ {r} : req'[s] = req[s] /\ SameConnections(s)
      /\ RequestInv(r)'
      /\ OnLoop(r)' => OnLoop(r)
  BY <1>1, <1>4, RaisesEffect
<1> QED
  BY <1>1, <1>5, QuietStep DEF TypeOK

LEMMA DeleteStep ==
  ASSUME RequestsInv, NEW r \in Requests, Delete(r) PROVE RequestsInv'
<1>1. /\ setting' = setting /\ UNCHANGED <<trail, reader>>
      /\ req[r].pc = "delete" /\ TypeOK /\ RequestInv(r)
      /\ Goto(r, "insert") /\ Return(r, "db")
  BY DEF Delete, RequestsInv
<1>2. "insert" \in PCs
  BY DEF PCs, Statements
<1>3. /\ req' \in [Requests -> Request] /\ \A s \in Requests \ {r} : req'[s] = req[s]
      /\ req'[r].kind = req[r].kind /\ req'[r].changed = req[r].changed
      /\ req'[r].pc = "insert" /\ req'[r].answer = req[r].answer
  BY <1>1, <1>2, GotoEffect
<1>4. /\ PoolTypeOK' /\ Cardinality(out') <= PoolSize + MaxOverflow
      /\ \A s \in Requests \ {r} : SameConnections(s)
      /\ \A y \in Sessions : Connected(r, y)' => Connected(r, y)
  BY <1>1, ReturnEffect DEF Sessions
<1>5. KindHasStatement(r)' /\ RowsFollow(r)' /\ AnswersTell(r)' /\ ChangesTell(r)'
  BY <1>1, <1>3, QuietSets
  DEF RequestInv, KindHasStatement, RowsFollow, AnswersTell, ChangesTell
<1>6. ConnectionsFollow(r)'
  BY <1>1, <1>3, <1>4 DEF RequestInv, ConnectionsFollow, Statements, Sessions
<1>7. RequestInv(r)' /\ (OnLoop(r)' => OnLoop(r))
  BY <1>1, <1>3, <1>5, <1>6 DEF RequestInv, OnLoop, Statements
<1> QED
  BY <1>1, <1>3, <1>4, <1>7, QuietStep DEF TypeOK

LEMMA InsertStep ==
  ASSUME RequestsInv, NEW r \in Requests, Insert(r) PROVE RequestsInv'
<1>1. /\ setting' = setting /\ UNCHANGED <<trail, reader>>
      /\ req[r].pc = "insert" /\ TypeOK /\ RequestInv(r) /\ Return(r, "db")
  BY DEF Insert, RequestsInv
<1>2. PICK ok \in BOOLEAN :
        req' = [req EXCEPT ![r].pc = "append", ![r].changed = ok, ![r].failed = ~ok]
  BY DEF Insert
<1>3. /\ req' \in [Requests -> Request] /\ \A s \in Requests \ {r} : req'[s] = req[s]
      /\ req'[r].kind = req[r].kind /\ req'[r].answer = req[r].answer
      /\ req'[r].pc = "append" /\ (req'[r].changed = TRUE \/ req'[r].failed = TRUE)
  <2>1. "append" \in PCs
    BY DEF PCs, Statements
  <2>2. CASE ok = TRUE
    <3>1. req' = [req EXCEPT ![r].pc = "append", ![r].changed = TRUE, ![r].failed = FALSE]
      BY <1>2, <2>2
    <3> QED
      BY <1>1, <2>1, <3>1, ResultEffect
  <2>3. CASE ok = FALSE
    <3>1. req' = [req EXCEPT ![r].pc = "append", ![r].changed = FALSE, ![r].failed = TRUE]
      BY <1>2, <2>3
    <3> QED
      BY <1>1, <2>1, <3>1, ResultEffect
  <2> QED
    BY <2>2, <2>3
<1>4. /\ PoolTypeOK' /\ Cardinality(out') <= PoolSize + MaxOverflow
      /\ \A s \in Requests \ {r} : SameConnections(s)
      /\ \A y \in Sessions : Connected(r, y)' => Connected(r, y)
  BY <1>1, ReturnEffect DEF Sessions
<1>5. KindHasStatement(r)' /\ RowsFollow(r)' /\ AnswersTell(r)'
  BY <1>1, <1>3, QuietSets DEF RequestInv, KindHasStatement, RowsFollow, AnswersTell
<1>6. ChangesTell(r)'
  BY <1>1, <1>3, QuietSets DEF RequestInv, KindHasStatement, RowsFollow, ChangesTell
<1>7. ConnectionsFollow(r)'
  BY <1>1, <1>3, <1>4 DEF RequestInv, ConnectionsFollow, Statements, Sessions
<1>8. RequestInv(r)' /\ (OnLoop(r)' => OnLoop(r))
  BY <1>1, <1>3, <1>5, <1>6, <1>7 DEF RequestInv, OnLoop, Statements
<1> QED
  BY <1>1, <1>3, <1>4, <1>8, QuietStep DEF TypeOK

LEMMA CloseStep ==
  ASSUME RequestsInv, NEW r \in Requests, Close(r) PROVE RequestsInv'
<1>1. /\ setting' = setting /\ UNCHANGED <<trail, reader>>
      /\ req[r].pc = "closing" /\ TypeOK /\ RequestInv(r)
      /\ Goto(r, "ended") /\ CloseSessions(r)
  BY DEF Close, RequestsInv
<1>2. "ended" \in PCs
  BY DEF PCs
<1>3. /\ req' \in [Requests -> Request] /\ \A s \in Requests \ {r} : req'[s] = req[s]
      /\ req'[r].kind = req[r].kind /\ req'[r].changed = req[r].changed
      /\ req'[r].pc = "ended" /\ req'[r].answer = req[r].answer
  BY <1>1, <1>2, GotoEffect
<1>4. /\ PoolTypeOK' /\ Cardinality(out') <= PoolSize + MaxOverflow
      /\ \A s \in Requests \ {r} : SameConnections(s)
      /\ ~Connected(r, "auth")' /\ ~Connected(r, "db")'
  BY <1>1, CloseEffect DEF Sessions
<1>5. KindHasStatement(r)' /\ RowsFollow(r)' /\ AnswersTell(r)' /\ ChangesTell(r)'
  BY <1>1, <1>3, QuietSets
  DEF RequestInv, KindHasStatement, RowsFollow, AnswersTell, ChangesTell
<1>6. ConnectionsFollow(r)'
  BY <1>1, <1>3, <1>4 DEF RequestInv, ConnectionsFollow
<1>7. RequestInv(r)' /\ ~OnLoop(r)'
  BY <1>3, <1>5, <1>6 DEF RequestInv, OnLoop, Statements
<1> QED
  BY <1>1, <1>3, <1>4, <1>7, QuietStep DEF TypeOK

\* The arrival changes what the updates in flight have met, which the invariant does
\* not look at.
LEMMA ArriveStep ==
  ASSUME RequestsInv, NEW r \in Requests, Arrive(r) PROVE RequestsInv'
<1>1. /\ UNCHANGED <<out, setting, trail, reader>> /\ req[r].pc = "idle"
      /\ TypeOK /\ RequestInv(r)
  BY DEF Arrive, RequestsInv
<1>2. PICK k \in Offers[r] :
        req' = [s \in Requests |->
          IF s = r THEN [req[r] EXCEPT !.kind = k, !.pc = "user",
                                       !.met = IF k = "setting" THEN Updating ELSE {}]
          ELSE IF s \in (IF k = "setting" THEN Updating ELSE {})
          THEN [req[s] EXCEPT !.met = @ \cup {r}]
          ELSE req[s]]
  BY DEF Arrive
<1> DEFINE overlap == IF k = "setting" THEN Updating ELSE {}
<1> DEFINE q == [req[r] EXCEPT !.kind = k, !.pc = "user", !.met = overlap]
<1> DEFINE p(s) == [req[s] EXCEPT !.met = @ \cup {r}]
<1>3. k \in Kinds
  BY RequestsAssumption
<1>4. overlap \subseteq Requests
  BY DEF Updating
<1>5. q \in Request /\ q.kind = k /\ q.pc = "user" /\ q.answer = req[r].answer
      /\ q.changed = req[r].changed
  <2>1. req[r] \in Request
    BY <1>1, RequestType
  <2> HIDE DEF overlap
  <2> QED
    BY ONLY <2>1, <1>3, <1>4 DEF Request
<1>6. \A s \in Requests : p(s) \in Request /\ p(s).kind = req[s].kind /\ p(s).pc = req[s].pc
                          /\ p(s).answer = req[s].answer /\ p(s).changed = req[s].changed
                          /\ p(s).failed = req[s].failed
  <2>1. TAKE s \in Requests
  <2>2. req[s] \in Request
    BY <1>1, RequestType
  <2> QED
    BY ONLY <2>2, r \in Requests DEF Request
<1> HIDE DEF q, p, overlap
<1>7. req' = [s \in Requests |-> IF s = r THEN q ELSE IF s \in overlap THEN p(s) ELSE req[s]]
  BY <1>2 DEF q, p, overlap
<1>8. \A s \in Requests : req[s] \in Request
  BY <1>1 DEF TypeOK
<1>9. req' \in [Requests -> Request] /\ req'[r] = q
  BY <1>5, <1>6, <1>7, <1>8
<1>10. \A s \in Requests \ {r} : SameRequest(s)
  BY <1>6, <1>7 DEF SameRequest
<1>11. /\ PoolTypeOK' /\ Cardinality(out') <= PoolSize + MaxOverflow
       /\ \A s \in Requests : SameConnections(s)
       /\ \A x \in Sessions : Connected(r, x)' <=> Connected(r, x)
  BY <1>1, SameOut
<1>12. TypeOK' /\ ReaderInv' /\ \A s \in Requests : SameRows(s)
  BY <1>1, <1>9, <1>11, SameLog DEF RequestsInv, TypeOK
<1>13. KindHasStatement(r)' /\ RowsFollow(r)' /\ AnswersTell(r)' /\ ChangesTell(r)'
  <2>1. RowsOf(r) = {} /\ ~Audited(r) /\ ~req[r].changed /\ req[r].answer = "none"
    BY <1>1, RequestType, RowSets DEF RequestInv, RowsFollow, ChangesTell, AnswersTell
  <2>2. RowsOf(r)' = {} /\ OpenRows(r)' = {} /\ ~Audited(r)'
    BY <1>1, <2>1, QuietSets, RowSets
  <2>3. KindHasStatement(r)'
    BY <1>3, <1>5, <1>9 DEF KindHasStatement, Kinds
  <2>4. RowsFollow(r)' /\ AnswersTell(r)'
    BY <1>5, <1>9, <2>1, <2>2 DEF RowsFollow, AnswersTell
  <2>5. ChangesTell(r)'
    BY <1>5, <1>9, <2>1, <2>2 DEF ChangesTell
  <2> QED
    BY <2>3, <2>4, <2>5
<1>14. ConnectionsFollow(r)'
  BY <1>1, <1>5, <1>9, <1>11 DEF RequestInv, ConnectionsFollow, Statements, Sessions
<1>15. RequestInv(r)' /\ ~OnLoop(r)'
  BY <1>5, <1>9, <1>13, <1>14 DEF RequestInv, OnLoop, Statements
<1> QED
  BY <1>10, <1>11, <1>12, <1>15, StepOf

-----------------------------------------------------------------------------
(* The log *)

LEMMA LeastNatural ==
  ASSUME NEW T, T \subseteq Nat, T # {}
  PROVE  \E x \in T : \A y \in T : x <= y
<1>1. PICK x \in T : \A y \in T : ~(<<y, x>> \in OpToRel(<, Nat))
  BY WFMin, NatLessThanWellFounded
<1>2. \A y \in T : ~(y < x)
  BY <1>1 DEF OpToRel
<1> QED
  BY <1>2

LEMMA GreatestBounded ==
  ASSUME NEW n \in Nat, NEW T, T \subseteq 1..n, T # {}
  PROVE  \E x \in T : \A y \in T : y <= x
<1> DEFINE D == {n - x : x \in T}
<1>1. D \subseteq Nat /\ D # {}
  <2>1. \A x \in T : x \in 1..n /\ n - x \in Nat
    OBVIOUS
  <2> QED
    BY <2>1
<1>2. PICK d \in D : \A e \in D : d <= e
  BY <1>1, LeastNatural
<1>3. PICK x \in T : d = n - x
  OBVIOUS
<1>4. \A y \in T : n - x <= n - y
  BY <1>2, <1>3
<1> QED
  BY <1>4

LEMMA AppendEffect ==
  ASSUME RequestsInv, NEW r \in Requests, NEW s \in {"SUCCESS", "FAILED"}, NEW old \in Values,
         Append2Trail(r, s, old), UNCHANGED reader
  PROVE  /\ AuditTypeOK' /\ ReaderInv'
         /\ \A t \in Requests \ {r} : SameRows(t)
         /\ \A i \in RowsOf(r) : trail'[i] = trail[i]
         /\ RowsOf(r)' = RowsOf(r) \cup {Len(trail) + 1}
         /\ trail'[Len(trail) + 1].state = "open" /\ trail'[Len(trail) + 1].status = s
<1> DEFINE row == [by |-> r, status |-> s, old |-> old, state |-> "open"]
<1>1. trail' = Append(trail, row)
  BY DEF Append2Trail
<1>2. row \in AuditRow /\ row.by = r /\ row.status = s /\ row.state = "open"
  BY DEF AuditRow
<1> HIDE DEF row
<1>3. trail \in Seq(AuditRow) /\ DOMAIN trail = 1..Len(trail) /\ Len(trail) \in Nat
  BY TrailType DEF RequestsInv
<1>4. /\ trail' \in Seq(AuditRow) /\ DOMAIN trail' = 1..(Len(trail) + 1)
      /\ trail'[Len(trail) + 1] = row
      /\ \A i \in DOMAIN trail : trail'[i] = trail[i]
  BY <1>1, <1>2, <1>3
<1>5. DOMAIN trail' = DOMAIN trail \cup {Len(trail) + 1}
  BY <1>3, <1>4
<1>6. Committed' = Committed
  BY <1>2, <1>4, <1>5 DEF Committed
<1>7. AuditTypeOK' /\ ReaderInv'
  BY <1>4, <1>6 DEF AuditTypeOK, ReaderInv, PagesMissOnlyLateRows, RequestsInv, TypeOK
<1>8. \A t \in Requests \ {r} : SameRows(t)
  BY <1>2, <1>4, <1>5 DEF SameRows, RowsOf
<1>9. RowsOf(r)' = RowsOf(r) \cup {Len(trail) + 1} /\ \A i \in RowsOf(r) : trail'[i] = trail[i]
  BY <1>2, <1>4, <1>5 DEF RowsOf
<1> QED
  BY <1>2, <1>4, <1>7, <1>8, <1>9

LEMMA EndRowsEffect ==
  ASSUME TypeOK, NEW r \in Requests, NEW end \in {"committed", "rolledback"}, EndRows(r, end)
  PROVE  /\ trail' \in Seq(AuditRow)
         /\ \A t \in Requests \ {r} : SameRows(t)
         /\ RowsOf(r)' = RowsOf(r)
         /\ \A i \in RowsOf(r) : trail'[i].status = trail[i].status
         /\ \A i \in RowsOf(r) :
              trail'[i].state = IF trail[i].state = "open" THEN end ELSE trail[i].state
         /\ Committed' = Committed \cup (IF end = "committed" THEN OpenRows(r) ELSE {})
<1> DEFINE ended(i) == [trail[i] EXCEPT !.state = end]
<1>1. trail' = [i \in DOMAIN trail |-> IF i \in OpenRows(r) THEN ended(i) ELSE trail[i]]
  BY DEF EndRows
<1>2. /\ DOMAIN trail = 1..Len(trail) /\ Len(trail) \in Nat
      /\ \A i \in DOMAIN trail : trail[i] \in AuditRow
  BY TrailType
<1>3. \A i \in DOMAIN trail : /\ ended(i) \in AuditRow /\ ended(i).by = trail[i].by
                              /\ ended(i).status = trail[i].status /\ ended(i).state = end
  <2>1. TAKE i \in DOMAIN trail
  <2>2. trail[i] \in AuditRow
    BY <1>2
  <2> QED
    BY ONLY <2>2, end \in {"committed", "rolledback"} DEF AuditRow
<1> HIDE DEF ended
<1>4. DOMAIN trail' = DOMAIN trail /\ \A i \in DOMAIN trail : trail'[i] \in AuditRow
  BY <1>1, <1>2, <1>3
<1>5. trail' \in Seq(AuditRow)
  BY <1>1, <1>2, <1>3
<1>6. \A i \in DOMAIN trail : trail'[i].by = trail[i].by /\ trail'[i].status = trail[i].status
  BY <1>1, <1>3
<1>7. \A i \in DOMAIN trail : trail'[i].state = IF i \in OpenRows(r) THEN end ELSE trail[i].state
  BY <1>1, <1>3
<1>8. \A t \in Requests \ {r} : SameRows(t)
  BY <1>1, <1>4, <1>6 DEF SameRows, RowsOf, OpenRows
<1>9. RowsOf(r)' = RowsOf(r) /\ RowsOf(r) \subseteq DOMAIN trail
  BY <1>4, <1>6 DEF RowsOf
<1>10. \A i \in RowsOf(r) :
         trail'[i].state = IF trail[i].state = "open" THEN end ELSE trail[i].state
  BY <1>7, <1>9 DEF RowsOf, OpenRows
<1>11. Committed' = Committed \cup (IF end = "committed" THEN OpenRows(r) ELSE {})
  BY <1>4, <1>7 DEF Committed, OpenRows
<1> QED
  BY <1>5, <1>6, <1>8, <1>9, <1>10, <1>11

LEMMA RollbackEffect ==
  ASSUME RequestsInv, NEW r \in Requests, RollbackRows(r)
  PROVE  /\ AuditTypeOK' /\ ReaderInv' /\ \A t \in Requests \ {r} : SameRows(t)
         /\ RowsOf(r)' = RowsOf(r)
         /\ \A i \in RowsOf(r) : trail'[i].status = trail[i].status
         /\ OpenRows(r)' = {} /\ (Audited(r)' <=> Audited(r))
<1>1. EndRows(r, "rolledback") /\ reader' = reader /\ TypeOK
  BY DEF RollbackRows, RequestsInv
<1>2. /\ trail' \in Seq(AuditRow) /\ \A t \in Requests \ {r} : SameRows(t)
      /\ RowsOf(r)' = RowsOf(r)
      /\ \A i \in RowsOf(r) : trail'[i].status = trail[i].status
      /\ \A i \in RowsOf(r) :
           trail'[i].state = IF trail[i].state = "open" THEN "rolledback" ELSE trail[i].state
      /\ Committed' = Committed
  BY <1>1, EndRowsEffect
<1>3. AuditTypeOK' /\ ReaderInv'
  BY <1>1, <1>2 DEF AuditTypeOK, ReaderInv, PagesMissOnlyLateRows, RequestsInv, TypeOK
<1>4. OpenRows(r)' = {} /\ (Audited(r)' <=> Audited(r))
  BY <1>2, RowSets
<1> QED
  BY <1>2, <1>3, <1>4

LEMMA CommitEffect ==
  ASSUME RequestsInv, NEW r \in Requests, CommitRows(r)
  PROVE  /\ AuditTypeOK' /\ ReaderInv' /\ \A t \in Requests \ {r} : SameRows(t)
         /\ RowsOf(r)' = RowsOf(r)
         /\ \A i \in RowsOf(r) : trail'[i].status = trail[i].status
         /\ OpenRows(r)' = {} /\ (Audited(r)' <=> Audited(r) \/ OpenRows(r) # {})
<1> DEFINE met == {i \in OpenRows(r) : \/ reader.pc = "paging" /\ i >= reader.cursor
                                       \/ reader.pc = "done"}
<1>1. EndRows(r, "committed") /\ reader' = [reader EXCEPT !.late = @ \cup met] /\ TypeOK
  BY DEF CommitRows, RequestsInv
<1>2. /\ trail' \in Seq(AuditRow) /\ \A t \in Requests \ {r} : SameRows(t)
      /\ RowsOf(r)' = RowsOf(r)
      /\ \A i \in RowsOf(r) : trail'[i].status = trail[i].status
      /\ \A i \in RowsOf(r) :
           trail'[i].state = IF trail[i].state = "open" THEN "committed" ELSE trail[i].state
      /\ Committed' = Committed \cup OpenRows(r)
  BY <1>1, EndRowsEffect
<1>3. OpenRows(r)' = {} /\ (Audited(r)' <=> Audited(r) \/ OpenRows(r) # {})
  BY <1>2, RowSets
<1>4. OpenRows(r) \cap Committed = {} /\ met \subseteq OpenRows(r) /\ OpenRows(r) \subseteq Nat
  BY <1>1, TrailType DEF OpenRows, Committed
<1>5. reader \in Reader /\ ReaderInv
  BY DEF RequestsInv, TypeOK, AuditTypeOK
<1>6. /\ reader' \in Reader /\ reader'.pc = reader.pc /\ reader'.cursor = reader.cursor
      /\ reader'.seen = reader.seen /\ reader'.late = reader.late \cup met
  <2>1. met \subseteq Nat
    BY <1>4
  <2> HIDE DEF met
  <2> QED
    BY ONLY <1>1, <1>5, <2>1 DEF Reader
<1>7. reader.pc = "idle" => reader' = NewReader
  <2>1. reader.pc = "idle" => met = {}
    OBVIOUS
  <2> HIDE DEF met
  <2>2. SUFFICES ASSUME reader.pc = "idle" PROVE reader' = NewReader
    OBVIOUS
  <2>3. reader = NewReader /\ met = {}
    BY <1>5, <2>1, <2>2 DEF ReaderInv
  <2> QED
    BY ONLY <1>1, <2>3 DEF NewReader
<1>8. reader.pc = "paging" =>
        /\ reader'.cursor > 0
        /\ \A i \in reader'.late : i >= reader'.cursor
        /\ reader'.seen = {i \in Committed' \ reader'.late : i >= reader'.cursor}
  <2>1. SUFFICES ASSUME reader.pc = "paging" PROVE <1>8!2
    OBVIOUS
  <2>2. met = {i \in OpenRows(r) : i >= reader.cursor}
    BY <2>1
  <2>3. /\ reader.cursor > 0 /\ \A i \in reader.late : i >= reader.cursor
        /\ reader.seen = {i \in Committed \ reader.late : i >= reader.cursor}
    BY <1>5, <2>1 DEF ReaderInv
  <2> HIDE DEF met
  <2>4. {i \in Committed' \ reader'.late : i >= reader'.cursor}
          = {i \in Committed \ reader.late : i >= reader.cursor}
    BY <1>2, <1>4, <1>6, <2>2
  <2> QED
    BY <1>6, <2>2, <2>3, <2>4
<1>9. reader.pc = "done" => Committed' \ reader'.late = reader'.seen
  <2>1. SUFFICES ASSUME reader.pc = "done" PROVE Committed' \ reader'.late = reader'.seen
    OBVIOUS
  <2>2. met = OpenRows(r) /\ Committed \ reader.late = reader.seen
    BY <1>5, <2>1 DEF ReaderInv, PagesMissOnlyLateRows
  <2> HIDE DEF met
  <2> QED
    BY <1>2, <1>4, <1>6, <2>2
<1>10. ReaderInv'
  BY <1>6, <1>7, <1>8, <1>9 DEF ReaderInv, PagesMissOnlyLateRows
<1> QED
  BY <1>2, <1>3, <1>6, <1>10 DEF AuditTypeOK

LEMMA StatementFailsStep ==
  ASSUME RequestsInv, NEW r \in Requests, StatementFails(r) PROVE RequestsInv'
<1>1. Raises(r) /\ RollbackRows(r) /\ setting' = setting /\ TypeOK
  BY DEF StatementFails, RequestsInv
<1>2. /\ AuditTypeOK' /\ ReaderInv' /\ \A t \in Requests \ {r} : SameRows(t)
      /\ RowsOf(r)' = RowsOf(r)
      /\ \A i \in RowsOf(r) : trail'[i].status = trail[i].status
      /\ OpenRows(r)' = {} /\ (Audited(r)' <=> Audited(r))
  BY <1>1, RollbackEffect
<1>3. /\ req' \in [Requests -> Request]
      /\ PoolTypeOK' /\ Cardinality(out') <= PoolSize + MaxOverflow
      /\ \A s \in Requests \ {r} : req'[s] = req[s] /\ SameConnections(s)
      /\ RequestInv(r)'
      /\ OnLoop(r)' => OnLoop(r)
  BY <1>1, <1>2, RaisesEffect
<1> QED
  BY <1>1, <1>2, <1>3, StepOf DEF TypeOK, SameRequest

LEMMA Append2LogStep ==
  ASSUME RequestsInv, NEW r \in Requests, Append2Log(r) PROVE RequestsInv'
<1> DEFINE status == IF req[r].failed THEN "FAILED" ELSE "SUCCESS"
<1> DEFINE pc == IF req[r].kind = "setting" THEN "update" ELSE "commit"
<1>1. /\ UNCHANGED <<out, setting, reader>> /\ req[r].pc = "append" /\ Ready(r)
      /\ Append2Trail(r, status, req[r].old) /\ Goto(r, pc) /\ TypeOK /\ RequestInv(r)
  BY DEF Append2Log, RequestsInv
<1>2. status \in {"SUCCESS", "FAILED"} /\ pc \in PCs /\ req[r].old \in Values
  BY <1>1, RequestType DEF PCs, Statements
<1>3. /\ pc \in {"update", "commit"} /\ (pc = "update" <=> req[r].kind = "setting")
      /\ status = "SUCCESS" => ~req[r].failed
  OBVIOUS
<1> HIDE DEF status, pc
<1>4. /\ AuditTypeOK' /\ ReaderInv' /\ \A t \in Requests \ {r} : SameRows(t)
      /\ \A i \in RowsOf(r) : trail'[i] = trail[i]
      /\ RowsOf(r)' = RowsOf(r) \cup {Len(trail) + 1}
      /\ trail'[Len(trail) + 1].state = "open" /\ trail'[Len(trail) + 1].status = status
  BY <1>1, <1>2, AppendEffect
<1>5. /\ req' \in [Requests -> Request] /\ \A s \in Requests \ {r} : req'[s] = req[s]
      /\ req'[r].kind = req[r].kind /\ req'[r].changed = req[r].changed
      /\ req'[r].pc = pc /\ req'[r].answer = req[r].answer
  BY <1>1, <1>2, GotoEffect
<1>6. RowsOf(r) = {} /\ ~Audited(r) /\ req[r].answer = "none"
  BY <1>1, RequestType, RowSets DEF RequestInv, RowsFollow, AnswersTell
<1>7. RowsOf(r)' = {Len(trail) + 1} /\ ~Audited(r)'
  BY <1>4, <1>6, RowSets
<1>8. KindHasStatement(r)'
  BY <1>1, <1>3, <1>5 DEF RequestInv, KindHasStatement
<1>9. RowsFollow(r)' /\ AnswersTell(r)'
  BY <1>3, <1>4, <1>5, <1>6, <1>7 DEF RowsFollow, AnswersTell
<1>10. ChangesTell(r)'
  BY <1>1, <1>3, <1>4, <1>5, <1>6, <1>7 DEF RequestInv, ChangesTell
<1>11. \A s \in Requests, x \in Sessions : Connected(s, x)' <=> Connected(s, x)
  BY <1>1, SameOut
<1>12. ConnectionsFollow(r)'
  BY <1>1, <1>3, <1>5, <1>11, ReadyOf DEF RequestInv, ConnectionsFollow, Statements, Sessions
<1>13. RequestInv(r)' /\ (OnLoop(r)' => OnLoop(r))
  BY <1>1, <1>5, <1>8, <1>9, <1>10, <1>12 DEF RequestInv, OnLoop, Statements
<1>14. PoolTypeOK' /\ Cardinality(out') <= PoolSize + MaxOverflow
       /\ \A s \in Requests : SameConnections(s)
  BY <1>1, SameOut
<1>15. TypeOK' /\ \A s \in Requests \ {r} : SameRequest(s)
  BY <1>1, <1>4, <1>5, <1>14 DEF TypeOK, SameRequest
<1> QED
  BY <1>4, <1>13, <1>14, <1>15, StepOf

LEMMA CommitFailsStep ==
  ASSUME RequestsInv, NEW r \in Requests, CommitFails(r) PROVE RequestsInv'
<1>1. /\ UNCHANGED <<out, setting>> /\ req[r].pc = "commit" /\ RollbackRows(r)
      /\ Answer(r, "error") /\ TypeOK /\ RequestInv(r)
  BY DEF CommitFails, RequestsInv
<1>2. /\ AuditTypeOK' /\ ReaderInv' /\ \A t \in Requests \ {r} : SameRows(t)
      /\ RowsOf(r)' = RowsOf(r)
      /\ \A i \in RowsOf(r) : trail'[i].status = trail[i].status
      /\ OpenRows(r)' = {} /\ (Audited(r)' <=> Audited(r))
  BY <1>1, RollbackEffect
<1>3. /\ req' \in [Requests -> Request] /\ \A s \in Requests \ {r} : req'[s] = req[s]
      /\ req'[r].kind = req[r].kind /\ req'[r].changed = req[r].changed
      /\ req'[r].pc = "closing" /\ req'[r].answer = "error"
  BY <1>1, AnswerEffect
<1>4. KindHasStatement(r)' /\ RowsFollow(r)' /\ AnswersTell(r)'
  BY <1>1, <1>2, <1>3 DEF RequestInv, KindHasStatement, RowsFollow, AnswersTell
<1>5. ChangesTell(r)'
  BY <1>1, <1>2, <1>3 DEF RequestInv, ChangesTell
<1>6. /\ PoolTypeOK' /\ Cardinality(out') <= PoolSize + MaxOverflow
      /\ \A s \in Requests : SameConnections(s)
      /\ \A s \in Requests, x \in Sessions : Connected(s, x)' <=> Connected(s, x)
  BY <1>1, SameOut
<1>7. ConnectionsFollow(r)'
  BY <1>1, <1>3, <1>6 DEF RequestInv, ConnectionsFollow, Statements, Sessions
<1>8. RequestInv(r)' /\ ~OnLoop(r)'
  BY <1>3, <1>4, <1>5, <1>7 DEF RequestInv, OnLoop, Statements
<1> QED
  BY <1>1, <1>2, <1>3, <1>6, <1>8, StepOf DEF TypeOK, SameRequest

LEMMA CommitStep ==
  ASSUME RequestsInv, NEW r \in Requests, Commit(r) PROVE RequestsInv'
<1>1. /\ req[r].pc = "commit" /\ CommitRows(r) /\ Return(r, SessionOf(r))
      /\ TypeOK /\ RequestInv(r)
  BY DEF Commit, RequestsInv
<1>2. \/ /\ req[r].kind = "setting"
         /\ req' = [req EXCEPT ![r].pc = "refresh", ![r].changed = TRUE]
         /\ setting' = r
      \/ /\ req[r].kind # "setting" /\ setting' = setting
         /\ Answer(r, IF req[r].failed THEN "error" ELSE "ok")
  BY DEF Commit
<1>3. /\ AuditTypeOK' /\ ReaderInv' /\ \A t \in Requests \ {r} : SameRows(t)
      /\ RowsOf(r)' = RowsOf(r)
      /\ \A i \in RowsOf(r) : trail'[i].status = trail[i].status
      /\ OpenRows(r)' = {} /\ (Audited(r)' <=> Audited(r) \/ OpenRows(r) # {})
  BY <1>1, CommitEffect
<1>4. Audited(r)' /\ req[r].answer = "none"
  BY <1>1, <1>3, RequestType, RowSets DEF RequestInv, RowsFollow, AnswersTell
<1>5. /\ req' \in [Requests -> Request] /\ \A s \in Requests \ {r} : req'[s] = req[s]
      /\ req'[r].kind = req[r].kind /\ setting' \in Values
      /\ \/ req[r].kind = "setting" /\ req'[r].pc = "refresh" /\ req'[r].changed = TRUE
            /\ req'[r].answer = "none"
         \/ req[r].kind # "setting" /\ req'[r].pc = "closing"
            /\ req'[r].changed = req[r].changed
  <2>1. "refresh" \in PCs /\ TRUE \in BOOLEAN /\ setting \in Values /\ r \in Values
    BY <1>1 DEF PCs, Statements, Values, TypeOK
  <2>2. (IF req[r].failed THEN "error" ELSE "ok") \in {"none", "ok", "error"}
    OBVIOUS
  <2> QED
    BY <1>1, <1>2, <1>4, <2>1, <2>2, ChangedEffect, AnswerEffect
<1>6. KindHasStatement(r)' /\ RowsFollow(r)' /\ AnswersTell(r)'
  BY <1>1, <1>3, <1>4, <1>5 DEF RequestInv, KindHasStatement, RowsFollow, AnswersTell
<1>7. ChangesTell(r)'
  BY <1>1, <1>3, <1>4, <1>5 DEF RequestInv, ChangesTell
<1>8. /\ PoolTypeOK' /\ Cardinality(out') <= PoolSize + MaxOverflow
      /\ \A s \in Requests \ {r} : SameConnections(s)
      /\ \A y \in Sessions : Connected(r, y)' => Connected(r, y)
  <2>1. SessionOf(r) \in Sessions
    BY DEF SessionOf, Sessions
  <2> QED
    BY <1>1, <2>1, ReturnEffect
<1>9. ConnectionsFollow(r)'
  BY <1>1, <1>5, <1>8 DEF RequestInv, ConnectionsFollow, Statements, Sessions
<1>10. RequestInv(r)' /\ ~OnLoop(r)'
  BY <1>5, <1>6, <1>7, <1>9 DEF RequestInv, OnLoop, Statements
<1> QED
  BY <1>1, <1>3, <1>5, <1>8, <1>10, StepOf DEF TypeOK, SameRequest

\* The rows that a page shows are those from some place on.
LEMMA PageEffect ==
  ASSUME NEW n \in Nat, NEW S, S \subseteq 1..n, Cardinality(S) > PageLimit
  PROVE  /\ Anchor(S) \in S
         /\ Newest(S, PageLimit) = {i \in S : i >= Anchor(S)}
<1> DEFINE above(i) == {j \in S : j > i}
<1>0. \A i \in S : i \in Nat /\ i <= n
  OBVIOUS
<1>1. IsFiniteSet(1..n) /\ IsFiniteSet(S)
  <2>1. IsFiniteSet(1..n)
    BY FS_Interval
  <2> QED
    BY <2>1, FS_Subset
<1>2. \A i : IsFiniteSet(above(i)) /\ Cardinality(above(i)) \in Nat
  <2>1. TAKE i
  <2>2. above(i) \in SUBSET S
    OBVIOUS
  <2> QED
    BY <1>1, <2>2, FS_Subset, FS_CardinalityType
<1>3. Newest(S, PageLimit) = {i \in S : Cardinality(above(i)) < PageLimit}
  BY DEF Newest
<1>4. \A i, j \in S : i <= j => Cardinality(above(j)) <= Cardinality(above(i))
  <2>1. SUFFICES ASSUME NEW i \in S, NEW j \in S, i <= j
                 PROVE  Cardinality(above(j)) <= Cardinality(above(i))
    OBVIOUS
  <2>2. ASSUME NEW k \in above(j) PROVE k \in above(i)
    <3>1. k \in S /\ k > j
      OBVIOUS
    <3>2. k \in Nat /\ j \in Nat /\ i \in Nat
      BY <1>0, <3>1
    <3>3. k > i
      BY <2>1, <3>1, <3>2
    <3> QED
      BY <3>1, <3>3
  <2> HIDE DEF above
  <2> QED
    BY <1>2, <2>2, FS_Subset
<1>5. S # {}
  BY <1>1, FS_EmptySet, RequestsAssumption
<1>6. PICK top \in S : \A j \in S : j <= top
  BY <1>5, GreatestBounded
<1>7. above(top) = {}
  <2>1. SUFFICES ASSUME NEW k \in above(top) PROVE FALSE
    OBVIOUS
  <2>2. k \in S /\ k > top
    OBVIOUS
  <2>3. k \in Nat /\ top \in Nat /\ k <= top
    BY <1>0, <1>6, <2>2
  <2> QED
    BY <2>2, <2>3
<1>8. Cardinality(above(top)) = 0
  BY <1>7, FS_EmptySet
<1> HIDE DEF above
<1>9. top \in Newest(S, PageLimit) /\ Newest(S, PageLimit) \subseteq Nat
  <2>1. 0 < PageLimit
    BY RequestsAssumption
  <2>2. top \in Newest(S, PageLimit)
    BY <1>3, <1>8, <2>1
  <2> QED
    BY <1>0, <1>3, <2>2
<1>10. \E x \in Newest(S, PageLimit) : \A y \in Newest(S, PageLimit) : x <= y
  BY <1>9, LeastNatural
<1>11. /\ Anchor(S) \in Newest(S, PageLimit)
       /\ \A y \in Newest(S, PageLimit) : Anchor(S) <= y
  BY <1>10 DEF Anchor, Min
<1>12. Anchor(S) \in S /\ Cardinality(above(Anchor(S))) < PageLimit
  BY <1>3, <1>11
<1>13. \A i \in S : i >= Anchor(S) => i \in Newest(S, PageLimit)
  <2>1. SUFFICES ASSUME NEW i \in S, i >= Anchor(S) PROVE i \in Newest(S, PageLimit)
    OBVIOUS
  <2>2. Cardinality(above(i)) <= Cardinality(above(Anchor(S)))
    BY <1>4, <1>12, <2>1
  <2> QED
    BY <1>2, <1>3, <1>12, <2>2, RequestsAssumption
<1> QED
  BY <1>3, <1>11, <1>12, <1>13

\* The last page shows all that is left.
LEMMA LastPageEffect ==
  ASSUME NEW n \in Nat, NEW S, S \subseteq 1..n, ~(Cardinality(S) > PageLimit)
  PROVE  Newest(S, PageLimit) = S
<1>1. IsFiniteSet(1..n) /\ IsFiniteSet(S)
  <2>1. IsFiniteSet(1..n)
    BY FS_Interval
  <2> QED
    BY <2>1, FS_Subset
<1>2. Cardinality(S) \in Nat
  BY <1>1, FS_CardinalityType
<1>3. ASSUME NEW i \in S
      PROVE  Cardinality({j \in S : j > i}) < PageLimit
  <2> DEFINE T == {j \in S : j > i}
  <2>1. T \in SUBSET S /\ i \notin T
    OBVIOUS
  <2> HIDE DEF T
  <2>2. Cardinality(T) <= Cardinality(S) /\ Cardinality(S) # Cardinality(T) /\ IsFiniteSet(T)
    BY <1>1, <2>1, FS_Subset
  <2>3. Cardinality(T) \in Nat
    BY <2>2, FS_CardinalityType
  <2>4. Cardinality(T) < PageLimit
    BY <1>2, <2>2, <2>3, RequestsAssumption
  <2> QED
    BY <2>4 DEF T
<1> QED
  BY <1>3 DEF Newest

\* A step of the reader.
LEMMA ReadStep ==
  ASSUME RequestsInv, Read PROVE RequestsInv'
<1>1. /\ UNCHANGED <<out, req, setting, trail>> /\ (ReadPage \/ Restart)
      /\ TypeOK /\ ReaderInv /\ reader \in Reader
  BY DEF Read, ReadPage, Restart, RequestsInv, TypeOK, AuditTypeOK
<1>2. Committed' = Committed
  BY <1>1 DEF Committed
<1>3. Committed \subseteq 1..Len(trail) /\ Len(trail) \in Nat
  BY <1>1, TrailType DEF Committed
<1>4. reader.cursor \in Nat /\ reader.seen \subseteq Nat /\ reader.late \subseteq Nat
  BY <1>1 DEF Reader
<1> DEFINE left == Below(reader.cursor)
<1>5. left = {i \in Committed : reader.cursor = 0 \/ i < reader.cursor}
  BY DEF Below
<1> HIDE DEF left
<1>6. left \subseteq 1..Len(trail) /\ \A i \in left : i \in Nat /\ i > 0
  <2>1. left \subseteq Committed
    BY <1>5
  <2>2. \A i \in 1..Len(trail) : i \in Nat /\ i > 0
    BY <1>3
  <2> QED
    BY <1>3, <2>1, <2>2
<1>7. \/ reader.pc = "idle" /\ reader = NewReader /\ left = Committed
      \/ /\ reader.pc = "paging" /\ reader.cursor > 0
         /\ \A i \in reader.late : i >= reader.cursor
         /\ reader.seen = {i \in Committed \ reader.late : i >= reader.cursor}
         /\ left = {i \in Committed : i < reader.cursor}
      \/ reader.pc = "done"
  <2>1. CASE reader.pc = "idle"
    <3>1. reader = NewReader
      BY <1>1, <2>1 DEF ReaderInv
    <3>2. reader.cursor = 0
      BY <3>1 DEF NewReader
    <3> QED
      BY <1>5, <2>1, <3>1, <3>2
  <2>2. CASE reader.pc = "paging"
    BY <1>1, <1>4, <1>5, <2>2 DEF ReaderInv
  <2>3. CASE reader.pc = "done"
    BY <2>3
  <2> QED
    BY <1>1, <2>1, <2>2, <2>3 DEF Reader
<1>8. reader' \in Reader /\ ReaderInv'
  <2>1. CASE ReadPage /\ Cardinality(left) > PageLimit
    <3>1. /\ Anchor(left) \in left
          /\ Newest(left, PageLimit) = {i \in left : i >= Anchor(left)}
      BY <1>3, <1>6, <2>1, PageEffect
    <3>2. reader' = [reader EXCEPT !.pc = "paging", !.cursor = Anchor(left),
                                   !.seen = @ \cup Newest(left, PageLimit)]
      BY <2>1 DEF ReadPage, left
    <3> DEFINE a == Anchor(left)
    <3> DEFINE page == Newest(left, PageLimit)
    <3>3. a \in left /\ page = {i \in left : i >= a} /\ a \in Nat /\ a > 0 /\ page \subseteq Nat
      <4>1. a \in left /\ page = {i \in left : i >= a}
        BY <3>1
      <4> QED
        BY <1>6, <4>1
    <3>4. reader' = [reader EXCEPT !.pc = "paging", !.cursor = a, !.seen = @ \cup page]
      BY <3>2
    <3> HIDE DEF a, page
    <3>5. /\ reader' \in Reader /\ reader'.pc = "paging" /\ reader'.cursor = a
          /\ reader'.seen = reader.seen \cup page /\ reader'.late = reader.late
      BY ONLY <1>1, <3>3, <3>4 DEF Reader
    <3>6. reader.pc # "done"
      BY <2>1 DEF ReadPage
    <3>7. \A i \in reader.late : i >= a
      BY <1>3, <1>4, <1>7, <3>3, <3>6 DEF NewReader
    <3>8. reader.seen \cup page = {i \in Committed \ reader.late : i >= a}
      <4>1. CASE reader = NewReader /\ left = Committed
        BY <4>1, <3>3 DEF NewReader
      <4>2. CASE /\ reader.cursor > 0
                 /\ \A i \in reader.late : i >= reader.cursor
                 /\ reader.seen = {i \in Committed \ reader.late : i >= reader.cursor}
                 /\ left = {i \in Committed : i < reader.cursor}
        <5>1. a < reader.cursor /\ \A i \in Committed : i \in Nat
          BY <1>3, <3>3, <4>2
        <5>2. ASSUME NEW i \in Committed
              PROVE  i \in reader.seen \cup page <=> i \notin reader.late /\ i >= a
          BY <1>4, <3>3, <4>2, <5>1, <5>2
        <5>3. reader.seen \cup page \subseteq Committed
          BY <3>3, <4>2
        <5> QED
          BY <5>2, <5>3
      <4> QED
        BY <1>7, <3>6, <4>1, <4>2
    <3>9. ReaderInv'
      BY <1>2, <3>3, <3>5, <3>7, <3>8 DEF ReaderInv, PagesMissOnlyLateRows
    <3> QED
      BY <3>5, <3>9
  <2>2. CASE ReadPage /\ ~(Cardinality(left) > PageLimit)
    <3>1. Newest(left, PageLimit) = left
      BY <1>3, <1>6, <2>2, LastPageEffect
    <3>2. reader' = [reader EXCEPT !.pc = "done", !.cursor = @, !.seen = @ \cup left]
      BY <2>2, <3>1 DEF ReadPage, left
    <3>3. /\ reader' \in Reader /\ reader'.pc = "done"
          /\ reader'.seen = reader.seen \cup left /\ reader'.late = reader.late
      BY ONLY <1>1, <1>6, <3>2 DEF Reader
    <3>4. reader.pc # "done"
      BY <2>2 DEF ReadPage
    <3>5. Committed \ reader.late = reader.seen \cup left
      <4>1. CASE reader = NewReader /\ left = Committed
        BY <4>1 DEF NewReader
      <4>2. CASE /\ reader.cursor > 0
                 /\ \A i \in reader.late : i >= reader.cursor
                 /\ reader.seen = {i \in Committed \ reader.late : i >= reader.cursor}
                 /\ left = {i \in Committed : i < reader.cursor}
        <5>1. \A i \in Committed : i \in Nat
          BY <1>3
        <5>2. ASSUME NEW i \in Committed
              PROVE  i \in reader.seen \cup left <=> i \notin reader.late
          BY <1>4, <4>2, <5>1, <5>2
        <5>3. reader.seen \cup left \subseteq Committed
          BY <4>2
        <5> QED
          BY <5>2, <5>3
      <4> QED
        BY <1>7, <3>4, <4>1, <4>2
    <3>6. ReaderInv'
      BY <1>2, <3>3, <3>5 DEF ReaderInv, PagesMissOnlyLateRows
    <3> QED
      BY <3>3, <3>6
  <2>3. CASE Restart
    <3>1. reader' = NewReader
      BY <2>3 DEF Restart
    <3>2. NewReader \in Reader /\ NewReader.pc = "idle"
      BY DEF NewReader, Reader
    <3> QED
      BY <3>1, <3>2 DEF ReaderInv, PagesMissOnlyLateRows
  <2> QED
    BY <1>1, <2>1, <2>2, <2>3
<1>9. AuditTypeOK' /\ TypeOK'
  BY <1>1, <1>8 DEF TypeOK, AuditTypeOK, PoolTypeOK
<1>10. \A s \in Requests : SameRequest(s) /\ SameRows(s) /\ SameConnections(s)
  BY <1>1 DEF SameRequest, SameRows, SameConnections, RowsOf
<1>11. \A s \in Requests : RequestInv(s)' /\ (OnLoop(s)' <=> OnLoop(s))
  BY <1>10, Frame DEF RequestsInv
<1>12. Cardinality(out') <= PoolSize + MaxOverflow
  BY <1>1 DEF RequestsInv
<1>13. \A s, t \in Requests : OnLoop(s)' /\ OnLoop(t)' => s = t
  BY <1>11 DEF RequestsInv
<1> QED
  BY <1>8, <1>9, <1>11, <1>12, <1>13 DEF RequestsInv

-----------------------------------------------------------------------------
(* The invariant *)

LEMMA InitInv == Init => RequestsInv
<1> SUFFICES ASSUME Init PROVE RequestsInv
  OBVIOUS
<1>1. /\ out = {} /\ trail = <<>> /\ reader = NewReader /\ setting = Seed
      /\ req = [r \in Requests |-> NewRequest]
  BY DEF Init, PoolInit, AuditInit
<1>2. NewRequest \in Request
  BY DEF NewRequest, Request, Values
<1>3. \A r \in Requests : req[r] = NewRequest
  BY <1>1
<1>4. AuditTypeOK
  BY <1>1 DEF AuditTypeOK, NewReader, Reader
<1>5. TypeOK
  BY <1>1, <1>2, <1>4 DEF TypeOK, PoolTypeOK, Values
<1>6. Cardinality(out) <= PoolSize + MaxOverflow
  BY <1>1, FS_EmptySet, PoolAssumption
<1>7. Committed = {}
  BY <1>1 DEF Committed
<1>8. ASSUME NEW r \in Requests
      PROVE  RequestInv(r) /\ ~OnLoop(r)
  <2>1. RowsOf(r) = {} /\ OpenRows(r) = {} /\ ~Audited(r)
    BY <1>1, <1>7 DEF RowsOf, OpenRows, Audited
  <2>2. /\ req[r].kind = "none" /\ req[r].pc = "idle" /\ req[r].answer = "none"
        /\ req[r].changed = FALSE
    BY <1>3 DEF NewRequest
  <2>3. ~Connected(r, "auth") /\ ~Connected(r, "db")
    BY <1>1 DEF Connected
  <2> QED
    BY <2>1, <2>2, <2>3 DEF RequestInv, KindHasStatement, RowsFollow, AnswersTell, ChangesTell,
                            ConnectionsFollow, OnLoop
<1>9. ReaderInv
  BY <1>1 DEF ReaderInv, PagesMissOnlyLateRows, NewReader
<1> QED
  BY <1>5, <1>6, <1>8, <1>9 DEF RequestsInv

LEMMA StutterInv ==
  ASSUME RequestsInv, UNCHANGED vars PROVE RequestsInv'
<1>1. UNCHANGED <<out, req, setting, trail, reader>>
  BY DEF vars
<1>2. \A s \in Requests : SameRequest(s) /\ SameRows(s) /\ SameConnections(s)
  BY <1>1 DEF SameRequest, SameRows, SameConnections, RowsOf
<1>3. \A s \in Requests : RequestInv(s)' /\ (OnLoop(s)' <=> OnLoop(s))
  BY <1>2, Frame DEF RequestsInv
<1>4. TypeOK' /\ ReaderInv' /\ Cardinality(out') <= PoolSize + MaxOverflow
  BY <1>1, SameLog, SameOut DEF RequestsInv, TypeOK
<1>5. \A s, t \in Requests : OnLoop(s)' /\ OnLoop(t)' => s = t
  BY <1>3 DEF RequestsInv
<1> QED
  BY <1>3, <1>4, <1>5 DEF RequestsInv

LEMMA NextInv ==
  ASSUME RequestsInv, Next PROVE RequestsInv'
<1>1. ASSUME NEW r \in Requests, Progress(r) PROVE RequestsInv'
  BY <1>1, ConnectStep, TimedOutStep, AuthenticateStep, DispatchStep, CloseStep, TrainStep,
     SelectStep, DeleteStep, InsertStep, Append2LogStep, UpdateStep, CommitDoomedStep,
     CommitStep, RefreshStep
  DEF Progress
<1>2. ASSUME NEW r \in Requests, Failure(r) PROVE RequestsInv'
  BY <1>2, StatementFailsStep, CommitFailsStep DEF Failure
<1> QED
  BY <1>1, <1>2, ArriveStep, ReadStep DEF Next

\* The invariant, for any requests, pool, page and kinds on offer: api/main.py,
\* api/dependencies/auth.py and services/audit_service.py.
THEOREM RequestsInvariance == Spec => []RequestsInv
<1>1. RequestsInv /\ [Next]_vars => RequestsInv'
  BY NextInv, StutterInv
<1> QED
  BY InitInv, <1>1, PTL DEF Spec

\* The state of every reachable state has its type.
THEOREM TypeCorrect == Spec => []TypeOK
<1>1. RequestsInv => TypeOK
  BY DEF RequestsInv
<1> QED
  BY <1>1, RequestsInvariance, PTL

\* create_engine of repository/model_repository.py: never more connections than the
\* pool has, and a request holds one only while it is served.
THEOREM PoolInvHolds == Spec => []PoolInv
<1>1. RequestsInv => PoolInv
  BY DEF RequestsInv, PoolInv, RequestInv, ConnectionsFollow
<1> QED
  BY <1>1, RequestsInvariance, PTL

\* query_logs of services/audit_service.py: whatever the order of the commits, a
\* reader of all pages misses only rows that were committed behind the cursor.
THEOREM PagesMissOnlyLateRowsHolds == Spec => []PagesMissOnlyLateRows
<1>1. RequestsInv => PagesMissOnlyLateRows
  BY DEF RequestsInv, ReaderInv
<1> QED
  BY <1>1, RequestsInvariance, PTL

\* log_action of services/audit_service.py and the commits of the handlers: who is
\* answered "ok" finds the row, and a row that tells of a success tells the truth.
THEOREM ChangesAreAuditedHolds == Spec => []ChangesAreAudited
<1>1. RequestsInv => ChangesAreAudited
  <2>1. SUFFICES ASSUME RequestsInv, NEW r \in Requests
                 PROVE  /\ req[r].answer = "ok" /\ req[r].kind # "read" => Audited(r)
                        /\ req[r].kind = "setting" => (req[r].changed <=> Audited(r))
                        /\ \A i \in Committed :
                             trail[i].by = r /\ trail[i].status = "SUCCESS" => req[r].changed
                        /\ req[r].kind = "retrain" /\ req[r].answer = "ok" =>
                             PipelineStatus # "NEVER_RUN"
    BY DEF ChangesAreAudited
  <2>2. TypeOK /\ AnswersTell(r) /\ ChangesTell(r)
    BY <2>1 DEF RequestsInv, RequestInv
  <2>3. \A i \in Committed : trail[i].by = r => i \in RowsOf(r) /\ Audited(r)
    BY DEF Committed, RowsOf, Audited
  <2>4. \A i \in Committed :
          trail[i].by = r /\ trail[i].status = "SUCCESS" => req[r].changed
    BY <2>2, <2>3 DEF ChangesTell
  <2>5. ASSUME req[r].kind = "retrain", Audited(r)
        PROVE  PipelineStatus # "NEVER_RUN"
    <3> DEFINE runs == {i \in Committed : req[trail[i].by].kind = "retrain"}
    <3>1. runs \subseteq 1..Len(trail) /\ Len(trail) \in Nat
      BY <2>2, TrailType DEF Committed
    <3>2. runs # {}
      BY <2>5 DEF Audited
    <3>3. \E i \in runs : \A j \in runs : j <= i
      BY <3>1, <3>2, GreatestBounded
    <3> DEFINE newest == CHOOSE i \in runs : \A j \in runs : j <= i
    <3>4. newest \in runs
      BY <3>3
    <3>5. PipelineStatus = trail[newest].status
      BY <3>2 DEF PipelineStatus
    <3> HIDE DEF newest
    <3>6. newest \in DOMAIN trail
      BY <3>4 DEF Committed
    <3>7. trail[newest] \in AuditRow
      BY <2>2, <3>6, TrailType
    <3>8. trail[newest].status \in {"SUCCESS", "FAILED"}
      BY <3>7 DEF AuditRow
    <3> QED
      BY <3>5, <3>8
  <2> QED
    BY <2>2, <2>4, <2>5 DEF AnswersTell, ChangesTell
<1> QED
  BY <1>1, RequestsInvariance, PTL

-----------------------------------------------------------------------------
(* What the trail tells of the setting *)

\* A step that only goes on in a handler: no row is written, no setting committed.
KeptUpdate(s) ==
  /\ req'[s].kind = req[s].kind /\ req'[s].met = req[s].met
  /\ req[s].pc = "ended" => req'[s].pc = "ended"
  /\ req'[s].pc = "idle" => req[s].pc = "idle"

KeptRequest(s) ==
  /\ KeptUpdate(s) /\ req'[s].old = req[s].old
  /\ req[s].kind = "setting" /\ req'[s].pc = "append" => req[s].pc = "append"

KeptTrail ==
  /\ DOMAIN trail' = DOMAIN trail
  /\ \A i \in DOMAIN trail : trail'[i].by = trail[i].by /\ trail'[i].old = trail[i].old

LEMMA SettingRowsType ==
  ASSUME TypeOK
  PROVE  /\ \A i \in DOMAIN trail : i \in Nat /\ trail[i].by \in Requests /\ trail[i].by # Seed
         /\ SettingRows = {i \in DOMAIN trail : /\ trail[i].state = "committed"
                                                /\ req[trail[i].by].kind = "setting"}
<1>1. DOMAIN trail = 1..Len(trail) /\ \A i \in DOMAIN trail : trail[i].by \in Requests
  BY TrailType
<1>2. \A i \in DOMAIN trail : i \in Nat
  BY <1>1
<1> QED
  BY <1>1, <1>2, RequestsAssumption DEF SettingRows, Committed

LEMMA SettingRowsKept ==
  ASSUME TypeOK, KeptTrail, \A s \in Requests : KeptUpdate(s), Committed' = Committed
  PROVE  SettingRows' = SettingRows
<1>1. \A i \in Committed : i \in DOMAIN trail /\ trail[i].by \in Requests
  BY TrailType DEF Committed
<1>2. \A i \in Committed : trail'[i].by = trail[i].by
  BY <1>1 DEF KeptTrail
<1>3. \A i \in Committed : req'[trail'[i].by].kind = req[trail[i].by].kind
  BY <1>1, <1>2 DEF KeptUpdate
<1> QED
  BY <1>3 DEF SettingRows

\* Rows that stay and updates that know each other stay told.
LEMMA ToldGrows ==
  ASSUME TypeOK, NEW j \in SettingRows, NEW w \in Values, ToldUpTo(j, w),
         \A k \in SettingRows : k \in SettingRows' /\ trail'[k].by = trail[k].by,
         \A s \in Requests : req[s].met \subseteq req'[s].met
  PROVE  ToldUpTo(j, w)'
<1>1. PICK k \in SettingRows : trail[k].by = w /\ (j <= k \/ trail[j].by \in req[w].met)
  BY DEF ToldUpTo
<1>2. w \in Requests
  BY <1>1, SettingRowsType
<1> QED
  BY <1>1, <1>2 DEF ToldUpTo

LEMMA RowsKept ==
  ASSUME KeptTrail
  PROVE  \A r : /\ RowsOf(r)' = RowsOf(r) /\ RowsOf(r) \subseteq DOMAIN trail
                /\ \A i \in RowsOf(r) : trail[i].by = r
BY DEF KeptTrail, RowsOf

LEMMA MeetingsKept ==
  ASSUME TrailInv, \A s \in Requests : KeptUpdate(s)
  PROVE  MeetingsAreMutual'
<1>1. Updating' \subseteq Updating
  BY DEF Updating, KeptUpdate
<1>2. \A r, s \in Requests : s \in req'[r].met => r \in req'[s].met
  BY DEF TrailInv, MeetingsAreMutual, KeptUpdate
<1>3. \A r, s \in Updating' : r # s => s \in req'[r].met
  BY <1>1 DEF TrailInv, MeetingsAreMutual, KeptUpdate, Updating
<1>4. \A r \in Requests : req'[r].pc = "idle" => req'[r].met = {}
  BY DEF TrailInv, MeetingsAreMutual, KeptUpdate
<1> QED
  BY <1>2, <1>3, <1>4 DEF MeetingsAreMutual

LEMMA UpdatesFrame ==
  ASSUME TypeOK, TrailInv, KeptTrail, \A s \in Requests : KeptUpdate(s)
  PROVE  /\ MeetingsAreMutual' /\ RowsInOrder'
         /\ \A r \in Requests : KeptRequest(r) => OneRow(r)'
<1>1. \A i \in DOMAIN trail : trail[i].by \in Requests
  BY TrailType
<1>2. MeetingsAreMutual'
  BY MeetingsKept
<1>3. RowsInOrder'
  BY <1>1 DEF TrailInv, RowsInOrder, KeptTrail, KeptUpdate
<1>4. ASSUME NEW r \in Requests, KeptRequest(r)
      PROVE  OneRow(r)'
  <2>1. OneRow(r)
    BY DEF TrailInv
  <2>2. RowsOf(r)' = RowsOf(r) /\ RowsOf(r) \subseteq DOMAIN trail
    BY RowsKept
  <2> QED
    BY <1>4, <2>1, <2>2 DEF OneRow, KeptTrail, KeptRequest, KeptUpdate
<1> QED
  BY <1>2, <1>3, <1>4

LEMMA ToldFrame ==
  ASSUME TypeOK, \A k \in SettingRows : k \in SettingRows' /\ trail'[k].by = trail[k].by,
         \A s \in Requests : req[s].met \subseteq req'[s].met,
         SettingRows' = SettingRows, NEW r \in Requests, OldIsTold(r), RowsOf(r)' = RowsOf(r),
         req'[r].kind = req[r].kind, req'[r].old = req[r].old,
         req[r].kind = "setting" /\ req'[r].pc = "append" => req[r].pc = "append"
  PROVE  OldIsTold(r)'
<1>1. PICK w \in Values : req[r].old = w
  BY RequestType
<1>2. req'[r].old = w /\ req[r].met \subseteq req'[r].met
  BY <1>1
<1>3. \A j \in SettingRows : ToldUpTo(j, w) => ToldUpTo(j, w)'
  BY ToldGrows
<1>4. SUFFICES ASSUME req[r].kind = "setting", req[r].pc = "append" \/ RowsOf(r) # {}
               PROVE  /\ w # Seed => \E k \in SettingRows' : trail'[k].by = w
                      /\ \A k \in SettingRows', i \in RowsOf(r) : trail'[k].by = w => k < i
                      /\ \A j \in SettingRows' :
                           (\A i \in RowsOf(r) : j < i) =>
                             trail'[j].by \in req'[r].met \/ ToldUpTo(j, w)'
  BY <1>2 DEF OldIsTold, ToldUpTo
<1>5. /\ w # Seed => \E k \in SettingRows : trail[k].by = w
      /\ \A k \in SettingRows, i \in RowsOf(r) : trail[k].by = w => k < i
      /\ \A j \in SettingRows :
           (\A i \in RowsOf(r) : j < i) => trail[j].by \in req[r].met \/ ToldUpTo(j, w)
  BY <1>1, <1>4 DEF OldIsTold
<1> QED
  BY <1>2, <1>3, <1>5

\* A step that writes no row and commits no setting: it may read one.
LEMMA TrailFrame ==
  ASSUME TypeOK, TrailInv, KeptTrail, \A s \in Requests : KeptUpdate(s),
         \A s \in Requests : KeptRequest(s) \/ (OneRow(s)' /\ OldIsTold(s)'),
         SettingRows' = SettingRows, setting' = setting
  PROVE  TrailInv'
<1>1. /\ \A k \in SettingRows : k \in SettingRows' /\ trail'[k].by = trail[k].by
      /\ \A s \in Requests : req[s].met \subseteq req'[s].met
  <2>1. \A i \in SettingRows : i \in DOMAIN trail
    BY SettingRowsType
  <2> QED
    BY <2>1 DEF KeptTrail, KeptUpdate
<1>2. MeetingsAreMutual' /\ RowsInOrder' /\ \A r \in Requests : OneRow(r)'
  BY UpdatesFrame
<1>3. \A r \in Requests : OldIsTold(r)'
  BY <1>1, RowsKept, ToldFrame DEF TrailInv, KeptRequest, KeptUpdate
<1>4. SettingIsTold'
  <2>1. PICK w \in Values : setting = w
    BY DEF TypeOK
  <2>2. \A j \in SettingRows : ToldUpTo(j, w)
    BY <2>1 DEF TrailInv, SettingIsTold
  <2>3. \A j \in SettingRows' : ToldUpTo(j, w)'
    BY <1>1, <2>2, ToldGrows
  <2>4. w # Seed => \E k \in SettingRows' : trail'[k].by = w
    BY <1>1, <2>1 DEF TrailInv, SettingIsTold
  <2>5. setting' = w
    BY <2>1
  <2> QED
    BY <2>3, <2>4, <2>5 DEF SettingIsTold, ToldUpTo
<1> QED
  BY <1>2, <1>3, <1>4 DEF TrailInv

\* The handler of r goes on and writes no row.
LEMMA TrailGoesOn ==
  ASSUME RequestsInv, TrailInv, NEW r \in Requests, trail' = trail, setting' = setting,
         \A s \in Requests \ {r} : req'[s] = req[s], KeptRequest(r)
  PROVE  TrailInv'
<1>1. TypeOK
  BY DEF RequestsInv
<1>2. \A s \in Requests : KeptRequest(s) /\ KeptUpdate(s)
  BY DEF KeptRequest, KeptUpdate
<1>3. KeptTrail /\ Committed' = Committed
  BY DEF KeptTrail, Committed
<1>4. SettingRows' = SettingRows
  BY <1>1, <1>2, <1>3, SettingRowsKept
<1> QED
  BY <1>1, <1>2, <1>3, <1>4, TrailFrame

LEMMA EndRowsTrail ==
  ASSUME TypeOK, NEW r \in Requests, NEW end \in {"committed", "rolledback"}, EndRows(r, end)
  PROVE  /\ KeptTrail
         /\ Committed' = Committed \cup (IF end = "committed" THEN OpenRows(r) ELSE {})
<1> DEFINE ended(i) == [trail[i] EXCEPT !.state = end]
<1>1. trail' = [i \in DOMAIN trail |-> IF i \in OpenRows(r) THEN ended(i) ELSE trail[i]]
  BY DEF EndRows
<1>2. \A i \in DOMAIN trail : ended(i).by = trail[i].by /\ ended(i).old = trail[i].old
  <2>1. TAKE i \in DOMAIN trail
  <2>2. trail[i] \in AuditRow
    BY TrailType
  <2> QED
    BY ONLY <2>2 DEF AuditRow
<1> HIDE DEF ended
<1>3. KeptTrail
  BY <1>1, <1>2 DEF KeptTrail
<1> QED
  BY <1>3, EndRowsEffect

LEMMA TrailRolledBack ==
  ASSUME RequestsInv, TrailInv, NEW r \in Requests, RollbackRows(r), setting' = setting,
         \A s \in Requests \ {r} : req'[s] = req[s], KeptRequest(r)
  PROVE  TrailInv'
<1>1. TypeOK /\ EndRows(r, "rolledback")
  BY DEF RequestsInv, RollbackRows
<1>2. \A s \in Requests : KeptRequest(s) /\ KeptUpdate(s)
  BY DEF KeptRequest, KeptUpdate
<1>3. KeptTrail /\ Committed' = Committed
  BY <1>1, EndRowsTrail
<1>4. SettingRows' = SettingRows
  BY <1>1, <1>2, <1>3, SettingRowsKept
<1> QED
  BY <1>1, <1>2, <1>3, <1>4, TrailFrame

LEMMA RaisesKept ==
  ASSUME RequestsInv, NEW r \in Requests, Raises(r)
  PROVE  KeptRequest(r) /\ \A s \in Requests \ {r} : req'[s] = req[s]
<1>1. TypeOK /\ KindHasStatement(r) /\ "doomed" \in PCs /\ "append" \in PCs /\ TRUE \in BOOLEAN
  BY DEF RequestsInv, RequestInv, PCs, Statements
<1>2. CASE req[r].pc \in {"append", "update"} /\ Goto(r, "doomed")
  BY <1>1, <1>2, GotoEffect DEF KeptRequest, KeptUpdate
<1>3. CASE /\ req[r].pc \in {"delete", "insert"}
           /\ req' = [req EXCEPT ![r].pc = "append", ![r].failed = TRUE]
  BY <1>1, <1>3, FailedEffect DEF KeptRequest, KeptUpdate, KindHasStatement
<1>4. CASE req[r].pc \in {"user", "select", "refresh"} /\ Answer(r, "error")
  BY <1>1, <1>4, AnswerEffect DEF KeptRequest, KeptUpdate
<1> QED
  BY <1>2, <1>3, <1>4 DEF Raises

LEMMA GotoKept ==
  ASSUME RequestsInv, NEW r \in Requests, NEW pc \in PCs \ {"idle", "append"}, Goto(r, pc),
         req[r].pc # "ended"
  PROVE  KeptRequest(r) /\ \A s \in Requests \ {r} : req'[s] = req[s]
<1>1. TypeOK
  BY DEF RequestsInv
<1> QED
  BY <1>1, GotoEffect DEF KeptRequest, KeptUpdate

LEMMA AnswerKept ==
  ASSUME RequestsInv, NEW r \in Requests, NEW a \in {"ok", "error"}, Answer(r, a),
         req[r].pc # "ended"
  PROVE  KeptRequest(r) /\ \A s \in Requests \ {r} : req'[s] = req[s]
<1>1. TypeOK
  BY DEF RequestsInv
<1> QED
  BY <1>1, AnswerEffect DEF KeptRequest, KeptUpdate

LEMMA FailedKept ==
  ASSUME RequestsInv, NEW r \in Requests, NEW failed \in BOOLEAN,
         req' = [req EXCEPT ![r].pc = "append", ![r].failed = failed],
         req[r].pc # "ended", req[r].kind # "setting"
  PROVE  KeptRequest(r) /\ \A s \in Requests \ {r} : req'[s] = req[s]
<1>1. TypeOK /\ "append" \in PCs
  BY DEF RequestsInv, PCs, Statements
<1>2. /\ \A s \in Requests \ {r} : req'[s] = req[s]
      /\ req'[r].pc = "append" /\ req'[r].kind = req[r].kind /\ req'[r].met = req[r].met
      /\ req'[r].old = req[r].old
  BY <1>1, FailedEffect
<1> QED
  BY <1>2 DEF KeptRequest, KeptUpdate

LEMMA TrainKept ==
  ASSUME RequestsInv, NEW r \in Requests, Train(r)
  PROVE  /\ KeptRequest(r) /\ trail' = trail /\ setting' = setting
         /\ \A s \in Requests \ {r} : req'[s] = req[s]
<1>1. TypeOK /\ req[r].kind = "retrain" /\ req[r].pc = "train"
      /\ trail' = trail /\ setting' = setting
  BY DEF Train, RequestsInv, RequestInv, KindHasStatement
<1>2. PICK ok \in BOOLEAN, changed \in BOOLEAN :
        req' = [req EXCEPT ![r].pc = IF ok THEN "select" ELSE "append",
                           ![r].changed = changed, ![r].failed = ~ok]
  BY DEF Train
<1>3. "select" \in PCs /\ "append" \in PCs
  BY DEF PCs, Statements
<1>4. /\ \A s \in Requests \ {r} : req'[s] = req[s]
      /\ req'[r].pc \in {"select", "append"} /\ req'[r].kind = req[r].kind
      /\ req'[r].met = req[r].met /\ req'[r].old = req[r].old
  <2>1. CASE ok = TRUE
    <3>1. req' = [req EXCEPT ![r].pc = "select", ![r].changed = changed, ![r].failed = FALSE]
      BY <1>2, <2>1
    <3> QED
      BY <1>1, <1>3, <3>1, ResultEffect
  <2>2. CASE ok = FALSE
    <3>1. req' = [req EXCEPT ![r].pc = "append", ![r].changed = changed, ![r].failed = TRUE]
      BY <1>2, <2>2
    <3> QED
      BY <1>1, <1>3, <3>1, ResultEffect
  <2> QED
    BY <2>1, <2>2
<1> QED
  BY <1>1, <1>4 DEF KeptRequest, KeptUpdate

LEMMA InsertKept ==
  ASSUME RequestsInv, NEW r \in Requests, Insert(r)
  PROVE  /\ KeptRequest(r) /\ trail' = trail /\ setting' = setting
         /\ \A s \in Requests \ {r} : req'[s] = req[s]
<1>1. TypeOK /\ req[r].kind = "upload" /\ req[r].pc = "insert" /\ "append" \in PCs
      /\ trail' = trail /\ setting' = setting
  BY DEF Insert, RequestsInv, RequestInv, KindHasStatement, PCs, Statements
<1>2. PICK ok \in BOOLEAN :
        req' = [req EXCEPT ![r].pc = "append", ![r].changed = ok, ![r].failed = ~ok]
  BY DEF Insert
<1>3. /\ \A s \in Requests \ {r} : req'[s] = req[s]
      /\ req'[r].pc = "append" /\ req'[r].kind = req[r].kind
      /\ req'[r].met = req[r].met /\ req'[r].old = req[r].old
  <2>1. CASE ok = TRUE
    <3>1. req' = [req EXCEPT ![r].pc = "append", ![r].changed = TRUE, ![r].failed = FALSE]
      BY <1>2, <2>1
    <3> QED
      BY <1>1, <3>1, ResultEffect
  <2>2. CASE ok = FALSE
    <3>1. req' = [req EXCEPT ![r].pc = "append", ![r].changed = FALSE, ![r].failed = TRUE]
      BY <1>2, <2>2
    <3> QED
      BY <1>1, <3>1, ResultEffect
  <2> QED
    BY <2>1, <2>2
<1> QED
  BY <1>1, <1>3 DEF KeptRequest, KeptUpdate

LEMMA HandlerKept ==
  ASSUME RequestsInv, NEW r \in Requests,
         \/ Authenticate(r) \/ Dispatch(r) \/ Close(r) \/ Delete(r) \/ Update(r)
         \/ CommitDoomed(r) \/ Refresh(r)
         \/ Select(r) /\ req[r].kind # "setting"
  PROVE  /\ KeptRequest(r) /\ trail' = trail /\ setting' = setting
         /\ \A s \in Requests \ {r} : req'[s] = req[s]
<1>1. {"dispatch", "ended", "delete", "train", "select", "insert", "commit"}
        \subseteq PCs \ {"idle", "append"}
  BY DEF PCs, Statements
<1>2. CASE Authenticate(r) \/ Close(r) \/ Delete(r) \/ Update(r) \/ CommitDoomed(r)
  BY <1>1, <1>2, GotoKept, AnswerKept
  DEF Authenticate, Close, Delete, Update, CommitDoomed
<1>3. CASE Dispatch(r)
  <2>1. FirstStep(r) \in {"delete", "train", "select"}
    BY DEF FirstStep
  <2> QED
    BY <1>1, <1>3, <2>1, GotoKept, AnswerKept, FailedKept DEF Dispatch
<1>4. CASE Select(r) /\ req[r].kind # "setting"
  <2>1. \A found \in BOOLEAN : (~found) \in BOOLEAN
    OBVIOUS
  <2> QED
    BY <1>4, <2>1, AnswerKept, FailedKept DEF Select
<1>5. CASE Refresh(r)
  BY <1>5, RefreshEffect DEF RequestsInv, KeptRequest, KeptUpdate
<1> QED
  BY <1>2, <1>3, <1>4, <1>5

LEMMA SelectTrail ==
  ASSUME RequestsInv, TrailInv, NEW r \in Requests, Select(r) PROVE TrailInv'
<1>1. TypeOK /\ req[r].pc = "select" /\ "append" \in PCs /\ setting \in Values /\ RequestInv(r)
      /\ trail' = trail /\ setting' = setting
  BY DEF RequestsInv, Select, PCs, Statements, TypeOK
<1>2. CASE req[r].kind # "setting"
  <2>1. KeptRequest(r) /\ \A s \in Requests \ {r} : req'[s] = req[s]
    BY <1>2, HandlerKept
  <2> QED
    BY <1>1, <2>1, TrailGoesOn
<1>3. CASE req[r].kind = "setting"
  <2>1. req' = [req EXCEPT ![r].pc = "append", ![r].old = setting]
    BY <1>3 DEF Select
  <2>2. /\ \A s \in Requests \ {r} : req'[s] = req[s]
        /\ req'[r].pc = "append" /\ req'[r].kind = req[r].kind /\ req'[r].met = req[r].met
        /\ req'[r].old = setting
    BY <1>1, <2>1, OldEffect
  <2>3. \A s \in Requests : KeptUpdate(s) /\ (s # r => KeptRequest(s))
    BY <1>1, <2>2 DEF KeptUpdate, KeptRequest
  <2>4. KeptTrail /\ Committed' = Committed
    BY <1>1 DEF KeptTrail, Committed
  <2>5. SettingRows' = SettingRows
    BY <1>1, <2>3, <2>4, SettingRowsKept
  <2>6. RowsOf(r) = {} /\ RowsOf(r)' = {}
    BY <1>1, <2>4, RowsKept DEF RequestInv, RowsFollow
  <2>7. OldIsTold(r)'
    <3>1. PICK w \in Values : setting = w
      BY <1>1
    <3>2. /\ w # Seed => \E k \in SettingRows : trail[k].by = w
          /\ \A j \in SettingRows : ToldUpTo(j, w)
      BY <3>1 DEF TrailInv, SettingIsTold
    <3>3. \A j \in SettingRows : ToldUpTo(j, w)'
      <4>1. \A k \in SettingRows : k \in SettingRows' /\ trail'[k].by = trail[k].by
        BY <1>1, <2>5
      <4>2. \A s \in Requests : req[s].met \subseteq req'[s].met
        BY <2>3 DEF KeptUpdate
      <4> QED
        BY <1>1, <3>2, <4>1, <4>2, ToldGrows
    <3>4. /\ w # Seed => \E k \in SettingRows' : trail'[k].by = w
          /\ \A j \in SettingRows' : ToldUpTo(j, w)'
          /\ req'[r].old = w
      BY <1>1, <2>2, <2>5, <3>1, <3>2, <3>3
    <3> QED
      BY <2>6, <3>4 DEF OldIsTold, ToldUpTo
  <2>8. OneRow(r)'
    BY <2>6 DEF OneRow
  <2> QED
    BY <1>1, <2>3, <2>4, <2>5, <2>7, <2>8, TrailFrame
<1> QED
  BY <1>2, <1>3

LEMMA ArriveTrail ==
  ASSUME RequestsInv, TrailInv, NEW r \in Requests, Arrive(r) PROVE TrailInv'
<1>1. /\ trail' = trail /\ setting' = setting /\ req[r].pc = "idle"
      /\ TypeOK /\ RequestInv(r)
  BY DEF Arrive, RequestsInv
<1>2. PICK k \in Offers[r] :
        req' = [s \in Requests |->
          IF s = r THEN [req[r] EXCEPT !.kind = k, !.pc = "user",
                                       !.met = IF k = "setting" THEN Updating ELSE {}]
          ELSE IF s \in (IF k = "setting" THEN Updating ELSE {})
          THEN [req[s] EXCEPT !.met = @ \cup {r}]
          ELSE req[s]]
  BY DEF Arrive
<1> DEFINE overlap == IF k = "setting" THEN Updating ELSE {}
<1> DEFINE q == [req[r] EXCEPT !.kind = k, !.pc = "user", !.met = overlap]
<1> DEFINE p(s) == [req[s] EXCEPT !.met = @ \cup {r}]
<1>3. q.kind = k /\ q.pc = "user" /\ q.met = overlap
  <2>1. req[r] \in Request
    BY <1>1, RequestType
  <2> HIDE DEF overlap
  <2> QED
    BY ONLY <2>1 DEF Request
<1>4. \A s \in Requests : p(s).kind = req[s].kind /\ p(s).pc = req[s].pc
                          /\ p(s).old = req[s].old /\ p(s).met = req[s].met \cup {r}
  <2>1. TAKE s \in Requests
  <2>2. req[s] \in Request
    BY <1>1, RequestType
  <2> QED
    BY ONLY <2>2, r \in Requests DEF Request
<1> HIDE DEF q, p
<1>5. req' = [s \in Requests |-> IF s = r THEN q ELSE IF s \in overlap THEN p(s) ELSE req[s]]
  BY <1>2 DEF q, p
<1>6. req'[r] = q /\ \A s \in Requests \ {r} : req'[s] = IF s \in overlap THEN p(s) ELSE req[s]
  BY <1>5
<1>7. \A s \in Requests \ {r} :
        /\ req'[s].kind = req[s].kind /\ req'[s].pc = req[s].pc /\ req'[s].old = req[s].old
        /\ req'[s].met = req[s].met \cup (IF s \in overlap THEN {r} ELSE {})
  BY <1>4, <1>6
<1>8. /\ req'[r].kind = k /\ req'[r].pc = "user" /\ req'[r].met = overlap
      /\ req[r].kind = "none" /\ req[r].met = {} /\ RowsOf(r) = {}
      /\ r \notin Updating /\ \A s \in Requests : r \notin req[s].met
  <2>1. req[r].kind = "none" /\ req[r].met = {} /\ RowsOf(r) = {}
    BY <1>1 DEF RequestInv, KindHasStatement, RowsFollow, TrailInv, MeetingsAreMutual
  <2>2. \A s \in Requests : r \notin req[s].met
    BY <2>1 DEF TrailInv, MeetingsAreMutual
  <2> QED
    BY <1>3, <1>6, <2>1, <2>2 DEF Updating
<1>9. Updating \subseteq Requests /\ overlap \subseteq Updating
      /\ (k = "setting" => overlap = Updating)
  BY DEF Updating
<1> HIDE DEF overlap
<1>10. MeetingsAreMutual'
  <2>1. \A s, t \in Requests : t \in req[s].met => s \in req[t].met
    BY DEF TrailInv, MeetingsAreMutual
  <2>2. \A s, t \in Requests : t \in req'[s].met => s \in req'[t].met
    BY <1>7, <1>8, <1>9, <2>1
  <2>3. \A s \in Updating' : s # r => s \in Updating
    BY <1>7 DEF Updating
  <2>4. \A s, t \in Updating : s # t => t \in req[s].met
    BY DEF TrailInv, MeetingsAreMutual
  <2>5. r \in Updating' => k = "setting"
    BY <1>8 DEF Updating
  <2>6. Updating' \subseteq Requests
    BY DEF Updating
  <2>7. \A s, t \in Updating' : s # t => t \in req'[s].met
    BY <1>7, <1>8, <1>9, <2>3, <2>4, <2>5, <2>6
  <2>8. \A s \in Requests : req'[s].pc = "idle" => req'[s].met = {}
    <3>1. \A s \in Updating : req[s].pc # "idle"
      BY DEF Updating, RequestsInv, RequestInv, KindHasStatement
    <3> QED
      BY <1>7, <1>8, <1>9, <3>1 DEF TrailInv, MeetingsAreMutual
  <2> QED
    BY <2>2, <2>7, <2>8 DEF MeetingsAreMutual
<1>11. KeptTrail /\ \A s : RowsOf(s)' = RowsOf(s)
  BY <1>1 DEF KeptTrail, RowsOf
<1>12. \A i \in DOMAIN trail : trail[i].by \in Requests \ {r}
  BY <1>1, <1>8, TrailType DEF RowsOf
<1>13. SettingRows' = SettingRows
  <2>1. Committed' = Committed /\ \A i \in Committed : i \in DOMAIN trail
    BY <1>1 DEF Committed
  <2> QED
    BY <1>1, <1>7, <1>12, <2>1 DEF SettingRows
<1>14. \A s \in Requests : req[s].met \subseteq req'[s].met
  BY <1>7, <1>8
<1>15. \A k2 \in SettingRows : k2 \in SettingRows' /\ trail'[k2].by = trail[k2].by
  BY <1>1, <1>13
<1>16. \A w \in Values, j \in SettingRows : ToldUpTo(j, w) => ToldUpTo(j, w)'
  BY <1>1, <1>14, <1>15, ToldGrows
<1>17. RowsInOrder'
  BY <1>1, <1>7, <1>12, <1>14 DEF TrailInv, RowsInOrder
<1>18. SettingIsTold'
  <2>1. PICK w \in Values : setting = w
    BY <1>1 DEF TypeOK
  <2>2. /\ w # Seed => \E j \in SettingRows' : trail'[j].by = w
        /\ \A j \in SettingRows' : ToldUpTo(j, w)'
    BY <1>13, <1>15, <1>16, <2>1 DEF TrailInv, SettingIsTold
  <2> QED
    BY <1>1, <2>1, <2>2 DEF SettingIsTold, ToldUpTo
<1>19. ASSUME NEW s \in Requests
       PROVE  OneRow(s)' /\ OldIsTold(s)'
  <2>1. CASE s = r
    BY <1>8, <1>11, <2>1 DEF OneRow, OldIsTold
  <2>2. CASE s # r
    <3>1. OneRow(s) /\ OldIsTold(s)
      BY DEF TrailInv
    <3>2. req'[s].old = req[s].old /\ req'[s].kind = req[s].kind /\ req'[s].pc = req[s].pc
          /\ RowsOf(s)' = RowsOf(s)
      BY <1>7, <1>11, <2>2
    <3>3. OneRow(s)'
      BY <1>1, <3>1, <3>2 DEF OneRow
    <3>4. OldIsTold(s)'
      BY <1>1, <1>13, <1>14, <1>15, <3>1, <3>2, ToldFrame
    <3> QED
      BY <3>3, <3>4
  <2> QED
    BY <2>1, <2>2
<1> QED
  BY <1>10, <1>17, <1>18, <1>19 DEF TrailInv

LEMMA Append2LogTrail ==
  ASSUME RequestsInv, TrailInv, NEW r \in Requests, Append2Log(r) PROVE TrailInv'
<1> DEFINE status == IF req[r].failed THEN "FAILED" ELSE "SUCCESS"
<1> DEFINE pc == IF req[r].kind = "setting" THEN "update" ELSE "commit"
<1> DEFINE row == [by |-> r, status |-> status, old |-> req[r].old, state |-> "open"]
<1> DEFINE n == Len(trail) + 1
<1>1. /\ setting' = setting /\ req[r].pc = "append" /\ TypeOK /\ RequestInv(r)
      /\ trail' = Append(trail, row) /\ Goto(r, pc)
  BY DEF Append2Log, Append2Trail, RequestsInv
<1>2. pc \in PCs /\ pc \in {"update", "commit"}
  BY DEF PCs, Statements
<1>3. row.by = r /\ row.old = req[r].old /\ row.state = "open"
  OBVIOUS
<1> HIDE DEF row, pc
<1>4. /\ \A s \in Requests \ {r} : req'[s] = req[s]
      /\ req'[r].pc = pc /\ req'[r].kind = req[r].kind /\ req'[r].met = req[r].met
      /\ req'[r].old = req[r].old
  BY <1>1, <1>2, GotoEffect
<1>5. \A s \in Requests : KeptUpdate(s) /\ KeptRequest(s)
  BY <1>1, <1>2, <1>4 DEF KeptUpdate, KeptRequest
<1>6. /\ DOMAIN trail' = DOMAIN trail \cup {n} /\ trail'[n] = row
      /\ \A i \in DOMAIN trail : trail'[i] = trail[i] /\ i \in Nat /\ i < n
      /\ n \notin DOMAIN trail /\ n \in Nat
  <2>1. trail \in Seq(AuditRow) /\ DOMAIN trail = 1..Len(trail) /\ Len(trail) \in Nat
    BY <1>1, TrailType
  <2>2. DOMAIN trail' = 1..n /\ trail'[n] = row /\ \A i \in DOMAIN trail : trail'[i] = trail[i]
    BY <1>1, <2>1
  <2> QED
    BY <2>1, <2>2
<1> HIDE DEF n
<1>7. \A i \in DOMAIN trail : trail[i].by \in Requests
  BY <1>1, TrailType
<1>8. SettingRows' = SettingRows /\ SettingRows \subseteq DOMAIN trail
  <2>1. Committed' = Committed /\ Committed \subseteq DOMAIN trail
    BY <1>3, <1>6 DEF Committed
  <2>2. \A i \in Committed : req'[trail'[i].by].kind = req[trail[i].by].kind
    BY <1>5, <1>6, <1>7, <2>1 DEF KeptUpdate
  <2> QED
    BY <2>1, <2>2 DEF SettingRows
<1>9. /\ RowsOf(r) = {} /\ RowsOf(r)' = {n}
      /\ \A s \in Requests \ {r} : RowsOf(s)' = RowsOf(s) /\ RowsOf(s) \subseteq DOMAIN trail
  <2>1. RowsOf(r) = {}
    BY <1>1 DEF RequestInv, RowsFollow
  <2> QED
    BY <1>3, <1>6, <2>1 DEF RowsOf
<1>10. MeetingsAreMutual'
  BY <1>5, MeetingsKept
<1>11. RowsInOrder'
  <2>1. ASSUME NEW i \in DOMAIN trail', NEW j \in DOMAIN trail', i < j,
               trail'[i].by # trail'[j].by, req'[trail'[i].by].kind = "setting",
               req'[trail'[j].by].kind = "setting", trail'[j].by \notin req'[trail'[i].by].met
        PROVE  req'[trail'[i].by].pc = "ended"
    <3>1. i \in DOMAIN trail
      BY <1>6, <2>1
    <3>2. PICK s \in Requests : s = trail[i].by
      BY <1>7, <3>1
    <3>3. trail'[i].by = s /\ req'[s].met = req[s].met /\ req'[s].kind = req[s].kind
          /\ (req[s].pc = "ended" => req'[s].pc = "ended")
      BY <1>5, <1>6, <3>1, <3>2 DEF KeptUpdate
    <3>4. CASE j \in DOMAIN trail
      <4>1. PICK t \in Requests : t = trail[j].by
        BY <1>7, <3>4
      <4>2. trail'[j].by = t /\ req'[t].kind = req[t].kind
        BY <1>5, <1>6, <3>4, <4>1 DEF KeptUpdate
      <4>3. req[s].pc = "ended"
        BY <2>1, <3>1, <3>2, <3>3, <3>4, <4>1, <4>2 DEF TrailInv, RowsInOrder
      <4> QED
        BY <3>3, <4>3
    <3>5. CASE j = n
      <4>1. trail'[j].by = r /\ req[r].kind = "setting"
        BY <1>3, <1>4, <1>6, <2>1, <3>5
      <4>2. r \in Updating
        BY <1>1, <4>1 DEF Updating
      <4>3. s # r /\ req[s].kind = "setting" /\ r \notin req[s].met
        BY <2>1, <3>3, <4>1
      <4>4. s \notin Updating
        BY <4>2, <4>3 DEF TrailInv, MeetingsAreMutual
      <4> QED
        BY <3>3, <4>3, <4>4 DEF Updating
    <3> QED
      BY <1>6, <3>4, <3>5
  <2> QED
    BY <2>1 DEF RowsInOrder
<1>12. \A k \in SettingRows : k \in SettingRows' /\ trail'[k].by = trail[k].by
  BY <1>6, <1>8
<1>13. \A s \in Requests : req[s].met \subseteq req'[s].met
  BY <1>5 DEF KeptUpdate
<1>14. \A w \in Values, j \in SettingRows : ToldUpTo(j, w) => ToldUpTo(j, w)'
  BY <1>1, <1>12, <1>13, ToldGrows
<1>15. SettingIsTold'
  <2>1. PICK w \in Values : setting = w
    BY <1>1 DEF TypeOK
  <2>2. /\ w # Seed => \E j \in SettingRows' : trail'[j].by = w
        /\ \A j \in SettingRows' : ToldUpTo(j, w)'
    BY <1>8, <1>12, <1>14, <2>1 DEF TrailInv, SettingIsTold
  <2> QED
    BY <1>1, <2>1, <2>2 DEF SettingIsTold, ToldUpTo
<1>16. ASSUME NEW s \in Requests \ {r}
       PROVE  OneRow(s)' /\ OldIsTold(s)'
  <2>1. OneRow(s) /\ OldIsTold(s) /\ RowsOf(s)' = RowsOf(s) /\ RowsOf(s) \subseteq DOMAIN trail
    BY <1>9 DEF TrailInv
  <2>2. req'[s] = req[s]
    BY <1>4
  <2>3. OneRow(s)'
    BY <1>6, <2>1, <2>2 DEF OneRow
  <2>4. OldIsTold(s)'
    BY <1>1, <1>8, <1>12, <1>13, <2>1, <2>2, ToldFrame
  <2> QED
    BY <2>3, <2>4
<1>17. OneRow(r)'
  BY <1>3, <1>4, <1>6, <1>9 DEF OneRow
<1>18. OldIsTold(r)'
  <2>1. PICK w \in Values : req[r].old = w
    BY <1>1, RequestType
  <2>2. SUFFICES ASSUME req[r].kind = "setting"
                 PROVE  /\ w # Seed => \E k \in SettingRows' : trail'[k].by = w
                        /\ \A k \in SettingRows' : k < n
                        /\ \A j \in SettingRows' :
                             trail'[j].by \in req'[r].met \/ ToldUpTo(j, w)'
    BY <1>4, <1>9, <2>1 DEF OldIsTold, ToldUpTo
  <2>3. /\ w # Seed => \E k \in SettingRows : trail[k].by = w
        /\ \A j \in SettingRows : trail[j].by \in req[r].met \/ ToldUpTo(j, w)
    BY <1>1, <1>9, <2>1, <2>2 DEF TrailInv, OldIsTold
  <2>4. \A k \in SettingRows' : k < n
    BY <1>6, <1>8
  <2> QED
    BY <1>4, <1>8, <1>12, <1>14, <2>3, <2>4
<1> QED
  BY <1>10, <1>11, <1>15, <1>16, <1>17, <1>18 DEF TrailInv

LEMMA CommitTrail ==
  ASSUME RequestsInv, TrailInv, NEW r \in Requests, Commit(r) PROVE TrailInv'
<1>1. /\ req[r].pc = "commit" /\ TypeOK /\ RequestInv(r) /\ EndRows(r, "committed")
  BY DEF Commit, CommitRows, RequestsInv
<1>2. KeptTrail /\ Committed' = Committed \cup OpenRows(r)
  BY <1>1, EndRowsTrail
<1>3. \A i \in DOMAIN trail : i \in Nat /\ trail[i].by \in Requests /\ trail[i].by # Seed
  BY <1>1, SettingRowsType
<1>4. OpenRows(r) = RowsOf(r) /\ RowsOf(r) # {} /\ RowsOf(r) \subseteq DOMAIN trail
  BY <1>1 DEF RequestInv, RowsFollow, RowsOf, OpenRows
<1>5. Committed \subseteq DOMAIN trail /\ Committed \cap RowsOf(r) = {}
  BY <1>4 DEF Committed, OpenRows
<1>6. CASE req[r].kind # "setting"
  <2>1. KeptRequest(r) /\ (\A s \in Requests \ {r} : req'[s] = req[s]) /\ setting' = setting
    <3>1. setting' = setting /\ Answer(r, IF req[r].failed THEN "error" ELSE "ok")
      BY <1>6 DEF Commit
    <3>2. (IF req[r].failed THEN "error" ELSE "ok") \in {"error", "ok"}
      OBVIOUS
    <3> QED
      BY <1>1, <3>1, <3>2, AnswerKept
  <2>2. \A s \in Requests : KeptRequest(s) /\ KeptUpdate(s)
    BY <2>1 DEF KeptRequest, KeptUpdate
  <2>3. \A i \in DOMAIN trail : /\ trail'[i].by = trail[i].by
                                /\ req'[trail[i].by].kind = req[trail[i].by].kind
    BY <1>2, <1>3, <2>2 DEF KeptTrail, KeptUpdate
  <2>4. \A i \in RowsOf(r) : trail[i].by = r
    BY DEF RowsOf
  <2>5. SettingRows' = SettingRows
    BY <1>2, <1>4, <1>5, <1>6, <2>3, <2>4 DEF SettingRows
  <2> QED
    BY <1>1, <1>2, <2>1, <2>2, <2>5, TrailFrame
<1>7. CASE req[r].kind = "setting"
  <2>1. setting' = r /\ req' = [req EXCEPT ![r].pc = "refresh", ![r].changed = TRUE]
    BY <1>7 DEF Commit
  <2>2. /\ \A s \in Requests \ {r} : req'[s] = req[s]
        /\ req'[r].pc = "refresh" /\ req'[r].kind = req[r].kind /\ req'[r].met = req[r].met
        /\ req'[r].old = req[r].old
    <3>1. "refresh" \in PCs /\ TRUE \in BOOLEAN
      BY DEF PCs, Statements
    <3> QED
      BY <1>1, <2>1, <3>1, ChangedEffect
  <2>3. \A s \in Requests : KeptRequest(s) /\ KeptUpdate(s)
    BY <1>1, <2>2 DEF KeptRequest, KeptUpdate
  <2>4. PICK x \in DOMAIN trail : RowsOf(r) = {x} /\ trail[x].by = r
    <3>1. PICK x \in RowsOf(r) : TRUE
      BY <1>4
    <3>2. \A i \in RowsOf(r) : i = x
      BY <3>1 DEF TrailInv, OneRow
    <3>3. trail[x].by = r /\ x \in DOMAIN trail
      BY <3>1 DEF RowsOf
    <3> QED
      BY <3>1, <3>2, <3>3
  <2>5. \A i \in DOMAIN trail : /\ trail'[i].by = trail[i].by
                                /\ req'[trail[i].by].kind = req[trail[i].by].kind
    BY <1>2, <1>3, <2>3 DEF KeptTrail, KeptUpdate
  <2>6. SettingRows' = SettingRows \cup {x} /\ SettingRows \subseteq DOMAIN trail
        /\ x \notin SettingRows
    BY <1>2, <1>4, <1>5, <1>7, <2>4, <2>5 DEF SettingRows
  <2>7. \A k \in SettingRows : trail[k].by # r
    BY <2>4, <2>6 DEF RowsOf
  <2>8. MeetingsAreMutual' /\ RowsInOrder' /\ \A s \in Requests : OneRow(s)'
    BY <1>1, <1>2, <2>3, UpdatesFrame
  <2>9. \A k \in SettingRows : k \in SettingRows' /\ trail'[k].by = trail[k].by
    BY <2>5, <2>6
  <2>10. \A s \in Requests : req'[s].met = req[s].met /\ req'[s].kind = req[s].kind
    BY <2>3 DEF KeptUpdate
  <2>11. \A w \in Values, j \in SettingRows : ToldUpTo(j, w) => ToldUpTo(j, w)'
    BY <1>1, <2>9, <2>10, ToldGrows
  <2>12. SettingIsTold'
    <3>1. trail'[x].by = r
      BY <2>4, <2>5
    <3>2. ASSUME NEW j \in SettingRows'
          PROVE  j <= x \/ trail'[j].by \in req'[r].met
      <4>1. CASE j = x
        BY <1>3, <4>1
      <4>2. CASE j \in SettingRows /\ x < j
        <5>1. j \in DOMAIN trail /\ req[trail[j].by].kind = "setting" /\ trail[j].by # r
          BY <2>6, <2>7, <4>2 DEF SettingRows
        <5>2. trail[j].by \in req[r].met
          BY <1>1, <1>7, <2>4, <4>2, <5>1 DEF TrailInv, RowsInOrder
        <5> QED
          BY <2>5, <2>10, <5>1, <5>2
      <4> QED
        BY <1>3, <2>6, <4>1, <4>2
    <3> QED
      BY <2>1, <2>6, <3>1, <3>2 DEF SettingIsTold, ToldUpTo
  <2>13. ASSUME NEW s \in Requests
         PROVE  OldIsTold(s)'
    <3>1. PICK w \in Values : req[s].old = w
      BY <1>1, RequestType
    <3>2. req'[s].old = w /\ RowsOf(s)' = RowsOf(s)
          /\ (req[s].kind = "setting" /\ req'[s].pc = "append" => req[s].pc = "append")
      BY <1>2, <2>3, <3>1, RowsKept DEF KeptRequest
    <3>3. SUFFICES ASSUME req[s].kind = "setting", req[s].pc = "append" \/ RowsOf(s) # {}
                   PROVE  /\ w # Seed => \E k \in SettingRows' : trail'[k].by = w
                          /\ \A k \in SettingRows', i \in RowsOf(s) : trail'[k].by = w => k < i
                          /\ \A j \in SettingRows' :
                               (\A i \in RowsOf(s) : j < i) =>
                                 trail'[j].by \in req'[s].met \/ ToldUpTo(j, w)'
      BY <2>10, <3>2 DEF OldIsTold, ToldUpTo
    <3>4. /\ w # Seed => \E k \in SettingRows : trail[k].by = w
          /\ \A k \in SettingRows, i \in RowsOf(s) : trail[k].by = w => k < i
          /\ \A j \in SettingRows :
               (\A i \in RowsOf(s) : j < i) => trail[j].by \in req[s].met \/ ToldUpTo(j, w)
      BY <3>1, <3>3 DEF TrailInv, OldIsTold
    <3>5. w # r
      BY <1>3, <2>4, <2>7, <3>4
    <3>6. ASSUME \A i \in RowsOf(s) : x < i
          PROVE  r \in req[s].met
      <4>1. s # r
        BY <1>3, <2>4, <3>6
      <4>2. CASE req[s].pc = "append"
        <5>1. s \in Updating /\ r \in Updating
          BY <1>1, <1>7, <3>3, <4>2 DEF Updating
        <5> QED
          BY <4>1, <5>1 DEF TrailInv, MeetingsAreMutual
      <4>3. ASSUME NEW i \in RowsOf(s)
            PROVE  r \in req[s].met
        <5>1. i \in DOMAIN trail /\ trail[i].by = s /\ x < i
          BY <3>6, <4>3 DEF RowsOf
        <5>2. s \in req[r].met
          BY <1>1, <1>7, <2>4, <3>3, <4>1, <5>1 DEF TrailInv, RowsInOrder
        <5> QED
          BY <5>2 DEF TrailInv, MeetingsAreMutual
      <4> QED
        BY <3>3, <4>2, <4>3
    <3>7. /\ w # Seed => \E k \in SettingRows' : trail'[k].by = w
          /\ \A k \in SettingRows', i \in RowsOf(s) : trail'[k].by = w => k < i
      BY <2>4, <2>5, <2>6, <2>9, <3>4, <3>5
    <3>8. \A j \in SettingRows' :
            (\A i \in RowsOf(s) : j < i) => trail'[j].by \in req'[s].met \/ ToldUpTo(j, w)'
      BY <2>4, <2>5, <2>6, <2>9, <2>10, <2>11, <3>4, <3>6
    <3> QED
      BY <3>7, <3>8
  <2> QED
    BY <2>8, <2>12, <2>13 DEF TrailInv
<1> QED
  BY <1>6, <1>7

LEMMA TrailInit == Init => TrailInv
<1> SUFFICES ASSUME Init PROVE TrailInv
  OBVIOUS
<1>1. trail = <<>> /\ setting = Seed /\ \A r \in Requests : req[r] = NewRequest
  BY DEF Init, AuditInit
<1>2. DOMAIN trail = {} /\ SettingRows = {} /\ \A r : RowsOf(r) = {}
  BY <1>1 DEF SettingRows, Committed, RowsOf
<1>3. \A r \in Requests : req[r].kind = "none" /\ req[r].met = {}
  BY <1>1 DEF NewRequest
<1>4. MeetingsAreMutual
  BY <1>3 DEF MeetingsAreMutual, Updating
<1>5. \A r \in Requests : OneRow(r) /\ OldIsTold(r)
  BY <1>2, <1>3 DEF OneRow, OldIsTold
<1>6. RowsInOrder /\ SettingIsTold
  BY <1>1, <1>2 DEF RowsInOrder, SettingIsTold
<1> QED
  BY <1>4, <1>5, <1>6 DEF TrailInv

LEMMA TrailNext ==
  ASSUME RequestsInv, TrailInv, [Next]_vars PROVE TrailInv'
<1>1. ASSUME UNCHANGED <<req, setting, trail>>
      PROVE  TrailInv'
  <2>1. TypeOK /\ KeptTrail /\ SettingRows' = SettingRows
    BY <1>1 DEF RequestsInv, KeptTrail, SettingRows, Committed
  <2>2. \A s \in Requests : KeptRequest(s) /\ KeptUpdate(s)
    BY <1>1 DEF KeptRequest, KeptUpdate
  <2> QED
    BY <1>1, <2>1, <2>2, TrailFrame
<1>2. CASE UNCHANGED vars \/ Read
  BY <1>1, <1>2 DEF vars, Read, ReadPage, Restart
<1>3. ASSUME NEW r \in Requests, Progress(r)
      PROVE  TrailInv'
  <2>1. CASE Connect(r)
    BY <1>1, <2>1 DEF Connect
  <2>2. CASE TimedOut(r)
    BY <2>2, RaisesKept, TrailGoesOn DEF TimedOut
  <2>3. CASE \/ Authenticate(r) \/ Dispatch(r) \/ Close(r) \/ Delete(r) \/ Update(r)
             \/ CommitDoomed(r) \/ Refresh(r)
    BY <2>3, HandlerKept, TrailGoesOn
  <2>4. CASE Train(r) \/ Insert(r)
    BY <2>4, TrainKept, InsertKept, TrailGoesOn
  <2> QED
    BY <1>3, <2>1, <2>2, <2>3, <2>4, SelectTrail, Append2LogTrail, CommitTrail DEF Progress
<1>4. ASSUME NEW r \in Requests, Failure(r)
      PROVE  TrailInv'
  <2>1. CASE StatementFails(r)
    BY <2>1, RaisesKept, TrailRolledBack DEF StatementFails
  <2>2. CASE CommitFails(r)
    <3>1. req[r].pc = "commit" /\ RollbackRows(r) /\ Answer(r, "error") /\ setting' = setting
      BY <2>2 DEF CommitFails
    <3> QED
      BY <3>1, AnswerKept, TrailRolledBack
  <2> QED
    BY <1>4, <2>1, <2>2 DEF Failure
<1> QED
  BY <1>2, <1>3, <1>4, ArriveTrail DEF Next

LEMMA TrailTells ==
  ASSUME RequestsInv, TrailInv PROVE TrailTellsTheSetting
<1>1. TypeOK
  BY DEF RequestsInv
<1>2. /\ \A i \in DOMAIN trail : i \in Nat /\ trail[i].by \in Requests /\ trail[i].by # Seed
      /\ SettingRows \subseteq DOMAIN trail
      /\ \A i \in SettingRows : req[trail[i].by].kind = "setting"
  BY <1>1, SettingRowsType
<1>3. SUFFICES ASSUME NEW i \in SettingRows
               PROVE  LET r == trail[i].by
                          before == {j \in SettingRows : j < i}
                          last == IF before = {} THEN Seed
                                  ELSE trail[CHOOSE j \in before : \A k \in before : k <= j].by
                      IN  /\ (\A j \in SettingRows : j <= i) =>
                               setting = r \/ Overlapped(setting, r)
                          /\ \/ trail[i].old = last
                             \/ Overlapped(last, r)
                             \/ Overlapped(last, trail[i].old)
  BY DEF TrailTellsTheSetting
<1> DEFINE r == trail[i].by
<1> DEFINE before == {j \in SettingRows : j < i}
<1> DEFINE newest == CHOOSE j \in before : \A k \in before : k <= j
<1> DEFINE last == IF before = {} THEN Seed ELSE trail[newest].by
<1>4. r \in Requests /\ r # Seed /\ req[r].kind = "setting" /\ i \in DOMAIN trail
  BY <1>2, <1>3
<1>5. RowsOf(r) = {i} /\ trail[i].old = req[r].old
  <2>1. i \in RowsOf(r)
    BY <1>4 DEF RowsOf
  <2>2. \A j \in RowsOf(r) : i = j /\ trail[i].old = req[r].old
    BY <1>4, <2>1 DEF TrailInv, OneRow
  <2> QED
    BY <2>1, <2>2
<1>6. ASSUME \A j \in SettingRows : j <= i
      PROVE  setting = r \/ Overlapped(setting, r)
  <2>1. PICK k \in SettingRows : trail[k].by = setting /\ (i <= k \/ r \in req[setting].met)
    BY <1>3 DEF TrailInv, SettingIsTold, ToldUpTo
  <2>2. setting \in Requests /\ setting # Seed
    BY <1>2, <2>1
  <2>3. CASE i <= k
    <3>1. i = k
      BY <1>2, <1>6, <2>1, <2>3
    <3> QED
      BY <2>1, <3>1
  <2>4. CASE r \in req[setting].met
    BY <1>4, <2>2, <2>4 DEF TrailInv, MeetingsAreMutual, Overlapped
  <2> QED
    BY <2>1, <2>3, <2>4
<1>7. \/ trail[i].old = last \/ Overlapped(last, r) \/ Overlapped(last, trail[i].old)
  <2>1. PICK w \in Values : req[r].old = w
    BY <1>1, <1>4, RequestType
  <2>2. /\ w # Seed => \E k \in SettingRows : trail[k].by = w
        /\ \A k \in SettingRows : trail[k].by = w => k < i
        /\ \A j \in SettingRows : j < i => trail[j].by \in req[r].met \/ ToldUpTo(j, w)
    BY <1>4, <1>5, <2>1 DEF TrailInv, OldIsTold
  <2>3. CASE before = {}
    BY <1>5, <2>1, <2>2, <2>3
  <2>4. CASE before # {}
    <3>1. before \subseteq 1..Len(trail) /\ Len(trail) \in Nat
      BY <1>1, <1>2, TrailType
    <3>2. \E j \in before : \A k \in before : k <= j
      BY <2>4, <3>1, GreatestBounded
    <3>3. newest \in before /\ \A k \in before : k <= newest
      BY <3>2
    <3>4. last = trail[newest].by
      BY <2>4
    <3> HIDE DEF newest, last
    <3>5. newest \in SettingRows /\ newest < i /\ newest \in Nat
      BY <1>2, <3>3
    <3>6. last \in Requests /\ last # Seed
      BY <1>2, <3>4, <3>5
    <3>7. CASE last \in req[r].met
      BY <1>4, <3>6, <3>7 DEF Overlapped
    <3>8. CASE ToldUpTo(newest, w)
      <4>1. PICK k \in SettingRows : trail[k].by = w /\ (newest <= k \/ last \in req[w].met)
        BY <3>4, <3>8 DEF ToldUpTo
      <4>2. k \in Nat /\ k < i /\ w # Seed
        BY <1>2, <2>2, <4>1
      <4>3. CASE newest <= k
        <5>1. k <= newest
          BY <3>3, <4>1, <4>2
        <5>2. k = newest
          BY <3>5, <4>2, <4>3, <5>1
        <5> QED
          BY <1>5, <2>1, <3>4, <4>1, <5>2
      <4>4. CASE last \in req[w].met
        BY <1>5, <2>1, <3>6, <4>2, <4>4 DEF Overlapped
      <4> QED
        BY <4>1, <4>3, <4>4
    <3> QED
      BY <2>2, <3>4, <3>5, <3>7, <3>8
  <2> QED
    BY <2>3, <2>4
<1> QED
  BY <1>6, <1>7

\* What explains the trail, for any number of updates: the rows are in the order of the
\* updates, but for those that were in flight together.
THEOREM TrailInvariance == Spec => []TrailInv
<1>1. RequestsInv /\ TrailInv /\ [Next]_vars => TrailInv'
  BY TrailNext
<1> QED
  BY <1>1, TrailInit, RequestsInvariance, PTL DEF Spec

\* update_setting of api/routers/admin_settings.py and the audit log: whatever updates
\* overlap and whichever fail, the newest row tells the setting and each row the value
\* that it replaced, or else the update that comes between overlapped it.
THEOREM TrailTellsTheSettingHolds == Spec => []TrailTellsTheSetting
<1>1. RequestsInv /\ TrailInv => TrailTellsTheSetting
  BY TrailTells
<1> QED
  BY <1>1, RequestsInvariance, TrailInvariance, PTL

-----------------------------------------------------------------------------
(* What an update is answered *)

KeptAnswer(s) ==
  /\ req'[s].kind = req[s].kind /\ req[s].met \subseteq req'[s].met
  /\ req'[s].told = req[s].told
  /\ req'[s].pc = "refresh" => req[s].pc = "refresh"
  /\ req'[s].kind = "setting" /\ req'[s].answer = "ok" => req[s].answer = "ok"

LEMMA AnswersFrame ==
  ASSUME AnswersInv, \A s \in Requests : KeptAnswer(s), setting' = setting
  PROVE  AnswersInv'
BY DEF AnswersInv, KeptAnswer

LEMMA RaisesAnswer ==
  ASSUME TypeOK, NEW r \in Requests, Raises(r)
  PROVE  \A s \in Requests : KeptAnswer(s)
<1>1. "doomed" \in PCs /\ "append" \in PCs /\ TRUE \in BOOLEAN
  BY DEF PCs, Statements
<1>2. CASE Goto(r, "doomed")
  BY <1>1, <1>2, GotoEffect DEF KeptAnswer
<1>3. CASE req' = [req EXCEPT ![r].pc = "append", ![r].failed = TRUE]
  BY <1>1, <1>3, FailedEffect DEF KeptAnswer
<1>4. CASE Answer(r, "error")
  BY <1>4, AnswerEffect DEF KeptAnswer
<1> QED
  BY <1>2, <1>3, <1>4 DEF Raises

\* Steps of which the handler of r goes on to another statement, or fails.
LEMMA GotoAnswer ==
  ASSUME TypeOK, NEW r \in Requests,
         \/ Authenticate(r) \/ Dispatch(r) \/ Close(r) \/ Delete(r) \/ Update(r)
         \/ Append2Log(r) \/ CommitDoomed(r) \/ CommitFails(r)
  PROVE  \A s \in Requests : KeptAnswer(s)
<1> DEFINE targets == {"dispatch", "ended", "delete", "train", "select", "insert", "commit",
                       "update", "append"}
<1>1. targets \subseteq PCs /\ TRUE \in BOOLEAN
  BY DEF PCs, Statements
<1>2. FirstStep(r) \in targets
  BY DEF FirstStep
<1>3. ASSUME NEW pc \in targets, Goto(r, pc)
      PROVE  \A s \in Requests : KeptAnswer(s)
  BY <1>1, <1>3, GotoEffect DEF KeptAnswer
<1>4. ASSUME Answer(r, "error")
      PROVE  \A s \in Requests : KeptAnswer(s)
  BY <1>4, AnswerEffect DEF KeptAnswer
<1>5. ASSUME req' = [req EXCEPT ![r].pc = "append", ![r].failed = TRUE]
      PROVE  \A s \in Requests : KeptAnswer(s)
  BY <1>1, <1>5, FailedEffect DEF KeptAnswer
<1> QED
  BY <1>2, <1>3, <1>4, <1>5
  DEF Authenticate, Dispatch, Close, Delete, Update, Append2Log, CommitDoomed, CommitFails

\* Steps that bring the handler of r a result.
LEMMA ResultAnswer ==
  ASSUME TypeOK, NEW r \in Requests, Train(r) \/ Insert(r) \/ Select(r)
  PROVE  \A s \in Requests : KeptAnswer(s)
<1>1. "select" \in PCs /\ "append" \in PCs /\ setting \in Values
  BY DEF PCs, Statements, TypeOK
<1>2. ASSUME NEW pc \in {"select", "append"}, NEW changed \in BOOLEAN, NEW failed \in BOOLEAN,
             req' = [req EXCEPT ![r].pc = pc, ![r].changed = changed, ![r].failed = failed]
      PROVE  \A s \in Requests : KeptAnswer(s)
  <2>1. pc \in PCs /\ pc # "refresh"
    BY <1>1
  <2>2. /\ \A s \in Requests \ {r} : req'[s] = req[s]
        /\ req'[r].pc = pc /\ req'[r].kind = req[r].kind /\ req'[r].met = req[r].met
        /\ req'[r].told = req[r].told /\ req'[r].answer = req[r].answer
    BY <1>2, <2>1, ResultEffect, Zenon
  <2> QED
    BY <2>1, <2>2 DEF KeptAnswer
<1>3. CASE Train(r)
  <2>1. PICK ok \in BOOLEAN, changed \in BOOLEAN :
          req' = [req EXCEPT ![r].pc = IF ok THEN "select" ELSE "append",
                             ![r].changed = changed, ![r].failed = ~ok]
    BY <1>3 DEF Train
  <2>2. (~ok) \in BOOLEAN /\ (IF ok THEN "select" ELSE "append") \in {"select", "append"}
    OBVIOUS
  <2> QED
    BY <1>2, <2>1, <2>2
<1>4. CASE Insert(r)
  <2>1. PICK ok \in BOOLEAN :
          req' = [req EXCEPT ![r].pc = "append", ![r].changed = ok, ![r].failed = ~ok]
    BY <1>4 DEF Insert
  <2>2. (~ok) \in BOOLEAN
    OBVIOUS
  <2> QED
    BY <1>2, <2>1, <2>2
<1>5. CASE Select(r)
  <2>1. CASE req[r].kind = "read" /\ Answer(r, "ok")
    BY <2>1, AnswerEffect DEF KeptAnswer
  <2>2. CASE req' = [req EXCEPT ![r].pc = "append", ![r].old = setting]
    BY <1>1, <2>2, OldEffect DEF KeptAnswer
  <2>3. CASE \E found \in BOOLEAN :
               req' = [req EXCEPT ![r].pc = "append", ![r].failed = ~found]
    <3>1. PICK found \in BOOLEAN :
            req' = [req EXCEPT ![r].pc = "append", ![r].failed = ~found]
      BY <2>3
    <3>2. (~found) \in BOOLEAN
      OBVIOUS
    <3>3. /\ \A s \in Requests \ {r} : req'[s] = req[s]
          /\ req'[r].pc = "append" /\ req'[r].kind = req[r].kind
          /\ req'[r].met = req[r].met /\ req'[r].told = req[r].told
          /\ req'[r].answer = req[r].answer
      BY <1>1, <3>1, <3>2, FailedEffect, Zenon
    <3> QED
      BY <3>3 DEF KeptAnswer
  <2> QED
    BY <1>5, <2>1, <2>2, <2>3 DEF Select
<1> QED
  BY <1>3, <1>4, <1>5

\* A commit is known to the updates that have committed and not yet read again.
LEMMA CommitAnswer ==
  ASSUME RequestsInv, TrailInv, AnswersInv, NEW r \in Requests, Commit(r)
  PROVE  AnswersInv'
<1>1. TypeOK /\ req[r].pc = "commit" /\ RequestInv(r) /\ "refresh" \in PCs /\ TRUE \in BOOLEAN
  BY DEF Commit, RequestsInv, PCs, Statements
<1>2. CASE req[r].kind = "setting"
  <2>1. /\ req' = [req EXCEPT ![r].pc = "refresh", ![r].changed = TRUE]
        /\ setting' = r
    BY <1>2 DEF Commit
  <2>2. /\ \A s \in Requests \ {r} : req'[s] = req[s]
        /\ req'[r].pc = "refresh" /\ req'[r].answer = req[r].answer
    BY <1>1, <2>1, ChangedEffect
  <2>3. req[r].answer # "ok"
    BY <1>1 DEF RequestInv, AnswersTell
  <2>4. ASSUME NEW s \in Requests \ {r}, req[s].kind = "setting", req[s].pc = "refresh"
        PROVE  r \in req[s].met
    <3>1. r \in Updating /\ s \in Updating
      BY <1>1, <1>2, <2>4 DEF Updating
    <3> QED
      BY <3>1 DEF TrailInv, MeetingsAreMutual
  <2> QED
    BY <2>1, <2>2, <2>3, <2>4 DEF AnswersInv
<1>3. CASE req[r].kind # "setting"
  <2>1. setting' = setting /\ Answer(r, IF req[r].failed THEN "error" ELSE "ok")
    BY <1>3 DEF Commit
  <2>2. (IF req[r].failed THEN "error" ELSE "ok") \in {"none", "ok", "error"}
    OBVIOUS
  <2>3. \A s \in Requests : KeptAnswer(s)
    BY <1>1, <1>3, <2>1, <2>2, AnswerEffect DEF KeptAnswer
  <2> QED
    BY <2>1, <2>3, AnswersFrame
<1> QED
  BY <1>2, <1>3

LEMMA ArriveAnswer ==
  ASSUME RequestsInv, AnswersInv, NEW r \in Requests, Arrive(r)
  PROVE  AnswersInv'
<1>1. PICK k \in Offers[r] :
        /\ setting' = setting
        /\ req' = [s \in Requests |->
             IF s = r THEN [req[r] EXCEPT !.kind = k, !.pc = "user",
                                          !.met = IF k = "setting" THEN Updating ELSE {}]
             ELSE IF s \in (IF k = "setting" THEN Updating ELSE {})
             THEN [req[s] EXCEPT !.met = @ \cup {r}]
             ELSE req[s]]
  BY DEF Arrive
<1>2. \A s \in Requests : req[s] \in Request
  BY DEF RequestsInv, TypeOK
<1>3. req[r].answer # "ok"
  BY DEF Arrive, RequestsInv, RequestInv, AnswersTell
<1>4. req'[r].pc = "user" /\ req'[r].answer # "ok"
  <2>1. req[r] \in Request
    BY <1>2
  <2> QED
    BY <1>1, <1>3, <2>1 DEF Request
<1>5. ASSUME NEW s \in Requests \ {r}
      PROVE  KeptAnswer(s)
  <2>1. req[s] \in Request
    BY <1>2
  <2>2. req'[s] = [req[s] EXCEPT !.met = @ \cup {r}] \/ req'[s] = req[s]
    BY <1>1
  <2> QED
    BY <2>1, <2>2 DEF Request, KeptAnswer
<1> QED
  BY <1>1, <1>4, <1>5 DEF AnswersInv, KeptAnswer

LEMMA AnswersNext ==
  ASSUME RequestsInv, TrailInv, AnswersInv, [Next]_vars
  PROVE  AnswersInv'
<1>1. TypeOK
  BY DEF RequestsInv
<1>2. ASSUME UNCHANGED <<req, setting>>
      PROVE  AnswersInv'
  BY <1>2 DEF AnswersInv
<1>3. ASSUME NEW r \in Requests, Progress(r) \/ Failure(r)
      PROVE  AnswersInv'
  <2>1. CASE Connect(r)
    BY <1>2, <2>1 DEF Connect
  <2>2. CASE TimedOut(r) \/ StatementFails(r)
    BY <1>1, <2>2, RaisesAnswer, AnswersFrame DEF TimedOut, StatementFails
  <2>3. CASE \/ Authenticate(r) \/ Dispatch(r) \/ Close(r) \/ Delete(r) \/ Update(r)
             \/ Append2Log(r) \/ CommitDoomed(r) \/ CommitFails(r)
    <3>1. setting' = setting
      BY <2>3 DEF Authenticate, Dispatch, Close, Delete, Update, Append2Log, CommitDoomed,
                  CommitFails
    <3> QED
      BY <1>1, <2>3, <3>1, GotoAnswer, AnswersFrame
  <2>4. CASE Train(r) \/ Insert(r) \/ Select(r)
    <3>1. setting' = setting
      BY <2>4 DEF Train, Insert, Select
    <3> QED
      BY <1>1, <2>4, <3>1, ResultAnswer, AnswersFrame
  <2>5. CASE Refresh(r)
    BY <1>1, <2>5, RefreshEffect DEF AnswersInv
  <2> QED
    BY <1>3, <2>1, <2>2, <2>3, <2>4, <2>5, CommitAnswer DEF Progress, Failure
<1> QED
  BY <1>2, <1>3, ArriveAnswer DEF Next, Read, vars

\* update_setting of api/routers/admin_settings.py: between the commit and db.refresh only
\* an update that was in flight together with this one can change the setting.
THEOREM AnswersAreCurrentHolds == Spec => []AnswersAreCurrent
<1>1. Init => AnswersInv
  BY DEF Init, NewRequest, AnswersInv
<1>2. RequestsInv /\ TrailInv /\ AnswersInv /\ [Next]_vars => AnswersInv'
  BY AnswersNext
<1>3. AnswersInv => AnswersAreCurrent
  BY DEF AnswersInv, AnswersAreCurrent
<1> QED
  BY <1>1, <1>2, <1>3, RequestsInvariance, TrailInvariance, PTL DEF Spec
=============================================================================
