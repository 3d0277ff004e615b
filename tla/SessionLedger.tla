---------------------------- MODULE SessionLedger ---------------------------
(***************************************************************************)
(* What the refresh-token store promises, with every operation atomic: a   *)
(* session is opened for an active user, rotated while it is live, closed; *)
(* switching an account off or changing its password ends every session of *)
(* the user.  The only exception a caller has to reckon with are `late`    *)
(* sessions, whose request overlapped another one's write: such a session  *)
(* may appear on a stale reading and a revocation may miss it.             *)
(***************************************************************************)
CONSTANTS Users, Tokens, Passwords, None

VARIABLES account, tok

Row(u, parent, late) ==
  [st |-> "live", owner |-> u, next |-> None,
   from |-> parent, late |-> late]

Held(u) == {t \in Tokens : tok[t].st \in {"live", "consumed"} /\ tok[t].owner = u}
Free(n) == tok[n].st = "free"

Init ==
  /\ account \in [Users -> [active : {TRUE}, pw : Passwords]]
  /\ tok = [t \in Tokens |-> [st |-> "free", owner |-> None, next |-> None,
                              from |-> None, late |-> FALSE]]

\* A late login may put back the password it was given (a stale rehash).
Open(u, n, late) ==
  /\ Free(n)
  /\ ~late => account[u].active
  /\ tok' = [tok EXCEPT ![n] = Row(u, None, late)]
  /\ \/ UNCHANGED account
     \/ late /\ \E p \in Passwords : account' = [account EXCEPT ![u].pw = p]

Rotate(u, t, n, late) ==
  /\ Free(n) /\ t \in Held(u)
  /\ ~late => account[u].active /\ tok[t].st = "live"
  /\ tok' = [tok EXCEPT ![t].st = "consumed", ![t].next = n,
                        ![n] = Row(u, t, late)]
  /\ UNCHANGED account

Close(u, t) ==
  /\ t \in Held(u)
  /\ tok' = [tok EXCEPT ![t].st = "consumed"]
  /\ UNCHANGED account

\* Every session that is not late ends; so may late ones.  The account may be
\* left as it is (a replay), switched off, or given another password.
Revoke(u, S) ==
  /\ \A t \in Held(u) : tok[t].late \/ t \in S
  /\ tok' = [t \in Tokens |-> IF t \in S THEN [tok[t] EXCEPT !.st = "gone"] ELSE tok[t]]
  /\ \/ UNCHANGED account
     \/ account' = [account EXCEPT ![u].active = FALSE]
     \/ \E p \in Passwords : account' = [account EXCEPT ![u].pw = p]

Reactivate(u) ==
  /\ account' = [account EXCEPT ![u].active = TRUE]
  /\ UNCHANGED tok

\* A row that is gone stays gone, and rows of other users are left alone.
Revocable(u) == {t \in Tokens : tok[t].owner = u /\ ~Free(t)}

Next ==
  \E u \in Users :
     \/ \E n \in Tokens, late \in BOOLEAN : Open(u, n, late)
     \/ \E t, n \in Tokens, late \in BOOLEAN : Rotate(u, t, n, late)
     \/ \E t \in Tokens : Close(u, t)
     \/ \E S \in SUBSET Revocable(u) : Revoke(u, S)
     \/ Reactivate(u)

Spec == Init /\ [][Next]_<<account, tok>>
=============================================================================
