--------------------------- MODULE ConnectionPool ---------------------------
(***************************************************************************)
(* The connection pool of one worker process: create_engine in             *)
(* repository/model_repository.py and the two get_db dependencies          *)
(* (api/main.py, api/dependencies/auth.py).  A session takes a connection  *)
(* with its first statement and gives it back when its transaction ends or *)
(* when it is closed.                                                      *)
(***************************************************************************)
EXTENDS Naturals, FiniteSets

CONSTANTS
  Requests,     \* the requests the worker serves
  PoolSize,     \* connections that are kept; 2 in the code
  MaxOverflow   \* connections opened on top of them; 2 in the code

ASSUME PoolAssumption ==
  /\ IsFiniteSet(Requests)
  /\ PoolSize \in Nat /\ MaxOverflow \in Nat

VARIABLE out  \* the sessions that have a connection checked out: <<request, session>>

\* `auth` is the session of get_current_user.  An /api endpoint has one more of its
\* own, `db`, since its get_db is another function than that of the dependency.
Sessions == {"auth", "db"}

PoolTypeOK == out \subseteq Requests \X Sessions

PoolInit == out = {}

Connected(r, s) == <<r, s>> \in out

Available == Cardinality(out) < PoolSize + MaxOverflow

\* Variant: the overflow is not limited.
CheckoutAlways(r, s) ==
  /\ ~Connected(r, s)
  /\ out' = out \cup {<<r, s>>}

Checkout(r, s) ==
  /\ ~Connected(r, s)
  /\ Available
  /\ out' = out \cup {<<r, s>>}

\* A commit or a rollback returns the connection of its session.
Return(r, s) == out' = out \ {<<r, s>>}

\* `finally: db.close()` of the dependencies.
CloseSessions(r) == out' = out \ ({r} \X Sessions)
=============================================================================
