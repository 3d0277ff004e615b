---------------------------- MODULE OneTimeLinks ----------------------------
(***************************************************************************)
(* What the invitations and the password-reset links both promise, with    *)
(* every operation atomic: a link works once.  It is issued live; it may   *)
(* die, by expiry, by a revocation or because a newer link supersedes it,  *)
(* and stays dead.  A client claims a live link that nobody else has       *)
(* claimed, and then either uses it or lets it go.  A claim outlives the   *)
(* death of its link: what a client has been admitted with it may finish.  *)
(***************************************************************************)
EXTENDS Naturals

CONSTANTS Links, Clients

VARIABLES
  state,   \* of each link
  claims,  \* who has claimed which link: pairs <<client, link>>
  uses     \* how often each link was used

States == {"none", "live", "dead", "used"}

TypeOK ==
  /\ state \in [Links -> States]
  /\ claims \subseteq Clients \X Links
  /\ uses \in [Links -> Nat]

Init ==
  /\ state = [l \in Links |-> "none"]
  /\ claims = {}
  /\ uses = [l \in Links |-> 0]

Claimed(l) == \E c \in Clients : <<c, l>> \in claims

\* A new link, which may supersede others.
Issue(l, S) ==
  /\ state[l] = "none"
  /\ state' = [k \in Links |->
       IF k = l THEN "live" ELSE IF k \in S /\ state[k] = "live" THEN "dead" ELSE state[k]]
  /\ UNCHANGED <<claims, uses>>

Die(l) ==
  /\ state[l] = "live"
  /\ state' = [state EXCEPT ![l] = "dead"]
  /\ UNCHANGED <<claims, uses>>

Claim(c, l) ==
  /\ state[l] = "live" /\ ~Claimed(l)
  /\ claims' = claims \cup {<<c, l>>}
  /\ UNCHANGED <<state, uses>>

Use(c, l) ==
  /\ <<c, l>> \in claims /\ state[l] # "used"
  /\ state' = [state EXCEPT ![l] = "used"]
  /\ uses' = [uses EXCEPT ![l] = @ + 1]
  /\ claims' = claims \ {<<c, l>>}

Release(c, l) ==
  /\ claims' = claims \ {<<c, l>>}
  /\ UNCHANGED <<state, uses>>

Next ==
  \E l \in Links :
     \/ \E S \in SUBSET Links : Issue(l, S)
     \/ Die(l)
     \/ \E c \in Clients : Claim(c, l) \/ Use(c, l) \/ Release(c, l)

Spec == Init /\ [][Next]_<<state, claims, uses>>

\* What follows for a client: one use, ever.
UsedOnce == \A l \in Links : uses[l] = IF state[l] = "used" THEN 1 ELSE 0
=============================================================================
