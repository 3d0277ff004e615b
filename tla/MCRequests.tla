----------------------------- MODULE MCRequests -----------------------------
(* A small instance of Requests for TLC. *)
EXTENDS Requests, TLC

CONSTANTS r1, r2, r3

\* Any three settings; the upload next to each of the others.
MCOffers == (r1 :> {"setting", "retrain"}) @@ (r2 :> {"setting", "upload"})
              @@ (r3 :> {"setting", "read"})
=============================================================================
