---------------------------- MODULE MCChallenge -----------------------------
(* Two routes: revisions 1 and 2 follow each other on one, 3 is on another.  *)
EXTENDS Challenge, TLC

CONSTANTS r1, r2, r0

TwoRoutes == (1 :> "a") @@ (2 :> "a") @@ (3 :> "b")
=============================================================================
