---------------------------- MODULE MCChangeFeed ----------------------------
(* A publication that supersedes, a stale mark, and one subscription.        *)
EXTENDS ChangeFeed, TLC

CONSTANTS x, y, hook, k1, k2

TwoChanges == (x :> <<"superseded", "published">>) @@ (y :> <<"stale">>)
Everything == [s \in Subscriptions |-> EventTypes]
OfOne == [k \in Rotations |-> hook]
=============================================================================
