------------------------------ MODULE Catalog ------------------------------
(***************************************************************************)
(* What the editorial workflow promises, with every operation atomic: each *)
(* route has at most one current revision, every change of a revision's    *)
(* status raises its status version by one, and a verified label is taken  *)
(* away only from a published revision.  Editorial implements it.          *)
(***************************************************************************)
EXTENDS Naturals

CONSTANTS Revisions, Routes, RouteOf, NoRev

VARIABLES pub, trust, version, current
vars == <<pub, trust, version, current>>

Init ==
    /\ pub = [r \in Revisions |-> "absent"]
    /\ trust = [r \in Revisions |-> "provisional"]
    /\ version = [r \in Revisions |-> 1]
    /\ current = [q \in Routes |-> NoRev]

\* The revisions in R change status together.
Changed(R) == version' = [r \in Revisions |-> IF r \in R THEN version[r] + 1 ELSE version[r]]

Draft(r) ==
    /\ pub[r] = "absent"
    /\ pub' = [pub EXCEPT ![r] = "draft"]
    /\ UNCHANGED <<trust, version, current>>

\* Publication replaces the current revision of the route, if it has one.
Publish(r) ==
    LET old == {current[RouteOf[r]]} \ {NoRev} IN
    /\ pub[r] = "draft"
    /\ pub' = [x \in Revisions |-> IF x = r THEN "published"
                                   ELSE IF x \in old THEN "superseded" ELSE pub[x]]
    /\ trust' = [trust EXCEPT ![r] = "verified"]
    /\ current' = [current EXCEPT ![RouteOf[r]] = r]
    /\ Changed({r} \cup old)

Withdraw(r) ==
    /\ pub[r] = "published"
    /\ pub' = [pub EXCEPT ![r] = "withdrawn"]
    /\ current' = [current EXCEPT ![RouteOf[r]] = NoRev]
    /\ Changed({r})
    /\ UNCHANGED trust

\* A pass of the worker takes the label from several revisions at once.
MarkStale(R) ==
    /\ R # {}
    /\ \A r \in R : pub[r] = "published" /\ trust[r] = "verified"
    /\ trust' = [r \in Revisions |-> IF r \in R THEN "stale" ELSE trust[r]]
    /\ Changed(R)
    /\ UNCHANGED <<pub, current>>

Next == \/ \E r \in Revisions : Draft(r) \/ Publish(r) \/ Withdraw(r)
        \/ \E R \in SUBSET Revisions : MarkStale(R)

Spec == Init /\ [][Next]_vars
=============================================================================
