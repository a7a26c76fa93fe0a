---------------------------- MODULE MCEditorial ----------------------------
(* Small instances of Editorial for TLC.                                    *)
EXTENDS Editorial, TLC

CONSTANTS r1, r2, r3, q1, q2

\* One route: revisions of different routes share no row.
OneRoute == [r \in Revisions |-> q1]

\* Two routes, so that a pass of the worker can take two rows.
TwoRoutes == [r \in Revisions |-> IF r = r3 THEN q2 ELSE q1]

\* Two sessions that satisfy the policy together, and one that repeats the
\* first verifier.
Report(v, e, ok, t) == [verifier |-> v, environment |-> e, passed |-> ok, at |-> t]
EnoughReports == {Report("ann", "web", TRUE, 0), Report("bob", "app", TRUE, 0)}
MixedReports == {Report("ann", "web", TRUE, 0), Report("ann", "app", TRUE, 0),
                 Report("bob", "app", TRUE, 1)}

EditorSymmetry == Permutations(Editors) \cup Permutations(Workers)
Symmetry == Permutations(Editors) \cup Permutations(Revisions)

\* A later state of the system, from which liveness is checked: each route has a
\* published revision with a review date, and r2 is a verified draft.
ReviewDue == 1
PublishedInit ==
    LET published == Revisions \ {r2} IN
    /\ pub = [r \in Revisions |-> IF r \in published THEN "published" ELSE "draft"]
    /\ trust = [r \in Revisions |-> IF r \in published THEN "verified" ELSE "provisional"]
    /\ version = [r \in Revisions |-> IF r \in published THEN 2 ELSE 1]
    /\ number = [r \in Revisions |-> IF r \in published THEN 1 ELSE 2]
    /\ due = [r \in Revisions |-> IF r \in published THEN ReviewDue ELSE 0]
    /\ evidence = [r \in Revisions |-> Reports]
    /\ current = [q \in Routes |-> CHOOSE r \in published : RouteOf[r] = q]
    /\ emitted = [r \in Revisions |-> [e \in EventType |->
                    IF e = "published" /\ r \in published THEN 1 ELSE 0]]
    /\ owed = {}
    /\ now = 0
    /\ tx = [s \in Sessions |-> NoTx]
PublishedSpec == PublishedInit /\ [][Next]_vars /\ Fairness
=============================================================================
