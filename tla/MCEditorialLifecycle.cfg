\* Everything at once: two editors, a public reader and a worker.
SPECIFICATION Spec
CONSTANTS
    r1 = r1
    r2 = r2
    r3 = r3
    q1 = q1
    q2 = q2
    NoRev = NoRev
    NoReport = NoReport
    Revisions = {r1, r2}
    Routes = {q1}
    RouteOf <- OneRoute
    Editors = {ed1, ed2}
    Readers = {rd}
    Workers = {w}
    Reports <- MixedReports
    Window = 1
    Skew = 1
    BatchLimit = 1
    MaxTime = 2
SYMMETRY Symmetry
INVARIANTS
    TypeOK
    CurrentIsPublished
    FeedTellsHistory
    EvidenceBehindPublication
    NumbersAreContiguous
PROPERTIES
    LifecycleForward
\* When identifiers and time are used up, the model stops.
CHECK_DEADLOCK FALSE
