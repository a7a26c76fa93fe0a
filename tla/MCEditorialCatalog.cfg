\* Editors and the worker, no public reader that marks revisions stale.
SPECIFICATION Spec
CONSTANTS
    r1 = r1
    r2 = r2
    r3 = r3
    q1 = q1
    q2 = q2
    NoRev = NoRev
    NoReport = NoReport
    Revisions = {r1, r2, r3}
    Routes = {q1, q2}
    RouteOf <- TwoRoutes
    Editors = {ed1, ed2}
    Readers = {}
    Workers = {w1, w2}
    Reports <- EnoughReports
    Window = 1
    Skew = 0
    BatchLimit = 2
    MaxTime = 1
SYMMETRY EditorSymmetry
INVARIANTS
    VersionCountsEvents
PROPERTIES
    ImplementsCatalog
\* When identifiers and time are used up, the model stops.
CHECK_DEADLOCK FALSE
