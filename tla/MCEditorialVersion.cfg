\* A public read marks a revision stale on attributes it loaded earlier.
SPECIFICATION Spec
CONSTANTS
    r1 = r1
    r2 = r2
    r3 = r3
    q1 = q1
    q2 = q2
    NoRev = NoRev
    NoReport = NoReport
    Revisions = {r1, r2}
    Routes = {q1}
    RouteOf <- OneRoute
    Editors = {ed1, ed2}
    Readers = {rd}
    Workers = {w}
    Reports <- EnoughReports
    Window = 1
    Skew = 1
    BatchLimit = 1
    MaxTime = 2
SYMMETRY Symmetry
PROPERTY
    VersionNeverDecreases
CHECK_DEADLOCK FALSE
