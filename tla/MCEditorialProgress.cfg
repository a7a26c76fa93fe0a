\* Every transaction ends and an overdue publication goes stale.
SPECIFICATION PublishedSpec
CONSTANTS
    r1 = r1
    r2 = r2
    r3 = r3
    q1 = q1
    q2 = q2
    NoRev = NoRev
    NoReport = NoReport
    Revisions = {r1, r2, r3}
    Routes = {q1, q2}
    RouteOf <- TwoRoutes
    Editors = {ed1, ed2}
    Readers = {}
    Workers = {w}
    Reports <- EnoughReports
    Window = 1
    Skew = 0
    BatchLimit = 1
    MaxTime = 1
PROPERTIES
    TransactionsEnd
    OverdueGoesStale
\* When identifiers and time are used up, the model stops.
CHECK_DEADLOCK FALSE
