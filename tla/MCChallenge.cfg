\* Two requests for one date, three revisions of two routes.
SPECIFICATION FairSpec
CONSTANTS
    r1 = r1
    r2 = r2
    r0 = r0
    Requests = {r1, r2}
    Earlier = r0
    Revisions = {1, 2, 3}
    Published = {1}
    Routes = {"a", "b"}
    RouteOf <- TwoRoutes
    Seed = 1
    None = None
INVARIANTS
    InsertFindsFree
    ServedWasEligible
PROPERTIES
    ReplacedForCause
    RequestsEnd
\* Requests end, and revisions have had their changes.
CHECK_DEADLOCK FALSE
