\* Two clients that use the same key, three rows, two sessions, pages of one row.
SPECIFICATION Spec
CONSTANTS
    Clients = {c1, c2}
    IdempotencyKeys = {k}
    Payloads = {p1, p2}
    Rows = {1, 2, 3}
    Sessions = {s1, s2}
    PageSize = 1
    MaxTime = 1
    None = None
SYMMETRY Symmetry
INVARIANTS
    ReceiptsAreTrue
    PassIsComplete
PROPERTIES
    FirstDecisionStands
\* When identifiers are used up, the model stops.
CHECK_DEADLOCK FALSE
