\* A client, three keys, and three sessions.
SPECIFICATION Spec
CONSTANTS
    Clients = {c1}
    Keys = {k1, k2, k3}
    Sessions = {s1, s2, s3}
    Limit <- LimitOne
    Keep = 1
    NoClient = NoClient
    NoKey = NoKey
    MaxTime = 2
    MaxCount = 2
SYMMETRY Symmetry
INVARIANTS
    QuotaHolds
    QuotaExact
    OnlyWelcomeCounted
    ReadersNeverDeadlock
PROPERTIES
    ReplacedOnce
    DeactivationRevokesAll
\* When identifiers and time are used up, the model stops.
CHECK_DEADLOCK FALSE
