\* Two transactions with three events, one subscription, pages of one row.
SPECIFICATION FairSpec
CONSTANTS
    x = x
    y = y
    hook = hook
    k1 = k1
    k2 = k2
    Writers = {x, y}
    EventTypes = {"published", "superseded", "stale"}
    Announces <- TwoChanges
    Subscriptions = {hook}
    Wanted <- Everything
    Rotations = {k1, k2}
    RotationOf <- OfOne
    FirstSalt = FirstSalt
    Limit = 1
INVARIANTS
    MissedWasUncommitted
    AnnouncedToSubscribers
    HistoryMissesOnlyTies
    SigningSecretKnown
PROPERTY
    EveryEventShown
