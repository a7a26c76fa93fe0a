\* Two replicas whose batches are worked off within their lease.
SPECIFICATION FairSpec
CONSTANTS
    d1 = d1
    d2 = d2
    u1 = u1
    u2 = u2
    Deliveries = {d1, d2}
    Subscriptions = {u1, u2}
    SubscriptionOf <- OwnSubscription
    Workers = {w1, w2}
    MaxAttempts = 2
    LeaseTime = 1
    BatchLimit = 2
    Timely = TRUE
    Late = 1
    MaxLost = 1
INVARIANTS
    OneHolder
    EverySendCounted
PROPERTIES
    SettledIsFinal
    BackoffRespected
    ImplementsOutbox
    EverySettled
