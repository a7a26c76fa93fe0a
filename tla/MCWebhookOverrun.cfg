\* Two replicas, and a batch that outlives its lease.
SPECIFICATION Spec
CONSTANTS
    d1 = d1
    d2 = d2
    u1 = u1
    u2 = u2
    Deliveries = {d1}
    Subscriptions = {u1}
    SubscriptionOf <- OwnSubscription
    Workers = {w1, w2}
    MaxAttempts = 2
    LeaseTime = 1
    BatchLimit = 2
    Timely = FALSE
    Late = 1
    MaxLost = 1
PROPERTY
    DeliveredIsFinal
