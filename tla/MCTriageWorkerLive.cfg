\* Liveness of one worker when nothing but the model and the plan fails.
CONSTANTS
    d1 = d1
    d2 = d2
    p1 = p1
    Deliveries = {d1, d2}
    PullRequests = {p1}
    Workers = {w1}
    MaxJobAttempts = 2
    BackoffUnit = 1
    MaxAhead = 2
    MaxTime = 2
    MaxLost = 0
    Cooldown = 2
    PrOf <- SamePr
    TriggerOf <- OpenedThenPushed
    Faults = {}
SPECIFICATION FairSpec
INVARIANTS
    CooldownRespected
    CommentsAdvance
PROPERTIES
    DeadJobSurfaces
    DeliveriesSettle
    ImplementsFairQueue
