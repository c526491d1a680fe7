\* The process ends while it works on a job.
CONSTANTS
    d1 = d1
    d2 = d2
    p1 = p1
    Deliveries = {d1}
    PullRequests = {p1}
    Workers = {w1}
    MaxJobAttempts = 2
    BackoffUnit = 1
    MaxAhead = 1
    MaxTime = 2
    MaxLost = 1
    Cooldown = 1
    PrOf <- OnePr
    TriggerOf <- OneOpened
    Faults = {"crash"}
SPECIFICATION FairSpec
PROPERTIES
    DeliveriesSettle
