\* The quota comes back after the job was completed with the quota comment.
CONSTANTS
    d1 = d1
    d2 = d2
    p1 = p1
    Deliveries = {d1}
    PullRequests = {p1}
    Workers = {w1}
    MaxJobAttempts = 1
    BackoffUnit = 1
    MaxAhead = 1
    MaxTime = 1
    MaxLost = 0
    Cooldown = 1
    PrOf <- OnePr
    TriggerOf <- OneOpened
    Faults = {}
SPECIFICATION FairSpec
PROPERTIES
    QuotaCommentReplaced
