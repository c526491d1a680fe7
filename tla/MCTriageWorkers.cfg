\* Two workers on one pull request: the process may end between any two calls.
CONSTANTS
    d1 = d1
    d2 = d2
    p1 = p1
    Deliveries = {d1, d2}
    PullRequests = {p1}
    Workers = {w1, w2}
    MaxJobAttempts = 2
    BackoffUnit = 1
    MaxAhead = 2
    MaxTime = 1
    MaxLost = 1
    Cooldown = 1
    PrOf <- SamePr
    TriggerOf <- OpenedThenPushed
    Faults = {"host", "store", "crash"}
SPECIFICATION Spec
INVARIANTS
    AuditedIsMetered
    ExecutedOnce
    DoneIsAudited
    WorkIsHeld
    EscalationIsLabelled
