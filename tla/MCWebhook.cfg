\* Two handlers, one failure of the store, the provider or the connection.
CONSTANTS
    pushed = pushed
    forged = forged
    created = created
    changed = changed
    deleted = deleted
    c1 = c1
    Deliveries = {pushed, forged, created, changed, deleted}
    MaxJobAttempts = 3
    BackoffUnit = 1
    MaxAhead = 1
    Handlers = {h1, h2}
    EventOf <- Events
    MaxSends = 2
    Replayed = {pushed, created, changed, deleted}
    Customers = {c1}
    Features = {"repos"}
    Limit <- PlanLimit
    Values <- Deltas
    Misconfigured = {}
    MaxFaults = 1
    MaxUnits = 4
    Required = {"DATABASE_URL", "AUTUMN_SECRET_KEY"}
SPECIFICATION FairServerSpec
\* The deliveries of the instance run out.
CHECK_DEADLOCK FALSE
INVARIANTS
    AckedIsQueued
    DriftIsExplained
    OneRoundOfFixes
PROPERTIES
    EventuallyQueued
