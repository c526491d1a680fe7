\* One installation is created; its delivery is answered too late and sent again.
CONSTANTS
    pushed = pushed
    forged = forged
    created = created
    changed = changed
    deleted = deleted
    c1 = c1
    Deliveries = {created}
    MaxJobAttempts = 3
    BackoffUnit = 1
    MaxAhead = 1
    Handlers = {h1}
    EventOf <- Events
    MaxSends = 2
    Replayed = {}
    Customers = {c1}
    Features = {"repos"}
    Limit <- PlanLimit
    Values <- Deltas
    Misconfigured = {}
    MaxFaults = 1
    MaxUnits = 4
    Required = {"DATABASE_URL", "AUTUMN_SECRET_KEY"}
SPECIFICATION ServerSpec
\* The deliveries of the instance run out.
CHECK_DEADLOCK FALSE
INVARIANTS
    RetriesAreHarmless
