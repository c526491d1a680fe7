\* Safety of the queue: two workers, two deliveries, jobs may be abandoned.
CONSTANTS
    Deliveries = {d1, d2}
    Workers = {w1, w2}
    MaxJobAttempts = 3
    BackoffUnit = 1
    MaxAhead = 2
    MaxTime = 6
    MaxLost = 1
    PullRequests = {p1}
    DrainLimit = 1
    MaxUsage = 2
SPECIFICATION StoreSpec
SYMMETRY WorkerSymmetry
INVARIANTS
    TypeOK
    UniqueDelivery
    ExclusiveClaim
    RunningIsAccounted
    AttemptBudget
    BackoffSpacing
PROPERTIES
    TerminalIsFinal
    ImplementsLifecycle
    MirrorsPostgres
