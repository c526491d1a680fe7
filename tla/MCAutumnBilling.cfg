\* Two tasks call the gate for one customer; the repos feature may be missing.
CONSTANTS
    Callers = {k1, k2}
    Customers = {c1}
    Features = {"pr_triage", "repos"}
    Limit <- PlanLimit
    Values <- Deltas
    Misconfigured = {"repos"}
    MaxFaults = 2
    MaxUnits = 1
SPECIFICATION FairSpec
INVARIANTS
    TrackRecordsOnce
    FailsOpenForReason
PROPERTIES
    CallsReturn
    ImplementsGate
