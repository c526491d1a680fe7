\* One run of the agent: every answer of host and model, three requests per model call.
CONSTANTS
    NaN = NaN
    InvalidGlob = InvalidGlob
    Absent = Absent
    Invalid = Invalid
    None = None
    Files <- ConfigFiles
    Snapshots <- PullRequests
    Classifications <- ModelClassifications
    Decisions <- ModelDecisions
    MaxAttempts = 3
    RetryAfters <- Headers
SPECIFICATION Spec
\* A run ends.
CHECK_DEADLOCK FALSE
INVARIANTS
    FlagIsJustified
    EscalationVisible
    PolicyIsMonotone
    RetryAfterHonoured
PROPERTIES
    ImplementsAgentRun
