\* One worker, as main.rs spawns it, fewer comments of people than a page holds, and a
\* pull request that is pushed to twice while its snapshot is fetched.
CONSTANTS
    Writers = {w1}
    Bodies <- Texts
    PageSize = 3
    MaxOthers = 2
    MaxDeletes = 2
    MaxFaults = 2
    Revisions <- Pushes
    FilesPage = 2
    HostBudget = 7
    PromptBudget = 4
    CharBytes = 2
    None = None
SPECIFICATION HostSpec
INVARIANTS
    OneSticky
    NoStaleText
    SnapshotIsCoherent
    TruncationIsTold
