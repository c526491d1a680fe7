\* The same with more comments of people than a page holds; no request fails.
CONSTANTS
    Writers = {w1}
    Bodies <- Texts
    PageSize = 3
    MaxOthers = 3
    MaxDeletes = 0
    MaxFaults = 0
    Revisions <- Pushes
    FilesPage = 2
    HostBudget = 7
    PromptBudget = 4
    CharBytes = 2
    None = None
SPECIFICATION HostSpec
INVARIANTS
    OneSticky
