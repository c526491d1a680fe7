\* The metering: two workers, one retracker, outages and faults.
CONSTANTS
    t1 = t1
    t2 = t2
    t3 = t3
    t4 = t4
    c1 = c1
    c2 = c2
    Triages = {t1, t2, t3, t4}
    Customers = {c1, c2}
    CustomerOf <- TwoCustomers
    Retrackers = {r1}
    WorkerCount = 2
    Quota = 1
    BatchLimit = 2
    Rejected = {c2}
    MaxAhead = 2
    MaxOutages = 1
    MaxSlips = 1
SPECIFICATION FairSpec
\* The triages of the instance run out.
CHECK_DEADLOCK FALSE
INVARIANTS
    MeteredIsAccounted
    ErrorsAreExplained
    OverrunIsBounded
PROPERTIES
    JournalDrains
