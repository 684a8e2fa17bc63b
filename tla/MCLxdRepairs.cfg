SPECIFICATION FairSpec
CONSTANTS
    i1 = i1
    n1 = n1
    Instances = {i1}
    Names = {n1}
    NameOf <- OneName
    Clients = {c1, c2}
    Workers = {w1}
    MaxJobs = 2
    MaxFaults = 1
    MaxDirect = 1
INVARIANTS
    PendingHasJob
PROPERTIES
    DestructionWasAsked
    DeletedIsCleaned
CHECK_DEADLOCK FALSE
