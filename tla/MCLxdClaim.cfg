SPECIFICATION Spec
CONSTANTS
    i1 = i1
    n1 = n1
    Instances = {i1}
    Names = {n1}
    NameOf <- OneName
    Clients = {c1, c2}
    Workers = {w1, w2}
    MaxJobs = 2
    MaxFaults = 0
    MaxDirect = 0
PROPERTIES
    RemovedMeansDestroyed
CHECK_DEADLOCK FALSE
