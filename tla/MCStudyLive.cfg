SPECIFICATION FairSpec
CONSTANTS
    Fields = {f1}
    Subjects = {s1}
    Managers = {m1}
    Writers = {w1}
    Readers = {r1}
    Names = {n1, n2}
    BatchSize = 2
    MaxTime = 2
    MaxVersion = 2
    MaxFills = 1
INVARIANTS
    CacheOutdatedByVersion
PROPERTIES
    StampedIsPublished
CHECK_DEADLOCK FALSE
