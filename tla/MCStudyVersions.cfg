SPECIFICATION Spec
CONSTANTS
    Fields = {f1}
    Subjects = {s1}
    Managers = {m1, m2}
    Writers = {w1}
    Readers = {}
    Names = {n1, n2}
    BatchSize = 2
    MaxTime = 3
    MaxVersion = 2
    MaxFills = 0
SYMMETRY Symmetry
INVARIANTS
    TypeOK
    CurrentIsListed
    NoOrphanVersion
    VersionedDataHasVersionedField
    ColdCovers
    ColdIsCopy
PROPERTIES
    ImplementsVersionLog
CHECK_DEADLOCK FALSE
