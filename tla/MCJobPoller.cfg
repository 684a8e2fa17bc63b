SPECIFICATION Spec
CONSTANTS
    OneOff = {a, b}
    Recurring = {}
    Unhandled = {b}
    Slots = {s1, s2}
    Priority <- Ranked
    Period = 1
    Delay = 1
    MaxAttempts = 1
    MaxCount = 4
    MaxNow = 1
    MaxFaults = 1
SYMMETRY Symmetry
INVARIANTS
    TypeOK
    AttemptsBounded
    NeverOvercounts
PROPERTIES
    ImplementsLedger
CHECK_DEADLOCK FALSE
