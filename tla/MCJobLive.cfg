SPECIFICATION FairSpec
CONSTANTS
    OneOff = {a, b}
    Recurring = {p}
    Unhandled = {b}
    Slots = {s1, s2}
    Priority <- Ranked
    Period = 1
    Delay = 1
    MaxAttempts = 0
    MaxCount = 1
    MaxNow = 0
    MaxFaults = 1
PROPERTY UrgentSettles
CHECK_DEADLOCK FALSE
