SPECIFICATION FairSpec
CONSTANTS
    OneOff = {a}
    Recurring = {}
    Unhandled = {}
    Slots = {s1}
    Priority <- Ranked
    Period = 2
    Delay = 0
    MaxAttempts = 2
    MaxCount = 3
    MaxNow = 1
    MaxFaults = 0
PROPERTIES
    ErroredJobRetried
CHECK_DEADLOCK FALSE
