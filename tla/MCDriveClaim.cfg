SPECIFICATION Spec
CONSTANTS
    u1 = u1
    u2 = u2
    r1 = r1
    n1 = n1
    Null = Null
    Users = {u1, u2}
    Admins = {u1}
    Drives = {r1, a, b}
    Owners = {u1}
    Root <- RootOf
    Files = {f, g}
    Names = {n1}
    Rights <- SomeRights
    Edits <- SomeEdits
    Requests = {q1}
    MaxBegun = 4
    MaxFaults = 0
SYMMETRY Symmetry
PROPERTIES
    RemovesOnlyWithin
CHECK_DEADLOCK FALSE
