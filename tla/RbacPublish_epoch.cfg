CONSTANTS
    s1 = s1
    g1 = g1
    i0 = i0
    r1 = r1
    Subjects = {s1}
    Spawned = {g1}
    Initial = i0
    Requests = {r1}
    MaxVer = 2
    MaxPanics = 0
SPECIFICATION Spec
INVARIANT BootEditsRotate
CHECK_DEADLOCK FALSE
