CONSTANTS
    k1 = k1
    o1 = o1
    g1 = g1
    r1 = r1
    r2 = r2
    w1 = w1
    Keys = {k1}
    Objects = {o1}
    Gvrs = {g1}
    GvrOf <- OneGvr
    SelfOf <- OwnObject
    InnerOf <- ListOfType
    Callers = {r1}
    CallerKinds = {"call"}
    Refreshers = {w1}
    MaxRequeues = 1
    MaxRecords = 9
    MaxVer = 1
    MaxGen = 0
SPECIFICATION LiveSpec
PROPERTY EventuallyFresh
CHECK_DEADLOCK FALSE
