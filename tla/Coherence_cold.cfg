CONSTANTS
    k1 = k1
    o1 = o1
    g1 = g1
    r1 = r1
    r2 = r2
    w1 = w1
    Keys = {k1}
    Objects = {o1}
    Gvrs = {g1}
    GvrOf <- OneGvr
    SelfOf <- OwnObject
    InnerOf <- NoInner
    Callers = {r1, r2}
    CallerKinds = {"call"}
    Refreshers = {}
    MaxRequeues = 0
    MaxRecords = 9
    MaxVer = 1
    MaxGen = 0
SPECIFICATION Spec
SYMMETRY CallerSymmetry
INVARIANT ColdBucketInherits
CHECK_DEADLOCK FALSE
