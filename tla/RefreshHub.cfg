CONSTANTS
    k1 = k1
    k2 = k2
    c1 = c1
    p1 = p1
    p2 = p2
    Keys = {k1, k2}
    BoundKeys = {k1}
    Conns = {c1}
    Publishers = {p1, p2}
    Cap = 1
    MaxChanges = 2
    MaxStreams = 2
SPECIFICATION FairSpec
INVARIANTS TypeOK NoLostSignal BacklogDrained OneSlotPerKey RotationNoticed
PROPERTY SignalReaches
CHECK_DEADLOCK FALSE
