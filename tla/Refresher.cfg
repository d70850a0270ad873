CONSTANTS
    k1 = k1
    c1 = c1
    w1 = w1
    w2 = w2
    Keys = {c1}
    ClusterListKeys = {c1}
    Workers = {w1, w2}
    MaxRequeues = 1
    MaxSeq = 1
    MaxMoves = 2
SPECIFICATION Spec
SYMMETRY WorkerSymmetry
INVARIANTS TypeOK InFlightStampOwned   NoStrandedViewed
PROPERTIES SlotLeaksOnlyBySkip
CHECK_DEADLOCK FALSE
