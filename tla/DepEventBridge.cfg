CONSTANTS
    o1 = o1
    o2 = o2
    Objects = {o1, o2}
    MaxRequeues = 1
    MaxInputs = 2
SPECIFICATION LiveSpec
INVARIANTS TypeOK NoEventForgotten InFlightCovered MasksNotLost
PROPERTY FeedPromise
CHECK_DEADLOCK FALSE
