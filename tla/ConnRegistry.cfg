\* Three connections, at most one closed record retained.
CONSTANTS
    Conns = {c1, c2, c3}
    Cap = 1
    MaxViews = 1
SPECIFICATION FairSpec
CHECK_DEADLOCK FALSE
INVARIANTS LiveCount OpenNeverEvicted ClosedQueue
PROPERTIES OperationsReturn
