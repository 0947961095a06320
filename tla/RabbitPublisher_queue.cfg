SPECIFICATION FairSpec
CONSTANTS
    Nodes = {n1, n2}
    Consumers = {n1, n2}
    Messages = {m1, m2}
    Rejecting = {m2}
    MaxInterruptions = 1
    MaxRuns = 2
CHECK_DEADLOCK FALSE
INVARIANTS TypeOK NothingLost OnceUnlessReturned ActiveIsUnacked
PROPERTY EveryMessageHandled
