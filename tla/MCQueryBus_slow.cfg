SPECIFICATION FairSpec
CONSTANTS
    Queries <- MCQueries
    NoQuery = "none"
    Asks <- MCNesting
INVARIANT NoLostWakeup
PROPERTY EveryQueryReturns
CHECK_DEADLOCK FALSE
