SPECIFICATION FairSpec
CONSTANTS
    Orders = {o1, o2, o3}
    Funds = 2
    Stock = 1
    NoCorrelation = NoCorrelation
    Failures = {{}, {"OrderCreated", "FundsWithdrawn", "InventoryRemoved", "RollbackOrderCreated"}}
    FailingOrders = {o1, o2}
INVARIANTS TypeOK NeverOversold WayBackIsKept CompensatedOnce AllOrNothing
PROPERTIES ImplementsTransaction BusesComeToRest
CHECK_DEADLOCK FALSE
