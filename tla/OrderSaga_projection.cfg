SPECIFICATION Spec
CONSTANTS
    Orders = {o1}
    Funds = 1
    Stock = 0
    NoCorrelation = NoCorrelation
    Failures = {{}}
    FailingOrders = {}
INVARIANT BalanceIsShown
CHECK_DEADLOCK FALSE
