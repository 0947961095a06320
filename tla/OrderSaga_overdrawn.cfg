SPECIFICATION Spec
CONSTANTS
    Orders = {o1, o2}
    Funds = 1
    Stock = 2
    NoCorrelation = NoCorrelation
    Failures = {{}}
    FailingOrders = {}
INVARIANT NeverOverdrawn
CHECK_DEADLOCK FALSE
