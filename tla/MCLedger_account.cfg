SPECIFICATION Spec
CONSTANTS
    first = first
    second = second
    node = node
    spare = spare
    Creation = create
    Deposits = {deposit}
    Withdrawals = {first, second}
    Gateway = gateway
    Nodes = {gateway, node, spare}
    Deployments = {{gateway}, {node}, {spare}, {node, spare}}
    Start = 1
    MaxPosts = 3
    MaxPostsShared = 2
    MaxCrashes = 1
    MaxFailures = 1
SYMMETRY Alike
INVARIANTS TypeOK CaughtUp WaitingKeepsMoney CarriedOutOnce SerialNeverOverdrawn PatientIsServed SeenIsProjected
PROPERTY ProjectionNeverGoesBack
CHECK_DEADLOCK FALSE
