SPECIFICATION FairSpec
CONSTANTS
    Messages = {m1, m2, m3}
    Workers = {bus}
    Listeners = {listener}
    Respondable = {m1, m2}
    Rejecting = {m2}
INVARIANTS TypeOK OneAtATime InOrder NoStall
PROPERTIES ImplementsSerialBus EveryMessageAcknowledged
