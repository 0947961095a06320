SPECIFICATION FairSpec
CONSTANTS
    gateway = gateway
    account = account
    both = both
    accounts = accounts
    stock = stock
    balance = balance
    missing = missing
    item = item
    own = own
    Nodes = {gateway, account, both}
    Domains = {accounts, stock}
    Serves <- MCServes
    Queries = {balance, missing, item, own}
    Asker <- MCAsker
    DomainOf <- MCDomainOf
    Fails = {item, own}
    Unhandled = {missing}
    Strict = {item, own}
    Registered = {item, own}
    MaxInterruptions = 1
INVARIANTS TypeOK OnePlace OnlyLateAnswersStay
PROPERTY DomainsAreServed
CHECK_DEADLOCK FALSE
