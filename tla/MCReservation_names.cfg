SPECIFICATION FairSpec
CONSTANTS
    a = a
    b = b
    c = c
    d = d
    n = n
    m = m
    Creations <- MCCreations
    Names <- MCNames
    NameOf <- MCNameOf
    DatabaseFails = TRUE
    CacheFails = TRUE
    Restarts = TRUE
    CacheSurvives = TRUE
INVARIANTS TypeOK UniqueNames
PROPERTY NamesAreGiven
CHECK_DEADLOCK FALSE
