SPECIFICATION Spec
CONSTANTS
    Correlations = {c1, c2}
    NoCorrelation = NoCorrelation
    Additive = TRUE
    MaxCommits = 2
    MaxEvents = 5
INVARIANT TypeOK
PROPERTIES StoredOnce CommittedIsReplay RollbackRestores
CHECK_DEADLOCK FALSE
