SPECIFICATION Spec
CONSTANTS
    Correlations = {c1, c2}
    NoCorrelation = NoCorrelation
    Additive = FALSE
    MaxCommits = 1
    MaxEvents = 4
PROPERTY RollbackRestores
CHECK_DEADLOCK FALSE
