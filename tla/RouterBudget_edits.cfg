SPECIFICATION Spec
CONSTANTS
    r1 = r1
    r2 = r2
    p1 = p1
    p2 = p2
    cheap = cheap
    dear = dear
    Requests = {r1, r2}
    Policies = {p1}
    Configs <- TwoConfigs
    NoLimit = NoLimit
    Correlations = {1, 2}
    Models = {cheap, dear}
    Cost <- MCCost
    FailoverRank <- MCFailoverRank
    Rankings <- AnyRanking
    Generates = {TRUE}
    DayLength = 2
    Lifetime = 1
    MaxTime = 0
    Crashes = TRUE
INVARIANTS
    TypeOK
    BudgetKept
    OneExecutionPerCorrelation
PROPERTIES
    RejectedOnlyIfUnaffordable
SYMMETRY RequestSymmetry
CHECK_DEADLOCK FALSE
