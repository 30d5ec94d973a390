SPECIFICATION ServicesSpec
CONSTANTS
    Executions = {e1}
    Servers = {s1, s2}
    Cancellers = {k1, k2}
    Plans <- MCPlans
    PoolSize = 2
    Crashes = TRUE
    QueueWorkers = {w1, w2}
    Enqueuers = {q1, q2}
    MaxRuns = 2
    MaxDeaths = 1
    Widths <- MCWidths
    Callers = {c1, c2}
    Adapters = {1}
    Prompts = {1, 2}
    Charge <- MCCharge
    Rpm = 2
    Tpm = 3
    ConcurrentCalls = 1
    RetryBudget = 1
    Minute = 2
    Skew = 1
    ResponseTtl = 2
    MaxEntries = 1
    MaxClock = 2
INVARIANTS
    ServicesTypeOK
    PlansKept
    ResearchSettled
    LimiterKept
PROPERTIES
    ServicesEnd
    CachedIsRecent
CHECK_DEADLOCK FALSE
