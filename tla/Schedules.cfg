SPECIFICATION ExercisedSpec
CONSTANTS
    w1 = w1
    w2 = w2
    w3 = w3
    Schedules = {1, 2}
    Workers = {w1, w2, w3}
    Executions = {1, 2, 3, 4}
    MaxTime = 2
    MaxAttempts = 2
    Expired = Expired
    Crashes = TRUE
INVARIANTS
    TypeOK
    
    
    FailedAfterAllAttempts
PROPERTIES
    EveryRequestEnds
CHECK_DEADLOCK FALSE
