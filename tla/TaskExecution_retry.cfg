SPECIFICATION FairSpec
CONSTANTS
    Tasks = {1}
    Agents = {1}
    Executions = {1, 2}
    Sessions = {s1, s2}
    Specialization <- SameSkill
    Dispatchable = {1}
    Patches <- AnyPatches
    NewTasks <- OnlyReady
    None = None
    MaxRetries = 1
    Crashes = TRUE
INVARIANTS
    TypeOK
    RunsDriven
PROPERTIES
    OutcomeNotRewritten
    EveryActiveEnds
CHECK_DEADLOCK FALSE
