SPECIFICATION Spec
CONSTANTS
    Tasks = {1, 2}
    Agents = {1, 2}
    Executions = {1, 2}
    Sessions = {s1, s2}
    Specialization <- MCSpecialization
    Dispatchable = {1, 2}
    Patches <- EditPatches
    NewTasks <- OnlyReady
    None = None
    MaxRetries = 0
    Crashes = FALSE
SYMMETRY SessionSymmetry
INVARIANTS
    TasksExclusive

    
CHECK_DEADLOCK FALSE
