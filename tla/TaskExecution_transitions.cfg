SPECIFICATION Spec
CONSTANTS
    Tasks = {1}
    Agents = {1}
    Executions = {1, 2}
    Sessions = {s1, s2}
    Specialization <- SameSkill
    Dispatchable = {1}
    Patches <- NoPatches
    NewTasks <- OnlyReady
    None = None
    MaxRetries = 0
    Crashes = FALSE
SYMMETRY SessionSymmetry
PROPERTIES
    TransitionsAllowed
CHECK_DEADLOCK FALSE
