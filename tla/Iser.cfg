CONSTANTS
    NConns = 2
    NTasks = 3
    MaxWc = 2
    MaxDelayedArm = 2
    MaxQueueCmd = 2
    Profiles <- MCProfiles
    None = None
SPECIFICATION Spec
CHECK_DEADLOCK FALSE
INVARIANTS BuffersExact TasksKept FreedOnce
PROPERTY Progress
