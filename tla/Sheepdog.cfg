CONSTANTS
    Threads = {1, 2, 3, 4}
    None = None
    MaxVersion = 3
    Profiles <- MCProfiles
SPECIFICATION Spec
CHECK_DEADLOCK FALSE
INVARIANTS InodeShared DataKept
PROPERTIES Completes
