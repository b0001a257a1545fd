\* Three requests over two connections; the CmdSN wraps with the second.
SPECIFICATION Spec
CONSTANTS
    Requests = 3
    NConns = 2
    Profiles <- MCProfiles
    SnModulus = 8
    StartSn = 7
    Units = 3
    MaxBurst = 2
    None = None
PROPERTY Answered
INVARIANTS InCmdSnOrder TasksKept TransfersWhole
CHECK_DEADLOCK FALSE
