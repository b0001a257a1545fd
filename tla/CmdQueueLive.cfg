\* Fair handlers, completions and transmissions.
SPECIFICATION FairSpec
CONSTANTS
    None = None
    Cmds = {c1, c2}
    Mreqs = {m1}
    Nexuses = {i1}
    Attrs = {"SIMPLE", "ORDERED"}
    Functions = {"ABORT_TASK", "ABORT_TASK_SET", "LOGICAL_UNIT_RESET"}
PROPERTIES DrainsWhenQuiet TmAnswered
CHECK_DEADLOCK FALSE
