SPECIFICATION Spec
CONSTANTS
    None = None
    Cmds = {c1, c2, c3}
    Mreqs = {m1}
    Nexuses = {i1, i2}
    Attrs = {"SIMPLE", "ORDERED", "HEAD"}
    Functions = {"ABORT_TASK", "ABORT_TASK_SET", "LOGICAL_UNIT_RESET"}
INVARIANTS TaskSetExact NothingDangles CrashHasCause
SYMMETRY Symmetry
CHECK_DEADLOCK FALSE
