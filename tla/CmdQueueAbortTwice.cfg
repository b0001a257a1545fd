SPECIFICATION Spec
CONSTANTS
    None = None
    Cmds = {c1, c2}
    Mreqs = {m1}
    Nexuses = {i1}
    Attrs = {"SIMPLE", "ORDERED"}
    Functions = {"ABORT_TASK"}
INVARIANT NoCrash
CHECK_DEADLOCK FALSE
