\* The menus of MCLuAccess: two initiators with every service action, two and
\* three with the types that have one owner, three that hold together.
SPECIFICATION MCSpec
CONSTANTS
    Nexuses = {i1, i2, i3}
    Keys = {k1, k2}
    NoKey = NoKey
    Types = {"WE", "EA", "WE_REGONLY", "EA_REGONLY", "WE_ALLREG", "EA_ALLREG", "other"}
    Actions = {"REGISTER", "REGISTER_IGNORE", "RESERVE", "RELEASE", "CLEAR", "PREEMPT", "MOVE"}
    Accesses = {"data_read", "data_write", "write_verify", "write_same", "unmap"}
    None = None
    MaxUa = 1
    GenMod = 3
SYMMETRY Symmetry
PROPERTIES HolderKept PromiseKept LossIsTold
\* Every session may end for good, and a crash stops everything.
CHECK_DEADLOCK FALSE
