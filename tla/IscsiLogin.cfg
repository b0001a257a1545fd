\* Four kinds of initiators and administrators, one per behaviour.
SPECIFICATION Spec
CONSTANTS
    NConns = 3
    Users = {"u1", "u2"}
    Keys <- MCKeys
    Profiles <- MCProfiles
    TsihMod = 3
    Slots = 1
    TextMax = 2
    None = None
PROPERTY LoginEnds
INVARIANTS Authenticated ToldTrue ListsFit
CHECK_DEADLOCK FALSE
