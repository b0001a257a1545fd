CONSTANTS
    Carts = {"c1", "c2"}
    Fds = {1, 2}
    MaxOffset = 12
    MaxBlock = 2
    None = None
    Profiles <- MCProfiles
SPECIFICATION Spec
CHECK_DEADLOCK FALSE
INVARIANTS TapeWhole PrefixKept
PROPERTIES ChangerAgrees Completes
