SPECIFICATION Spec
CONSTANTS
    None = None
    Profiles <- MCProfiles
INVARIANTS EventsFit MessagesWhole NothingHalf
PROPERTY Progress
CHECK_DEADLOCK FALSE
