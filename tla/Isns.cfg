SPECIFICATION Spec
CONSTANTS
    Word = 16
    None = None
    Profiles <- MCProfiles
INVARIANTS TargetsKnown AnswersApplied KeptAlive
PROPERTY DeadClosed
CHECK_DEADLOCK FALSE
