CONSTANTS
    Codes <- MCCodes
    None = None
    Unread = Unread
SPECIFICATION Spec
INVARIANTS
    NulloptMeansForeign
CHECK_DEADLOCK FALSE
