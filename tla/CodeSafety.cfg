CONSTANTS
    Codes <- MCCodes
    None = None
    Unread = Unread
SPECIFICATION Spec
INVARIANTS
    DecodedIsTheCode
    EnumeratorsAreRead
    RangeIsApart
CHECK_DEADLOCK FALSE
