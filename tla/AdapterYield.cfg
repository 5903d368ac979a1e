CONSTANTS
    r1 = r1
    r2 = r2
    freeze = freeze
    None = None
    Requesters = {r1, r2}
    Unsupported = {freeze}
    QueueCap = 2
    MaxExecs = 2
SPECIFICATION Spec
INVARIANTS
    OperationProvidesResult
CHECK_DEADLOCK FALSE
