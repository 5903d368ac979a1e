CONSTANTS
    r1 = r1
    r2 = r2
    freeze = freeze
    None = None
    Requesters = {r1, r2}
    Unsupported = {freeze}
    QueueCap = 2
    MaxExecs = 2
SPECIFICATION FairSpec
INVARIANTS
    TypeOK
    NeverConcurrent
    ReporterIsQueued
    ReportIsConsistent
PROPERTIES
    ErrorsAreKept
    ReportersAreServed
    ClosedStreamEnds
CHECK_DEADLOCK FALSE
