SPECIFICATION Spec
CONSTANTS
    t1 = t1
    t2 = t2
    e1 = e1
    e2 = e2
    n1 = n1
    n2 = n2
    None = None
    Threads <- MCThreads
    Entities <- MCEntities
    Names <- MCNames
    Resources <- MCResources
    ServiceResults <- MCServiceResults
    MaxLog = 3
SYMMETRY MCSymmetry
INVARIANT ClosureReadsAreServed
CHECK_DEADLOCK FALSE
