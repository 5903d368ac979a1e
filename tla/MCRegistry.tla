------------------------------ MODULE MCRegistry ------------------------------
EXTENDS Registry, TLC
CONSTANTS t1, t2, e1, e2, n1, n2

\* The resources of the example and of the guide, and UDS ones without and with
\* services; services that answer, and fail with each kind of error.
MCThreads == {t1, t2}
MCEntities == {e1, e2}
MCNames == {n1, n2}
MCResources == {User("ready"), User("closure"), Adapter(TRUE, FALSE), Adapter(FALSE, TRUE)}
MCServiceResults ==
    {Ok("bytes"), Err(FromNrc("0x31")), Err(WithPayload(FromNrc("0x22"), FromByteVector("more"))),
     Err(FromError(FromVendorError("vendor", "failed"))), Err(FromError(FromCode("ErrorResponse", "failed")))}

\* Threads, entities and identifiers are interchangeable.
MCSymmetry ==
    Permutations({t1, t2}) \cup Permutations({e1, e2}) \cup Permutations({n1, n2})
===============================================================================
