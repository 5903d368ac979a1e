------------------------------- MODULE MCEntity -------------------------------
(***************************************************************************)
(* Small instances of Entity for TLC: an asynchronous exclusive operation  *)
(* and a synchronous one that is not.                                      *)
(***************************************************************************)
EXTENDS Entity, TLC

CONSTANTS c1, c2, c3, async, sync, busy

MCSyncOps == {sync}
MCExclusiveOps == {async}

\* Who waits for whom: c1 and c2 execute synchronously, c3 executes
\* asynchronously and controls, and nobody reads results, removes or asks for
\* what is only answered.
Waits ==
    /\ <<entry, task, queue, slot, pc>>' # <<entry, task, queue, slot, pc>>
    /\ \A i \in Ids : entry[i] # "none" => entry'[i] # "none"
    /\ \A c \in Callers : reply'[c].kind # "result"
    /\ \A c \in Callers \ {c3} : CallerStep(c) => pc'[c] # pc[c] /\ pc'[c] \notin {"send", "await"}
    /\ pc'[c3] # "blocking"

WaitsSpec == Init /\ [][Next /\ Waits]_vars /\ Fairness

CallerSymmetry == Permutations(Callers)
=============================================================================
