----------------------------- MODULE MCDiagRuntime -----------------------------
(* Small instances of DiagRuntime for TLC. *)
EXTENDS DiagRuntime, TLC

CONSTANTS a, b, t, async, sync, busy

MCSyncOps == {sync}
MCExclusiveOps == {async}

\* Who holds up whom: a executes and waits for what comes, b asks for a status
\* and may give up, and the direct caller t executes synchronously.
Shares ==
    /\ client'[a] # "gone"
    /\ message'[a].kind \in {"none", "Execute"}
    /\ message'[b].kind \in {"none", "ReportStatus"}
    /\ \A x \in Threads : DirectCall(x) => pc'[x] # pc[x] /\ "blocking" \in {pc[x], pc'[x]}

SharedSpec == Init /\ [][Next /\ Shares]_vars /\ Fairness

ClientSymmetry == Permutations(Clients)
=============================================================================
