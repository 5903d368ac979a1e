-------------------------- MODULE ExecutionLifecycle --------------------------
(***************************************************************************)
(* What an entity promises the clients of its operations: an execution is  *)
(* begun at most once under its identifier, ends at most once, keeps the   *)
(* outcome it ended with for as long as anybody can ask for it, and can    *)
(* only be forgotten after it has ended.  Entity.tla implements this.      *)
(***************************************************************************)

CONSTANTS Ids,        \* execution identifiers
          Outcomes,   \* what an execution can end with
          NoOutcome   \* the outcome of an execution that has not ended

VARIABLES stage,      \* [Ids -> {"absent", "running", "ended", "forgotten"}]
          verdict     \* [Ids -> Outcomes \cup {NoOutcome}]

lifecycleVars == <<stage, verdict>>

-----------------------------------------------------------------------------

Init ==
    /\ stage = [i \in Ids |-> "absent"]
    /\ verdict = [i \in Ids |-> NoOutcome]

\* An operation accepts an execute request.
Begin(i) ==
    /\ stage[i] = "absent"
    /\ stage' = [stage EXCEPT ![i] = "running"]
    /\ UNCHANGED verdict

\* The execution's future is over: it returned, panicked or was timed out.
End(i, o) ==
    /\ stage[i] = "running"
    /\ stage' = [stage EXCEPT ![i] = "ended"]
    /\ verdict' = [verdict EXCEPT ![i] = o]

\* A client removes the execution.
Forget(i) ==
    /\ stage[i] = "ended"
    /\ stage' = [stage EXCEPT ![i] = "forgotten"]
    /\ UNCHANGED verdict

Next ==
    \E i \in Ids :
        \/ Begin(i)
        \/ \E o \in Outcomes : End(i, o)
        \/ Forget(i)

Spec == Init /\ [][Next]_lifecycleVars

=============================================================================
