------------------------------ MODULE JobLife -------------------------------
(***************************************************************************)
(* What the queue promises for a job without executor-level retries: one   *)
(* execution of it at a time and a bounded number of them; it ends, for    *)
(* good, "completed" only if an execution of it has begun or if it is of a *)
(* type that may be stopped; and a deleted one never comes back.           *)
(*                                                                         *)
(* An end may be overwritten by another one, as when a cancel and the      *)
(* runner of the job both write it.                                        *)
(***************************************************************************)
EXTENDS Naturals

CONSTANTS
    Jobs,
    MaxExecutions,  \* per job
    Stoppable       \* jobs completed by their cancellation

Outcomes == {"none", "open", "completed", "failed", "deleted"}

VARIABLES
    outcome,
    executing,
    executions

vars == <<outcome, executing, executions>>

Init ==
    /\ outcome = [j \in Jobs |-> "none"]
    /\ executing = [j \in Jobs |-> FALSE]
    /\ executions = [j \in Jobs |-> 0]

Begin(j) ==
    /\ outcome[j] # "none" /\ ~executing[j] /\ executions[j] < MaxExecutions[j]
    /\ executing' = [executing EXCEPT ![j] = TRUE]
    /\ executions' = [executions EXCEPT ![j] = @ + 1]
    /\ UNCHANGED outcome

(* The executions of the jobs S end: an executor returns, or all of them   *)
(* die with their process.                                                 *)
Cease(S) ==
    /\ executing' = [j \in Jobs |-> j \notin S /\ executing[j]]
    /\ UNCHANGED <<outcome, executions>>

Allowed(j, end) ==
    \/ outcome[j] = "none" /\ end = "open"
    \/ outcome[j] \in {"open", "completed", "failed"}
       /\ \/ end \in {"failed", "deleted"}
          \/ end = "completed" /\ (executions[j] > 0 \/ j \in Stoppable)

(* The outcomes of any jobs are written, by one statement.                 *)
Record ==
    /\ outcome' \in [Jobs -> Outcomes]
    /\ \A j \in Jobs : outcome'[j] = outcome[j] \/ Allowed(j, outcome'[j])
    /\ UNCHANGED <<executing, executions>>

Next ==
    \/ \E j \in Jobs : Begin(j)
    \/ \E S \in SUBSET Jobs : Cease(S)
    \/ Record

Spec == Init /\ [][Next]_vars

=============================================================================
