---------------------------- MODULE JobExecution ----------------------------
(***************************************************************************)
(* What InfraBox promises about running the jobs of a build, whatever its   *)
(* job table says in between: a job is executed once for every time it has  *)
(* been put into the queue, one execution at a time, and never before each  *)
(* of its dependencies has ended in a way that allows it.                   *)
(***************************************************************************)
EXTENDS Naturals

CONSTANTS Jobs, Deps

VARIABLES
    permits,   \* the executions a job may still begin
    executing, \* the jobs whose execution exists
    held       \* the final states a job has ever held

Init ==
    /\ permits = [j \in Jobs |-> 1]
    /\ executing = {}
    /\ held = [j \in Jobs |-> {}]

\* An execution begins.
Start(j) ==
    /\ j \notin executing
    /\ permits[j] > 0
    /\ \A d \in Deps[j] : held[d.job] \cap d.on # {}
    /\ executing' = executing \cup {j}
    /\ permits' = [permits EXCEPT ![j] = @ - 1]
    /\ UNCHANGED held

\* An execution is gone.
Remove(j) ==
    /\ j \in executing
    /\ executing' = executing \ {j}
    /\ UNCHANGED <<permits, held>>

\* The jobs in S end in state f.
End(S, f) ==
    /\ held' = [j \in Jobs |-> IF j \in S THEN held[j] \cup {f} ELSE held[j]]
    /\ UNCHANGED <<permits, executing>>

\* The jobs in S are put into the queue again.
Requeue(S) ==
    /\ permits' = [j \in Jobs |-> IF j \in S THEN permits[j] + 1 ELSE permits[j]]
    /\ UNCHANGED <<executing, held>>

Next ==
    \/ \E j \in Jobs : Start(j) \/ Remove(j)
    \/ \E S \in SUBSET Jobs : Requeue(S)
    \/ \E S \in SUBSET Jobs, f \in {"finished", "failure", "error", "skipped", "killed"} : End(S, f)

Spec == Init /\ [][Next]_<<permits, executing, held>>
=============================================================================
