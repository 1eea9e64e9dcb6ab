------------------------- MODULE JobLifecycleProofs --------------------------
(* Theorems about JobLifecycle, for any jobs, dependencies, clusters and    *)
(* bounds: its types; that jobs run only when their dependencies allow it;   *)
(* that a job is executed once per request, as JobExecution has it; and that *)
(* no running pod is taken away without a reason.                            *)
EXTENDS JobLifecycle, TLAPS

(***************************************************************************)
(* Type correctness.                                                       *)
(***************************************************************************)

\* What an UPDATE of job states leaves well-typed.
LEMMA SetStatesType ==
    ASSUME TypeOK, NEW S, NEW f \in JobState, SetStates(S, f)
    PROVE  /\ state' \in [Jobs -> JobState]
           /\ late' \subseteq Jobs
           /\ held' \in [Jobs -> SUBSET Final]
           /\ cause' \in [Jobs -> BOOLEAN]
BY DEF TypeOK, SetStates, JobState, Final, Active

LEMMA NoStateChangeType ==
    ASSUME TypeOK, NoStateChange
    PROVE  /\ state' \in [Jobs -> JobState]
           /\ late' \subseteq Jobs
           /\ held' \in [Jobs -> SUBSET Final]
           /\ cause' \in [Jobs -> BOOLEAN]
BY DEF TypeOK, NoStateChange

LEMMA KubeDeleteJobType ==
    ASSUME TypeOK, NEW c, NEW j \in Jobs, KubeDeleteJob(c, j)
    PROVE  ibjob' \in [Jobs -> {"none", "live", "failed", "deleting"}]
BY DEF TypeOK, KubeDeleteJob

LEMMA UnwaitType ==
    ASSUME TypeOK, NEW j, api' = Unwait(j)
    PROVE  api' \subseteq Report
<1> SUFFICES ASSUME NEW m \in api PROVE [m EXCEPT !.waiting = @ /\ m.job # j] \in Report
  BY DEF Unwait
<1>1. m \in Report
  BY DEF TypeOK
<1> QED
  BY <1>1 DEF Report

\* The loops of a scheduler keep its local variables well-typed.
LEMMA LoopType ==
    ASSUME TypeOK, NEW c \in Clusters, NEW S \in SUBSET Jobs,
           NEW step \in {"endTimedOut", "endAborted", "orphanJob", "orphanNamespace", "pick"},
           Loop(c, step, S)
    PROVE  /\ pc' \in [Clusters -> SchedulerStep]
           /\ todo' \in [Clusters -> SUBSET Jobs]
<1>1. After[step] \in SchedulerStep
  BY DEF After, SchedulerStep
<1>2. step \in SchedulerStep
  BY DEF SchedulerStep
<1> QED
  BY <1>1, <1>2 DEF Loop, Goto, TypeOK

\* The steps of a scheduler that work on one job.
JobStep == {"markTimedOut", "markKilled", "failOrphan", "removeOrphan", "skip", "finishWait", "namespace",
            "namespaceFailed", "post", "markScheduled"}

\* At each of them the scheduler has a job at hand, which TypeOK alone does
\* not say: the namespace it creates and the row it updates are those of a job.
JobAtHand == \A c \in Clusters : pc[c] \in JobStep => cur[c] \in Jobs

TypeInv == TypeOK /\ JobAtHand

\* Looping leaves no job at hand; taking one out of the loop does.
LEMMA LoopAtHand ==
    ASSUME TypeInv, NEW c \in Clusters, NEW S \in SUBSET Jobs,
           NEW step \in {"endTimedOut", "endAborted", "orphanJob", "orphanNamespace", "pick"},
           Loop(c, step, S), \A d \in Clusters : d # c => cur'[d] = cur[d]
    PROVE  JobAtHand'
<1>1. After[step] \notin JobStep /\ step \notin JobStep
  BY DEF After, JobStep
<1> QED
  BY <1>1 DEF Loop, Goto, TypeInv, TypeOK, JobAtHand

LEMMA HandledType ==
    ASSUME TypeInv, NEW c \in Clusters,
           NEW step \in {"endTimedOut", "endAborted", "orphanJob", "orphanNamespace", "pick"},
           Handled(c, step)
    PROVE  /\ pc' \in [Clusters -> SchedulerStep]
           /\ todo' \in [Clusters -> SUBSET Jobs]
           /\ cur' \in [Clusters -> Jobs \cup {NoJob}]
           /\ JobAtHand'
<1>1. Loop(c, step, todo[c]) /\ todo[c] \in SUBSET Jobs /\ TypeOK
  BY DEF Handled, TypeInv, TypeOK
<1>2. cur' \in [Clusters -> Jobs \cup {NoJob}]
  BY DEF Handled, TypeInv, TypeOK
<1>3. \A d \in Clusters : d # c => cur'[d] = cur[d]
  BY DEF Handled, TypeInv, TypeOK
<1> QED
  BY <1>1, <1>2, <1>3, LoopType, LoopAtHand

LEMMA HandleType ==
    ASSUME TypeInv, NEW c \in Clusters, NEW j \in Jobs, NEW step \in JobStep, Handle(c, j, step)
    PROVE  /\ pc' \in [Clusters -> SchedulerStep]
           /\ todo' \in [Clusters -> SUBSET Jobs]
           /\ cur' \in [Clusters -> Jobs \cup {NoJob}]
           /\ JobAtHand'
<1>1. step \in SchedulerStep
  BY DEF JobStep, SchedulerStep
<1> QED
  BY <1>1 DEF Handle, Goto, TypeInv, TypeOK, JobAtHand

LEMMA LeaveType ==
    ASSUME TypeInv, NEW c \in Clusters, NEW step \in {"schedule", "timeouts"}, Leave(c, step)
    PROVE  /\ pc' \in [Clusters -> SchedulerStep]
           /\ todo' \in [Clusters -> SUBSET Jobs]
           /\ cur' \in [Clusters -> Jobs \cup {NoJob}]
           /\ failing' \in [Clusters -> SUBSET Jobs]
           /\ JobAtHand'
<1>1. step \in SchedulerStep /\ step \notin JobStep
  BY DEF JobStep, SchedulerStep
<1> QED
  BY <1>1 DEF Leave, Goto, TypeInv, TypeOK, JobAtHand

LEMMA TypeInit == Init => TypeInv
BY BoundsAssumption DEF Init, TypeInv, TypeOK, JobAtHand, JobStep, SchedulerStep, JobState, Active, Final,
       RunnerState, Report

LEMMA TypeScheduler ==
    ASSUME TypeInv, NEW c \in Clusters, SchedulerNext(c)
    PROVE  TypeInv'
<1> USE DEF kubeVars, apiVars, boundVars, dbVars
<1> SUFFICES TypeOK' /\ JobAtHand'
  BY DEF TypeInv
<1>t. TypeOK
  BY DEF TypeInv
<1>1. CASE FindTimedOut(c)
  <2>1. {j \in late : state[j] = "running"} \in SUBSET Jobs
    BY <1>t DEF TypeOK
  <2> QED
    BY <1>1, <1>t, <2>1, LoopType, LoopAtHand, NoStateChangeType DEF FindTimedOut, TypeOK
<1>2. CASE EndTimedOut(c)
  BY <1>2, <1>t, HandleType, NoStateChangeType, KubeDeleteJobType DEF EndTimedOut, TypeOK, JobStep
<1>3. CASE MarkTimedOut(c)
  BY <1>3, <1>t, HandledType, SetStatesType DEF MarkTimedOut, TypeOK, JobState, Final
<1>4. CASE TakeAborts(c)
  <2>1. {j \in aborts : state[j] \in Active} \in SUBSET Jobs
    BY <1>t DEF TypeOK
  <2> QED
    BY <1>4, <1>t, <2>1, LoopType, LoopAtHand, SetStatesType DEF TakeAborts, TypeOK, JobState, Final
<1>5. CASE EndAborted(c)
  BY <1>5, <1>t, HandleType, NoStateChangeType, KubeDeleteJobType DEF EndAborted, TypeOK, JobStep
<1>6. CASE MarkKilled(c)
  BY <1>6, <1>t, HandledType, SetStatesType DEF MarkKilled, TypeOK, JobState, Final
<1>7. CASE ListJobs(c)
  BY <1>7, <1>t, LoopType, LoopAtHand, NoStateChangeType DEF ListJobs, TypeOK
<1>8. CASE HandleOrphanedJob(c)
  BY <1>8, <1>t, LoopType, LoopAtHand, HandleType, NoStateChangeType DEF HandleOrphanedJob, TypeOK, JobStep
<1>19. CASE FailOrphan(c)
  <2>1. JobAtHand'
    BY <1>19 DEF FailOrphan, Goto, TypeInv, JobAtHand, TypeOK, JobStep
  <2> QED
    BY <1>19, <1>t, <2>1, SetStatesType DEF FailOrphan, Goto, SchedulerStep, TypeOK, JobState, Final
<1>20. CASE RemoveOrphan(c)
  <2>1. cur[c] \in Jobs
    BY <1>20 DEF RemoveOrphan, TypeInv, JobAtHand, JobStep
  <2> QED
    BY <1>20, <1>t, <2>1, HandledType, NoStateChangeType, KubeDeleteJobType DEF RemoveOrphan, TypeOK
<1>9. CASE ListNamespaces(c)
  BY <1>9, <1>t, LoopType, LoopAtHand, NoStateChangeType DEF ListNamespaces, TypeOK
<1>10. CASE HandleOrphanedNamespace(c)
  BY <1>10, <1>t, LoopType, LoopAtHand, NoStateChangeType DEF HandleOrphanedNamespace, TypeOK
<1>11. CASE FindQueued(c)
  BY <1>11, <1>t, LoopType, LoopAtHand, NoStateChangeType DEF FindQueued, TypeOK
<1>12. CASE CheckParents(c)
  BY <1>12, <1>t, LoopType, LoopAtHand, HandleType, NoStateChangeType DEF CheckParents, TypeOK, JobStep
<1>13. CASE Skip(c)
  BY <1>13, <1>t, HandledType, SetStatesType DEF Skip, TypeOK, JobState, Final
<1>14. CASE FinishWait(c)
  BY <1>14, <1>t, HandledType, SetStatesType DEF FinishWait, TypeOK, JobState, Final
<1>15. CASE CreateNamespace(c)
  BY <1>15, <1>t, NoStateChangeType DEF CreateNamespace, TypeInv, TypeOK, JobAtHand, JobStep, Goto, SchedulerStep
<1>16. CASE NamespaceFailed(c)
  BY <1>16, <1>t, HandledType, SetStatesType DEF NamespaceFailed, TypeOK, JobState, Final
<1>17. CASE PostJob(c)
  <2> DEFINE j == cur[c]
  <2>1. j \in Jobs
    BY <1>17 DEF PostJob, TypeInv, JobAtHand, JobStep
  <2>2. UNCHANGED <<dbVars, namespaces, runner, apiVars, failing, boundVars, held, requeues>>
    BY <1>17 DEF PostJob
  <2>3. CASE ibjob[j] = "none" /\ ibjob' = [ibjob EXCEPT ![j] = "live"]
    <3>1. /\ starts' = [starts EXCEPT ![j] = @ + 1]
          /\ \E reason \in BOOLEAN : cause' = [cause EXCEPT ![j] = reason]
          /\ pc' = [pc EXCEPT ![c] = "markScheduled"] /\ UNCHANGED <<todo, cur>>
      BY <1>17, <2>3 DEF PostJob, Goto
    <3>2. cause' \in [Jobs -> BOOLEAN]
      BY <1>t, <3>1 DEF TypeOK
    <3>3. starts' \in [Jobs -> Nat]
      BY <1>t, <2>1, <3>1 DEF TypeOK
    <3> QED
      BY <1>t, <2>1, <2>2, <2>3, <3>1, <3>2, <3>3 DEF TypeInv, TypeOK, JobAtHand, SchedulerStep
  <2>4. CASE Handled(c, "pick") /\ UNCHANGED <<ibjob, starts, cause>>
    BY <1>t, <2>2, <2>4, HandledType DEF TypeOK
  <2> QED
    BY <1>17, <2>3, <2>4 DEF PostJob
<1>18. CASE MarkScheduled(c)
  BY <1>18, <1>t, HandledType, SetStatesType DEF MarkScheduled, TypeOK, JobState, Active
<1> QED
  BY <1>1, <1>2, <1>3, <1>4, <1>5, <1>6, <1>7, <1>8, <1>9, <1>10, <1>11, <1>12, <1>13, <1>14, <1>15, <1>16, <1>17, <1>18, <1>19, <1>20 DEF SchedulerNext

LEMMA TypeFault ==
    ASSUME TypeInv, NEW c \in Clusters, SchedulerFault(c)
    PROVE  TypeInv'
<1> USE DEF kubeVars, apiVars, boundVars, dbVars
<1>t. TypeOK
  BY DEF TypeInv
<1>f. ASSUME Fault PROVE nAborts' \in 0..MaxAborts /\ nRestarts' \in 0..MaxRestarts /\ nFaults' \in 0..MaxFaults
  BY <1>t, <1>f, BoundsAssumption DEF Fault, TypeOK
<1>1. CASE PassFails(c)
  BY <1>1, <1>t, <1>f, LeaveType, NoStateChangeType DEF PassFails, TypeInv, TypeOK
<1>2. CASE ClusterInactive(c)
  BY <1>2, <1>t, <1>f, NoStateChangeType
     DEF ClusterInactive, TypeInv, TypeOK, JobAtHand, JobStep, Goto, SchedulerStep
<1>3. CASE CreationRefused(c)
  <2>1. CASE pc[c] = "namespace"
    BY <1>3, <1>t, <1>f, <2>1, NoStateChangeType
       DEF CreationRefused, TypeInv, TypeOK, JobAtHand, JobStep, Goto, SchedulerStep
  <2>2. CASE pc[c] = "post"
    BY <1>3, <1>t, <1>f, <2>2, NoStateChangeType, HandledType DEF CreationRefused, TypeInv, TypeOK
  <2> QED
    BY <1>3, <2>1, <2>2 DEF CreationRefused
<1>5. CASE DeletionRefused(c)
  BY <1>5, <1>t, <1>f, HandleType, HandledType, NoStateChangeType
     DEF DeletionRefused, TypeInv, TypeOK, JobStep
<1>6. CASE ListRefused(c)
  BY <1>6, <1>t, <1>f, NoStateChangeType
     DEF ListRefused, TypeInv, TypeOK, JobAtHand, JobStep, Goto, SchedulerStep
<1>4. CASE SchedulerCrash(c)
  BY <1>4, <1>t, <1>f, LeaveType, NoStateChangeType DEF SchedulerCrash, TypeInv, TypeOK
<1> QED
  BY <1>1, <1>2, <1>3, <1>4, <1>5, <1>6 DEF SchedulerFault

\* What is no step of a scheduler leaves its variables alone.
LEMMA TypeOthers ==
    ASSUME TypeInv, TypeOK', UNCHANGED schedVars
    PROVE  TypeInv'
BY DEF TypeInv, JobAtHand, schedVars

LEMMA TypeJob ==
    ASSUME TypeInv, NEW j \in Jobs, RunnerNext(j) \/ TimeoutElapses(j) \/ KubernetesNext(j) \/ UserNext(j)
    PROVE  TypeInv'
<1> USE DEF kubeVars, apiVars, boundVars, dbVars, schedVars, historyVars
<1>t. TypeOK
  BY DEF TypeInv
<1>s. UNCHANGED schedVars
  BY DEF RunnerNext, SendReport, LoadData, LoadRefused, EndBody, TimeoutElapses, KubernetesNext, StartPod,
         RestartContainer, ControllerFails, ObjectGone, UserNext, RequestAbort, CheckRestart
<1>f. ASSUME Fault PROVE nAborts' \in 0..MaxAborts /\ nRestarts' \in 0..MaxRestarts /\ nFaults' \in 0..MaxFaults
  BY <1>t, <1>f, BoundsAssumption DEF Fault, TypeOK
<1>1. CASE SendReport(j)
  <2>1. Says(runner[j]) \in {"running"} \cup Result
    BY <1>1 DEF SendReport, Says, Result
  <2>2. api' \subseteq Report
    <3>1. [job |-> j, says |-> Says(runner[j]), waiting |-> TRUE] \in Report
      BY <2>1 DEF Report
    <3> QED
      BY <1>1, <1>t, <3>1 DEF SendReport, TypeOK
  <2> QED
    BY <1>1, <1>t, <1>s, <2>2, TypeOthers DEF SendReport, TypeOK
<1>2. CASE LoadData(j)
  BY <1>2, <1>t, <1>s, TypeOthers DEF LoadData, TypeOK, RunnerState, Result
<1>11. CASE LoadRefused(j)
  BY <1>11, <1>t, <1>s, TypeOthers DEF LoadRefused, TypeOK, RunnerState, Result
<1>3. CASE EndBody(j)
  BY <1>3, <1>t, <1>s, TypeOthers DEF EndBody, TypeOK, RunnerState, Result
<1>4. CASE TimeoutElapses(j)
  BY <1>4, <1>t, <1>s, TypeOthers DEF TimeoutElapses, TypeOK
<1>5. CASE StartPod(j)
  BY <1>5, <1>t, <1>s, TypeOthers DEF StartPod, TypeOK, RunnerState
<1>6. CASE RestartContainer(j)
  BY <1>6, <1>t, <1>s, <1>f, TypeOthers, UnwaitType DEF RestartContainer, TypeOK, RunnerState
<1>7. CASE ControllerFails(j)
  BY <1>7, <1>t, <1>s, <1>f, TypeOthers DEF ControllerFails, TypeOK
<1>8. CASE ObjectGone(j)
  BY <1>8, <1>t, <1>s, TypeOthers, UnwaitType DEF ObjectGone, TypeOK, RunnerState
<1>9. CASE RequestAbort(j)
  BY <1>9, <1>t, <1>s, BoundsAssumption, TypeOthers DEF RequestAbort, TypeOK
<1>10. CASE CheckRestart(j)
  BY <1>10, <1>t, <1>s, BoundsAssumption, TypeOthers DEF CheckRestart, TypeOK
<1> QED
  BY <1>1, <1>2, <1>3, <1>4, <1>5, <1>6, <1>7, <1>8, <1>9, <1>10, <1>11
     DEF RunnerNext, KubernetesNext, UserNext

LEMMA TypeReport ==
    ASSUME TypeInv, NEW m \in api, ApplyReport(m) \/ ReportTimesOut(m)
    PROVE  TypeInv'
<1> USE DEF kubeVars, apiVars, boundVars, dbVars, schedVars, historyVars
<1>t. TypeOK /\ m \in Report
  BY DEF TypeInv, TypeOK
<1>1. CASE ApplyReport(m)
  <2>1. m.says \in JobState
    BY <1>t DEF Report, Result, JobState, Active, Final
  <2>2. runner' \in [Jobs -> RunnerState]
    BY <1>1, <1>t DEF ApplyReport, TypeOK, RunnerState
  <2> QED
    BY <1>1, <1>t, <2>1, <2>2, SetStatesType, TypeOthers DEF ApplyReport, TypeOK
<1>2. CASE ReportTimesOut(m)
  <2>1. [m EXCEPT !.waiting = FALSE] \in Report
    BY <1>t DEF Report
  <2>2. nAborts' \in 0..MaxAborts /\ nRestarts' \in 0..MaxRestarts /\ nFaults' \in 0..MaxFaults
    BY <1>2, <1>t, BoundsAssumption DEF ReportTimesOut, Fault, TypeOK
  <2> QED
    BY <1>2, <1>t, <2>1, <2>2, TypeOthers DEF ReportTimesOut, TypeOK
<1> QED
  BY <1>1, <1>2

LEMMA TypeRestart ==
    ASSUME TypeInv, NEW r \in restarting, CommitRestart(r)
    PROVE  TypeInv'
<1> USE DEF kubeVars, apiVars, boundVars, dbVars, schedVars
<1>t. TypeOK
  BY DEF TypeInv
<1>1. requeues' \in [Jobs -> Nat]
  BY <1>t DEF CommitRestart, TypeOK
<1> QED
  BY <1>t, <1>1, SetStatesType, TypeOthers DEF CommitRestart, TypeOK, JobState, Active

LEMMA TypeStep == TypeInv /\ [Next]_vars => TypeInv'
<1> SUFFICES ASSUME TypeInv, [Next]_vars PROVE TypeInv'
  OBVIOUS
<1>1. CASE UNCHANGED vars
  BY <1>1 DEF vars, dbVars, kubeVars, apiVars, schedVars, boundVars, historyVars,
              TypeInv, TypeOK, JobAtHand
<1>2. CASE Next
  BY <1>2, TypeScheduler, TypeFault, TypeJob, TypeReport, TypeRestart DEF Next
<1> QED
  BY <1>1, <1>2

LEMMA TypeInvariance == Spec => []TypeInv
BY TypeInit, TypeStep, PTL DEF Spec

\* Every variable keeps its type, whatever the build, the clusters and the
\* interleaving of schedulers, runners, users and faults.
THEOREM TypeCorrect == Spec => []TypeOK
<1>1. TypeInv => TypeOK
  BY DEF TypeInv
<1> QED
  BY <1>1, TypeInvariance, PTL

-----------------------------------------------------------------------------

(***************************************************************************)
(* What any step does to the job table and to the place of a scheduler.    *)
(***************************************************************************)

\* Why a step may set the jobs in S to s, as far as the dependencies care: a
\* result comes from a scheduler that has decided so, or from a runner.
Justified(S, s) ==
    \/ s \notin {"finished", "skipped"}
    \/ s = "finished" /\ \E c \in Clusters : pc[c] = "finishWait" /\ S = {cur[c]}
    \/ s = "skipped" /\ \E c \in Clusters : pc[c] = "skip" /\ S = {cur[c]}
    \/ s # "skipped" /\ \E m \in api : S = {m.job}

StateChange == \E S \in SUBSET Jobs, s \in JobState : SetStates(S, s) /\ Justified(S, s)

LEMMA SchedulerState ==
    ASSUME TypeInv, NEW c \in Clusters, SchedulerNext(c) \/ SchedulerFault(c)
    PROVE  UNCHANGED <<state, held>> \/ StateChange
<1>1. ASSUME pc[c] \in JobStep PROVE {cur[c]} \in SUBSET Jobs
  BY <1>1 DEF TypeInv, JobAtHand
<1>2. CASE \/ FindTimedOut(c) \/ EndTimedOut(c) \/ EndAborted(c) \/ ListJobs(c) \/ HandleOrphanedJob(c)
           \/ RemoveOrphan(c) \/ ListNamespaces(c) \/ HandleOrphanedNamespace(c) \/ FindQueued(c)
           \/ CheckParents(c) \/ CreateNamespace(c)
  BY <1>2 DEF NoStateChange, FindTimedOut, EndTimedOut, EndAborted, ListJobs, HandleOrphanedJob,
              RemoveOrphan, ListNamespaces, HandleOrphanedNamespace, FindQueued, CheckParents,
              CreateNamespace
<1>3. CASE PostJob(c)
  BY <1>3 DEF PostJob, dbVars
<1>4. CASE MarkTimedOut(c)
  <2>1. {cur[c]} \in SUBSET Jobs /\ "error" \in JobState
    BY <1>1, <1>4 DEF MarkTimedOut, JobStep, JobState, Final
  <2> QED
    BY <1>4, <2>1 DEF MarkTimedOut, StateChange, Justified
<1>5. CASE TakeAborts(c)
  <2>1. {j \in aborts : state[j] = "queued"} \in SUBSET Jobs /\ "killed" \in JobState
    BY DEF TypeInv, TypeOK, JobState, Final
  <2> QED
    BY <1>5, <2>1 DEF TakeAborts, StateChange, Justified
<1>6. CASE MarkKilled(c)
  <2>1. {j \in {cur[c]} : state[j] \in Active} \in SUBSET Jobs /\ "killed" \in JobState
    BY <1>1, <1>6 DEF MarkKilled, JobStep, JobState, Final
  <2> QED
    BY <1>6, <2>1 DEF MarkKilled, StateChange, Justified
<1>7. CASE FailOrphan(c)
  <2>1. {j \in {cur[c]} : state[j] \in Active} \in SUBSET Jobs /\ "error" \in JobState
    BY <1>1, <1>7 DEF FailOrphan, JobStep, JobState, Final
  <2> QED
    BY <1>7, <2>1 DEF FailOrphan, StateChange, Justified
<1>8. CASE Skip(c)
  <2>1. {cur[c]} \in SUBSET Jobs /\ "skipped" \in JobState
    BY <1>1, <1>8 DEF Skip, JobStep, JobState, Final
  <2> QED
    BY <1>8, <2>1 DEF Skip, StateChange, Justified
<1>9. CASE FinishWait(c)
  <2>1. {cur[c]} \in SUBSET Jobs /\ "finished" \in JobState
    BY <1>1, <1>9 DEF FinishWait, JobStep, JobState, Final
  <2> QED
    BY <1>9, <2>1 DEF FinishWait, StateChange, Justified
<1>10. CASE NamespaceFailed(c)
  <2>1. {cur[c]} \in SUBSET Jobs /\ "error" \in JobState
    BY <1>1, <1>10 DEF NamespaceFailed, JobStep, JobState, Final
  <2> QED
    BY <1>10, <2>1 DEF NamespaceFailed, StateChange, Justified
<1>11. CASE MarkScheduled(c)
  <2>1. {cur[c]} \in SUBSET Jobs /\ "scheduled" \in JobState
    BY <1>1, <1>11 DEF MarkScheduled, JobStep, JobState, Active
  <2> QED
    BY <1>11, <2>1 DEF MarkScheduled, StateChange, Justified
<1>12. CASE SchedulerFault(c)
  BY <1>12 DEF SchedulerFault, NoStateChange, PassFails, ClusterInactive, SchedulerCrash,
               DeletionRefused, ListRefused, CreationRefused
<1> QED
  BY <1>2, <1>3, <1>4, <1>5, <1>6, <1>7, <1>8, <1>9, <1>10, <1>11, <1>12 DEF SchedulerNext

\* A step outside of the schedulers changes the state of jobs only to apply a
\* report or a restart.
LEMMA OtherState ==
    ASSUME TypeInv,
           \/ \E j \in Jobs : RunnerNext(j) \/ TimeoutElapses(j) \/ KubernetesNext(j) \/ UserNext(j)
           \/ \E m \in api : ApplyReport(m) \/ ReportTimesOut(m)
           \/ \E r \in restarting : CommitRestart(r)
    PROVE  (UNCHANGED <<state, held>> \/ StateChange) /\ UNCHANGED schedVars
<1> USE DEF dbVars, historyVars
<1>1. CASE \E j \in Jobs : RunnerNext(j) \/ TimeoutElapses(j) \/ KubernetesNext(j) \/ UserNext(j)
  BY <1>1 DEF RunnerNext, SendReport, LoadData, LoadRefused, EndBody, TimeoutElapses, KubernetesNext, StartPod,
              RestartContainer, ControllerFails, ObjectGone, UserNext, RequestAbort, CheckRestart
<1>2. ASSUME NEW m \in api, ApplyReport(m)
      PROVE  StateChange /\ UNCHANGED schedVars
  <2>1. {m.job} \in SUBSET Jobs /\ m.says \in JobState /\ m.says # "skipped"
    BY DEF TypeInv, TypeOK, Report, Result, JobState, Active, Final
  <2> QED
    BY <1>2, <2>1 DEF ApplyReport, StateChange, Justified
<1>3. ASSUME NEW m \in api, ReportTimesOut(m)
      PROVE  UNCHANGED <<state, held, schedVars>>
  BY <1>3 DEF ReportTimesOut
<1>4. ASSUME NEW r \in restarting, CommitRestart(r)
      PROVE  StateChange /\ UNCHANGED schedVars
  <2>1. Closure(r[1]) \in SUBSET Jobs /\ "queued" \in JobState
    BY DEF Closure, JobState, Active
  <2> QED
    BY <1>4, <2>1 DEF CommitRestart, StateChange, Justified
<1> QED
  BY <1>1, <1>2, <1>3, <1>4

\* A scheduler moves only itself.
LEMMA SchedulerFrame ==
    ASSUME TypeInv, NEW c \in Clusters, SchedulerNext(c) \/ SchedulerFault(c),
           NEW d \in Clusters, d # c
    PROVE  pc'[d] = pc[d] /\ cur'[d] = cur[d] /\ todo'[d] = todo[d]
<1> USE DEF TypeInv, TypeOK, Goto, Loop, Handle, Handled, Leave
<1>1. CASE SchedulerFault(c)
  BY <1>1 DEF SchedulerFault, PassFails, ClusterInactive, SchedulerCrash, DeletionRefused,
              ListRefused, CreationRefused
<1>2. CASE FindTimedOut(c) \/ EndTimedOut(c) \/ MarkTimedOut(c)
  BY <1>2 DEF FindTimedOut, EndTimedOut, MarkTimedOut
<1>3. CASE TakeAborts(c) \/ EndAborted(c) \/ MarkKilled(c)
  BY <1>3 DEF TakeAborts, EndAborted, MarkKilled
<1>4. CASE ListJobs(c) \/ HandleOrphanedJob(c) \/ FailOrphan(c) \/ RemoveOrphan(c)
  BY <1>4 DEF ListJobs, HandleOrphanedJob, FailOrphan, RemoveOrphan
<1>5. CASE ListNamespaces(c) \/ HandleOrphanedNamespace(c) \/ FindQueued(c) \/ CheckParents(c)
  BY <1>5 DEF ListNamespaces, HandleOrphanedNamespace, FindQueued, CheckParents
<1>6. CASE Skip(c) \/ FinishWait(c) \/ CreateNamespace(c) \/ NamespaceFailed(c) \/ MarkScheduled(c)
  BY <1>6 DEF Skip, FinishWait, CreateNamespace, NamespaceFailed, MarkScheduled
<1>7. CASE PostJob(c)
  BY <1>7 DEF PostJob
<1> QED
  BY <1>1, <1>2, <1>3, <1>4, <1>5, <1>6, <1>7 DEF SchedulerNext

(***************************************************************************)
(* What the scheduler decides, and that it stays decided.                  *)
(***************************************************************************)

\* The conditions of DependenciesHeld and SkipJustified for one job.
Ready(j) == \A d \in Deps[j] : held[d.job] \cap d.on # {}
Unmet(j) == \E d \in Deps[j] : held[d.job] \ d.on # {}

\* The steps at which a job is about to run.
Chosen == {"finishWait", "namespace", "post"}

\* A job gets to one of these steps, or is about to be skipped, only by the
\* check of its parents.
LEMMA DecisionStep ==
    ASSUME TypeInv, NEW c \in Clusters, SchedulerNext(c) \/ SchedulerFault(c)
    PROVE  /\ pc'[c] \in Chosen => \/ pc[c] \in Chosen /\ cur'[c] = cur[c]
                                   \/ cur'[c] \in Jobs /\ ConditionMet(cur'[c])
           /\ pc'[c] = "skip" => /\ cur'[c] \in Jobs
                                 /\ ~ParentRunning(cur'[c]) /\ ~ConditionMet(cur'[c])
<1> USE DEF TypeInv, TypeOK, Goto, Loop, Handle, Handled, Leave, Chosen, After
<1>1. CASE SchedulerFault(c)
  BY <1>1 DEF SchedulerFault, PassFails, ClusterInactive, SchedulerCrash, DeletionRefused,
              ListRefused, CreationRefused
<1>2. CASE FindTimedOut(c) \/ EndTimedOut(c) \/ MarkTimedOut(c)
  BY <1>2 DEF FindTimedOut, EndTimedOut, MarkTimedOut
<1>3. CASE TakeAborts(c) \/ EndAborted(c) \/ MarkKilled(c)
  BY <1>3 DEF TakeAborts, EndAborted, MarkKilled
<1>4. CASE ListJobs(c) \/ HandleOrphanedJob(c) \/ FailOrphan(c) \/ RemoveOrphan(c)
  BY <1>4 DEF ListJobs, HandleOrphanedJob, FailOrphan, RemoveOrphan
<1>5. CASE ListNamespaces(c) \/ HandleOrphanedNamespace(c) \/ FindQueued(c)
  BY <1>5 DEF ListNamespaces, HandleOrphanedNamespace, FindQueued
<1>6. CASE CheckParents(c)
  BY <1>6 DEF CheckParents
<1>7. CASE Skip(c) \/ FinishWait(c) \/ CreateNamespace(c) \/ NamespaceFailed(c) \/ MarkScheduled(c)
  BY <1>7 DEF Skip, FinishWait, CreateNamespace, NamespaceFailed, MarkScheduled
<1>8. CASE PostJob(c)
  BY <1>8 DEF PostJob
<1> QED
  BY <1>1, <1>2, <1>3, <1>4, <1>5, <1>6, <1>7, <1>8 DEF SchedulerNext

\* What has ended, and how, is never forgotten: later reports, restarts and
\* overwrites of the state only add to it.
HeldGrows == \A j \in Jobs : held[j] \subseteq held'[j]

LEMMA StateStep ==
    ASSUME TypeInv, [Next]_vars
    PROVE  UNCHANGED <<state, held>> \/ StateChange
<1>1. CASE UNCHANGED vars
  BY <1>1 DEF vars, dbVars, historyVars
<1> QED
  BY <1>1, SchedulerState, OtherState DEF Next

LEMMA HeldStep ==
    ASSUME TypeInv, [Next]_vars
    PROVE  HeldGrows
<1>1. CASE UNCHANGED <<state, held>>
  BY <1>1 DEF HeldGrows
<1>2. ASSUME NEW S \in SUBSET Jobs, NEW s \in JobState, SetStates(S, s) PROVE HeldGrows
  BY <1>2 DEF SetStates, HeldGrows
<1> QED
  BY <1>1, <1>2, StateStep DEF StateChange

LEMMA ReadyStays ==
    ASSUME HeldGrows, NEW j \in Jobs
    PROVE  (Ready(j) => Ready(j)') /\ (Unmet(j) => Unmet(j)')
<1>1. \A d \in Deps[j] : d.job \in Jobs
  BY JobsAssumption
<1> QED
  BY <1>1 DEF HeldGrows, Ready, Unmet

\* A final state is among those the job has held.
EndedHeld == \A j \in Jobs : state[j] \in Final => state[j] \in held[j]

LEMMA EndedHeldStep ==
    ASSUME TypeInv, EndedHeld, [Next]_vars
    PROVE  EndedHeld'
<1>1. CASE UNCHANGED <<state, held>>
  BY <1>1 DEF EndedHeld
<1>2. ASSUME NEW S \in SUBSET Jobs, NEW s \in JobState, SetStates(S, s) PROVE EndedHeld'
  BY <1>2 DEF SetStates, EndedHeld, TypeInv, TypeOK
<1> QED
  BY <1>1, <1>2, StateStep DEF StateChange

\* What the SELECT of the parents' states says of their past.
LEMMA ParentsAllow ==
    ASSUME TypeInv, EndedHeld, NEW j \in Jobs
    PROVE  /\ ConditionMet(j) => Ready(j)
           /\ ~ParentRunning(j) /\ ~ConditionMet(j) => Unmet(j)
<1>1. \A d \in Deps[j] : d.job \in Jobs /\ d.on \subseteq Final
  BY JobsAssumption DEF Condition, Final
<1>2. \A d \in Deps[j] : state[d.job] \notin Active => state[d.job] \in Final
  BY <1>1 DEF TypeInv, TypeOK, JobState
<1>3. ConditionMet(j) => Ready(j)
  BY <1>1 DEF ConditionMet, Ready, EndedHeld
<1>4. ~ParentRunning(j) /\ ~ConditionMet(j) => Unmet(j)
  BY <1>1, <1>2 DEF ConditionMet, ParentRunning, Unmet, EndedHeld
<1> QED
  BY <1>3, <1>4

\* The decisions the schedulers are about to carry out are right.
DecidedReady == \A c \in Clusters : pc[c] \in Chosen => Ready(cur[c])
DecidedUnmet == \A c \in Clusters : pc[c] = "skip" => Unmet(cur[c])

LEMMA DecidedStep ==
    ASSUME TypeInv, EndedHeld, DecidedReady, DecidedUnmet, [Next]_vars
    PROVE  DecidedReady' /\ DecidedUnmet'
<1>g. HeldGrows
  BY HeldStep
<1>j. \A c \in Clusters : (pc[c] \in Chosen \/ pc[c] = "skip") => cur[c] \in Jobs
  BY DEF TypeInv, JobAtHand, Chosen, JobStep
<1>1. ASSUME NEW c \in Clusters, pc'[c] = pc[c], cur'[c] = cur[c]
      PROVE  /\ pc'[c] \in Chosen => Ready(cur[c])'
             /\ pc'[c] = "skip" => Unmet(cur[c])'
  <2>1. CASE pc[c] \in Chosen
    <3>1. Ready(cur[c]) /\ cur[c] \in Jobs /\ pc[c] # "skip"
      BY <1>j, <2>1 DEF DecidedReady, Chosen
    <3>2. \A j \in Jobs : Ready(j) => Ready(j)'
      BY <1>g, ReadyStays
    <3> QED
      BY <1>1, <3>1, <3>2 DEF Ready
  <2>2. CASE pc[c] = "skip"
    <3>1. Unmet(cur[c]) /\ cur[c] \in Jobs /\ pc[c] \notin Chosen
      BY <1>j, <2>2 DEF DecidedUnmet, Chosen
    <3>2. \A j \in Jobs : Unmet(j) => Unmet(j)'
      BY <1>g, ReadyStays
    <3> QED
      BY <1>1, <3>1, <3>2 DEF Unmet
  <2> QED
    BY <1>1, <2>1, <2>2
<1>2. CASE UNCHANGED schedVars
  BY <1>1, <1>2 DEF schedVars, DecidedReady, DecidedUnmet
<1>3. ASSUME NEW c \in Clusters, SchedulerNext(c) \/ SchedulerFault(c)
      PROVE  DecidedReady' /\ DecidedUnmet'
  <2>1. ASSUME NEW d \in Clusters, d # c
        PROVE  pc'[d] = pc[d] /\ cur'[d] = cur[d]
    BY <1>3, <2>1, SchedulerFrame
  <2>2. pc'[c] \in Chosen => Ready(cur[c])'
    <3> SUFFICES ASSUME pc'[c] \in Chosen PROVE Ready(cur[c])'
      OBVIOUS
    <3>1. cur'[c] \in Jobs /\ Ready(cur'[c])
      <4>1. CASE pc[c] \in Chosen /\ cur'[c] = cur[c]
        BY <4>1, <1>j DEF DecidedReady
      <4>2. CASE cur'[c] \in Jobs /\ ConditionMet(cur'[c])
        BY <4>2, ParentsAllow
      <4> QED
        BY <1>3, <4>1, <4>2, DecisionStep
    <3>2. \A j \in Jobs : Ready(j) => Ready(j)'
      BY <1>g, ReadyStays
    <3> QED
      BY <3>1, <3>2 DEF Ready
  <2>3. pc'[c] = "skip" => Unmet(cur[c])'
    <3> SUFFICES ASSUME pc'[c] = "skip" PROVE Unmet(cur[c])'
      OBVIOUS
    <3>1. cur'[c] \in Jobs /\ Unmet(cur'[c])
      BY <1>3, DecisionStep, ParentsAllow
    <3>2. \A j \in Jobs : Unmet(j) => Unmet(j)'
      BY <1>g, ReadyStays
    <3> QED
      BY <3>1, <3>2 DEF Unmet
  <2> QED
    BY <1>1, <2>1, <2>2, <2>3 DEF DecidedReady, DecidedUnmet
<1>4. CASE UNCHANGED vars
  BY <1>2, <1>4 DEF vars
<1> QED
  BY <1>2, <1>3, <1>4, OtherState DEF Next

(***************************************************************************)
(* Executions, and the traces they leave.                                  *)
(***************************************************************************)

\* An execution begins: the POST of a scheduler creates the IBJob of a job.
Begins(c) ==
    /\ pc[c] = "post" /\ cur[c] \in Jobs /\ ibjob[cur[c]] = "none"
    /\ ibjob' = [ibjob EXCEPT ![cur[c]] = "live"]
    /\ starts' = [starts EXCEPT ![cur[c]] = @ + 1]

NoneBegins == starts' = starts /\ \A j \in Jobs : ibjob'[j] # "none" => ibjob[j] # "none"

LEMMA SchedulerExecution ==
    ASSUME TypeInv, NEW c \in Clusters, SchedulerNext(c) \/ SchedulerFault(c)
    PROVE  (NoneBegins \/ Begins(c)) /\ UNCHANGED <<runner, apiVars>>
<1> USE DEF kubeVars, NoneBegins
<1>1. CASE SchedulerFault(c)
  BY <1>1 DEF SchedulerFault, PassFails, ClusterInactive, SchedulerCrash, DeletionRefused,
              ListRefused, CreationRefused
<1>2. CASE FindTimedOut(c) \/ MarkTimedOut(c) \/ TakeAborts(c) \/ MarkKilled(c) \/ ListJobs(c)
           \/ HandleOrphanedJob(c) \/ FailOrphan(c)
  BY <1>2 DEF FindTimedOut, MarkTimedOut, TakeAborts, MarkKilled, ListJobs, HandleOrphanedJob, FailOrphan
<1>3. CASE EndTimedOut(c) \/ EndAborted(c) \/ RemoveOrphan(c)
  <2>1. \A j : KubeDeleteJob(c, j) => \A k \in Jobs : ibjob'[k] # "none" => ibjob[k] # "none"
    BY DEF KubeDeleteJob, TypeInv, TypeOK
  <2> QED
    BY <1>3, <2>1 DEF EndTimedOut, EndAborted, RemoveOrphan
<1>4. CASE ListNamespaces(c) \/ HandleOrphanedNamespace(c) \/ FindQueued(c) \/ CheckParents(c)
           \/ Skip(c) \/ FinishWait(c) \/ CreateNamespace(c) \/ NamespaceFailed(c) \/ MarkScheduled(c)
  BY <1>4 DEF ListNamespaces, HandleOrphanedNamespace, FindQueued, CheckParents, Skip, FinishWait,
              CreateNamespace, NamespaceFailed, MarkScheduled
<1>5. CASE PostJob(c)
  <2>1. cur[c] \in Jobs
    BY <1>5 DEF PostJob, TypeInv, JobAtHand, JobStep
  <2> QED
    BY <1>5, <2>1 DEF PostJob, Begins
<1> QED
  BY <1>1, <1>2, <1>3, <1>4, <1>5 DEF SchedulerNext

\* A runner is started for an IBJob or goes on when its report is answered,
\* and a report is sent by a runner.
Traced(j) == runner[j] # "off" \/ ibjob[j] # "none" \/ \E n \in api : n.job = j
RunnersTraced == \A j \in Jobs : runner'[j] # "off" => Traced(j)
ReportsTraced == \A m \in api' : Traced(m.job)

LEMMA OtherExecution ==
    ASSUME TypeInv,
           \/ \E j \in Jobs : RunnerNext(j) \/ TimeoutElapses(j) \/ KubernetesNext(j) \/ UserNext(j)
           \/ \E m \in api : ApplyReport(m) \/ ReportTimesOut(m)
           \/ \E r \in restarting : CommitRestart(r)
    PROVE  NoneBegins /\ RunnersTraced /\ ReportsTraced
<1> USE DEF kubeVars, apiVars, historyVars, NoneBegins, RunnersTraced, ReportsTraced, Traced, TypeInv, TypeOK
<1>u. ASSUME NEW j \in Jobs, api' = Unwait(j) PROVE ReportsTraced
  <2> SUFFICES ASSUME NEW n \in Unwait(j) PROVE \E m \in api : m.job = n.job
    BY <1>u
  <2>1. PICK m \in api : n = [m EXCEPT !.waiting = @ /\ m.job # j]
    BY DEF Unwait
  <2>2. n.job = m.job
    BY <2>1 DEF Report
  <2> QED
    BY <2>2
<1>1. ASSUME NEW j \in Jobs, RunnerNext(j) \/ TimeoutElapses(j)
      PROVE  NoneBegins /\ RunnersTraced /\ ReportsTraced
  <2>1. CASE SendReport(j)
    <3>1. runner[j] # "off"
      BY <2>1 DEF SendReport, Result
    <3>2. [job |-> j, says |-> Says(runner[j]), waiting |-> TRUE].job = j
      OBVIOUS
    <3>3. ASSUME NEW m \in api' PROVE Traced(m.job)
      <4>1. m \in api \/ m.job = j
        BY <2>1, <3>2, <3>3 DEF SendReport
      <4> QED
        BY <3>1, <4>1
    <3>4. NoneBegins /\ RunnersTraced
      BY <2>1 DEF SendReport
    <3> QED
      BY <3>3, <3>4
  <2>2. CASE LoadData(j) \/ LoadRefused(j) \/ EndBody(j) \/ TimeoutElapses(j)
    BY <2>2 DEF LoadData, LoadRefused, EndBody, TimeoutElapses
  <2> QED
    BY <1>1, <2>1, <2>2 DEF RunnerNext
<1>2. ASSUME NEW j \in Jobs, KubernetesNext(j) \/ UserNext(j)
      PROVE  NoneBegins /\ RunnersTraced /\ ReportsTraced
  <2>1. CASE StartPod(j) \/ ControllerFails(j)
    BY <2>1 DEF StartPod, ControllerFails
  <2>2. CASE RestartContainer(j) \/ ObjectGone(j)
    <3>1. ReportsTraced
      BY <1>u, <2>2 DEF RestartContainer, ObjectGone
    <3>2. NoneBegins /\ RunnersTraced
      BY <2>2 DEF RestartContainer, ObjectGone
    <3> QED
      BY <3>1, <3>2
  <2>3. CASE UserNext(j)
    BY <2>3 DEF UserNext, RequestAbort, CheckRestart
  <2> QED
    BY <1>2, <2>1, <2>2, <2>3 DEF KubernetesNext
<1>3. ASSUME NEW m \in api, ApplyReport(m) \/ ReportTimesOut(m)
      PROVE  NoneBegins /\ RunnersTraced /\ ReportsTraced
  <2>1. CASE ApplyReport(m)
    BY <2>1 DEF ApplyReport
  <2>2. CASE ReportTimesOut(m)
    <3>1. [m EXCEPT !.waiting = FALSE].job = m.job
      BY DEF Report
    <3> QED
      BY <2>2, <3>1 DEF ReportTimesOut
  <2> QED
    BY <1>3, <2>1, <2>2
<1>4. ASSUME NEW r \in restarting, CommitRestart(r)
      PROVE  NoneBegins /\ RunnersTraced /\ ReportsTraced
  BY <1>4 DEF CommitRestart
<1> QED
  BY <1>1, <1>2, <1>3, <1>4

(***************************************************************************)
(* The inductive invariant and the theorems.                               *)
(*                                                                         *)
(* DependenciesHeld is not inductive: a scheduler acts on what it has read  *)
(* before, and a 'finished' may come from a report that is older than the   *)
(* state it overwrites. So the invariant also speaks of the decisions under *)
(* way, and of the traces of an execution: an IBJob, a runner or a report   *)
(* exists only for a job that was started, hence was ready.                *)
(***************************************************************************)

Started(j) == starts[j] > 0
TracesStarted == \A j \in Jobs : Traced(j) => Started(j)
RunReady == \A j \in Jobs : Started(j) \/ "finished" \in held[j] => Ready(j)
SkippedUnmet == \A j \in Jobs : "skipped" \in held[j] => Unmet(j)

DependencyInv ==
    /\ TypeInv
    /\ EndedHeld
    /\ DecidedReady
    /\ DecidedUnmet
    /\ TracesStarted
    /\ RunReady
    /\ SkippedUnmet

LEMMA DependencyInit == Init => DependencyInv
<1> SUFFICES ASSUME Init PROVE DependencyInv
  OBVIOUS
<1>1. TypeInv
  BY TypeInit
<1>2. EndedHeld /\ DecidedReady /\ DecidedUnmet
  BY DEF Init, EndedHeld, DecidedReady, DecidedUnmet, Final, Chosen
<1>3. TracesStarted /\ RunReady /\ SkippedUnmet
  BY DEF Init, TracesStarted, Traced, RunReady, Started, SkippedUnmet
<1> QED
  BY <1>1, <1>2, <1>3 DEF DependencyInv

\* Executions are begun for ready jobs only, and everything that acts for a
\* job can be traced back to one.
LEMMA TracesStep ==
    ASSUME DependencyInv, [Next]_vars
    PROVE  /\ TracesStarted'
           /\ \A j \in Jobs : Started(j)' => Started(j) \/ Ready(j)
<1>t. TypeOK /\ TypeInv
  BY DEF DependencyInv, TypeInv
<1>r. \A m \in api : m.job \in Jobs
  BY <1>t DEF TypeOK, Report
<1>1. CASE UNCHANGED vars
  BY <1>1 DEF vars, kubeVars, apiVars, historyVars, TracesStarted, Traced, Started, DependencyInv
<1>2. CASE NoneBegins /\ RunnersTraced /\ ReportsTraced
  <2>1. \A j \in Jobs : Started(j)' <=> Started(j)
    BY <1>2 DEF NoneBegins, Started
  <2>2. \A j \in Jobs : Traced(j)' => Traced(j)
    BY <1>2 DEF NoneBegins, RunnersTraced, ReportsTraced, Traced
  <2> QED
    BY <2>1, <2>2 DEF TracesStarted, DependencyInv
<1>3. ASSUME NEW c \in Clusters, SchedulerNext(c) \/ SchedulerFault(c)
      PROVE  /\ TracesStarted'
             /\ \A j \in Jobs : Started(j)' => Started(j) \/ Ready(j)
  <2>1. CASE NoneBegins /\ UNCHANGED <<runner, apiVars>>
    <3>1. \A j \in Jobs : Started(j)' <=> Started(j)
      BY <2>1 DEF NoneBegins, Started
    <3>2. \A j \in Jobs : Traced(j)' => Traced(j)
      BY <2>1 DEF NoneBegins, Traced, apiVars
    <3> QED
      BY <3>1, <3>2 DEF TracesStarted, DependencyInv
  <2>2. CASE Begins(c) /\ UNCHANGED <<runner, apiVars>>
    <3>1. Ready(cur[c])
      BY <2>2 DEF Begins, DependencyInv, DecidedReady, Chosen
    <3>2. \A j \in Jobs : j # cur[c] => (Started(j)' <=> Started(j)) /\ (Traced(j)' => Traced(j))
      BY <1>t, <2>2 DEF Begins, Started, Traced, TypeOK, apiVars
    <3>3. \A j \in Jobs : j = cur[c] => Started(j)'
      BY <1>t, <2>2 DEF Begins, Started, TypeOK
    <3>4. \A j \in Jobs : j = cur[c] => Ready(j)
      BY <3>1 DEF Ready
    <3> QED
      BY <3>2, <3>3, <3>4 DEF TracesStarted, DependencyInv
  <2> QED
    BY <1>t, <1>3, <2>1, <2>2, SchedulerExecution
<1> QED
  BY <1>t, <1>1, <1>2, <1>3, OtherExecution DEF Next

\* A job gets to have finished, or to have been skipped, when a scheduler has
\* decided so or its runner has been at work.
LEMMA HeldSource ==
    ASSUME DependencyInv, [Next]_vars, NEW j \in Jobs
    PROVE  /\ "finished" \in held'[j] => "finished" \in held[j] \/ Ready(j)
           /\ "skipped" \in held'[j] => "skipped" \in held[j] \/ Unmet(j)
<1>t. TypeOK /\ TypeInv
  BY DEF DependencyInv, TypeInv
<1>1. CASE UNCHANGED <<state, held>>
  BY <1>1
<1>2. ASSUME NEW S \in SUBSET Jobs, NEW s \in JobState, SetStates(S, s), Justified(S, s)
      PROVE  /\ "finished" \in held'[j] => "finished" \in held[j] \/ Ready(j)
             /\ "skipped" \in held'[j] => "skipped" \in held[j] \/ Unmet(j)
  <2>1. held'[j] = IF j \in S THEN held[j] \cup ({s} \cap Final) ELSE held[j]
    BY <1>2 DEF SetStates
  <2>2. ASSUME s = "finished", j \in S PROVE Ready(j)
    <3>1. CASE \E c \in Clusters : pc[c] = "finishWait" /\ S = {cur[c]}
      <4>1. PICK c \in Clusters : pc[c] = "finishWait" /\ j = cur[c]
        BY <2>2, <3>1
      <4> QED
        BY <4>1 DEF DependencyInv, DecidedReady, Chosen, Ready
    <3>2. CASE \E m \in api : S = {m.job}
      <4>1. PICK m \in api : j = m.job
        BY <2>2, <3>2
      <4>2. Started(j)
        BY <4>1 DEF DependencyInv, TracesStarted, Traced
      <4> QED
        BY <4>2 DEF DependencyInv, RunReady
    <3> QED
      BY <1>2, <2>2, <3>1, <3>2 DEF Justified
  <2>3. ASSUME s = "skipped", j \in S PROVE Unmet(j)
    BY <1>2, <2>3 DEF Justified, DependencyInv, DecidedUnmet
  <2> QED
    BY <2>1, <2>2, <2>3
<1> QED
  BY <1>t, <1>1, <1>2, StateStep DEF StateChange

LEMMA DependencyStep == DependencyInv /\ [Next]_vars => DependencyInv'
<1> SUFFICES ASSUME DependencyInv, [Next]_vars PROVE DependencyInv'
  OBVIOUS
<1> USE DEF DependencyInv
<1>1. TypeInv' /\ EndedHeld' /\ DecidedReady' /\ DecidedUnmet' /\ HeldGrows
  BY TypeStep, EndedHeldStep, DecidedStep, HeldStep
<1>2. TracesStarted'
  BY TracesStep
<1>3. RunReady'
  <2> SUFFICES ASSUME NEW j \in Jobs, Started(j)' \/ "finished" \in held'[j] PROVE Ready(j)'
    BY DEF RunReady
  <2>1. Ready(j)
    BY TracesStep, HeldSource DEF RunReady
  <2> QED
    BY <1>1, <2>1, ReadyStays
<1>4. SkippedUnmet'
  <2> SUFFICES ASSUME NEW j \in Jobs, "skipped" \in held'[j] PROVE Unmet(j)'
    BY DEF SkippedUnmet
  <2>1. Unmet(j)
    BY HeldSource DEF SkippedUnmet
  <2> QED
    BY <1>1, <2>1, ReadyStays
<1> QED
  BY <1>1, <1>2, <1>3, <1>4

LEMMA DependencyInvariance == Spec => []DependencyInv
BY DependencyInit, DependencyStep, PTL DEF Spec

\* No job has ever run, in any build and whatever the schedulers, late reports,
\* restarts, aborts and faults, before each of its dependencies had ended in
\* a state that its "on" lists.
THEOREM DependenciesAreHeld == Spec => []DependenciesHeld
<1>1. DependencyInv => DependenciesHeld
  BY DEF DependencyInv, DependenciesHeld, HasRun, RunReady, Started, Ready
<1> QED
  BY <1>1, DependencyInvariance, PTL

\* No job has ever been skipped without a dependency that ended in a state
\* its "on" does not list.
THEOREM SkipsAreJustified == Spec => []SkipJustified
<1>1. DependencyInv => SkipJustified
  BY DEF DependencyInv, SkipJustified, SkippedUnmet, Unmet
<1> QED
  BY <1>1, DependencyInvariance, PTL

(***************************************************************************)
(* The inductive invariant.                                                *)
(*                                                                         *)
(* A scheduler neither locks nor claims the jobs it has selected, so the    *)
(* bound on the executions of a job rests on three facts: every scheduler   *)
(* schedules and deletes in its own cluster only; an IBJob of the name is   *)
(* in the way of a second POST; and it is not taken out of the way, by a    *)
(* pass that looked at the job earlier, while the job is queued again       *)
(* without having been restarted.                                          *)
(***************************************************************************)

\* The steps of the loop over the queued jobs, and of the two loops that end
\* jobs.
Picking == {"pick", "skip", "finishWait", "namespace", "namespaceFailed", "post", "markScheduled"}
Ending == {"endTimedOut", "markTimedOut", "endAborted", "markKilled"}

\* A scheduler may still POST the IBJob of j.
Selected(c, j) ==
    \/ pc[c] \in Picking /\ j \in todo[c]
    \/ pc[c] \in {"namespace", "post"} /\ cur[c] = j
Open(j) == state[j] = "queued" \/ \E c \in Clusters : Selected(c, j)

\* A scheduler may still delete the IBJob of j without another look at j.
AboutToEnd(c, j) ==
    \/ pc[c] \in Ending /\ j \in todo[c]
    \/ pc[c] = "removeOrphan" /\ cur[c] = j

\* j has been put into the queue more often than it was executed.
Spare(j) == starts[j] <= requeues[j]

Cleared(j) == ibjob[j] \in {"none", "deleting"}

OwnJobs == \A c \in Clusters : \A j \in Jobs : Selected(c, j) => ClusterOf[j] = c
OpenSpare == \A j \in Jobs : Open(j) /\ Cleared(j) => Spare(j)
EndingSpare == \A j \in Jobs : state[j] = "queued" /\ AboutToEnd(ClusterOf[j], j) => Spare(j)

ExecutionInv ==
    /\ TypeInv
    /\ OneExecutionPerRequest
    /\ OwnJobs
    /\ OpenSpare
    /\ EndingSpare

LEMMA ExecutionInit == Init => ExecutionInv
<1> SUFFICES ASSUME Init PROVE ExecutionInv
  OBVIOUS
<1>1. TypeInv
  BY TypeInit
<1>2. \A c \in Clusters : \A j \in Jobs : ~Selected(c, j)
  BY DEF Init, Selected, Picking
<1>3. \A j \in Jobs : Spare(j) /\ starts[j] <= 1 + requeues[j]
  BY DEF Init, Spare
<1> QED
  BY <1>1, <1>2, <1>3 DEF ExecutionInv, OneExecutionPerRequest, OwnJobs, OpenSpare, EndingSpare

(***************************************************************************)
(* What the steps do to it.                                                *)
(***************************************************************************)

\* No scheduler puts a job into the queue.
LEMMA SchedulerQueue ==
    ASSUME TypeInv, NEW c \in Clusters, SchedulerNext(c) \/ SchedulerFault(c)
    PROVE  /\ requeues' = requeues
           /\ \A j \in Jobs : state'[j] = "queued" => state[j] = "queued"
<1>s. ASSUME NEW S, NEW s \in JobState \ {"queued"}, SetStates(S, s), NEW j \in Jobs
      PROVE  state'[j] = "queued" => state[j] = "queued" /\ j \notin S
  BY <1>s DEF SetStates
<1>1. CASE SchedulerFault(c)
  BY <1>1 DEF SchedulerFault, NoStateChange, PassFails, ClusterInactive, SchedulerCrash,
              DeletionRefused, ListRefused, CreationRefused
<1>2. CASE \/ FindTimedOut(c) \/ EndTimedOut(c) \/ EndAborted(c) \/ ListJobs(c) \/ HandleOrphanedJob(c)
           \/ RemoveOrphan(c) \/ ListNamespaces(c) \/ HandleOrphanedNamespace(c) \/ FindQueued(c)
           \/ CheckParents(c) \/ CreateNamespace(c) \/ PostJob(c)
  BY <1>2 DEF NoStateChange, FindTimedOut, EndTimedOut, EndAborted, ListJobs, HandleOrphanedJob,
              RemoveOrphan, ListNamespaces, HandleOrphanedNamespace, FindQueued, CheckParents,
              CreateNamespace, PostJob, dbVars
<1>3. CASE MarkTimedOut(c) \/ TakeAborts(c) \/ MarkKilled(c) \/ FailOrphan(c) \/ Skip(c)
           \/ FinishWait(c) \/ NamespaceFailed(c) \/ MarkScheduled(c)
  <2>1. {"error", "killed", "skipped", "finished", "scheduled"} \subseteq JobState \ {"queued"}
    BY DEF JobState, Active, Final
  <2> QED
    BY <1>3, <1>s, <2>1 DEF MarkTimedOut, TakeAborts, MarkKilled, FailOrphan, Skip, FinishWait,
                            NamespaceFailed, MarkScheduled
<1> QED
  BY <1>1, <1>2, <1>3 DEF SchedulerNext

\* A scheduler selects queued jobs of its own cluster, and is then about to
\* POST only what it has selected.
LEMMA SelectionStep ==
    ASSUME TypeInv, NEW c \in Clusters, SchedulerNext(c) \/ SchedulerFault(c),
           NEW j \in Jobs, Selected(c, j)'
    PROVE  Selected(c, j) \/ (state[j] = "queued" /\ ClusterOf[j] = c)
<1> USE DEF TypeInv, TypeOK, Goto, Loop, Handle, Handled, Leave, Selected, Picking, After
<1>1. CASE SchedulerFault(c)
  BY <1>1 DEF SchedulerFault, PassFails, ClusterInactive, SchedulerCrash, DeletionRefused,
              ListRefused, CreationRefused
<1>2. CASE FindTimedOut(c) \/ EndTimedOut(c) \/ MarkTimedOut(c)
  BY <1>2 DEF FindTimedOut, EndTimedOut, MarkTimedOut
<1>3. CASE TakeAborts(c) \/ EndAborted(c) \/ MarkKilled(c)
  BY <1>3 DEF TakeAborts, EndAborted, MarkKilled
<1>4. CASE ListJobs(c) \/ HandleOrphanedJob(c) \/ FailOrphan(c) \/ RemoveOrphan(c)
  BY <1>4 DEF ListJobs, HandleOrphanedJob, FailOrphan, RemoveOrphan
<1>5. CASE ListNamespaces(c) \/ HandleOrphanedNamespace(c) \/ FindQueued(c)
  BY <1>5 DEF ListNamespaces, HandleOrphanedNamespace, FindQueued
<1>6. CASE CheckParents(c)
  BY <1>6 DEF CheckParents
<1>7. CASE Skip(c) \/ FinishWait(c) \/ CreateNamespace(c) \/ NamespaceFailed(c) \/ MarkScheduled(c)
  BY <1>7 DEF Skip, FinishWait, CreateNamespace, NamespaceFailed, MarkScheduled
<1>8. CASE PostJob(c)
  BY <1>8 DEF PostJob
<1> QED
  BY <1>1, <1>2, <1>3, <1>4, <1>5, <1>6, <1>7, <1>8 DEF SchedulerNext

\* When a scheduler begins to end a job, that job is not queued.
LEMMA EndingStep ==
    ASSUME TypeInv, NEW c \in Clusters, SchedulerNext(c) \/ SchedulerFault(c),
           NEW j \in Jobs, AboutToEnd(c, j)'
    PROVE  AboutToEnd(c, j) \/ state'[j] # "queued"
<1> USE DEF TypeInv, TypeOK, Goto, Loop, Handle, Handled, Leave, AboutToEnd, Ending, After
<1>1. CASE SchedulerFault(c)
  BY <1>1 DEF SchedulerFault, PassFails, ClusterInactive, SchedulerCrash, DeletionRefused,
              ListRefused, CreationRefused
<1>2. CASE FindTimedOut(c)
  BY <1>2 DEF FindTimedOut, NoStateChange
<1>3. CASE TakeAborts(c)
  BY <1>3 DEF TakeAborts, SetStates
<1>4. CASE EndTimedOut(c) \/ MarkTimedOut(c) \/ EndAborted(c) \/ MarkKilled(c)
  BY <1>4 DEF EndTimedOut, MarkTimedOut, EndAborted, MarkKilled
<1>5. CASE HandleOrphanedJob(c)
  BY <1>5 DEF HandleOrphanedJob, InUse, Active, NoStateChange
<1>6. CASE FailOrphan(c)
  BY <1>6 DEF FailOrphan, SetStates, Active
<1>7. CASE ListJobs(c) \/ RemoveOrphan(c) \/ ListNamespaces(c) \/ HandleOrphanedNamespace(c) \/ FindQueued(c)
  BY <1>7 DEF ListJobs, RemoveOrphan, ListNamespaces, HandleOrphanedNamespace, FindQueued
<1>8. CASE CheckParents(c)
  BY <1>8 DEF CheckParents
<1>9. CASE Skip(c) \/ FinishWait(c) \/ CreateNamespace(c) \/ NamespaceFailed(c) \/ MarkScheduled(c)
  BY <1>9 DEF Skip, FinishWait, CreateNamespace, NamespaceFailed, MarkScheduled
<1>10. CASE PostJob(c)
  BY <1>10 DEF PostJob
<1> QED
  BY <1>1, <1>2, <1>3, <1>4, <1>5, <1>6, <1>7, <1>8, <1>9, <1>10 DEF SchedulerNext

\* A scheduler takes the IBJob of a job of its own cluster out of the way, at
\* the steps that end jobs.
LEMMA ClearingStep ==
    ASSUME TypeInv, NEW c \in Clusters, SchedulerNext(c) \/ SchedulerFault(c),
           NEW j \in Jobs, Cleared(j)'
    PROVE  Cleared(j) \/ (ClusterOf[j] = c /\ AboutToEnd(c, j) /\ pc[c] \notin Picking
                          /\ pc'[c] \notin Picking)
<1> USE DEF TypeInv, TypeOK, Cleared, kubeVars
<1>1. CASE SchedulerFault(c)
  BY <1>1 DEF SchedulerFault, PassFails, ClusterInactive, SchedulerCrash, DeletionRefused,
              ListRefused, CreationRefused
<1>2. CASE FindTimedOut(c) \/ MarkTimedOut(c) \/ TakeAborts(c) \/ MarkKilled(c) \/ ListJobs(c)
           \/ HandleOrphanedJob(c) \/ FailOrphan(c)
  BY <1>2 DEF FindTimedOut, MarkTimedOut, TakeAborts, MarkKilled, ListJobs, HandleOrphanedJob, FailOrphan
<1>3. CASE EndTimedOut(c) \/ EndAborted(c) \/ RemoveOrphan(c)
  BY <1>3 DEF EndTimedOut, EndAborted, RemoveOrphan, KubeDeleteJob, Handle, Handled, Loop, Goto, After,
              AboutToEnd, Ending, Picking
<1>4. CASE ListNamespaces(c) \/ HandleOrphanedNamespace(c) \/ FindQueued(c) \/ CheckParents(c)
           \/ Skip(c) \/ FinishWait(c) \/ CreateNamespace(c) \/ NamespaceFailed(c) \/ MarkScheduled(c)
  BY <1>4 DEF ListNamespaces, HandleOrphanedNamespace, FindQueued, CheckParents, Skip, FinishWait,
              CreateNamespace, NamespaceFailed, MarkScheduled
<1>5. CASE PostJob(c)
  BY <1>5 DEF PostJob
<1> QED
  BY <1>1, <1>2, <1>3, <1>4, <1>5 DEF SchedulerNext

\* Outside of the schedulers, a job is put into the queue by a restart only,
\* which is counted, and no IBJob is taken out of the way.
LEMMA OtherQueue ==
    ASSUME TypeInv,
           \/ \E j \in Jobs : RunnerNext(j) \/ TimeoutElapses(j) \/ KubernetesNext(j) \/ UserNext(j)
           \/ \E m \in api : ApplyReport(m) \/ ReportTimesOut(m)
           \/ \E r \in restarting : CommitRestart(r),
           NEW j \in Jobs
    PROVE  /\ starts'[j] = starts[j]
           /\ Cleared(j)' => Cleared(j)
           /\ requeues'[j] = requeues[j] \/ requeues'[j] = requeues[j] + 1
           /\ state'[j] = "queued" => state[j] = "queued" \/ requeues'[j] = requeues[j] + 1
<1> USE DEF TypeInv, TypeOK, Cleared, kubeVars, dbVars, historyVars
<1>1. CASE \E k \in Jobs : RunnerNext(k) \/ TimeoutElapses(k) \/ KubernetesNext(k) \/ UserNext(k)
  BY <1>1 DEF RunnerNext, SendReport, LoadData, LoadRefused, EndBody, TimeoutElapses, KubernetesNext, StartPod,
              RestartContainer, ControllerFails, ObjectGone, UserNext, RequestAbort, CheckRestart
<1>2. CASE \E m \in api : ApplyReport(m) \/ ReportTimesOut(m)
  <2>1. \A m \in api : m.says # "queued"
    BY DEF Report, Result
  <2> QED
    BY <1>2, <2>1 DEF ApplyReport, ReportTimesOut, SetStates
<1>3. CASE \E r \in restarting : CommitRestart(r)
  BY <1>3 DEF CommitRestart, SetStates
<1> QED
  BY <1>1, <1>2, <1>3

LEMMA ExecutionStepScheduler ==
    ASSUME ExecutionInv, NEW c \in Clusters, SchedulerNext(c) \/ SchedulerFault(c)
    PROVE  OneExecutionPerRequest' /\ OwnJobs' /\ OpenSpare' /\ EndingSpare'
<1>t. TypeInv /\ TypeOK
  BY DEF ExecutionInv, TypeInv
<1>i. OneExecutionPerRequest /\ OwnJobs /\ OpenSpare /\ EndingSpare
  BY DEF ExecutionInv
<1>n. \A j \in Jobs : starts[j] \in Nat /\ requeues[j] \in Nat /\ ClusterOf[j] \in Clusters
  BY <1>t, JobsAssumption DEF TypeOK
<1>q. requeues' = requeues /\ \A j \in Jobs : state'[j] = "queued" => state[j] = "queued"
  BY <1>t, SchedulerQueue
<1>f. \A d \in Clusters \ {c} : \A j \in Jobs :
          (Selected(d, j)' <=> Selected(d, j)) /\ (AboutToEnd(d, j)' <=> AboutToEnd(d, j))
  BY <1>t, SchedulerFrame DEF Selected, AboutToEnd
<1>s. \A j \in Jobs : Selected(c, j)' => Selected(c, j) \/ (state[j] = "queued" /\ ClusterOf[j] = c)
  BY <1>t, SelectionStep
<1>o. OwnJobs'
  BY <1>i, <1>f, <1>s DEF OwnJobs
<1>p. \A j \in Jobs : Open(j)' => Open(j)
  BY <1>q, <1>f, <1>s DEF Open
<1>e. \A j \in Jobs : state'[j] = "queued" /\ AboutToEnd(ClusterOf[j], j)' => AboutToEnd(ClusterOf[j], j)
  BY <1>t, <1>n, <1>f, EndingStep
<1>c. ASSUME NEW j \in Jobs, Open(j)', Cleared(j)', starts' = starts PROVE Spare(j)
  <2>1. CASE Cleared(j)
    BY <1>c, <1>i, <1>p, <2>1 DEF OpenSpare
  <2>2. CASE ~Cleared(j)
    <3>1. ClusterOf[j] = c /\ AboutToEnd(c, j) /\ pc'[c] \notin Picking
      BY <1>t, <1>c, <2>2, ClearingStep
    <3>2. \A d \in Clusters : ~Selected(d, j)'
      BY <1>o, <3>1 DEF OwnJobs, Selected, Picking
    <3>3. state'[j] = "queued"
      BY <1>c, <3>2 DEF Open
    <3> QED
      BY <1>i, <1>q, <3>1, <3>3 DEF EndingSpare
  <2> QED
    BY <2>1, <2>2
<1>1. CASE starts' = starts
  <2>1. \A j \in Jobs : Spare(j)' <=> Spare(j)
    BY <1>1, <1>q DEF Spare
  <2>2. OpenSpare'
    BY <1>1, <1>c, <2>1 DEF OpenSpare
  <2>3. EndingSpare'
    BY <1>i, <1>q, <1>e, <2>1 DEF EndingSpare
  <2>4. OneExecutionPerRequest'
    BY <1>1, <1>i, <1>q DEF OneExecutionPerRequest
  <2> QED
    BY <1>o, <2>2, <2>3, <2>4
<1>2. CASE Begins(c)
  <2> DEFINE b == cur[c]
  <2>1. b \in Jobs /\ pc[c] = "post" /\ ibjob[b] = "none" /\ ibjob' = [ibjob EXCEPT ![b] = "live"]
        /\ starts' = [starts EXCEPT ![b] = @ + 1]
    BY <1>2 DEF Begins
  <2>2. Selected(c, b) /\ ~AboutToEnd(c, b)
    BY <2>1 DEF Selected, AboutToEnd, Ending
  <2>3. Spare(b) /\ ClusterOf[b] = c
    BY <1>i, <2>1, <2>2 DEF OpenSpare, OwnJobs, Open, Cleared
  <2>4. \A j \in Jobs : j # b => (Spare(j)' <=> Spare(j)) /\ (Cleared(j)' <=> Cleared(j))
    BY <1>t, <1>q, <2>1 DEF Spare, Cleared, TypeOK
  <2>5. \A j \in Jobs : j = b => ~Cleared(j)'
    BY <1>t, <2>1 DEF Cleared, TypeOK
  <2>6. OpenSpare'
    BY <1>i, <1>p, <2>4, <2>5 DEF OpenSpare
  <2>7. EndingSpare'
    <3>1. \A j \in Jobs : j = b => ~AboutToEnd(ClusterOf[j], j)
      BY <2>2, <2>3
    <3> QED
      BY <1>i, <1>q, <1>e, <2>4, <3>1 DEF EndingSpare
  <2>8. OneExecutionPerRequest'
    BY <1>t, <1>i, <1>n, <1>q, <2>1, <2>3 DEF OneExecutionPerRequest, Spare, TypeOK
  <2> QED
    BY <1>o, <2>6, <2>7, <2>8
<1> QED
  BY <1>t, <1>1, <1>2, SchedulerExecution DEF NoneBegins

LEMMA ExecutionStepOthers ==
    ASSUME ExecutionInv,
           \/ \E j \in Jobs : RunnerNext(j) \/ TimeoutElapses(j) \/ KubernetesNext(j) \/ UserNext(j)
           \/ \E m \in api : ApplyReport(m) \/ ReportTimesOut(m)
           \/ \E r \in restarting : CommitRestart(r)
    PROVE  OneExecutionPerRequest' /\ OwnJobs' /\ OpenSpare' /\ EndingSpare'
<1>t. TypeInv /\ TypeOK
  BY DEF ExecutionInv, TypeInv
<1>i. OneExecutionPerRequest /\ OwnJobs /\ OpenSpare /\ EndingSpare
  BY DEF ExecutionInv
<1>n. \A j \in Jobs : starts[j] \in Nat /\ requeues[j] \in Nat
  BY <1>t DEF TypeOK
<1>u. UNCHANGED <<pc, todo, cur>>
  BY <1>t, OtherState DEF schedVars
<1>1. \A c \in Clusters : \A j \in Jobs : Selected(c, j)' <=> Selected(c, j)
  BY <1>u DEF Selected
<1>2. \A j \in Jobs : AboutToEnd(ClusterOf[j], j)' <=> AboutToEnd(ClusterOf[j], j)
  BY <1>u DEF AboutToEnd
<1>3. \A j \in Jobs :
          /\ starts'[j] = starts[j]
          /\ Cleared(j)' => Cleared(j)
          /\ requeues'[j] = requeues[j] \/ requeues'[j] = requeues[j] + 1
          /\ state'[j] = "queued" => state[j] = "queued" \/ requeues'[j] = requeues[j] + 1
  BY <1>t, OtherQueue
<1>4. OneExecutionPerRequest'
  BY <1>i, <1>n, <1>3 DEF OneExecutionPerRequest
<1>5. OwnJobs'
  BY <1>i, <1>1 DEF OwnJobs
<1>6. \A j \in Jobs : Spare(j)' <=> starts[j] <= requeues'[j]
  BY <1>3 DEF Spare
<1>7. \A j \in Jobs : requeues'[j] = requeues[j] + 1 => Spare(j)'
  BY <1>i, <1>n, <1>6 DEF OneExecutionPerRequest
<1>8. \A j \in Jobs : Spare(j) => Spare(j)'
  BY <1>n, <1>3, <1>6, <1>7 DEF Spare
<1>9. OpenSpare'
  <2>1. \A j \in Jobs : Open(j)' => Open(j) \/ requeues'[j] = requeues[j] + 1
    BY <1>1, <1>3 DEF Open
  <2> QED
    BY <1>i, <1>3, <1>7, <1>8, <2>1 DEF OpenSpare
<1>10. EndingSpare'
  BY <1>i, <1>2, <1>3, <1>7, <1>8 DEF EndingSpare
<1> QED
  BY <1>4, <1>5, <1>9, <1>10

LEMMA ExecutionStep == ExecutionInv /\ [Next]_vars => ExecutionInv'
<1> SUFFICES ASSUME ExecutionInv, [Next]_vars PROVE ExecutionInv'
  OBVIOUS
<1>1. TypeInv'
  BY TypeStep DEF ExecutionInv
<1>2. CASE UNCHANGED vars
  BY <1>1, <1>2 DEF vars, dbVars, kubeVars, schedVars, historyVars, ExecutionInv, OneExecutionPerRequest,
                    OwnJobs, OpenSpare, EndingSpare, Selected, Open, AboutToEnd, Spare, Cleared
<1>3. CASE Next
  <2>1. OneExecutionPerRequest' /\ OwnJobs' /\ OpenSpare' /\ EndingSpare'
    BY <1>3, ExecutionStepScheduler, ExecutionStepOthers DEF Next
  <2> QED
    BY <1>1, <2>1 DEF ExecutionInv
<1> QED
  BY <1>2, <1>3

LEMMA ExecutionInvariance == Spec => []ExecutionInv
BY ExecutionInit, ExecutionStep, PTL DEF Spec

\* However schedulers crash, pods are retried and users restart jobs, no job is
\* executed more often than it was put into the queue.
THEOREM ExecutionsAreRequested == Spec => []OneExecutionPerRequest
<1>1. ExecutionInv => OneExecutionPerRequest
  BY DEF ExecutionInv
<1> QED
  BY <1>1, ExecutionInvariance, PTL

(***************************************************************************)
(* The refinement.                                                         *)
(***************************************************************************)

LEMMA RefinementInit == Init => Execution!Init
<1> SUFFICES ASSUME Init PROVE Execution!Init
  OBVIOUS
<1>1. Permits = [j \in Jobs |-> 1]
  BY DEF Init, Permits
<1>2. Executing = {} /\ held = [j \in Jobs |-> {}]
  BY DEF Init, Executing
<1> QED
  BY <1>1, <1>2 DEF Execution!Init

\* But for the POST, no step of a scheduler begins or removes an execution.
LEMMA SchedulerKeeps ==
    ASSUME TypeInv, NEW c \in Clusters,
           SchedulerNext(c) \/ SchedulerFault(c), ~PostJob(c)
    PROVE  UNCHANGED <<Permits, Executing>>
<1> USE DEF TypeInv, TypeOK, kubeVars
<1>p. ASSUME UNCHANGED <<starts, requeues>> PROVE UNCHANGED Permits
  BY <1>p DEF Permits
<1>e. ASSUME UNCHANGED ibjob PROVE UNCHANGED Executing
  BY <1>e DEF Executing
<1>k. ASSUME NEW j, KubeDeleteJob(c, j) PROVE UNCHANGED Executing
  <2>1. \A k \in Jobs : ibjob'[k] = "none" <=> ibjob[k] = "none"
    BY <1>k DEF KubeDeleteJob
  <2> QED
    BY <2>1 DEF Executing
<1>1. CASE SchedulerFault(c)
  BY <1>1, <1>p, <1>e DEF SchedulerFault, PassFails, ClusterInactive, SchedulerCrash, DeletionRefused,
              ListRefused, CreationRefused
<1>2. CASE FindTimedOut(c) \/ MarkTimedOut(c) \/ TakeAborts(c) \/ MarkKilled(c) \/ ListJobs(c)
           \/ HandleOrphanedJob(c) \/ FailOrphan(c)
  BY <1>2, <1>p, <1>e DEF FindTimedOut, MarkTimedOut, TakeAborts, MarkKilled, ListJobs,
                          HandleOrphanedJob, FailOrphan
<1>3. CASE EndTimedOut(c) \/ EndAborted(c) \/ RemoveOrphan(c)
  BY <1>3, <1>p, <1>k DEF EndTimedOut, EndAborted, RemoveOrphan
<1>4. CASE ListNamespaces(c) \/ HandleOrphanedNamespace(c) \/ FindQueued(c) \/ CheckParents(c)
           \/ Skip(c) \/ FinishWait(c) \/ CreateNamespace(c) \/ NamespaceFailed(c) \/ MarkScheduled(c)
  BY <1>4, <1>p, <1>e DEF ListNamespaces, HandleOrphanedNamespace, FindQueued, CheckParents, Skip,
              FinishWait, CreateNamespace, NamespaceFailed, MarkScheduled
<1> QED
  BY <1>1, <1>2, <1>3, <1>4 DEF SchedulerNext

\* A change of states ends jobs, or is invisible.
LEMMA StateChangeRefines ==
    ASSUME TypeInv, UNCHANGED <<state, held>> \/ StateChange, UNCHANGED <<Permits, Executing>>
    PROVE  Execution!Next \/ UNCHANGED held
<1>1. ASSUME NEW S \in SUBSET Jobs, NEW s \in JobState, SetStates(S, s), s \in Final
      PROVE  Execution!Next
  <2>1. held' = [j \in Jobs |-> IF j \in S THEN held[j] \cup {s} ELSE held[j]]
    <3>1. {s} \cap Final = {s}
      BY <1>1
    <3> QED
      BY <1>1, <3>1 DEF SetStates
  <2>2. Execution!End(S, s)
    BY <2>1 DEF Execution!End
  <2> QED
    BY <1>1, <2>2 DEF Execution!Next, Final
<1>2. ASSUME NEW S \in SUBSET Jobs, NEW s \in JobState, SetStates(S, s), s \notin Final
      PROVE  UNCHANGED held
  <2>1. {s} \cap Final = {}
    BY <1>2
  <2>2. \A j \in Jobs : held[j] \cup ({s} \cap Final) = held[j]
    BY <2>1
  <2> QED
    BY <1>2, <2>2 DEF SetStates, TypeInv, TypeOK
<1> QED
  BY <1>1, <1>2 DEF StateChange

LEMMA SchedulerRefines ==
    ASSUME DependencyInv, ExecutionInv, NEW c \in Clusters, SchedulerNext(c) \/ SchedulerFault(c)
    PROVE  Execution!Next \/ UNCHANGED <<Permits, Executing, held>>
<1>t. TypeInv /\ TypeOK
  BY DEF ExecutionInv, TypeInv
<1>1. CASE ~PostJob(c)
  BY <1>1, <1>t, SchedulerKeeps, SchedulerState, StateChangeRefines
<1>2. CASE PostJob(c)
  <2>h. UNCHANGED <<held, requeues>>
    BY <1>2 DEF PostJob
  <2>1. CASE Begins(c)
    <3> DEFINE b == cur[c]
    <3>1. b \in Jobs /\ pc[c] = "post" /\ ibjob[b] = "none" /\ ibjob' = [ibjob EXCEPT ![b] = "live"]
          /\ starts' = [starts EXCEPT ![b] = @ + 1]
      BY <2>1 DEF Begins
    <3>2. b \notin Executing /\ Executing' = Executing \cup {b}
      BY <1>t, <3>1 DEF Executing, TypeOK
    <3>3. Permits[b] > 0
      <4>1. Spare(b)
        BY <3>1 DEF ExecutionInv, OpenSpare, Open, Selected, Cleared
      <4> QED
        BY <1>t, <3>1, <4>1 DEF Spare, Permits, TypeOK
    <3>4. \A d \in Deps[b] : held[d.job] \cap d.on # {}
      BY <3>1 DEF DependencyInv, DecidedReady, Chosen, Ready
    <3>5. Permits' = [Permits EXCEPT ![b] = @ - 1]
      <4>1. \A j \in Jobs : (1 + requeues'[j]) - starts'[j]
                = IF j = b THEN ((1 + requeues[j]) - starts[j]) - 1 ELSE (1 + requeues[j]) - starts[j]
        BY <1>t, <2>h, <3>1 DEF TypeOK
      <4> QED
        BY <3>1, <4>1 DEF Permits
    <3>6. Execution!Start(b)
      BY <2>h, <3>2, <3>3, <3>4, <3>5 DEF Execution!Start
    <3> QED
      BY <3>1, <3>6 DEF Execution!Next
  <2>2. CASE UNCHANGED <<ibjob, starts>>
    BY <2>h, <2>2 DEF Permits, Executing
  <2>3. cur[c] \in Jobs
    BY <1>2, <1>t DEF PostJob, TypeInv, JobAtHand, JobStep
  <2> QED
    BY <1>2, <2>1, <2>2, <2>3 DEF PostJob, Begins
<1> QED
  BY <1>1, <1>2

LEMMA OthersRefine ==
    ASSUME DependencyInv, ExecutionInv,
           \/ \E j \in Jobs : RunnerNext(j) \/ TimeoutElapses(j) \/ KubernetesNext(j) \/ UserNext(j)
           \/ \E m \in api : ApplyReport(m) \/ ReportTimesOut(m)
           \/ \E r \in restarting : CommitRestart(r)
    PROVE  Execution!Next \/ UNCHANGED <<Permits, Executing, held>>
<1> USE DEF kubeVars, historyVars
<1>t. TypeInv /\ TypeOK
  BY DEF ExecutionInv, TypeInv
<1>p. ASSUME UNCHANGED <<starts, requeues>> PROVE UNCHANGED Permits
  BY <1>p DEF Permits
<1>e. ASSUME UNCHANGED ibjob PROVE UNCHANGED Executing
  BY <1>e DEF Executing
<1>1. ASSUME NEW j \in Jobs, RunnerNext(j) \/ TimeoutElapses(j) \/ UserNext(j)
      PROVE  UNCHANGED <<Permits, Executing, held>>
  BY <1>1, <1>p, <1>e DEF RunnerNext, SendReport, LoadData, LoadRefused, EndBody, TimeoutElapses, UserNext,
                          RequestAbort, CheckRestart
<1>2. ASSUME NEW j \in Jobs, StartPod(j) \/ RestartContainer(j)
      PROVE  UNCHANGED <<Permits, Executing, held>>
  BY <1>2, <1>p, <1>e DEF StartPod, RestartContainer
<1>3. ASSUME NEW j \in Jobs, ControllerFails(j)
      PROVE  UNCHANGED <<Permits, Executing, held>>
  <2>1. \A k \in Jobs : ibjob'[k] = "none" <=> ibjob[k] = "none"
    BY <1>t, <1>3 DEF ControllerFails, TypeOK
  <2> QED
    BY <1>3, <1>p, <2>1 DEF ControllerFails, Executing
<1>4. ASSUME NEW j \in Jobs, ObjectGone(j)
      PROVE  Execution!Next
  <2>1. j \in Executing /\ Executing' = Executing \ {j}
    BY <1>t, <1>4 DEF ObjectGone, Executing, TypeOK
  <2>2. Execution!Remove(j)
    BY <1>4, <1>p, <2>1 DEF ObjectGone, Execution!Remove
  <2> QED
    BY <2>2 DEF Execution!Next
<1>5. ASSUME NEW m \in api, ApplyReport(m) \/ ReportTimesOut(m)
      PROVE  Execution!Next \/ UNCHANGED <<Permits, Executing, held>>
  <2>1. UNCHANGED <<Permits, Executing>>
    BY <1>5, <1>p, <1>e DEF ApplyReport, ReportTimesOut
  <2> QED
    BY <1>t, <1>5, <2>1, OtherState, StateChangeRefines
<1>6. ASSUME NEW r \in restarting, CommitRestart(r)
      PROVE  Execution!Next
  <2> DEFINE S == Closure(r[1])
  <2>1. S \in SUBSET Jobs
    BY DEF Closure
  <2>2. UNCHANGED held
    <3>1. \A j \in Jobs : held[j] \cup ({"queued"} \cap Final) = held[j]
      BY DEF Final
    <3> QED
      BY <1>t, <1>6, <3>1 DEF CommitRestart, SetStates, TypeOK
  <2>3. UNCHANGED Executing
    BY <1>6, <1>e DEF CommitRestart
  <2>4. Permits' = [j \in Jobs |-> IF j \in S THEN Permits[j] + 1 ELSE Permits[j]]
    <3>1. \A j \in Jobs : (1 + requeues'[j]) - starts'[j]
              = IF j \in S THEN ((1 + requeues[j]) - starts[j]) + 1 ELSE (1 + requeues[j]) - starts[j]
      BY <1>t, <1>6 DEF CommitRestart, TypeOK
    <3> QED
      BY <3>1 DEF Permits
  <2>5. Execution!Requeue(S)
    BY <2>2, <2>3, <2>4 DEF Execution!Requeue
  <2> QED
    BY <2>1, <2>5 DEF Execution!Next
<1> QED
  BY <1>1, <1>2, <1>3, <1>4, <1>5, <1>6 DEF KubernetesNext

LEMMA RefinementStep ==
    DependencyInv /\ ExecutionInv /\ [Next]_vars => [Execution!Next]_<<Permits, Executing, held>>
<1> SUFFICES ASSUME DependencyInv, ExecutionInv, [Next]_vars
             PROVE  Execution!Next \/ UNCHANGED <<Permits, Executing, held>>
  OBVIOUS
<1>1. CASE UNCHANGED vars
  BY <1>1 DEF vars, kubeVars, historyVars, Permits, Executing
<1> QED
  BY <1>1, SchedulerRefines, OthersRefine DEF Next

\* JobLifecycle implements JobExecution: whatever the job table says at times,
\* the executions of a build are the ones that were asked for, one at a time,
\* each begun when the dependencies of its job allowed it.
THEOREM LifecycleRefinesExecution == Spec => ImplementsExecution
BY RefinementInit, RefinementStep, DependencyInvariance, ExecutionInvariance, PTL
   DEF Spec, ImplementsExecution, Execution!Spec

-----------------------------------------------------------------------------

(***************************************************************************)
(* The passes that delete IBJobs look at the job table first and delete     *)
(* several steps later. The invariant carries the reason from the one to    *)
(* the other; it is lost only by a new POST of that IBJob, which is a step  *)
(* of the same scheduler.                                                  *)
(***************************************************************************)

\* Every reason that the tables show is known.
ReasonsKnown == \A j \in Jobs : j \in late \cup aborts \/ state[j] \in Final => cause[j]

\* What a scheduler is about to end, it ends with reason.
EndingReason == \A j \in Jobs : AboutToEnd(ClusterOf[j], j) => cause[j]

DeletionInv == ExecutionInv /\ ReasonsKnown /\ EndingReason

LEMMA DeletionInit == Init => DeletionInv
<1> SUFFICES ASSUME Init PROVE DeletionInv
  OBVIOUS
<1>1. ReasonsKnown
  BY DEF Init, ReasonsKnown, Final
<1>2. EndingReason
  BY JobsAssumption DEF Init, EndingReason, AboutToEnd, Ending
<1> QED
  BY <1>1, <1>2, ExecutionInit DEF DeletionInv

\* A step keeps the known reasons known, and forgets one only with a POST.
ReasonsKept(c) ==
    /\ ReasonsKnown'
    /\ \A j \in Jobs : cause[j] => cause'[j] \/ (pc[c] = "post" /\ pc'[c] = "markScheduled" /\ cur[c] = j)

LEMMA SetStatesReasons ==
    ASSUME TypeInv, ReasonsKnown, NEW S, NEW s \in JobState, SetStates(S, s), aborts' \subseteq aborts
    PROVE  ReasonsKnown' /\ \A j \in Jobs : cause[j] => cause'[j]
BY DEF SetStates, ReasonsKnown, TypeInv, TypeOK

LEMMA NoStateChangeReasons ==
    ASSUME TypeInv, ReasonsKnown, NoStateChange, aborts' \subseteq aborts
    PROVE  ReasonsKnown' /\ \A j \in Jobs : cause[j] => cause'[j]
BY DEF NoStateChange, ReasonsKnown, TypeInv, TypeOK

LEMMA SchedulerReasons ==
    ASSUME TypeInv, ReasonsKnown, NEW c \in Clusters, SchedulerNext(c) \/ SchedulerFault(c)
    PROVE  ReasonsKept(c)
<1> USE DEF ReasonsKept
<1>1. CASE SchedulerFault(c)
  BY <1>1, NoStateChangeReasons
     DEF SchedulerFault, PassFails, ClusterInactive, SchedulerCrash, DeletionRefused, ListRefused, CreationRefused
<1>2. CASE \/ FindTimedOut(c) \/ EndTimedOut(c) \/ EndAborted(c) \/ ListJobs(c) \/ HandleOrphanedJob(c)
           \/ RemoveOrphan(c) \/ ListNamespaces(c) \/ HandleOrphanedNamespace(c) \/ FindQueued(c)
           \/ CheckParents(c) \/ CreateNamespace(c)
  BY <1>2, NoStateChangeReasons
     DEF FindTimedOut, EndTimedOut, EndAborted, ListJobs, HandleOrphanedJob, RemoveOrphan,
         ListNamespaces, HandleOrphanedNamespace, FindQueued, CheckParents, CreateNamespace
<1>3. CASE MarkTimedOut(c) \/ TakeAborts(c) \/ MarkKilled(c) \/ FailOrphan(c) \/ Skip(c)
           \/ FinishWait(c) \/ NamespaceFailed(c) \/ MarkScheduled(c)
  <2>1. {"error", "killed", "skipped", "finished", "scheduled"} \subseteq JobState
    BY DEF JobState, Active, Final
  <2> QED
    BY <1>3, <2>1, SetStatesReasons
       DEF MarkTimedOut, TakeAborts, MarkKilled, FailOrphan, Skip, FinishWait, NamespaceFailed, MarkScheduled
<1>4. CASE PostJob(c)
  <2>1. CASE ibjob[cur[c]] = "none"
    <3>1. cause' = [cause EXCEPT ![cur[c]] = cur[c] \in aborts \cup late \/ state[cur[c]] \in Final]
      BY <1>4, <2>1 DEF PostJob
    <3>2. UNCHANGED <<state, late, aborts>> /\ pc[c] = "post" /\ pc'[c] = "markScheduled"
      BY <1>4, <2>1 DEF PostJob, Goto, dbVars, TypeInv, TypeOK
    <3> QED
      BY <3>1, <3>2 DEF ReasonsKnown, TypeInv, TypeOK
  <2>2. CASE ibjob[cur[c]] # "none"
    BY <1>4, <2>2 DEF PostJob, dbVars, ReasonsKnown
  <2> QED
    BY <2>1, <2>2
<1> QED
  BY <1>1, <1>2, <1>3, <1>4 DEF SchedulerNext

LEMMA OtherReasons ==
    ASSUME TypeInv, ReasonsKnown,
           \/ \E j \in Jobs : RunnerNext(j) \/ TimeoutElapses(j) \/ KubernetesNext(j) \/ UserNext(j)
           \/ \E m \in api : ApplyReport(m) \/ ReportTimesOut(m)
           \/ \E r \in restarting : CommitRestart(r)
    PROVE  /\ ReasonsKnown'
           /\ \A j \in Jobs : cause[j] => cause'[j]
           /\ \A j \in Jobs : ibjob[j] = "live" => ibjob'[j] # "deleting"
<1> USE DEF dbVars, historyVars, kubeVars, TypeInv, TypeOK
<1>1. ASSUME NEW j \in Jobs, RunnerNext(j) \/ KubernetesNext(j) \/ CheckRestart(j)
      PROVE  /\ UNCHANGED <<state, late, aborts, cause>>
             /\ \A k \in Jobs : ibjob[k] = "live" => ibjob'[k] # "deleting"
  BY <1>1 DEF RunnerNext, SendReport, LoadData, LoadRefused, EndBody, KubernetesNext, StartPod, RestartContainer,
              ControllerFails, ObjectGone, CheckRestart
<1>2. ASSUME NEW j \in Jobs, TimeoutElapses(j) \/ RequestAbort(j)
      PROVE  /\ ReasonsKnown'
             /\ \A k \in Jobs : cause[k] => cause'[k]
             /\ \A k \in Jobs : ibjob[k] = "live" => ibjob'[k] # "deleting"
  <2>1. /\ cause' = [cause EXCEPT ![j] = TRUE] /\ UNCHANGED <<state, ibjob>>
        /\ late' \subseteq late \cup {j} /\ aborts' \subseteq aborts \cup {j}
    BY <1>2 DEF TimeoutElapses, RequestAbort
  <2> QED
    BY <2>1 DEF ReasonsKnown
<1>3. ASSUME NEW m \in api, ApplyReport(m)
      PROVE  /\ SetStates({m.job}, m.says) /\ m.says \in JobState
             /\ UNCHANGED <<aborts, ibjob>>
  BY <1>3 DEF ApplyReport, Report, Result, JobState, Active, Final
<1>4. ASSUME NEW m \in api, ReportTimesOut(m)
      PROVE  UNCHANGED <<state, late, aborts, cause, ibjob>>
  <2>1. UNCHANGED <<dbVars, kubeVars, historyVars>>
    BY <1>4 DEF ReportTimesOut
  <2> QED
    BY <2>1
<1>5. ASSUME NEW r \in restarting, CommitRestart(r)
      PROVE  /\ SetStates(Closure(r[1]), "queued") /\ "queued" \in JobState
             /\ UNCHANGED <<aborts, ibjob>>
  BY <1>5 DEF CommitRestart, JobState, Active
<1>6. ASSUME UNCHANGED <<state, late, aborts, cause>>
      PROVE  ReasonsKnown' /\ \A j \in Jobs : cause[j] => cause'[j]
  BY <1>6 DEF ReasonsKnown
<1>7. CASE \E m \in api : ApplyReport(m)
  BY <1>3, <1>7, SetStatesReasons
<1>8. CASE \E r \in restarting : CommitRestart(r)
  BY <1>5, <1>8, SetStatesReasons
<1>9. (\E j \in Jobs : RunnerNext(j) \/ KubernetesNext(j) \/ CheckRestart(j)) =>
      /\ UNCHANGED <<state, late, aborts, cause>>
      /\ \A k \in Jobs : ibjob[k] = "live" => ibjob'[k] # "deleting"
  BY <1>1
<1>10. (\E m \in api : ReportTimesOut(m)) => UNCHANGED <<state, late, aborts, cause, ibjob>>
  BY <1>4
<1> QED
  BY <1>2, <1>6, <1>7, <1>8, <1>9, <1>10 DEF UserNext

\* A job that a scheduler begins to end has given it a reason.
LEMMA EndingReasonStep ==
    ASSUME TypeInv, ReasonsKnown, NEW c \in Clusters, SchedulerNext(c) \/ SchedulerFault(c),
           NEW j \in Jobs, AboutToEnd(c, j)'
    PROVE  AboutToEnd(c, j) \/ cause'[j]
<1> USE DEF TypeInv, TypeOK, Goto, Loop, Handle, Handled, Leave, AboutToEnd, Ending, After
<1>1. CASE SchedulerFault(c)
  BY <1>1 DEF SchedulerFault, PassFails, ClusterInactive, SchedulerCrash, DeletionRefused,
              ListRefused, CreationRefused
<1>2. CASE FindTimedOut(c)
  BY <1>2 DEF FindTimedOut, NoStateChange, ReasonsKnown
<1>3. CASE TakeAborts(c)
  BY <1>3 DEF TakeAborts, SetStates, ReasonsKnown
<1>4. CASE EndTimedOut(c) \/ MarkTimedOut(c) \/ EndAborted(c) \/ MarkKilled(c)
  BY <1>4 DEF EndTimedOut, MarkTimedOut, EndAborted, MarkKilled
<1>5. CASE HandleOrphanedJob(c)
  BY <1>5 DEF HandleOrphanedJob, InUse, JobState, NoStateChange, ReasonsKnown
<1>6. CASE FailOrphan(c)
  BY <1>6 DEF FailOrphan, SetStates, JobState, Final, ReasonsKnown
<1>7. CASE ListJobs(c) \/ RemoveOrphan(c) \/ ListNamespaces(c) \/ HandleOrphanedNamespace(c) \/ FindQueued(c)
  BY <1>7 DEF ListJobs, RemoveOrphan, ListNamespaces, HandleOrphanedNamespace, FindQueued
<1>8. CASE CheckParents(c)
  BY <1>8 DEF CheckParents
<1>9. CASE Skip(c) \/ FinishWait(c) \/ CreateNamespace(c) \/ NamespaceFailed(c) \/ MarkScheduled(c)
  BY <1>9 DEF Skip, FinishWait, CreateNamespace, NamespaceFailed, MarkScheduled
<1>10. CASE PostJob(c)
  BY <1>10 DEF PostJob
<1> QED
  BY <1>1, <1>2, <1>3, <1>4, <1>5, <1>6, <1>7, <1>8, <1>9, <1>10 DEF SchedulerNext

NoKillNow == \A j \in Jobs : ibjob[j] = "live" /\ ibjob'[j] = "deleting" => cause[j]

LEMMA DeletionStepScheduler ==
    ASSUME DeletionInv, NEW c \in Clusters, SchedulerNext(c) \/ SchedulerFault(c)
    PROVE  ReasonsKnown' /\ EndingReason' /\ NoKillNow
<1>t. TypeInv /\ ReasonsKnown /\ EndingReason /\ OwnJobs
  BY DEF DeletionInv, ExecutionInv
<1>k. ReasonsKept(c)
  BY <1>t, SchedulerReasons
<1>1. EndingReason'
  <2> SUFFICES ASSUME NEW j \in Jobs, AboutToEnd(ClusterOf[j], j)' PROVE cause'[j]
    BY DEF EndingReason
  <2>c. ClusterOf[j] \in Clusters
    BY JobsAssumption
  <2>1. CASE AboutToEnd(ClusterOf[j], j)
    <3>1. cause[j]
      BY <1>t, <2>1 DEF EndingReason
    <3>2. ~(pc[c] = "post" /\ pc'[c] = "markScheduled" /\ cur[c] = j)
      <4> SUFFICES ASSUME pc[c] = "post", cur[c] = j PROVE FALSE
        OBVIOUS
      <4>1. ClusterOf[j] = c
        BY <1>t DEF OwnJobs, Selected
      <4> QED
        BY <2>1, <4>1 DEF AboutToEnd, Ending
    <3> QED
      BY <1>k, <3>1, <3>2 DEF ReasonsKept
  <2>2. CASE ClusterOf[j] = c /\ ~AboutToEnd(ClusterOf[j], j)
    <3>1. AboutToEnd(c, j)' /\ ~AboutToEnd(c, j)
      BY <2>2 DEF AboutToEnd
    <3> QED
      BY <1>t, <3>1, EndingReasonStep
  <2>3. CASE ClusterOf[j] # c /\ ~AboutToEnd(ClusterOf[j], j)
    BY <1>t, <2>c, <2>3, SchedulerFrame DEF AboutToEnd
  <2> QED
    BY <2>1, <2>2, <2>3
<1>2. NoKillNow
  <2> SUFFICES ASSUME NEW j \in Jobs, ibjob[j] = "live", ibjob'[j] = "deleting" PROVE cause[j]
    BY DEF NoKillNow
  <2>1. Cleared(j)' /\ ~Cleared(j)
    BY DEF Cleared
  <2> QED
    BY <1>t, <2>1, ClearingStep DEF EndingReason
<1> QED
  BY <1>k, <1>1, <1>2 DEF ReasonsKept

LEMMA DeletionStep == DeletionInv /\ [Next]_vars => DeletionInv' /\ NoKillNow
<1> SUFFICES ASSUME DeletionInv, [Next]_vars PROVE DeletionInv' /\ NoKillNow
  OBVIOUS
<1>t. TypeInv /\ ExecutionInv
  BY DEF DeletionInv, ExecutionInv
<1>e. ExecutionInv'
  BY <1>t, ExecutionStep
<1>1. CASE UNCHANGED vars
  <2>1. ReasonsKnown' /\ EndingReason'
    BY <1>1 DEF vars, dbVars, schedVars, historyVars, DeletionInv, ReasonsKnown, EndingReason, AboutToEnd
  <2>2. NoKillNow
    BY <1>1 DEF vars, kubeVars, NoKillNow
  <2> QED
    BY <1>e, <2>1, <2>2 DEF DeletionInv
<1>2. ASSUME \/ \E j \in Jobs : RunnerNext(j) \/ TimeoutElapses(j) \/ KubernetesNext(j) \/ UserNext(j)
             \/ \E m \in api : ApplyReport(m) \/ ReportTimesOut(m)
             \/ \E r \in restarting : CommitRestart(r)
      PROVE  ReasonsKnown' /\ EndingReason' /\ NoKillNow
  <2>1. /\ ReasonsKnown'
        /\ \A j \in Jobs : cause[j] => cause'[j]
        /\ \A j \in Jobs : ibjob[j] = "live" => ibjob'[j] # "deleting"
    BY <1>t, <1>2, OtherReasons DEF DeletionInv
  <2>2. \A j \in Jobs : AboutToEnd(ClusterOf[j], j)' <=> AboutToEnd(ClusterOf[j], j)
    BY <1>t, <1>2, OtherState DEF schedVars, AboutToEnd
  <2> QED
    BY <2>1, <2>2 DEF DeletionInv, EndingReason, NoKillNow
<1> QED
  BY <1>e, <1>1, <1>2, DeletionStepScheduler DEF Next, DeletionInv

\* The IBJob of a job is never deleted under its pod unless the job held a
\* final state, was to be aborted or was late since the IBJob was created.
THEOREM KillsHaveReasons == Spec => NoSpuriousKill
<1>1. DeletionInv /\ [Next]_vars => [NoKillNow]_vars
  BY DeletionStep
<1>2. [NoKillNow]_vars <=> [\A j \in Jobs : ibjob[j] = "live" /\ ibjob'[j] = "deleting" => cause[j]]_vars
  BY DEF NoKillNow
<1> QED
  BY <1>1, <1>2, DeletionInit, DeletionStep, PTL DEF Spec, NoSpuriousKill
=============================================================================
