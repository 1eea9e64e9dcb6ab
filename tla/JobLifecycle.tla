---------------------------- MODULE JobLifecycle ----------------------------
(***************************************************************************)
(* The life of the jobs of one build, between the four parties that write  *)
(* the job table or the Kubernetes objects behind it:                      *)
(*                                                                         *)
(*   - one scheduler per cluster (src/scheduler/kubernetes/scheduler.py), a *)
(*     loop of passes on an autocommit connection: every SQL statement and  *)
(*     every request to the Kubernetes API is a step of its own;            *)
(*   - the runner in the pod of a job (src/job), which reports "running"    *)
(*     and a result to the job API and retries until it is answered 200;    *)
(*   - the job API (src/api/handlers/job_api.py), which authorises a        *)
(*     request in one statement and applies it in a later one;              *)
(*   - the users of the dashboard API, who abort and restart jobs.          *)
(*                                                                         *)
(* The IBJob controller and Kubernetes are external here: an IBJob object   *)
(* gets a pod, may be marked failed, and goes away with its pod.            *)
(***************************************************************************)
EXTENDS Naturals, FiniteSets

CONSTANTS
    Jobs,           \* the rows of the job table (one build)
    Clusters,       \* the clusters, each with its own scheduler and Kubernetes
    ClusterOf,      \* job.cluster_name
    Deps,           \* job.dependencies: for a job, a set of [job, on] records
    CreatedAt,      \* job.created_at, the order in which jobs are scheduled
    WaitJobs,       \* the jobs of type 'wait', which have nothing to run
    NamespaceJobs,  \* the jobs that ask for a Kubernetes namespace of their own
    NoJob,          \* no job is being handled
    MaxAborts,      \* bound: abort requests of users
    MaxRestarts,    \* bound: restart requests of users
    MaxFaults       \* bound: crashes, failed or unanswered requests

Active == {"queued", "scheduled", "running"}
Final == {"finished", "failure", "error", "skipped", "killed"}
JobState == Active \cup Final

\* What "on" may list: "*" stands for all of these.
Condition == {"finished", "failure", "error", "skipped"}

\* What a runner reports when it ends.
Result == {"finished", "failure", "error"}

ASSUME JobsAssumption ==
    /\ ClusterOf \in [Jobs -> Clusters]
    /\ Deps \in [Jobs -> SUBSET [job : Jobs, on : (SUBSET Condition) \ {{}}]]
    /\ \A j \in Jobs : \A d, e \in Deps[j] : d.job = e.job => d = e
    /\ CreatedAt \in [Jobs -> Nat]
    /\ WaitJobs \subseteq Jobs
    /\ NamespaceJobs \subseteq Jobs
    /\ NoJob \notin Jobs

ASSUME BoundsAssumption ==
    MaxAborts \in Nat /\ MaxRestarts \in Nat /\ MaxFaults \in Nat

VARIABLES
    \* --- the database
    state,       \* job.state
    late,        \* the running jobs whose start_date is older than their timeout
    aborts,      \* the jobs with a row in the abort table
    \* --- the Kubernetes clusters
    ibjob,       \* the IBJob object of a job
    namespaces,  \* the jobs whose namespace ib-<job> exists
    runner,      \* the runner in the job's pod
    \* --- requests inside the API server, past their authorisation
    api,         \* reports of runners
    restarting,  \* restarts whose checks have passed
    \* --- the schedulers
    pc, todo, cur, failing,
    \* --- the bounds
    nAborts, nRestarts, nFaults,
    \* --- history, read by the properties only
    held,        \* the final states a job has ever held
    starts,      \* how often the IBJob of a job has been created
    requeues,    \* how often a restart has put a job back into the queue
    cause        \* the IBJob of a job has had, since its creation, a reason to go

dbVars == <<state, late, aborts>>
kubeVars == <<ibjob, namespaces>>
apiVars == <<api, restarting>>
schedVars == <<pc, todo, cur, failing>>
boundVars == <<nAborts, nRestarts, nFaults>>
historyVars == <<held, starts, requeues, cause>>
vars == <<dbVars, kubeVars, runner, apiVars, schedVars, boundVars, historyVars>>

\* The steps of a scheduler, in the order of Scheduler.handle.
SchedulerStep ==
    {"timeouts", "endTimedOut", "markTimedOut",
     "aborts", "endAborted", "markKilled",
     "orphans", "orphanJob", "failOrphan", "removeOrphan",
     "namespaces", "orphanNamespace",
     "schedule", "pick", "skip", "finishWait",
     "namespace", "namespaceFailed", "post", "markScheduled"}

\* "boot": about to report running; "data": reported, about to load its job;
\* "body": at work; a result: about to report it; "done": reported it.
RunnerState == {"off", "boot", "data", "body", "done"} \cup Result

\* waiting: the runner that sent the report still waits for its answer.
Report == [job : Jobs, says : {"running"} \cup Result, waiting : BOOLEAN]

TypeOK ==
    /\ state \in [Jobs -> JobState]
    /\ late \subseteq Jobs
    /\ aborts \subseteq Jobs
    /\ ibjob \in [Jobs -> {"none", "live", "failed", "deleting"}]
    /\ namespaces \subseteq Jobs
    /\ runner \in [Jobs -> RunnerState]
    /\ api \subseteq Report
    /\ restarting \subseteq (Jobs \X Nat)
    /\ pc \in [Clusters -> SchedulerStep]
    /\ todo \in [Clusters -> SUBSET Jobs]
    /\ cur \in [Clusters -> Jobs \cup {NoJob}]
    /\ failing \in [Clusters -> SUBSET Jobs]
    /\ nAborts \in 0..MaxAborts
    /\ nRestarts \in 0..MaxRestarts
    /\ nFaults \in 0..MaxFaults
    /\ held \in [Jobs -> SUBSET Final]
    /\ starts \in [Jobs -> Nat]
    /\ requeues \in [Jobs -> Nat]
    /\ cause \in [Jobs -> BOOLEAN]

\* CreateJobs has inserted every job as 'queued'; the schedulers start.
Init ==
    /\ state = [j \in Jobs |-> "queued"]
    /\ late = {} /\ aborts = {}
    /\ ibjob = [j \in Jobs |-> "none"] /\ namespaces = {}
    /\ runner = [j \in Jobs |-> "off"]
    /\ api = {} /\ restarting = {}
    /\ pc = [c \in Clusters |-> "timeouts"]
    /\ todo = [c \in Clusters |-> {}]
    /\ cur = [c \in Clusters |-> NoJob]
    /\ failing = [c \in Clusters |-> {}]
    /\ nAborts = 0 /\ nRestarts = 0 /\ nFaults = 0
    /\ held = [j \in Jobs |-> {}]
    /\ starts = [j \in Jobs |-> 0]
    /\ requeues = [j \in Jobs |-> 0]
    /\ cause = [j \in Jobs |-> FALSE]

-----------------------------------------------------------------------------
(* Helpers.                                                                *)

\* One UPDATE of the state of the jobs in S. Leaving 'running' ends the
\* timeout, and entering it sets start_date anew.
SetStates(S, s) ==
    /\ state' = [j \in Jobs |-> IF j \in S THEN s ELSE state[j]]
    /\ late' = late \ S
    /\ held' = [j \in Jobs |-> IF j \in S THEN held[j] \cup ({s} \cap Final) ELSE held[j]]
    /\ cause' = [j \in Jobs |-> cause[j] \/ (j \in S /\ s \in Final)]

NoStateChange == UNCHANGED <<state, late, held, cause>>

\* DELETE of the IBJob of j in the Kubernetes of cluster c: an object of
\* another cluster is not found there, and nothing happens.
KubeDeleteJob(c, j) ==
    ibjob' = IF ClusterOf[j] = c /\ ibjob[j] \in {"live", "failed"}
             THEN [ibjob EXCEPT ![j] = "deleting"]
             ELSE ibjob

\* What a scheduler does when the loop at a step has nothing left.
After ==
    [endTimedOut |-> "aborts", endAborted |-> "orphans", orphanJob |-> "namespaces",
     orphanNamespace |-> "schedule", pick |-> "timeouts"]

Goto(c, step) == pc' = [pc EXCEPT ![c] = step]

\* Begin, or go on with, the loop at a step over the jobs in S.
Loop(c, step, S) ==
    /\ Goto(c, IF S = {} THEN After[step] ELSE step)
    /\ todo' = [todo EXCEPT ![c] = S]

\* Take j out of the loop, to go on with it at a step; and be done with it.
Handle(c, j, step) ==
    /\ Goto(c, step)
    /\ todo' = [todo EXCEPT ![c] = @ \ {j}]
    /\ cur' = [cur EXCEPT ![c] = j]
Handled(c, step) ==
    /\ Loop(c, step, todo[c])
    /\ cur' = [cur EXCEPT ![c] = NoJob]

\* Leave every loop.
Leave(c, step) ==
    /\ Goto(c, step)
    /\ todo' = [todo EXCEPT ![c] = {}]
    /\ cur' = [cur EXCEPT ![c] = NoJob]
    /\ failing' = [failing EXCEPT ![c] = {}]

Fault == nFaults < MaxFaults /\ nFaults' = nFaults + 1 /\ UNCHANGED <<nAborts, nRestarts>>

\* The request of j's runner that waits for an answer is given up by it.
Unwait(j) == {[m EXCEPT !.waiting = @ /\ m.job # j] : m \in api}

-----------------------------------------------------------------------------
(* The scheduler: handle_timeouts.                                         *)

\* The SELECT has no cluster filter: every scheduler ends every late job.
FindTimedOut(c) ==
    /\ pc[c] = "timeouts"
    /\ Loop(c, "endTimedOut", {j \in late : state[j] = "running"})
    /\ NoStateChange
    /\ UNCHANGED <<aborts, kubeVars, runner, apiVars, cur, failing, boundVars, starts, requeues>>

EndTimedOut(c) ==
    /\ pc[c] = "endTimedOut"
    /\ \E j \in todo[c] : KubeDeleteJob(c, j) /\ Handle(c, j, "markTimedOut")
    /\ NoStateChange
    /\ UNCHANGED <<aborts, namespaces, runner, apiVars, failing, boundVars, starts, requeues>>

\* The UPDATE has no condition on the state.
MarkTimedOut(c) ==
    /\ pc[c] = "markTimedOut"
    /\ SetStates({cur[c]}, "error")
    /\ Handled(c, "endTimedOut")
    /\ UNCHANGED <<aborts, kubeVars, runner, apiVars, failing, boundVars, starts, requeues>>

-----------------------------------------------------------------------------
(* The scheduler: handle_aborts.                                           *)

\* One statement deletes every row of the abort table, kills the jobs that
\* are still queued, and selects the ones that were active.
TakeAborts(c) ==
    /\ pc[c] = "aborts"
    /\ aborts' = {}
    /\ SetStates({j \in aborts : state[j] = "queued"}, "killed")
    /\ Loop(c, "endAborted", {j \in aborts : state[j] \in Active})
    /\ UNCHANGED <<kubeVars, runner, apiVars, cur, failing, boundVars, starts, requeues>>

EndAborted(c) ==
    /\ pc[c] = "endAborted"
    /\ \E j \in todo[c] : KubeDeleteJob(c, j) /\ Handle(c, j, "markKilled")
    /\ NoStateChange
    /\ UNCHANGED <<aborts, namespaces, runner, apiVars, failing, boundVars, starts, requeues>>

\* Mutant of MarkKilled: the UPDATE forgets the scheduled jobs.
MarkKilledNotScheduled(c) ==
    /\ pc[c] = "markKilled"
    /\ SetStates({j \in {cur[c]} : state[j] \in {"queued", "running"}}, "killed")
    /\ Handled(c, "endAborted")
    /\ UNCHANGED <<aborts, kubeVars, runner, apiVars, failing, boundVars, starts, requeues>>

MarkKilled(c) ==
    /\ pc[c] = "markKilled"
    /\ SetStates({j \in {cur[c]} : state[j] \in Active}, "killed")
    /\ Handled(c, "endAborted")
    /\ UNCHANGED <<aborts, kubeVars, runner, apiVars, failing, boundVars, starts, requeues>>

-----------------------------------------------------------------------------
(* The scheduler: handle_orphaned_jobs and handle_orphaned_namespaces.     *)

\* The LIST: the IBJobs of the own cluster that are not being deleted, and
\* which of them the controller has marked with an error.
ListJobs(c) ==
    /\ pc[c] = "orphans"
    /\ Loop(c, "orphanJob", {j \in Jobs : ClusterOf[j] = c /\ ibjob[j] \in {"live", "failed"}})
    /\ failing' = [failing EXCEPT ![c] = {j \in Jobs : ClusterOf[j] = c /\ ibjob[j] = "failed"}]
    /\ NoStateChange
    /\ UNCHANGED <<aborts, kubeVars, runner, apiVars, cur, boundVars, starts, requeues>>

\* Mutants of InUse: without the scheduled jobs, without the queued ones, and
\* one that only ever removes the objects marked with an error.
InUseNotScheduled(j) == state[j] \in {"queued", "running"}
InUseNotQueued(j) == state[j] \in {"scheduled", "running"}
InUseAlways(j) == TRUE

\* The states whose IBJob the pass keeps.
InUse(j) == state[j] \in Active

\* What the job table says of a listed IBJob: that of an active job is kept
\* unless the controller reported an error, any other one is deleted.
HandleOrphanedJob(c) ==
    /\ pc[c] = "orphanJob"
    /\ \E j \in todo[c] :
          \/ /\ InUse(j) /\ j \notin failing[c]
             /\ Loop(c, "orphanJob", todo[c] \ {j}) /\ UNCHANGED cur
          \/ InUse(j) /\ j \in failing[c] /\ Handle(c, j, "failOrphan")
          \/ ~InUse(j) /\ Handle(c, j, "removeOrphan")
    /\ NoStateChange
    /\ UNCHANGED <<aborts, kubeVars, runner, apiVars, failing, boundVars, starts, requeues>>

FailOrphan(c) ==
    /\ pc[c] = "failOrphan"
    /\ SetStates({j \in {cur[c]} : state[j] \in Active}, "error")
    /\ Goto(c, "removeOrphan")
    /\ UNCHANGED <<aborts, kubeVars, runner, apiVars, todo, cur, failing, boundVars, starts, requeues>>

RemoveOrphan(c) ==
    /\ pc[c] = "removeOrphan"
    /\ KubeDeleteJob(c, cur[c])
    /\ Handled(c, "orphanJob")
    /\ NoStateChange
    /\ UNCHANGED <<aborts, namespaces, runner, apiVars, failing, boundVars, starts, requeues>>

ListNamespaces(c) ==
    /\ pc[c] = "namespaces"
    /\ Loop(c, "orphanNamespace", {j \in namespaces : ClusterOf[j] = c})
    /\ NoStateChange
    /\ UNCHANGED <<aborts, kubeVars, runner, apiVars, cur, failing, boundVars, starts, requeues>>

\* The state and the deletion are one step: only this scheduler creates and
\* removes the namespaces of its cluster.
HandleOrphanedNamespace(c) ==
    /\ pc[c] = "orphanNamespace"
    /\ \E j \in todo[c] :
          /\ Loop(c, "orphanNamespace", todo[c] \ {j})
          /\ namespaces' = IF state[j] \in Active THEN namespaces ELSE namespaces \ {j}
    /\ NoStateChange
    /\ UNCHANGED <<aborts, ibjob, runner, apiVars, cur, failing, boundVars, starts, requeues>>

-----------------------------------------------------------------------------
(* The scheduler: schedule and schedule_job.                               *)

FindQueued(c) ==
    /\ pc[c] = "schedule"
    /\ Loop(c, "pick", {j \in Jobs : state[j] = "queued" /\ ClusterOf[j] = c})
    /\ NoStateChange
    /\ UNCHANGED <<aborts, kubeVars, runner, apiVars, cur, failing, boundVars, starts, requeues>>

\* Mutant of ParentRunning: a parent that is about to run counts as ended.
ParentRunningOnly(j) == \E d \in Deps[j] : state[d.job] = "running"

\* Mutant of ConditionMet: a parent that did not fail is good enough.
ConditionNotFailed(j) ==
    \A d \in Deps[j] : state[d.job] \in d.on \/ state[d.job] \notin {"failure", "error"}

\* The parents' states are read in one SELECT; what it says is acted upon in
\* later steps, whatever happens to the parents or the job in between.
ParentRunning(j) == \E d \in Deps[j] : state[d.job] \in Active
ConditionMet(j) == \A d \in Deps[j] : state[d.job] \in d.on

CheckParents(c) ==
    /\ pc[c] = "pick"
    /\ \E j \in todo[c] :
          /\ \A k \in todo[c] : CreatedAt[j] <= CreatedAt[k]
          /\ \/ ParentRunning(j) /\ Loop(c, "pick", todo[c] \ {j}) /\ UNCHANGED cur
             \/ /\ ~ParentRunning(j)
                /\ \/ ~ConditionMet(j) /\ Handle(c, j, "skip")
                   \/ ConditionMet(j) /\ j \in WaitJobs /\ Handle(c, j, "finishWait")
                   \/ /\ ConditionMet(j) /\ j \notin WaitJobs
                      /\ Handle(c, j, IF j \in NamespaceJobs THEN "namespace" ELSE "post")
    /\ NoStateChange
    /\ UNCHANGED <<aborts, kubeVars, runner, apiVars, failing, boundVars, starts, requeues>>

Skip(c) ==
    /\ pc[c] = "skip"
    /\ SetStates({cur[c]}, "skipped")
    /\ Handled(c, "pick")
    /\ UNCHANGED <<aborts, kubeVars, runner, apiVars, failing, boundVars, starts, requeues>>

FinishWait(c) ==
    /\ pc[c] = "finishWait"
    /\ SetStates({cur[c]}, "finished")
    /\ Handled(c, "pick")
    /\ UNCHANGED <<aborts, kubeVars, runner, apiVars, failing, boundVars, starts, requeues>>

\* create_kube_namespace: a namespace that is still there is a failure.
CreateNamespace(c) ==
    /\ pc[c] = "namespace"
    /\ Goto(c, IF cur[c] \in namespaces THEN "namespaceFailed" ELSE "post")
    /\ namespaces' = namespaces \cup {cur[c]}
    /\ NoStateChange
    /\ UNCHANGED <<aborts, ibjob, runner, apiVars, todo, cur, failing, boundVars, starts, requeues>>

NamespaceFailed(c) ==
    /\ pc[c] = "namespaceFailed"
    /\ SetStates({cur[c]}, "error")
    /\ Handled(c, "pick")
    /\ UNCHANGED <<aborts, kubeVars, runner, apiVars, failing, boundVars, starts, requeues>>

\* The POST is refused (409) while an IBJob of that name exists; the job
\* then stays as it is.
PostJob(c) ==
    /\ pc[c] = "post"
    /\ LET j == cur[c] IN
       \/ /\ ibjob[j] = "none"
          /\ ibjob' = [ibjob EXCEPT ![j] = "live"]
          /\ starts' = [starts EXCEPT ![j] = @ + 1]
          /\ cause' = [cause EXCEPT ![j] = j \in aborts \cup late \/ state[j] \in Final]
          /\ Goto(c, "markScheduled")
          /\ UNCHANGED <<todo, cur>>
       \/ /\ ibjob[j] # "none"
          /\ Handled(c, "pick")
          /\ UNCHANGED <<ibjob, starts, cause>>
    /\ UNCHANGED <<dbVars, namespaces, runner, apiVars, failing, boundVars, held, requeues>>

\* The UPDATE has no condition on the state.
MarkScheduled(c) ==
    /\ pc[c] = "markScheduled"
    /\ SetStates({cur[c]}, "scheduled")
    /\ Handled(c, "pick")
    /\ UNCHANGED <<aborts, kubeVars, runner, apiVars, failing, boundVars, starts, requeues>>

-----------------------------------------------------------------------------
(* The scheduler: what goes wrong.                                         *)

\* handle() catches what the four passes raise, logs it and goes on with
\* _inactive: the rest of the passes is dropped. At "markTimedOut" and
\* "markKilled" the deletion was carried out, and its answer lost.
PassFails(c) ==
    /\ pc[c] \in {"endTimedOut", "markTimedOut", "endAborted", "markKilled",
                  "orphans", "orphanJob", "failOrphan", "removeOrphan",
                  "namespaces", "orphanNamespace"}
    /\ Fault
    /\ Leave(c, "schedule")
    /\ NoStateChange
    /\ UNCHANGED <<aborts, kubeVars, runner, apiVars, starts, requeues>>

\* The row of the cluster says inactive: this round schedules nothing.
ClusterInactive(c) ==
    /\ pc[c] = "schedule"
    /\ Fault
    /\ Goto(c, "timeouts")
    /\ NoStateChange
    /\ UNCHANGED <<aborts, kubeVars, runner, apiVars, todo, cur, failing, starts, requeues>>

\* Kubernetes answers, but does not do what it is asked. Nobody looks at the
\* answer to a DELETE; a LIST without items ends its pass.
DeletionRefused(c) ==
    /\ Fault
    /\ \/ pc[c] = "endTimedOut" /\ \E j \in todo[c] : Handle(c, j, "markTimedOut")
       \/ pc[c] = "endAborted" /\ \E j \in todo[c] : Handle(c, j, "markKilled")
       \/ pc[c] = "removeOrphan" /\ Handled(c, "orphanJob")
    /\ NoStateChange
    /\ UNCHANGED <<aborts, kubeVars, runner, apiVars, failing, starts, requeues>>

ListRefused(c) ==
    /\ Fault
    /\ \/ pc[c] = "orphans" /\ Goto(c, "namespaces")
       \/ pc[c] = "namespaces" /\ Goto(c, "schedule")
    /\ NoStateChange
    /\ UNCHANGED <<aborts, kubeVars, runner, apiVars, todo, cur, failing, starts, requeues>>

\* A request of create_kube_namespace is refused, or the POST of the IBJob
\* is, for another reason than its name.
CreationRefused(c) ==
    /\ Fault
    /\ \/ /\ pc[c] = "namespace" /\ Goto(c, "namespaceFailed")
          /\ namespaces' \in {namespaces, namespaces \cup {cur[c]}} /\ UNCHANGED <<todo, cur>>
       \/ pc[c] = "post" /\ Handled(c, "pick") /\ UNCHANGED namespaces
    /\ NoStateChange
    /\ UNCHANGED <<aborts, ibjob, runner, apiVars, failing, starts, requeues>>

\* An exception outside of the passes (a request of schedule() that is not
\* answered, a lost database) or a killed pod ends the process; its
\* successor starts a new round.
SchedulerCrash(c) ==
    /\ pc[c] # "timeouts"
    /\ Fault
    /\ Leave(c, "timeouts")
    /\ NoStateChange
    /\ UNCHANGED <<aborts, kubeVars, runner, apiVars, starts, requeues>>

-----------------------------------------------------------------------------
(* The runner and its reports to the job API.                              *)

\* Mutant of Says: the runner reports the name of its own phase.
SaysPhase(r) == r

Says(r) == IF r = "boot" THEN "running" ELSE r

\* Mutant of Authorised: a job must have been recorded as scheduled.
AuthorisedNotQueued(j) == state[j] \in {"scheduled", "running"}

\* job_token_required: a report is authorised while its job is active.
Authorised(j) == state[j] \in Active

\* A runner with a report sends it; refused (401), it tries again later.
SendReport(j) ==
    /\ runner[j] \in {"boot"} \cup Result
    /\ ~\E m \in api : m.job = j /\ m.waiting
    /\ Authorised(j)
    /\ api' = api \cup {[job |-> j, says |-> Says(runner[j]), waiting |-> TRUE]}
    /\ UNCHANGED <<dbVars, kubeVars, runner, restarting, schedVars, boundVars, historyVars>>

\* SetRunning and SetFinished: the UPDATE has no condition on the state. The
\* runner, if it still waits, goes on.
ApplyReport(m) ==
    /\ SetStates({m.job}, m.says)
    /\ api' = api \ {m}
    /\ runner' = IF m.waiting
                 THEN [runner EXCEPT ![m.job] = IF @ = "boot" THEN "data" ELSE "done"]
                 ELSE runner
    /\ UNCHANGED <<aborts, kubeVars, restarting, schedVars, boundVars, starts, requeues>>

\* The runner gives up waiting (20 s, a lost connection) and will send the
\* report again; the first request may still be applied.
ReportTimesOut(m) ==
    /\ m.waiting
    /\ Fault
    /\ api' = (api \ {m}) \cup {[m EXCEPT !.waiting = FALSE]}
    /\ UNCHANGED <<dbVars, kubeVars, runner, restarting, schedVars, historyVars>>

\* load_data is repeated until it is answered 200, or 400 for a job that
\* cannot be set up.
LoadData(j) ==
    /\ runner[j] = "data"
    /\ Authorised(j)
    /\ \E r \in {"body", "failure"} : runner' = [runner EXCEPT ![j] = r]
    /\ UNCHANGED <<dbVars, kubeVars, apiVars, schedVars, boundVars, historyVars>>

\* The job ended after its request was authorised: 409. The runner's exit is
\* caught like any exception, and it goes on to report an error.
LoadRefused(j) ==
    /\ runner[j] = "data"
    /\ state[j] \in Final
    /\ runner' = [runner EXCEPT ![j] = "error"]
    /\ UNCHANGED <<dbVars, kubeVars, apiVars, schedVars, boundVars, historyVars>>

EndBody(j) ==
    /\ runner[j] = "body"
    /\ \E r \in Result : runner' = [runner EXCEPT ![j] = r]
    /\ UNCHANGED <<dbVars, kubeVars, apiVars, schedVars, boundVars, historyVars>>

TimeoutElapses(j) ==
    /\ state[j] = "running" /\ j \notin late
    /\ late' = late \cup {j}
    /\ cause' = [cause EXCEPT ![j] = TRUE]
    /\ UNCHANGED <<state, aborts, kubeVars, runner, apiVars, schedVars, boundVars,
                   held, starts, requeues>>

-----------------------------------------------------------------------------
(* Kubernetes and the IBJob controller (external).                         *)

StartPod(j) ==
    /\ ibjob[j] = "live" /\ runner[j] = "off"
    /\ runner' = [runner EXCEPT ![j] = "boot"]
    /\ UNCHANGED <<dbVars, kubeVars, apiVars, schedVars, boundVars, historyVars>>

\* The container dies; its restart policy starts it again.
RestartContainer(j) ==
    /\ runner[j] \notin {"off", "boot", "done"}
    /\ Fault
    /\ runner' = [runner EXCEPT ![j] = "boot"]
    /\ api' = Unwait(j)
    /\ UNCHANGED <<dbVars, kubeVars, restarting, schedVars, historyVars>>

ControllerFails(j) ==
    /\ ibjob[j] = "live"
    /\ Fault
    /\ ibjob' = [ibjob EXCEPT ![j] = "failed"]
    /\ UNCHANGED <<dbVars, namespaces, runner, apiVars, schedVars, historyVars>>

\* The controller removes the finalizer once the pod is gone.
ObjectGone(j) ==
    /\ ibjob[j] = "deleting"
    /\ ibjob' = [ibjob EXCEPT ![j] = "none"]
    /\ runner' = [runner EXCEPT ![j] = "off"]
    /\ api' = Unwait(j)
    /\ UNCHANGED <<dbVars, namespaces, restarting, schedVars, boundVars, historyVars>>

-----------------------------------------------------------------------------
(* The users.                                                              *)

RequestAbort(j) ==
    /\ nAborts < MaxAborts
    /\ nAborts' = nAborts + 1
    /\ aborts' = aborts \cup {j}
    /\ cause' = [cause EXCEPT ![j] = TRUE]
    /\ UNCHANGED <<state, late, kubeVars, runner, apiVars, schedVars,
                   nRestarts, nFaults, held, starts, requeues>>

\* The jobs that depend on j, directly or not, and j itself: the least set
\* that the loop of JobRestart.get reaches.
Closure(j) ==
    {k \in Jobs : \A S \in SUBSET Jobs :
        (j \in S /\ \A x \in Jobs : (\E d \in Deps[x] : d.job \in S) => x \in S) => k \in S}

\* The checks of JobRestart.get, on what its SELECT returned.
MayRestart(j) ==
    /\ j \notin WaitJobs
    /\ state[j] \in Final \ {"skipped"}
    /\ \A k \in Closure(j) : state[k] \in Final

CheckRestart(j) ==
    /\ nRestarts < MaxRestarts
    /\ MayRestart(j)
    /\ nRestarts' = nRestarts + 1
    /\ restarting' = restarting \cup {<<j, nRestarts + 1>>}
    /\ UNCHANGED <<dbVars, kubeVars, runner, api, schedVars, nAborts, nFaults, historyVars>>

\* The UPDATEs, without a condition on the state, and their commit.
CommitRestart(r) ==
    /\ SetStates(Closure(r[1]), "queued")
    /\ requeues' = [j \in Jobs |-> IF j \in Closure(r[1]) THEN requeues[j] + 1 ELSE requeues[j]]
    /\ restarting' = restarting \ {r}
    /\ UNCHANGED <<aborts, kubeVars, runner, api, schedVars, boundVars, starts>>

-----------------------------------------------------------------------------

SchedulerNext(c) ==
    \/ FindTimedOut(c) \/ EndTimedOut(c) \/ MarkTimedOut(c)
    \/ TakeAborts(c) \/ EndAborted(c) \/ MarkKilled(c)
    \/ ListJobs(c) \/ HandleOrphanedJob(c) \/ FailOrphan(c) \/ RemoveOrphan(c)
    \/ ListNamespaces(c) \/ HandleOrphanedNamespace(c)
    \/ FindQueued(c) \/ CheckParents(c)
    \/ Skip(c) \/ FinishWait(c) \/ CreateNamespace(c) \/ NamespaceFailed(c)
    \/ PostJob(c) \/ MarkScheduled(c)

SchedulerFault(c) ==
    \/ PassFails(c) \/ ClusterInactive(c) \/ SchedulerCrash(c)
    \/ DeletionRefused(c) \/ ListRefused(c) \/ CreationRefused(c)

RunnerNext(j) == SendReport(j) \/ LoadData(j) \/ LoadRefused(j) \/ EndBody(j)

KubernetesNext(j) ==
    StartPod(j) \/ RestartContainer(j) \/ ControllerFails(j) \/ ObjectGone(j)

UserNext(j) == RequestAbort(j) \/ CheckRestart(j)

Next ==
    \/ \E c \in Clusters : SchedulerNext(c) \/ SchedulerFault(c)
    \/ \E j \in Jobs : RunnerNext(j) \/ TimeoutElapses(j) \/ KubernetesNext(j) \/ UserNext(j)
    \/ \E m \in api : ApplyReport(m) \/ ReportTimesOut(m)
    \/ \E r \in restarting : CommitRestart(r)

Spec == Init /\ [][Next]_vars

\* A scheduler is a loop that keeps running, a runner retries its report
\* forever, the API server finishes the requests it has accepted, time
\* passes, and the controller serves its objects. A wait job has no IBJob, so
\* nothing of this is about it. The body of a job may hang, and nobody has to
\* abort or restart anything.
Fairness ==
    /\ \A c \in Clusters : WF_vars(SchedulerNext(c))
    /\ \A j \in Jobs \ WaitJobs :
          /\ WF_vars(SendReport(j) \/ LoadData(j) \/ \E m \in api : m.job = j /\ ApplyReport(m))
          /\ WF_vars(StartPod(j) \/ ObjectGone(j))
          /\ WF_vars(TimeoutElapses(j))
    /\ WF_vars(\E r \in restarting : CommitRestart(r))

FairSpec == Spec /\ Fairness

-----------------------------------------------------------------------------
(* Safety.                                                                 *)

\* What a job does when it is not skipped: a wait job ends as 'finished' by
\* itself, any other one gets an IBJob.
HasRun(j) == starts[j] > 0 \/ (j \in WaitJobs /\ "finished" \in held[j])

\* A job has run only if each of its dependencies had by then ended in a state
\* that its "on" lists. The scheduler reads the parents in one statement and
\* creates the IBJob several steps later, against late reports, timeouts,
\* aborts and the scheduler of another cluster, which overwrite those states.
DependenciesHeld ==
    \A j \in Jobs : HasRun(j) => \A d \in Deps[j] : held[d.job] \cap d.on # {}

\* A job is skipped only if one of its dependencies has ended in a state that
\* its "on" does not list: an unfinished parent never makes schedule() skip.
SkipJustified ==
    \A j \in Jobs : "skipped" \in held[j] => \E d \in Deps[j] : held[d.job] \ d.on # {}

\* docs/doc.md of a job that lists "*" for each of its dependencies: it runs
\* always. It does not hold (README, section 4): 'killed' is none of the states
\* "*" stands for, so a clean-up job behind an aborted one is skipped.
CleanUpRuns ==
    \A j \in Jobs : (\A d \in Deps[j] : d.on = Condition) => "skipped" \notin held[j]

\* A job is executed at most once for every time it was put into the queue,
\* although schedule() neither locks a job nor claims it before its POST, and
\* may crash between the POST and the UPDATE that records it.
OneExecutionPerRequest == \A j \in Jobs : starts[j] <= 1 + requeues[j]

\* The IBJob of a job is never deleted under its running pod without a reason
\* that arose since it was created, or was there already: the job held a final
\* state, its abort was requested, or its timeout elapsed. In particular handle_orphaned_jobs does
\* not take a job for orphaned that a crashed scheduler left 'queued'.
NoSpuriousKill ==
    [][\A j \in Jobs : ibjob[j] = "live" /\ ibjob'[j] = "deleting" => cause[j]]_vars

\* A restart puts only jobs back into the queue that are not queued,
\* scheduled or running: what the checks of JobRestart.get are there for.
RestartOnlyEnded ==
    [][\A j \in Jobs : requeues'[j] > requeues[j] => state[j] \in Final]_vars

\* What the build promises, see JobExecution: a job may be executed as often
\* as it was put into the queue, and its IBJob is its execution.
Permits == [j \in Jobs |-> (1 + requeues[j]) - starts[j]]
Executing == {j \in Jobs : ibjob[j] # "none"}

Execution == INSTANCE JobExecution WITH permits <- Permits, executing <- Executing

ImplementsExecution == Execution!Spec

-----------------------------------------------------------------------------
(* Liveness.                                                               *)

\* The IBJob of an earlier execution of a restarted job, whose runner hangs or
\* has made its last report. handle_orphaned_jobs keeps it for the queued job,
\* and every POST of the new execution is answered 409.
Occupied(j) ==
    ibjob[j] = "live" /\ runner[j] \in {"body", "done"} /\ starts[j] <= requeues[j]

\* No job waits forever in the queue behind parents that have all ended: it
\* leaves it, or one of its parents becomes active again, or the IBJob of an
\* earlier execution is in its way. A POST that was not recorded leaves a queued
\* job whose runner reports running all the same; a scheduler that crashed on
\* its way to the POST finds the namespace of the job in its way when it tries
\* again, and must end the job for it.
QueueDrains ==
    \A j \in Jobs : []<>~(state[j] = "queued" /\ ~ParentRunning(j) /\ ~Occupied(j))

\* What JobRestart answers, "Successfully restarted job" (jobs.py): the job
\* leaves the queue, whatever its earlier execution has left. It does not hold
\* (README, section 4): a restart committed before the IBJob of a job that ended
\* is deleted leaves an Occupied one.
RestartRuns == \A j \in Jobs : []<>~(state[j] = "queued" /\ ~ParentRunning(j))

\* The Kubernetes objects of a job that has ended are removed, unless the job
\* becomes active again, also when single passes of the scheduler fail.
ObjectsReclaimed ==
    \A j \in Jobs \ WaitJobs :
        /\ []<>~(state[j] \in Final /\ ibjob[j] = "live")
        /\ []<>~(state[j] \in Final /\ j \in namespaces)

\* An abort that is still in the table when the last fault has happened ends
\* its job. (One that a failing pass has taken out of the table is lost.)
AbortEndsJob ==
    \A j \in Jobs : (nFaults = MaxFaults /\ j \in aborts) ~> state[j] \in Final

\* docs/doc.md: a job is killed after its timeout, which starts when the job
\* is set to running. A runner that has reported running and hangs is ended.
TimeoutEndsJob == \A j \in Jobs : (runner[j] = "body") ~> state[j] \in Final
=============================================================================
