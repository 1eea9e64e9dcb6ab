------------------------------- MODULE JobData -------------------------------
(***************************************************************************)
(* What jobs leave to others: their output, their results and their cache. *)
(*                                                                         *)
(*   - the runner (src/job/job.py, src/job/infrabox_job/job.py) fetches    *)
(*     the outputs of the parents, runs the container, posts its results   *)
(*     whether it failed or not, creates the jobs it generated, and posts  *)
(*     its output and its cache;                                           *)
(*   - the API of each cluster (src/api/handlers/job_api.py) stores an     *)
(*     output in the storage of its own cluster, and hands it on, with the *)
(*     same request, to the clusters in which children of the job wait.    *)
(*                                                                         *)
(* A request that is handed on waits for its answer: it is a sequence of   *)
(* handlers, the last of which runs. When a caller does not want to wait   *)
(* any longer, the handlers it has called go on without it.                *)
(***************************************************************************)
EXTENDS Naturals, FiniteSets, Sequences, SequencesExt

CONSTANTS
    Jobs,
    Clusters,
    Setups,         \* [cluster, parents, on, creator, files, deployments, tries] to look
                    \* at, where the code tries 5 times to upload an output
    MaxExecutions,  \* bound: executions of a job
    MaxChain,       \* bound: handlers that wait for each other
    MaxFaults       \* bound: aborts, failures of storage, network and clusters

Kind == {"testresult", "markup", "badge"}
Outcome == {"finished", "failure", "error"}
Ended == Outcome \cup {"killed", "skipped"}
Condition == Outcome \cup {"skipped"}      \* what there may be in "on"
Restartable == {"error", "failure", "finished", "killed"}
Step == {"idle", "source", "inputs", "body", "deploy", "results", "jobs", "output", "cache",
         "report"}

ASSUME JobDataAssumption ==
    /\ Setups \subseteq [cluster : [Jobs -> Clusters], parents : [Jobs -> SUBSET Jobs],
                          on : [Jobs -> [Jobs -> SUBSET Condition]], creator : [Jobs -> SUBSET Jobs], files : SUBSET (Kind \X Nat),
                          deployments : SUBSET Nat, tries : Nat]
    /\ {MaxExecutions, MaxChain, MaxFaults} \subseteq Nat /\ MaxChain # 0

VARIABLES
    setup,
    \* --- the rows of the jobs
    state,      \* job.state, "none" if there is no row
    results,    \* the rows of job_markup, job_badge and test_run
    active,     \* the clusters with cluster.active
    \* --- the storage of the clusters, by the execution that wrote it
    store,      \* output/<job>.tar.gz
    caches,     \* cache/project_<>_job_<>.tar.gz, and that with a branch
    deployed,   \* the images in the registries of the deployments
    \* --- the runners
    exec,       \* the number of executions so far
    step,       \* where the execution is
    outcome,    \* how it will end
    inputs,     \* the outputs it has got: <<parent, execution>>
    wrote,      \* it has left something in /infrabox/output
    left,       \* the results it has left
    todo,       \* the results it has to post
    lost,       \* history: the results that were refused
    tries,      \* of the upload of the output
    \* --- the APIs
    requests,   \* the uploads under way
    nFaults,
    \* --- history
    missed      \* outputs a child was not sent or could not read, or that an
                \* older execution has overwritten: <<parent, child>>

rows == <<state, results, active>>
storage == <<store, caches, deployed>>
leavings == <<wrote, left, todo, lost>>
runner == <<exec, step, outcome, inputs, leavings, tries>>
vars == <<setup, rows, storage, runner, requests, nFaults, missed>>

ClusterOf(j) == setup.cluster[j]
Parents(j) == setup.parents[j]
On(j, p) == setup.on[j][p]
Children(j) == {k \in Jobs : j \in Parents(k)}
Execution == 0..MaxExecutions

\* A handler at a cluster: it has read its targets once step is "store".
Frame == [at : Clusters, step : {"read", "store", "forward"}, targets : SUBSET Clusters]
Request(j, n, frames, waiting) == [job |-> j, exec |-> n, frames |-> frames, waiting |-> waiting]
Uploading(j) == \E r \in requests : r.job = j /\ r.waiting

TypeOK ==
    /\ setup \in Setups
    /\ state \in [Jobs -> {"none", "queued", "running"} \cup Ended]
    /\ results \subseteq [job : Jobs, file : setup.files, exec : Execution]
    /\ active \subseteq Clusters
    /\ store \in [Clusters -> [Jobs -> Execution]]
    /\ caches \in [Jobs -> [job : Execution, branch : Execution]]
    /\ deployed \in [Jobs -> [setup.deployments -> Execution]]
    /\ exec \in [Jobs -> Execution]
    /\ step \in [Jobs -> Step]
    /\ outcome \in [Jobs -> Outcome]
    /\ inputs \in [Jobs -> SUBSET (Jobs \X Execution)]
    /\ \A j \in Jobs : step[j] = "idle" <=> state[j] # "running"
    /\ wrote \in [Jobs -> BOOLEAN]
    /\ left \in [Jobs -> SUBSET setup.files]
    /\ {todo, lost} \subseteq [Jobs -> SUBSET setup.files]
    /\ \A j \in Jobs : todo[j] \cup lost[j] \subseteq left[j]
    /\ tries \in [Jobs -> 0..setup.tries]
    /\ requests \subseteq [job : Jobs, exec : Execution \ {0}, frames : Seq(Frame), waiting : BOOLEAN]
    /\ \A r \in requests : /\ Len(r.frames) \in 1..MaxChain
                           /\ r.waiting => step[r.job] = "output" /\ r.exec = exec[r.job]
    /\ nFaults \in 0..MaxFaults
    /\ missed \subseteq Jobs \X Jobs

Init ==
    /\ setup \in Setups
    /\ state = [j \in Jobs |-> IF setup.creator[j] = {} THEN "queued" ELSE "none"]
    /\ results = {} /\ active = Clusters
    /\ store = [c \in Clusters |-> [j \in Jobs |-> 0]]
    /\ caches = [j \in Jobs |-> [job |-> 0, branch |-> 0]]
    /\ deployed = [j \in Jobs |-> [d \in setup.deployments |-> 0]]
    /\ exec = [j \in Jobs |-> 0]
    /\ step = [j \in Jobs |-> "idle"]
    /\ outcome = [j \in Jobs |-> "finished"]
    /\ inputs = [j \in Jobs |-> {}]
    /\ wrote = [j \in Jobs |-> FALSE]
    /\ left = [j \in Jobs |-> {}]
    /\ todo = [j \in Jobs |-> {}]
    /\ lost = [j \in Jobs |-> {}]
    /\ tries = [j \in Jobs |-> 0]
    /\ requests = {}
    /\ nFaults = 0
    /\ missed = {}

Fault == nFaults < MaxFaults /\ nFaults' = nFaults + 1
Go(j, s) == step' = [step EXCEPT ![j] = s]

\* An exception ends the execution: the state is reported and nothing else.
Raise(j, as) == Go(j, "report") /\ outcome' = [outcome EXCEPT ![j] = as]

-----------------------------------------------------------------------------
(* The runner.                                                             *)

ConditionMet(j) == \A p \in Parents(j) : state[p] \in On(j, p)

\* The scheduler starts jobs of its own cluster whose parents have ended as the
\* jobs demand, as long as the cluster is active.
StartJob(j) ==
    /\ state[j] = "queued" /\ exec[j] < MaxExecutions
    /\ ConditionMet(j)
    /\ ClusterOf(j) \in active
    /\ state' = [state EXCEPT ![j] = "running"]
    /\ exec' = [exec EXCEPT ![j] = @ + 1]
    /\ Go(j, "source")
    /\ outcome' = [outcome EXCEPT ![j] = "finished"]
    /\ inputs' = [inputs EXCEPT ![j] = {}]
    /\ wrote' = [wrote EXCEPT ![j] = FALSE]
    /\ left' = [left EXCEPT ![j] = {}]
    /\ lost' = [lost EXCEPT ![j] = {}]
    /\ tries' = [tries EXCEPT ![j] = 0]
    /\ missed' = {m \in missed : m[1] # j}
    /\ UNCHANGED <<setup, results, active, storage, todo, requests, nFaults>>

GetSource(j) ==
    /\ step[j] = "source"
    /\ Go(j, "inputs")
    /\ UNCHANGED <<setup, rows, storage, exec, outcome, inputs, leavings, tries, requests, nFaults, missed>>

Fetched(j) == {i[1] : i \in inputs[j]}
Input(j, p, n) == inputs' = [inputs EXCEPT ![j] = @ \cup {<<p, n>>}]

\* What the storage does not have is no input, and no error either.
FetchInput(j, p) ==
    /\ step[j] = "inputs" /\ p \in Parents(j) \ Fetched(j)
    /\ Input(j, p, store[ClusterOf(j)][p])
    /\ UNCHANGED <<setup, rows, storage, exec, step, outcome, leavings, tries, requests, nFaults, missed>>

\* The storage fails, and S3 takes that for 'there is none'.
DownloadFails(j, p) ==
    /\ Fault
    /\ step[j] = "inputs" /\ p \in Parents(j) \ Fetched(j)
    /\ Input(j, p, 0)
    /\ missed' = missed \cup {<<p, j>>}
    /\ UNCHANGED <<setup, rows, storage, exec, step, outcome, leavings, tries, requests>>

\* The source cannot be fetched, or an input, or the cache: another error of the
\* API (GCS that fails), or no answer at all.
FetchFails(j) ==
    /\ Fault
    /\ step[j] \in {"source", "inputs"}
    /\ \E as \in {"failure", "error"} : Raise(j, as)
    /\ UNCHANGED <<setup, rows, storage, exec, inputs, leavings, tries, requests, missed>>

FetchCache(j) ==
    /\ step[j] = "inputs" /\ Parents(j) = Fetched(j)
    /\ Go(j, "body")
    /\ UNCHANGED <<setup, rows, storage, exec, outcome, inputs, leavings, tries, requests, nFaults, missed>>

\* There is no image: no container runs, and nothing is left by it.
BuildFails(j) ==
    /\ step[j] = "body"
    /\ outcome' = [outcome EXCEPT ![j] = "failure"]
    /\ Go(j, "results")
    /\ UNCHANGED <<setup, rows, storage, exec, inputs, leavings, tries, requests, nFaults, missed>>

\* The container leaves some output, or not, all of its results or none,
Leaves(j) ==
    \E w \in BOOLEAN, fs \in {{}, setup.files} :
        /\ wrote' = [wrote EXCEPT ![j] = w]
        /\ left' = [left EXCEPT ![j] = fs]
        /\ todo' = [todo EXCEPT ![j] = fs]
        /\ lost' = [lost EXCEPT ![j] = {}]

\* also if it fails, or the containers of a docker-compose file do.
ContainerFails(j) ==
    /\ step[j] = "body"
    /\ Leaves(j)
    /\ outcome' = [outcome EXCEPT ![j] = "failure"]
    /\ Go(j, "results")
    /\ UNCHANGED <<setup, rows, storage, exec, inputs, tries, requests, nFaults, missed>>

RunContainer(j) ==
    /\ step[j] = "body"
    /\ Leaves(j)
    /\ Go(j, IF setup.deployments = {} THEN "results" ELSE "deploy")
    /\ UNCHANGED <<setup, rows, storage, exec, outcome, inputs, tries, requests, nFaults, missed>>

\* Mutant: what an earlier execution has pushed is not pushed again.
ToDeployOnce(j) == {d \in setup.deployments : deployed[j][d] = 0}

\* The image is pushed under the tag of each deployment, in their order.
ToDeploy(j) == {d \in setup.deployments : deployed[j][d] # exec[j]}
First(ds) == CHOOSE d \in ds : \A e \in ds : d <= e

DeployContainer(j) ==
    /\ step[j] = "deploy" /\ ToDeploy(j) # {}
    /\ deployed' = [deployed EXCEPT ![j][First(ToDeploy(j))] = exec[j]]
    /\ UNCHANGED <<setup, rows, store, caches, runner, requests, nFaults, missed>>

\* The push of a deployment fails with an error, a login and the push to the
\* registry of InfraBox with a failure; the results are posted in any case.
DeployFails(j) ==
    /\ Fault
    /\ step[j] = "deploy"
    /\ \E as \in {"failure"} \cup (IF ToDeploy(j) # {} THEN {"error"} ELSE {}) :
          outcome' = [outcome EXCEPT ![j] = as]
    /\ Go(j, "results")
    /\ UNCHANGED <<setup, rows, storage, exec, inputs, leavings, tries, requests, missed>>

PushContainer(j) ==
    /\ step[j] = "deploy" /\ ToDeploy(j) = {}
    /\ Go(j, "results")
    /\ UNCHANGED <<setup, rows, storage, exec, outcome, inputs, leavings, tries, requests, nFaults, missed>>

\* Test results first, then markup, then badges; each file in a request.
Remaining(j) ==
    LET of(k) == {f \in todo[j] : f[1] = k} IN
    IF of("testresult") # {} THEN of("testresult")
    ELSE IF of("markup") # {} THEN of("markup") ELSE of("badge")

\* Whoever has posted some may not post more.
Accepts(j, kind) == \A r \in results : r.job = j => r.file[1] # kind

Insert(j, f) ==
    results' = IF Accepts(j, f[1])
               THEN results \cup {[job |-> j, file |-> f, exec |-> exec[j]]} ELSE results

\* A 403, that there are some already, is shown in the console and forgotten.
PostResult(j, f) ==
    /\ step[j] = "results" /\ f \in Remaining(j)
    /\ Insert(j, f)
    /\ todo' = [todo EXCEPT ![j] = @ \ {f}]
    /\ UNCHANGED <<setup, state, active, storage, exec, step, outcome, inputs, wrote, left, lost, tries,
                   requests, nFaults, missed>>

\* So is any other answer: a 400, for a file that is not valid or whose INSERT
\* has failed, or a 500.
ResultRefused(j, f) ==
    /\ step[j] = "results" /\ f \in Remaining(j)
    /\ todo' = [todo EXCEPT ![j] = @ \ {f}]
    /\ lost' = [lost EXCEPT ![j] = @ \cup {f}]
    /\ UNCHANGED <<setup, rows, storage, exec, step, outcome, inputs, wrote, left, tries, requests,
                   nFaults, missed>>

\* Mutant: an exception of requests is forgotten too.
PostResultIgnored(j, f) ==
    /\ Fault
    /\ step[j] = "results" /\ f \in Remaining(j)
    /\ todo' = [todo EXCEPT ![j] = @ \ {f}]
    /\ UNCHANGED <<setup, rows, storage, exec, step, outcome, inputs, wrote, left, lost, tries, requests,
                   missed>>

\* No answer: the exception takes the place of that of the container. (An
\* archive that cannot be posted after 5 tries is a Failure.)
PostResultFails(j, f) ==
    /\ Fault
    /\ step[j] = "results" /\ f \in Remaining(j)
    /\ Insert(j, f) \/ UNCHANGED results
    /\ \E as \in {"failure", "error"} : Raise(j, as)
    /\ todo' = [todo EXCEPT ![j] = {}]
    /\ UNCHANGED <<setup, state, active, storage, exec, inputs, wrote, left, lost, tries, requests, missed>>

EndBody(j) ==
    /\ step[j] = "results" /\ todo[j] = {}
    /\ Go(j, IF outcome[j] = "finished" THEN "jobs" ELSE "report")
    /\ UNCHANGED <<setup, rows, storage, exec, outcome, inputs, leavings, tries, requests, nFaults, missed>>

\* The rows of the jobs it generated are there before its output is stored.
\* An execution inserts new ones, whatever the one before has inserted.
CreateJobs(j) ==
    /\ step[j] = "jobs"
    /\ LET new == {k \in Jobs : j \in setup.creator[k] /\ state[k] = "none"} IN
          state' = IF wrote[j] /\ new # {}
                   THEN [state EXCEPT ![CHOOSE k \in new : TRUE] = "queued"] ELSE state
    /\ Go(j, IF wrote[j] THEN "output" ELSE "cache")
    /\ UNCHANGED <<setup, results, active, storage, exec, outcome, inputs, leavings, tries, requests,
                   nFaults, missed>>

Handler(c) == [at |-> c, step |-> "read", targets |-> {}]

PostOutput(j) ==
    /\ step[j] = "output" /\ ~Uploading(j) /\ tries[j] < setup.tries
    /\ tries' = [tries EXCEPT ![j] = @ + 1]
    /\ requests' = requests \cup {Request(j, exec[j], <<Handler(ClusterOf(j))>>, TRUE)}
    /\ UNCHANGED <<setup, rows, storage, exec, step, outcome, inputs, leavings, nFaults, missed>>

GiveUp(j) ==
    /\ step[j] = "output" /\ ~Uploading(j) /\ tries[j] = setup.tries
    /\ Raise(j, "failure")
    /\ UNCHANGED <<setup, rows, storage, exec, inputs, leavings, tries, requests, nFaults, missed>>

PostCache(j) ==
    /\ step[j] = "cache"
    /\ Go(j, "report")
    /\ caches' = [caches EXCEPT ![j].job = exec[j]]
    /\ UNCHANGED <<setup, rows, store, deployed, exec, outcome, inputs, leavings, tries, requests, nFaults, missed>>

PostCacheFails(j) ==
    /\ Fault
    /\ step[j] = "cache"
    /\ Raise(j, "failure")
    /\ UNCHANGED <<setup, rows, storage, exec, inputs, leavings, tries, requests, missed>>

Report(j) ==
    /\ step[j] = "report"
    /\ Go(j, "idle")
    /\ state' = [state EXCEPT ![j] = outcome[j]]
    /\ UNCHANGED <<setup, results, active, storage, exec, outcome, inputs, leavings, tries, requests,
                   nFaults, missed>>

-----------------------------------------------------------------------------
(* POST /api/job/output.                                                   *)

\* Mutant: the children that run.
TargetsOfRunning(j, c) ==
    {ClusterOf(k) : k \in {l \in Children(j) : state[l] = "running"}} \cap (active \ {c, ClusterOf(j)})

\* Mutant: the cluster itself is not left out.
TargetsAndOwn(j, c) ==
    {ClusterOf(k) : k \in {l \in Children(j) : state[l] = "queued"}} \cap (active \ {ClusterOf(j)})

\* The clusters in which children wait, but not the one that asks nor that of
\* the job.
Targets(j, c) ==
    {ClusterOf(k) : k \in {l \in Children(j) : state[l] = "queued"}} \cap (active \ {c, ClusterOf(j)})

Becomes(r, q) == requests' = (requests \ {r}) \cup {q}
Top(r, f) == [r EXCEPT !.frames[Len(r.frames)] = f]

\* Children in other clusters that do not wait for the output.
NotWaiting(j) ==
    {<<j, k>> : k \in {l \in Children(j) : /\ ClusterOf(l) # ClusterOf(j)
                                           /\ state[l] # "queued" \/ ClusterOf(l) \notin active}}

ReadTargets(r) ==
    LET f == Last(r.frames) IN
    /\ f.step = "read"
    /\ Becomes(r, Top(r, [f EXCEPT !.step = "store", !.targets = Targets(r.job, f.at)]))
    /\ missed' = IF r.waiting /\ Len(r.frames) = 1
                 THEN {m \in missed : m[1] # r.job} \cup NotWaiting(r.job) ELSE missed
    /\ UNCHANGED <<setup, rows, storage, runner, nFaults>>

StoreOutput(r) ==
    LET f == Last(r.frames) IN
    /\ f.step = "store"
    /\ Becomes(r, Top(r, [f EXCEPT !.step = "forward"]))
    /\ store' = [store EXCEPT ![f.at][r.job] = r.exec]
    /\ missed' = IF r.exec # exec[r.job] THEN missed \cup ({r.job} \X Children(r.job)) ELSE missed
    /\ UNCHANGED <<setup, rows, caches, deployed, runner, nFaults>>

\* The receiver runs the same handler.
Forward(r, c) ==
    LET f == Last(r.frames) IN
    /\ f.step = "forward" /\ c \in f.targets
    /\ Len(r.frames) < MaxChain
    /\ Becomes(r, [Top(r, [f EXCEPT !.targets = @ \ {c}]) EXCEPT !.frames = Append(@, Handler(c))])
    /\ UNCHANGED <<setup, rows, storage, runner, nFaults, missed>>

\* 200: the caller goes on.
Answer(r) ==
    LET f == Last(r.frames) IN
    /\ f.step = "forward" /\ f.targets = {}
    /\ IF Len(r.frames) > 1
       THEN Becomes(r, [r EXCEPT !.frames = Front(@)]) /\ UNCHANGED step
       ELSE /\ requests' = requests \ {r}
            /\ step' = IF r.waiting THEN [step EXCEPT ![r.job] = "cache"] ELSE step
    /\ UNCHANGED <<setup, rows, storage, exec, outcome, inputs, leavings, tries, nFaults, missed>>

\* A handler fails, or its caller waits no longer: all callers answer 500 at
\* once, and the runner tries again. n handlers, which were called by one that
\* does not wait, go on.
RequestFails(r, n) ==
    /\ Fault
    /\ n \in 0..Len(r.frames)
    /\ LET on == SubSeq(r.frames, Len(r.frames) - n + 1, Len(r.frames)) IN
          requests' = (requests \ {r})
                         \cup (IF n = 0 THEN {} ELSE {Request(r.job, r.exec, on, FALSE)})
    /\ UNCHANGED <<setup, rows, storage, runner, missed>>

-----------------------------------------------------------------------------
(* The other services, and the users.                                      *)

\* All parents have ended, one of them otherwise than the job demands.
Skip(j) ==
    /\ state[j] = "queued"
    /\ \A p \in Parents(j) : state[p] \in Ended
    /\ ~ConditionMet(j)
    /\ ClusterOf(j) \in active
    /\ state' = [state EXCEPT ![j] = "skipped"]
    /\ UNCHANGED <<setup, results, active, storage, runner, requests, nFaults, missed>>

\* Mutant: the pod goes on.
AbortRow(j) ==
    /\ Fault
    /\ state[j] \in {"queued", "running"}
    /\ state' = [state EXCEPT ![j] = "killed"]
    /\ UNCHANGED <<setup, results, active, storage, runner, requests, missed>>

\* The pod is deleted; the API goes on with what it has sent.
Abort(j) ==
    /\ Fault
    /\ state[j] \in {"queued", "running"}
    /\ state' = [state EXCEPT ![j] = "killed"]
    /\ Go(j, "idle")
    /\ todo' = [todo EXCEPT ![j] = {}]
    /\ requests' = {IF r.job = j THEN [r EXCEPT !.waiting = FALSE] ELSE r : r \in requests}
    /\ UNCHANGED <<setup, results, active, storage, exec, outcome, inputs, wrote, left, lost, tries, missed>>

\* The jobs in js and all that depend on them, directly or not: the least set
\* that the loop of JobRestart.get reaches.
Closure(js) ==
    {k \in Jobs : \A S \in SUBSET Jobs :
        (js \subseteq S /\ \A l \in S : Children(l) \subseteq S) => k \in S}

\* A job, and all that depends on it. Output, results and caches stay.
Restart(j) ==
    /\ state[j] \in Restartable
    /\ LET js == {k \in Closure({j}) : state[k] # "none"} IN
          /\ \A k \in js : state[k] \in Restartable \cup {"skipped"} /\ exec[k] < MaxExecutions
          /\ state' = [k \in Jobs |-> IF k \in js THEN "queued" ELSE state[k]]
    /\ UNCHANGED <<setup, results, active, storage, runner, requests, nFaults, missed>>

\* It deletes the cache of a branch, which nobody writes.
ClearCache(j) ==
    /\ state[j] # "none"
    /\ caches' = [caches EXCEPT ![j].branch = 0]
    /\ UNCHANGED <<setup, rows, store, deployed, runner, requests, nFaults, missed>>

Deactivate(c) ==
    /\ Fault
    /\ active' = active \ {c}
    /\ UNCHANGED <<setup, state, results, storage, runner, requests, missed>>

Activate(c) ==
    /\ c \notin active
    /\ active' = active \cup {c}
    /\ UNCHANGED <<setup, state, results, storage, runner, requests, nFaults, missed>>

-----------------------------------------------------------------------------
Run(j) ==
    \/ GetSource(j) \/ FetchCache(j) \/ BuildFails(j) \/ ContainerFails(j) \/ RunContainer(j)
    \/ DeployContainer(j) \/ PushContainer(j)
    \/ EndBody(j) \/ CreateJobs(j) \/ PostOutput(j) \/ GiveUp(j) \/ PostCache(j) \/ Report(j)
    \/ \E p \in Jobs : FetchInput(j, p)
    \/ \E f \in setup.files : PostResult(j, f) \/ ResultRefused(j, f)

RunFails(j) ==
    \/ FetchFails(j) \/ DeployFails(j) \/ PostCacheFails(j)
    \/ \E p \in Jobs : DownloadFails(j, p)
    \/ \E f \in setup.files : PostResultFails(j, f)

Serve(r) == ReadTargets(r) \/ StoreOutput(r) \/ Answer(r) \/ \E c \in Clusters : Forward(r, c)

Next ==
    \/ \E j \in Jobs : StartJob(j) \/ Run(j) \/ RunFails(j) \/ Skip(j) \/ Abort(j) \/ Restart(j)
                          \/ ClearCache(j)
    \/ \E r \in requests : Serve(r) \/ \E n \in 0..MaxChain : RequestFails(r, n)
    \/ \E c \in Clusters : Deactivate(c) \/ Activate(c)

Spec == Init /\ [][Next]_vars

\* Runners and handlers go on.
Progress == (\E j \in Jobs : Run(j)) \/ \E r \in requests : Serve(r)

FairSpec == Spec /\ WF_vars(Progress)

-----------------------------------------------------------------------------
(* Properties.                                                             *)

\* A job gets the output of the last execution of each of its parents that has
\* finished, in whatever cluster they run, whether they have been there from the
\* beginning or were generated by the parent, however often the upload was tried
\* and the jobs were restarted. But not one that did not wait when it was
\* uploaded, or whose storage failed, or if a handler of an older execution has
\* stored it since.
InputsComplete ==
    \A j \in Jobs : step[j] = "body" =>
        \A i \in inputs[j] :
            LET parent == i[1] IN
            state[parent] = "finished" /\ wrote[parent] /\ <<parent, j>> \notin missed
                => i[2] = exec[parent]

\* 'All data which is written into this directory will be accessible by the
\* direct child jobs' (docs/doc.md:422). Not to those which run although the
\* parent has failed (docs/doc.md:416): its output is not uploaded.
OutputReachesChildren ==
    \A j \in Jobs : step[j] = "body" =>
        \A i \in inputs[j] :
            LET parent == i[1] IN
            wrote[parent] /\ <<parent, j>> \notin missed => i[2] = exec[parent]

\* The images of a finished job are all deployed, and those of its last
\* execution, also if an earlier one was stopped between two deployments, or
\* after them: whoever depends on it finds them in the registries.
FinishedIsDeployed ==
    \A j \in Jobs : state[j] = "finished" => \A d \in setup.deployments : deployed[j][d] = exec[j]

\* A job does not finish while the fate of one of its results is unknown: there
\* is a row of its kind, whatever request was not answered, in whatever execution,
\* and however often the job was restarted (then it may be that of an earlier
\* execution, job_api.py:971), unless the API has refused this very file.
ResultsKept ==
    \A j \in Jobs : state[j] = "finished" =>
        \A f \in left[j] \ lost[j] : \E r \in results : r.job = j /\ r.file[1] = f[1]

\* Executions end, when jobs are not restarted for ever: every upload between two
\* clusters is answered (three may call each other in a circle: ForwardedOnce),
\* and a runner whose upload fails again and again gives up.
ExecutionsEnd == <>[](\A j \in Jobs : step[j] = "idle")

\* 'InfraBox will forward the output of the job from cluster A to cluster B'
\* (docs/install/multi_cluster.md:76): a cluster that is sent an output does not
\* wait for the answer to a request that waits for itself.
ForwardedOnce ==
    \A r \in requests : \A a, b \in DOMAIN r.frames : r.frames[a].at = r.frames[b].at => a = b

\* 'For every file a separate badge will be created' (docs/doc.md:456).
BadgePerFile ==
    \A j \in Jobs : step[j] = "jobs" =>
        \A f \in setup.files :
            (\E r \in results : r.job = j /\ r.exec = exec[j] /\ r.file[1] = "badge") /\ f[1] = "badge"
                => \E r \in results : r.job = j /\ r.file = f
=============================================================================
