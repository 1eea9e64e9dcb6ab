# A verification of InfraBox

TLA+ modules, TLC configurations and TLAPS proofs for the parts of InfraBox
that decide what becomes of the jobs of a build: how builds are numbered and created, how their
jobs are scheduled, executed, restarted and aborted, what they leave to each other, and who is told of it. `PROJECT.json` is the machine-readable
companion of this file: it maps every definition to source lines, and lists
components, hazards, runs, mutants, findings and theorems. Paths below are those of the
repository.

1. [The system](#1-the-system)
2. [The modules](#2-the-modules)
3. [What the runs show](#3-what-the-runs-show)
4. [Where the code disagrees with its documentation](#4-where-the-code-disagrees-with-its-documentation)
5. [What is proved](#5-what-is-proved)
6. [What is not modelled](#6-what-is-not-modelled)
7. [The plan](#7-the-plan)

## 1. The system

InfraBox is a continuous integration system. A build is a set of rows in the
`job` table of a Postgres database; each row has a state, a cluster and a list of
dependencies on other rows. Everything interacts through that table, through
Kubernetes objects and through HTTP requests; there are few locks, and most
UPDATEs have no condition on the state they replace.

```
 triggers: API, upload, GitHub, Gerrit           users: restart, abort
      │ build, commit, job row 'Create Jobs'             │
      v                                                  v
  job table  <── scheduler (one per cluster) ──> IBJob objects, namespaces
   │  ^              ^  reads states, sets            │
   │  │              │  scheduled/skipped/killed      v
   │ job API  <──── runner in the pod  <──── batch job <─ IBJob controller
   │ (authorise,    (inputs, container,                  │ service objects
   │  then write)    results, output, end)               v
   │  │ outputs, caches                       GKE cluster controller ──> gcloud
   │  └──────> storage of this cluster, API of the other clusters
   │ NOTIFY
   └──────> listeners ──> dashboards; github-review; gerrit-review
```

### Components

| Component | State it keeps | Operations | Talks to | Hard behaviour | Correct when |
|---|---|---|---|---|---|
| Scheduler, `src/scheduler/kubernetes/scheduler.py` | local lists of one pass; none across passes | `handle_timeouts`, `handle_aborts`, `handle_orphaned_jobs`, `handle_orphaned_namespaces`, `schedule` | database (autocommit), Kubernetes | one process per cluster on the same table, crash between two requests, requests that are refused, UPDATEs without a condition | jobs run once per request and in the order of their dependencies; no pod is taken away without a reason; queues drain and objects of ended jobs go |
| Job API, `src/api/handlers/job_api.py`, `ibflask.py` | rows of job, console, test results | reports `setrunning`, `setfinished`; `job`; `create_jobs`; uploads | database | state checked at authorisation, overwritten later; long transactions | a late report does no harm; jobs enter the table with the dependencies of their document |
| Runner, `src/job/job.py`, `src/job/infrabox_job` | files in the pod, its phase | load, clone, build, run, create jobs, report | job API | retries for ever, container restarts | every phase is reported, nothing is done twice |
| Job matrix, `get_job_list` in `src/job/job.py` | none | flatten nested workflows into one list | runner | inherited dependencies, prefixed names, final jobs | the list orders jobs as the document does |
| Validation, `src/pyinfrabox` | none | `validate_json` | runner | the only guard against cyclic dependencies | what passes can be scheduled to its end |
| Dashboard API, restart and abort of jobs, `src/api/handlers/projects/jobs.py` | rows of job, abort | `JobRestart`, `JobAbort` | database | check and write are apart | only ended jobs are restarted, with everything that depends on them |
| IBJob controller, `src/controller/controller.go` | IBJob, batch job, service objects, informers' caches | sync of a key: create or delete | Kubernetes | stale caches, optimistic locking, partial failure, restarts | nothing it creates is forgotten, one batch job per IBJob, deletions end |
| GKE controller, `src/services/gcp/controller.go` | GKECluster objects, GKE clusters | sync of a key: create or delete | Kubernetes, `gcloud` | the same, and asynchronous commands that fail | no cluster outlives its object, status follows the cluster |
| Build API and triggers, `trigger.py`, `project.py`, `projects/build.py`, `src/github/trigger`, `src/gerrit/trigger` | rows of build, commit, pull_request, job; uploads | trigger, upload, restart, abort of builds; pushes, pull requests, events | database, storage, other clusters | numbers as max + 1, transactions that wait for each other, retries | numbers identify builds, a build has a source and a first job, nothing is lost without a reason |
| Reviews, `src/github/review`, `src/gerrit/review` | none | report states to GitHub, vote in Gerrit | database notifications, leader row | lost notifications, state read later than the event | the last report is the final state |
| Listeners, `src/api/listeners` | lists of events and clients | forward job and console events | database notifications, sockets | events taken out of order by concurrent green threads | a client ends with the newest state |
| Leader election, `src/pyinfraboxutils/leader.py` | one row per service | `elect_leader`, `is_leader` | database | replicas share a name | at most one leader |
| Database connections, `dbpool.py` | ten connections | get, release | Postgres | long requests | every connection comes back |
| Console output, `process.py`, `job_api.py`, `scheduler.py` | rows of console, `job.console` | post pieces, gather at the end | job API | pieces that are lost or late | the console is what the job has printed |
| Inputs, outputs, results, caches, storage | objects in S3 or GCS, rows of results | upload, download, forward to other clusters | job API | forwarded requests that wait for each other, retries beside the handlers of earlier tries | children find the outputs of their parents, finished jobs are deployed and have their results |
| Accounts, projects, secrets, registry authorisation, git APIs, parsers, dashboard client, migrations | rows, or none | requests of one statement, pure checks, presentation | database | little | - |

The hazards of this code, each with the line where it bites and the properties that
watch it, are listed in `PROJECT.json` under `hazards`. The recurring
patterns are: a state that is read in one statement and overwritten in a later one,
with other writers in between; the crash of a process between two effects that belong
together; a cache or a list that is older than the decision taken from it; retries of
requests that were carried out; and cleanup that must come round in the end, whatever
single step has failed.

## 2. The modules

| Module | Lines of the code | What it is |
|---|---|---|
| `JobExecution` | - | abstract specification: what a build promises about the execution of its jobs |
| `JobLifecycle` | `scheduler.py`, `ibflask.py`, reports in `job_api.py`, `projects/jobs.py`, the main loop of `job.py` | the schedulers, runners, API requests and users around the job table; implements `JobExecution` |
| `MCJobLifecycle` | - | builds of one and two jobs for TLC |
| `JobLifecycleProofs` | - | the theorems about `JobLifecycle` |
| `IBJobController` | `src/controller/controller.go` | the controller of IBJob objects |
| `GKEClusterController` | `src/services/gcp/controller.go` | the controller of GKECluster objects |
| `JobServices` | both | the two composed over the service objects they share |
| `MCJobServices` | - | one and two jobs with services for TLC |
| `JobServicesProofs` | - | the theorems about `JobServices` |
| `JobCreation` | `pyinfrabox/infrabox`, `get_job_list`, `create_jobs` | from a document to rows, and the order in which these run |
| `MCJobCreation` | - | documents for TLC |
| `JobCreationProofs` | - | the theorems about `JobCreation` |
| `DepthRecursion` | - | recursive functions on data of finite depth take the value of their body; no code, a lemma for `JobCreationProofs` |
| `Builds` | `trigger.py`, `project.py`, `projects/build.py`, `src/github/trigger`, `src/gerrit/trigger`, `ibbottle.py` | the transactions that number builds and insert their first jobs |
| `MCBuilds` | - | triples of requests for TLC |
| `BuildsProofs` | - | the theorems about `Builds` |
| `JobData` | `src/job/job.py`, uploads and downloads in `job_api.py`, `storage.py` | what an execution gets and leaves: inputs, container, deployments, results, output, cache |
| `MCJobData` | - | parents and children in two and three clusters for TLC |
| `JobDataProofs` | - | the theorems about `JobData` |
| `Console` | `process.py`, `job_api.py`, `scheduler.py` | lines of output, rows, the log of a job |
| `MCConsole` | - | its instance for TLC |
| `ConsoleProofs` | - | the theorems about `Console` |
| `Rooms` | `src/api/server.py` | clients of the socket server and the room they enter |
| `Notifications` | triggers of `00001.sql`, `src/api/listeners`, `src/github/review`, `src/gerrit/review`, `leader.py` | the services that are told of changes; extends `Rooms` |
| `MCNotifications` | - | services, rooms and clients for TLC |
| `NotificationsProofs` | - | the theorems about `Notifications` and `Rooms` |

### JobLifecycle

The database is `state`, `late` (running jobs whose `start_date` is older than their
timeout) and `aborts` (rows of the abort table). Kubernetes is `ibjob`, `namespaces`
and `runner`, the phase of the runner in a job's pod. `api` and `restarting` are requests inside
the API server: past their checks, before their writes. Each scheduler has a program
counter `pc`, the jobs left in its loop `todo`, the one at hand `cur`, and the IBJobs
that its list reported as failed. `held`, `starts`, `requeues` and `cause` record history; no
action reads them.

Every SQL statement and every Kubernetes request of a pass is an action:

| Code | Actions |
|---|---|
| `handle_timeouts` | `FindTimedOut`, `EndTimedOut`, `MarkTimedOut` |
| `handle_aborts` | `TakeAborts`, `EndAborted`, `MarkKilled` |
| `handle_orphaned_jobs` | `ListJobs`, `HandleOrphanedJob`, `FailOrphan`, `RemoveOrphan` |
| `handle_orphaned_namespaces` | `ListNamespaces`, `HandleOrphanedNamespace` |
| `schedule`, `schedule_job`, `create_kube_namespace`, `kube_job` | `FindQueued`, `CheckParents`, `Skip`, `FinishWait`, `CreateNamespace`, `NamespaceFailed`, `PostJob`, `MarkScheduled` |
| exceptions, refused requests, crashes of the scheduler | `PassFails`, `ClusterInactive`, `DeletionRefused`, `ListRefused`, `CreationRefused`, `SchedulerCrash` |
| `job_token_required`, `SetRunning`, `SetFinished` and the retries of `post_api_server` | `SendReport`, `ApplyReport`, `ReportTimesOut` |
| the runner | `LoadData`, `LoadRefused`, `EndBody` |
| time | `TimeoutElapses` |
| Kubernetes and the IBJob controller (external) | `StartPod`, `RestartContainer`, `ControllerFails`, `ObjectGone` |
| `JobAbort`, `JobRestart` | `RequestAbort`; `CheckRestart`, `CommitRestart` |

Abstractions: `HandleOrphanedNamespace` takes the SELECT and the DELETE of a namespace together
(nothing else deletes a namespace, and only the scheduler of the same cluster creates
one); `update_cluster_state` is left out; the pod of an IBJob is gone when its object is; the restart of a container
puts the runner back to its first report. A job's type, its resources and its definition
are reduced to whether it is a wait job and whether it asks for a namespace.

### IBJobController, GKEClusterController, JobServices

An object is a record of phase (`none`, `live`, `deleting`), finalizer, status and `uid`,
the number of its life under that name. The record takes the place of the `resourceVersion`: an
update is refused when the object in the API server is no longer the one that the sync has read.
`seen`, `batchSeen`, `podSeen`, `seenService` are the informers' caches; `Watch` and `WatchService`
bring one of them to the present state, and may be late by any number of steps. `sync` is the sync of a key: its step,
the object it has read, and what is left of its loop. Each request of `syncHandlerImpl`, and each
`gcloud` command, is an action; `RequestFails`, `GcloudFails`, `GKERequestFails` make any of them
fail, `ControllerCrash` and `GKECrash` end the processes. Between the two modules there is only
the service object: one creates and deletes it, the other one owns its finalizer and status.

Abstractions: services are handled in any order (the code takes the order of the spec);
a watch jumps to the present state; the secret of a cluster and the contents of the batch job are left
out; that pods are removed by Kubernetes' garbage collection is not modelled.

### JobCreation

A document is a sequence of entries with a name, dependencies and, for a workflow, a document
of its own. `Valid` is `validate_json`, `JobList` is `get_job_list` with its helpers `Rewritten`,
`Prefixed`, `Under`, `Adopted`, `Leaves`, `Final`; `CommitJobs` and `RejectJobs` are the transaction of
`CreateJobs.post`. A job's name is its path in the workflow tree, and a row of the table is identified by its path and
the list it came with. A list is a set of jobs: what it is sorted by reaches neither dependencies nor states.
The runner of a job ends its body, may leave a document, posts the list, and reports its end; requests
can be answered late, their runner can be gone, and a restarted container does everything again. Starting and ending
jobs are one step each here, as their interleavings are the subject of `JobLifecycle`.

`Valid` and `JobList` are recursive functions over `Doc`, the documents and those of their workflows. `Depth` says that these are of finite depth.
A document that includes itself has no list in the code either: the include ends in 'Recursive include detected', or, through a workflow of a
workflow, where `infrabox_paths` is not passed on (job.py:1159), in Python's recursion error; for the job both are `FailJob`.

Abstractions: sorting by `avg_duration` and the assignment of clusters (a child that is sorted before its
parent gets the cluster `master`) are left out.

`Before` gives the meaning of a document independently of the flattening: of two paths, at the first workflow
where they part, the one entry precedes the other one, through whatever `depends_on` leads from one to the other (`Precedes`). A
workflow without jobs precedes and follows nothing there (`WaitsFor`): its final job does not wait for the workflow's own
dependencies, but for what the workflow around it waits for, so that whoever waits for an empty workflow does not wait for what stands in front of it.
`Torn` says that a job of a list was killed before what it waits for has ended.

### Builds

The database is `builds`, `firstJobs`, `commits`, `pulls`, committed rows only; `key` and `todo` are what the open transaction of
a request holds. `pc` is the statement it is at: `commit`, `insert`, `number`, `build`, `job`, `end`. A statement reads what is
committed; an INSERT waits while another transaction holds its key (`SameKey`), and fails if that one commits. `stored` is the storage of
each cluster. `Expected` says which requests reach a project: an upload only one of type `upload` (project.py:295, 320), an event of Gerrit only gerrit projects (gerrit/trigger/trigger.py:187),
a hook the project whose repository has the identifier that GitHub sends, which only github projects have (projects.py:147; gerrit's have 0). A request's kind decides its handler:

| Code | Actions |
|---|---|
| `Trigger.post`, `insert_commit`, `create_git_job`, `create_upload_job` | `StartTrigger`, `CommitUnknown`, `TriggerCommit`, `LastSource`, `InsertCommit`, `InsertBuild`, `InsertJob`, `Commit` |
| `Upload.post`, `UploadRemote.post` | `StoreUpload`, `ForwardUpload`, `ForwardRefused`, `NumberUpload` (a count, where triggers take a maximum) |
| `BuildRestart.get` | `StartRestart`, `RestartRefused` |
| GitHub: `handle_push`, `create_push`, `handle_pull_request`, `create_build` | `HookIgnored`, `HookRefused`, `StartPush`, `StartPullRequest`, `PullRequestCommit`, `NumberHook` |
| Gerrit: `main`, `handle_patchset_created_project` | `EmitEvent`, `SkipEvent`, `StartEvent`, `NumberEvent`, `ListenAgain` |
| connection lost, or lost after the commit was applied | `ConnectionLost`, `CommitUnheard` |

What a failed transaction leads to is a question of its caller: the API answers an error, the bottle plugin runs a
hook three times (`HookFails`) and then answers 200, the listener of Gerrit tries twice on the same connection and dies of other errors.
Abstractions: read committed isolation as described; what GitHub answers is a choice; the file list of a build, authors and messages are left out.

### JobData

A behaviour looks at one of `Setups`: the clusters of three jobs, who depends on whom, who generates whom, the results a
container leaves, the deployments. `step` is where a runner is; each of its requests and commands that can fail by itself is an action,
from `GetSource` over `FetchInput`, `RunContainer`, `DeployContainer`, `PostResult`, `CreateJobs`, `PostOutput` to `Report`. An output, an image, a result is the
number of the execution that made it. `requests` are the uploads under way: one that is forwarded is a sequence of handlers, the last of which
runs. `RequestFails` takes any number of them away from their callers, as a timeout does; those go on by themselves. `missed` is history: the outputs
that a child was not sent for a reason that the code does not promise to cover.
Abstractions: the commands of a container, its build and its caches of images have an outcome and nothing else;
a job starts and is skipped in one step, as `JobLifecycle` has these interleavings; the pod of an aborted job is gone at once. A job starts when the states of its parents are in their `on` lists,
and is skipped when all have ended and one is not. The API refuses a result because there is one of its kind (`PostResult`), or for any other reason (`ResultRefused`: not valid, a failed INSERT, a 500);
the runner prints the answer and goes on in both cases, and `lost` keeps the second ones.

### Console

Lines are numbered per execution, a piece is an interval of them, `rows` are pieces with the time of their INSERT, `log` is `job.console`. The runner writes, flushes
when it has something, waits for the answer of a piece or gives it up (`FlushFails`, the piece may arrive later), and reports. `ending` is the scheduler between the statements of
`handle_aborts` or `handle_timeouts`. `ConsoleUpdateFails` is the INSERT or commit that fails: `except: pass` swallows it, and the runner is answered 200 (job_api.py:921-927). `trouble` is history: a piece was given up, refused, lost in this way, or outlived its execution.
Abstractions: the 10 seconds between two flushes are any time; sizes are counted in lines.

### Rooms and Notifications

A behaviour has one service and one room, since services and rooms share nothing but the rows they read. `row` are the states of jobs, `changed` the number of their
last change, `inbox` is what the service's connection has been sent, `tasks` are the green threads (or the single event of a review) with the step they are at. Database triggers append to the inbox of a connection that listens;
a service that fails loses its inbox and its tasks and starts again. `told`, `due`, `status`, `vote` are what clients and review systems have been told or should be.

A review makes its queries on the connection it listens on. psycopg2 reads what has arrived off the socket with the answer of any of them and keeps it in `conn.notifies`: `collected` is that part of the inbox.
The main loop (`loop`) is `CheckLeader`, `Select` and, only if `select` has found something on the socket, `NextEvent` until `conn.notifies` is empty (github/review/review.py:42-48). What arrives during `is_leader` is
collected, but not seen by `select`: it waits for a later notification. The listeners of the API make their queries on other connections.

GitHub keeps one status for each commit and context, which is 'Job: ' and the job's name: builds of a commit, and restarts, share it (`Context`). A vote belongs to the commit too. What GitHub or `gerrit review` refuses is
logged and not repeated (`Refused`).

`Rooms` has `ClientManager`, with the check of a token before a room is entered, and clients that disconnect between the two; these are `gone`, and enter the room all the same.
Abstractions: a client loads the list and then listens, in the order of the dashboard; how it merges events into what it shows is left out; Gerrit and GitHub
answer or fail, at once: a POST that the review has given up after 10 s and that GitHub carries out after a later one is left out; changes of rows that are not in `Moves`, of columns other than `state`, are left out.

## 3. What the runs show

Passing runs. The numbers of states are those of a complete exploration.

| Run | Instance | States | Shows |
|---|---|---|---|
| `job_clusters` | two jobs in a chain, a cluster each, one abort | 390,135 | `TypeOK`; `DependenciesHeld`; `SkipJustified`; `NoSpuriousKill` |
| `job_restarts` | a job and a wait job, one cluster, two restarts, one fault, fairness | 472,081 | `OneExecutionPerRequest`; `NoSpuriousKill`; `ImplementsExecution` (refinement of `JobExecution`); `QueueDrains` |
| `job_liveness` | a job with a namespace and a wait job, one abort or restart, one fault, fairness | 210,053 | `ObjectsReclaimed`; `AbortEndsJob` |
| `job_services` | an IBJob with a cluster, lagging caches, one fault, fairness | 192,551 | `TypeOK`; `NothingForgotten`; `OneBatchPerIBJob`; `DeletionCompletes`; `ServicesReclaimed`; `IBJobDecided` |
| `job_creation` | seven documents, two that a job may leave, at most two lists, one fault, fairness | 48,646 | `TypeOK`; `DocumentOrder`; `WorkflowEnds`; `StartsAfterCreator`; `AllJobsEnd` |
| `builds` | three requests to one project, every choice of kinds that are not all the same, one lost connection, fairness | 156,800 | `TypeOK`; `NumbersIdentify`; `CommitsAreBuilt`; `BuildsHaveSource`; `LostToOthers`; `RequestsAnswered` |
| `job_data` | three setups of up to three jobs in two clusters, conditions, two executions, one or two tries, one fault, fairness | 450,305 | `TypeOK`; `InputsComplete`; `FinishedIsDeployed`; `ResultsKept`; `ExecutionsEnd` |
| `console` | two executions of three lines, a limit of one piece more, one lost connection or failed INSERT, one abort or timeout | 4,121,542 | `TypeOK`; `LogFaithful` |
| `notifications` | eight setups of service, project and clients, three jobs in two builds of a commit, two to four changes, one failure, fairness | 1,052,933 | `TypeOK`; `ClientsTold`; `StatusCurrent`; `VoteFinal`; `MembersCounted`; `NotificationsSettle` |

Every property has a mutant in `PROJECT.json`: a change of a definition, as a plausible bug would make it,
under which the same run finds the property violated.

**Properties of JobLifecycle.** `DependenciesHeld`: a job has run only if each of its dependencies
had by then ended in a state that its `on` lists. It is a statement about history, because reports, aborts and
timeouts overwrite states after the fact. `SkipJustified`: the converse for skipped jobs. `OneExecutionPerRequest`: a
job's IBJob is created at most once for every time the job was put into the queue. `NoSpuriousKill`: an IBJob is deleted
under its pod only if, since it was created, the job was in a final state, its abort was requested, or its timeout elapsed.
`ImplementsExecution`: all of that at once, as a refinement of a specification that knows only permits, executions and final
states held. `QueueDrains`: no job stays in the queue behind ended parents, unless the IBJob of an earlier execution is in its way whose runner hangs or has made its last report (`Occupied`; what that means is in section 4). It is checked where jobs are restarted,
and holds of the instance of `job_liveness`, where a namespace that is left over ends the job, as well. `ObjectsReclaimed`: the objects of
ended jobs go away. `AbortEndsJob`: an abort that is in the table when the last fault is over ends its job. (An abort row that
a failing pass has already consumed is lost: that is how the code is, and why the property counts from the last fault.)

**Properties of JobServices.** `NothingForgotten`: batch jobs and services exist only under an IBJob that is there and
kept by a finalizer. `OneBatchPerIBJob`: stale caches never lead to a second batch job. `DeletionCompletes`,
`ServicesReclaimed`, `IBJobDecided`: deletions end, and every IBJob gets its batch job or an error.

**Properties of JobCreation.** `DocumentOrder`: a job runs only when every job before it in its document has ended, however
deep in workflows either of them is. `WorkflowEnds`: a workflow's final job finishes only when every job of the workflow, and of the workflows in it, has ended. `StartsAfterCreator`: no
job runs while the job that has created its list is at work. `AllJobsEnd`: every job of a build comes to an end.

The first three except the lists that are `Torn`, and the exception is real. An abort may kill a job in the queue; what depends on it is skipped at once, and
a job that waits for those with `*`, a clean-up job, then runs although jobs in front of the killed one are still at work: in the chain
a, b, c and d with `*` of the document `CleanUp`, d runs beside a as soon as b is killed. It is what `schedule` does (it asks for the states of the parents and no further), and an
attempt to prove the order without the exception is what has shown it.

**Properties of Builds.** `NumbersIdentify`: builds are numbered without gaps, restarts of a number too, and all of them have the same source, although
numbers are read in one statement and inserted in another, and uploads count where triggers take a maximum. `CommitsAreBuilt`: a commit in the table has its build and first job. `BuildsHaveSource`: a commit, or an upload that every
active cluster has. `LostToOthers`: a push that was answered 200 and not built has lost three times to a build of its project that somebody else has committed, or to a lost connection; an event of Gerrit once to a build of any gerrit project, whose events share the connection, or to two lost connections. `RequestsAnswered`: transactions do not wait in a circle.

**Properties of JobData.** `InputsComplete`: a job that runs has the output of the last execution of each parent that has finished, in whatever cluster either of them is, unless a named reason in `missed` stands against it; of a parent that has failed it gets none, or an older one (section 4). `FinishedIsDeployed`, `ResultsKept`: a finished job is deployed everywhere and has its results, but for the files that the API has refused, whatever
stopped an earlier execution, or was not answered, between two of them. `ExecutionsEnd`: handlers that forward to each other between two clusters, repeated uploads and runners come to an end when nobody restarts jobs any more.

**LogFaithful** of Console: no line twice, no gap, in order, nothing missing at the end, unless `trouble` tells why: a POST given up, refused or late, or an INSERT that failed.

**Properties of Notifications.** `ClientsTold`: when all events are handled (`Quiet`), each client in the room was sent the current state of each job that changed since it came. `StatusCurrent`: a status of a commit is the state of the job that changed last among those of its name, in all builds of the commit. `VoteFinal`: the vote on a commit
is that of the build that changed last, once its jobs have ended. Both as soon as the event of that change is handled, whatever became of earlier ones; an event that was lost, or a POST or vote that was refused, is in `missed`. `MembersCounted`:
the counter of a room never falls below its members, and nobody is in it who may not be. `NotificationsSettle`: nothing is left in hand or on the socket, and a review that was woken up handles all it has read. It does not say that all events are handled:
those that a query has read off the socket wait for the next one (section 4).

### Bounds, and why they are enough

- Two jobs and one dependency reach every branch of `schedule`: active, met and unmet parents, wait jobs, skipped jobs; the properties
  relate a job to one of its dependencies, or a job to itself. Longer chains and any number of clusters are covered by the proofs.
- `MaxAborts`, `MaxRestarts`, `MaxFaults` bound what users and failures do. Two restarts are needed for a restart that passes another one; one
  fault is enough for a crash, a lost answer or a restarted container at any step. For the safety properties the bounds
  do not matter in the end, as the theorems hold for all of them.
- `MaxBirths = 1` in `job_services`: an IBJob lives once. With two lives and no fault the state space is still finite, but too large for
  the liveness properties.
- One service per job in `job_services`: the loop over services is left after its first element. `foreign_services` has two services of two jobs.
- `MaxLists = 2` in `job_creation`: the list of the commit and one that a job has left; a restarted container may send one more.
  The documents contain nested workflows two deep, branches, a chain with a clean-up job, `*`, several conditions, a workflow without jobs, a cycle, a repeated name, and no job at all. The theorems are about
  documents of any depth.

- Three requests in `builds` let two of them race while the third one overtakes both, and make a hook fail its three attempts together with one lost connection. One project: requests to different projects share no key. The lists of `MCBuilds` are in a fixed order, as requests of a choice are interchangeable in time.
- `job_liveness` lets users make one request, an abort or a restart (`OneRequest`, a state constraint: users are not fair, so that it takes away nothing that a fair behaviour must do). A single job with both, without the wait job, satisfies its properties too (384,494 states, not among the runs).
- `MaxExecutions = 2` in `job_data`: one execution that goes wrong and its restart. The setups are a parent and the child it generates in another cluster; a clean-up job behind two others, which runs whatever becomes of them; a single job with three results and two deployments. An upload is tried twice, and once in the second setup, instead of five times: a first try and a repeated one, and a runner that gives up after a single fault. `MaxChain = 3` is not reached with two clusters, where a chain has two handlers; `output_forwarding` has three clusters.
- `MaxUpdates = 1` in `console` lets two pieces through and refuses the third one (`>` in the code); `MaxLength = 3` is exceeded by three lines and one of the next piece.
- `MaxChanges` in `notifications` is four for the reviews (two builds of a commit whose jobs end, or a restart), two for the listeners, whose clients come and go instead.

`CHECK_DEADLOCK FALSE` is used for all but `JobLifecycle`, whose schedulers never stop: a build whose jobs have all ended, a job
whose objects are gone, requests that are answered, and services that have nothing to do, with all births, executions and changes used, have come to their end.

### Fairness

- `JobLifecycle`: weak fairness of each scheduler (`Scheduler.run` is a loop with a sleep; a crashed process is started again by its deployment),
  of each runner's reports (`post_api_server` repeats for ever) together with the API's application of an accepted request, of the start and the
  removal of pods, and of time (of the jobs that are not wait jobs: these have no IBJob). Not of `EndBody`: a job may hang. Not of users, not of faults.
- `JobServices`: weak fairness of each key's syncs (two workers per controller, every object synced again by the resync of 30 s, failed keys
  requeued), of the watches, of pods and of Google's operations. Nobody has to post or delete an IBJob.
- `JobCreation`: weak fairness of schedulers and runners taken together, and of the answers of the API. A body
  always ends here, since a hanging one is ended by its timeout, which `JobLifecycle` treats.

- `Builds`: weak fairness of each request once it has arrived: threads of the API, the hook and the listener run on, and the database goes on with a transaction when what it waits for is gone. Nothing has to arrive.
- `JobData`: weak fairness of the runners and handlers taken together. Nobody has to start or restart a job; failures are not fair.
- `Notifications`: weak fairness of the service (a process that has ended is started again by its deployment; `select` returns after 5 s at the latest, so that its loop goes on without an event), not of changes, clients or failures. An event that only waits in `conn.notifies` enables nothing.
- `Console`: none, it has safety properties only.

## 4. Where the code disagrees with its documentation

Each of these is a run whose property quotes the repository, and that TLC finds violated. The details, with lines,
are under `findings` in `PROJECT.json`.

| Run | Property | What happens |
|---|---|---|
| `output_forwarding` | `ForwardedOnce` | The cluster that receives a forwarded output forwards it in its turn (job_api.py:548). With queued children in two other clusters these call each other, each waiting for the other one, until the requests time out and the job fails with 'Failed to upload file'. |
| `foreign_services` | `DeletedWithItsJob` | The DELETE of one service is sent for the whole collection and takes the services of other jobs with it. |
| `generated_jobs` | `GeneratedBeforeChildren` | The jobs in `/infrabox/output/infrabox.json` are not added as predecessors of their creator's children: the UPDATE selects the wrong identifier (job_api.py:794). |

Eleven more properties are stated in the modules for the same purpose and are violated by the code; a configuration of the instance named, with the property as its only one, shows the counterexample.

| Property | Module, instance | What happens |
|---|---|---|
| `TimeoutEndsJob` | `JobLifecycle`, one job, `FairSpec`, no fault | The runner reports `running` between the POST of the IBJob and the UPDATE to `scheduled` (scheduler.py:266). The job is `scheduled` again, and a body that hangs is never found by `handle_timeouts`, against docs/doc.md:52. |
| `RestartRuns` | `JobLifecycle`, `job_restarts` with one restart, no fault | A restart is committed after the job has ended and before the orphan pass has removed its IBJob. `handle_orphaned_jobs` keeps the IBJob of a queued job (scheduler.py:512-532), every POST is answered 409 (262), and as the old pod has nothing more to report, the job stays in the queue for ever, against 'Successfully restarted job' (projects/jobs.py:249). A later abort, or a job with a namespace, which ends as `error`, are the ways out. |
| `CleanUpRuns` | `JobLifecycle`, `WaitDeps`, one abort | A job that lists `*` for its dependency is skipped when that one was killed: `*` stands for finished, error, failure and skipped (job.py:1070, scheduler.py:343), against docs/doc.md:416, which has such a clean-up job always run. |
| `RestartOnlyEnded` | `JobLifecycle`, one job, two restarts | Two restarts pass their checks together (projects/jobs.py:243); the second one puts a job back into the queue that runs again after the first. |
| `NoOrphanCluster` | `JobServices`, one job, one fault | A failed `gcloud ... list` counts as "no cluster" during a deletion (services/gcp/controller.go:323): the finalizer is removed, the cluster lives on. |
| `StartsWithServices` | `JobServices`, one job, two births | A restarted job finds the service of its previous execution, still being deleted but with status `ready`, and starts with it (controller.go:728). |
| `CreatedOnce` | `JobCreation`, one fault | A container restarted after it has posted its jobs posts them again; `check_container_crashed` (job.py:258) is never called. |
| `EventsHandled` | `Notifications`, `notifications` without a failure | A notification that arrives while `is_leader` executes is read off the socket with its answer; `select` then finds nothing, and the event stays in `conn.notifies` until another one comes (github/review/review.py:43-47, gerrit/review/review.py:40-44). After the last change of a build that may be never: its final status or vote is missing. |
| `StatusOfEachJob` | `Notifications`, `notifications` without a failure | Two builds of a commit, or a build and its restart, both have a job 'Create Jobs', and may have others of the same name: they overwrite each other's status (github/review/review.py:131-148), whichever of them is newer, although each status links to its own build. |
| `OutputReachesChildren` | `JobData`, `job_data` without a fault | A child with `failure`, `error` or `*` runs behind a parent that has failed; the exception that ends that parent skips the upload of its output (job.py:527-554). The child has none, or the one of an earlier execution, against docs/doc.md:422. |
| `BadgePerFile` | `JobData`, `Setups <- ManyBadges`, no fault | The runner posts every badge in a request of its own, and the API refuses all but the first one (job_api.py:1027), against docs/doc.md:456. |

Met while modelling, read off the code; no property is stated for them:

- A piece of output whose INSERT fails is answered 200 and lost, with nothing in the log to tell (job_api.py:921-927).
- A result that the API answers with 400 or 500 is printed to the console, and the job finishes without it (job.py:379, 399, 417, 437).
- A client that disconnects between the check of its token and the entering of the room is entered, and counted, for ever (server.py:33-53).
- A child of an aborted job that is restarted alone runs without that job's output, in silence (docs/doc.md:422 has no exception).
- `file_size > max_output_size` (job.py:552, 573) compares a number with a string, which in Python 2 is never greater: 'Output too large' is never raised.
- A restarted job keeps the output of its earlier execution when it leaves none (job.py:543), the results of the earlier one stay, and the new ones are refused (job_api.py:974, 1027, 1115).
- The cache is cleared under a key with the name of the branch (projects/jobs.py:501-526), which nobody writes; the answer is 'Cleared cache' all the same.
- An exception in the `finally` of `main_run_job` takes the place of the container's failure (job.py:530).
- The runner posts markdown files to an endpoint the API does not have (job.py:395).
- Concurrent jobs that report a new test together insert it twice (job_api.py:1128, no unique key).
- The dashboard loads its jobs before it listens (Project.js:101): a change in between is not shown until the next one. A green thread that has read an older row may emit it last.
- `handle_job_update_retry` of the review of Gerrit is never called; a vote that fails, or that Gerrit refuses (review.py:58-66 logs it), is not repeated.
- Every replica of a service takes itself for the leader, as they share its name (leader.py:23).
- A build triggered for a commit by its hash, and a push of a tag without a base, have no branch, but `commit.branch` may not be null: such requests fail on the INSERT. A build triggered by the API has no status URL, so that GitHub is not told of it.
- A pull request event of a commit that is in the table builds nothing, also if that commit was pushed to another branch.
- The deletion of a project leaves its builds and jobs (projects.py:228-280); events of these are dropped when handled.

## 5. What is proved

For every build, every assignment of jobs to clusters and every bound, from `JobsAssumption` (the constants have their types, a job lists each
dependency once, `NoJob` is not a job) and `BoundsAssumption` (the bounds are natural numbers):

| Theorem | Module | Statement |
|---|---|---|
| `TypeCorrect` | `JobLifecycleProofs` | `Spec => []TypeOK` |
| `DependenciesAreHeld` | `JobLifecycleProofs` | `Spec => []DependenciesHeld` |
| `SkipsAreJustified` | `JobLifecycleProofs` | `Spec => []SkipJustified` |
| `ExecutionsAreRequested` | `JobLifecycleProofs` | `Spec => []OneExecutionPerRequest` |
| `LifecycleRefinesExecution` | `JobLifecycleProofs` | `Spec => ImplementsExecution` |
| `KillsHaveReasons` | `JobLifecycleProofs` | `Spec => NoSpuriousKill` |

The proofs build on each other, in this order:

- **TypeInv** is `TypeOK`, and that a scheduler has a job at hand at every step where it works on one. Without the second part the
  actions that use `cur[c]` could not be shown to keep the types.
- **DependencyInv** adds `EndedHeld` (a state that is final is in the history), `DecidedReady` and `DecidedUnmet` (what `CheckParents` has found of a
  job's parents is still true of the history when the scheduler acts on it, although the states themselves may have changed),
  `TracesStarted` (an IBJob, a runner, a report or a state beyond the queue is a trace of an execution that was started), and the two
  goals in the form `RunReady` and `SkippedUnmet`. The point of the argument is that it is about history: `held` only grows, so what was read once stays true.
- **ExecutionInv** adds `OwnJobs` (a scheduler selects jobs of its own cluster only), `OpenSpare` (a job that may still get a POST, and has no IBJob in the way of it, has a
  request left) and `EndingSpare` (so has a queued job that a scheduler is about to end from an earlier look at it). These are the three reasons why the POST of a job that nobody has locked is not
  repeated: the other schedulers leave it alone, the name of the existing object refuses it with 409, and that object is not removed while
  the job waits in the queue for its first turn. The refinement follows: each action is a `Start`, `Remove`, `End` or `Requeue` of `JobExecution`, or a stutter.
- **DeletionInv** adds `ReasonsKnown` (a job in a final state, with an abort row or past its timeout has a cause recorded) and `EndingReason` (so has every job that a scheduler is about to
  end); the deletion of an IBJob then has a cause whichever pass it comes from.

For any jobs, builds, clients, setups and bounds, from `NotificationsAssumption` and `RoomsAssumption` (the constants have their types, the
bounds are natural numbers):

| Theorem | Module | Statement |
|---|---|---|
| `TypeCorrect` | `NotificationsProofs` | `Spec => []TypeOK` |
| `RoomsCounted` | `NotificationsProofs` | `Spec => []MembersCounted` |
| `CommitStatus` | `NotificationsProofs` | `Spec => []StatusCurrent` |
| `ChangeVoted` | `NotificationsProofs` | `Spec => []VoteFinal` |
| `RoomTold` | `NotificationsProofs` | `Spec => []ClientsTold` |

- **RoomsInv** says that whoever is in a room, or about to enter it, connected or gone, has been checked, and that the entries count at least the members; without it `entries` could not be
  shown to stay a natural number, nor `has_clients` to hold while somebody listens. **TypeInv** adds `TaskInv`: a review has one event in hand.
- **SocketInv** (part of `TypeInv`): only a review collects notifications, so that the listeners start on whatever is in the inbox.
- **OrderInv**: a review handles events in the order of the changes, and no event is about a later change than the last one of its job. When the event of the last change among some jobs is in hand, none of theirs is behind it.
- **StatusInv** follows the event of the job that changed last among those that share a context: it is in the queue, or in hand before the row is read, or in hand with the state that the row
  has, or the status that was posted is that state and no event of these jobs waits. Without the last part an event of another build of the commit could overwrite the status; with `OrderInv` there is none left.
- **VoteInv** does the same for the last change among all builds of a commit: once the jobs of its build have ended, that change is an update, is not ignored, and its handler counts the
  states after it; when it has voted, no event of the commit waits. It needs `changed[j] <= nChanges`: any other change is an older one.
- **ListenerInv** does it for each client and each job, or piece of output, with threads that pass each other. A client that has just entered has nothing due, but one that has been
  refused and disconnected may (the first part of the invariant); it never comes back.

For any jobs, services, births and faults, from `OwnerAssumption` (a service is that of a job) and `BirthsAssumption` (the bounds are natural numbers):

| Theorem | Module | Statement |
|---|---|---|
| `TypeCorrect` | `JobServicesProofs` | `Spec => []TypeOK` |
| `CreationsAreKept` | `JobServicesProofs` | `Spec => []NothingForgotten` |
| `BatchJobsCreatedOnce` | `JobServicesProofs` | `Spec => []OneBatchPerIBJob` |

`JobInv` is an invariant of one job at a time: a step of the sync of another job, and any step of the GKE controller, leaves the objects of this job alone or takes
services away from it (`Untouched`), which the invariant survives. It has three parts.

- **OrderInv**: the cache is an earlier state of the IBJob, and what a sync has read an earlier state of the cache, among all the objects that have had the name.
- **KeptInv**: while a sync creates, the object it has read is the one that is there, with the finalizer, since nothing but a sync of the same key removes that; a sync that is
  about to remove it has deleted the batch job and, as `ok` says, the services.
- **OnceInv**: once the IBJob has had its batch job, the cache shows this object and not an earlier one of the name (its finalizer was set by an update that an older copy could
  not have made); once the batch job is gone again, the cache shows the object as one to be deleted, and no sync creates. The cache of batch jobs is not in the argument: it may lag as it likes.

`NothingForgotten` alone is not inductive: a sync of an object that was replaced in between could create under one without a finalizer.
The run of these properties has one birth; the theorems are about any number, which is where the order of objects of one name matters.

For any requests, projects, commits, clusters and number of faults, from `BuildsAssumption` (the constants have their types, there are finitely many requests, each of them is `Expected`,
requests and commits are different things, and `master` is not a remote cluster):

| Theorem | Module | Statement |
|---|---|---|
| `TypeCorrect` | `BuildsProofs` | `Spec => []TypeOK` |
| `NumbersAreRight` | `BuildsProofs` | `Spec => []NumbersIdentify` |
| `EveryCommitIsBuilt` | `BuildsProofs` | `Spec => []CommitsAreBuilt` |
| `SourcesAreThere` | `BuildsProofs` | `Spec => []BuildsHaveSource` |
| `LossesHaveCauses` | `BuildsProofs` | `Spec => []LostToOthers` |

**BuildsInv** says of each request what it has read and what its transaction holds, and of the table what was committed.

- **KeyOK**: the number that a request has read is at most one ahead of the builds of its project. Builds only grow, so that this stays true however old the number becomes; it is then either still
  free and the next one, or taken, and the INSERT fails. With `HeldOK` (a key that is held is free, and held by one transaction only, which is the unique key of the table) no gap and no second build of a number can be committed.
- **PlaceOK**, **SourceOK**: where a request of each kind may be, and that its commit is in the table or in its own transaction, or its upload in every storage it was sent to.
- **NumbersOK**, **BuiltOK** say the same of the builds that are there, in a form that an added build preserves: an interval is extended by its next number. `NumbersIdentify` follows by the cardinality of intervals,
  and so does the equality of a maximum and a count that triggers and uploads rely on.
- **LostInv** counts: whenever the next statement of a request would find its row taken (`Beaten`), or an attempt is over, there are as many builds of others, committed since, or faults. For the events of Gerrit it needs that one event is
  handled at a time.

For any limits, number of lines, executions, faults and endings, from `ConsoleAssumption` (the bounds are natural numbers):

| Theorem | Module | Statement |
|---|---|---|
| `TypeCorrect` | `ConsoleProofs` | `Spec => []TypeOK` |
| `LogIsFaithful` | `ConsoleProofs` | `Spec => []LogFaithful` |

**LogInv** has a part that always holds and one that holds until there is `trouble`.

- **DatesInv**, **PiecesInv**: the clock numbers the requests that were authorised, and no line is in two requests or rows. That is enough for "no line twice", also for a log that the scheduler has gathered while the runner goes on.
- **RowsInv**, **NextInv**: the rows are the first lines of one execution in the order of their dates, and the request that is on its way comes next. `Reach(n)` is the link between the two: the rows end with line `n`, or the limit is reached and
  nothing is added any more.
- **RunnerInv**, **EndedInv**: the same for what the runner waits for, for what `setfinished` has read, and for the log of an ended job. A row's place in `ORDER BY date` is the number of rows up to it; that places are a bijection onto
  `1..Cardinality(rows)` is the lemma that connects the rows to the log.

For any jobs, dependencies, clusters, results, deployments and bounds, from `JobDataAssumption` (the setups and bounds have their types, and a handler can run at all):

| Theorem | Module | Statement |
|---|---|---|
| `TypeCorrect` | `JobDataProofs` | `Spec => []TypeOK` |
| `InputsArrive` | `JobDataProofs` | `Spec => []InputsComplete` |
| `ImagesDeployed` | `JobDataProofs` | `Spec => []FinishedIsDeployed` |
| `ResultsAreKept` | `JobDataProofs` | `Spec => []ResultsKept` |

- **FinishInv** follows one execution: past the deployments all images are its own, past the results each file that was not refused (`lost`) has a row, and in between what is not there is still in `todo`.
- **ParentsInv**: the parents of a job that runs have ended, in whatever state its conditions allow, and do not move, since a restart takes all jobs that depend on the restarted one (`Closure`, which is closed under children). What a job has fetched of a finished parent therefore stays the last output.
- **CoverInv**: while a runner waits for its request, each child's cluster has the output, or the first handler will still store it, or has it among the targets it has not forwarded to, or waits for a handler there that has not yet come past its own storage (`OnItsWay`).
  Handlers whose callers have gone are not in the argument, except that they may store an old output over a new one, which `missed` records.
- **UploadInv**, **InputsInv** carry this over the answer, to the children's clusters and to what they fetch.

For any documents of any finite depth, and any bounds, from `DocumentsAssumption` (the documents of a workflow are documents, and less deep than the one they are in) and
`BoundsAssumption` (the bounds are natural numbers):

| Theorem | Module | Statement |
|---|---|---|
| `TypeCorrect` | `JobCreationProofs` | `Spec => []TypeOK` |
| `ListsAreGood` | `JobCreationProofs` | the list of any valid document is `Good` |
| `NamesAreFound` | `JobCreationProofs` | `Spec => [](every request is Resolved)` |
| `OrderSurvives` | `JobCreationProofs` | `Spec => []DocumentOrder` |
| `FinalJobIsLast` | `JobCreationProofs` | `Spec => []WorkflowEnds` |
| `CreatorHasEnded` | `JobCreationProofs` | `Spec => []StartsAfterCreator` |

- **DepthRecursion** holds a lemma about functions, `Recursion`, that says nothing of the code itself. It is what makes `Valid`, `JobList` and `Before` usable in a proof: for TLA+ a recursive function is *some* function that fits its definition, and it is to be shown that there is one.
  It is put together from the functions that fit up to a depth; were there a least depth without one, it could be made from those below.
- **Good** says of the list of a document, as a graph: names identify jobs (`Named`), dependencies are jobs of the list (`Whole`), there are no cycles (`Founded`), who waits for the leaves waits for all (`Covered`),
  a final job waits for its whole workflow (`Bounded`), and what is before a job in the document is before it in the list (`Ordered`). Transitive dependency is expressed by sets of paths
  that are closed under what their jobs wait for, so that no induction along chains is needed. `ListsAreGood` takes a document of least depth with a list that is not good: `JobBlock` and `WorkflowBlock` say of one entry
  what its part of the list is like, given a good list for the workflow's document; `GoodDocument` puts the parts together.
  `Covered` is needed, although no run states it, because the final job of a workflow waits for the leaves only.
- **IInv** follows a list from the document to the rows: `ListsOK` (a list was made from a valid document by a job that there is), `RowsOK` (with one row of a list all of its rows are there, with the dependencies of the list),
  `RequestsOK` (a request has the list that was made, none of whose rows is there yet, and at most one of them is awaited by a runner that waits), `RunnersOK`, and `Waited` (what a job waits for has ended, unless
  it is queued or was killed). `Waited` is inductive only because a job that has ended never moves again here; restarts, for which this is not so, are in `JobLifecycle`, where the same argument runs over history.
- The theorems combine the two: in a list that is not torn, the paths of the jobs that have ended are a closed set (`EndedAreClosed`). `DocumentOrder` is `Ordered` of that set, `WorkflowEnds` is `Bounded` of it;
  for `StartsAfterCreator`, `Founded` gives a job out of the queue that waits for no other such job, hence for the creator only.

Only model-checked: the liveness properties (`QueueDrains`, `ObjectsReclaimed`, `AbortEndsJob`, `AllJobsEnd` and those of the other modules), since liveness under fairness is out of the reach of the proof system
as installed, and the instance of each module that TLC explores as a check on the invariants themselves. Every invariant and safety property of the passing runs is a theorem.

## 6. What is not modelled

- Archives and statistics of jobs: written and read by single statements. The contents of commands in a container.
- Abort of a build: a row of the abort table for each of its jobs, each of which is an abort of `JobLifecycle`; jobs that are created later are not aborted, and nothing says they should be.
- How the dashboard merges events into its objects, and its presentation. Migrations.
- A number of connections: no handler asks for a second one, so waiting for one ends when requests do.
- Assignment of jobs to clusters: `JobLifecycle` holds for every assignment.
- Accounts, projects, secrets, registry authorisation, git and Gerrit front ends, parsers: requests of one
  statement on rows that nothing else changes, or stateless functions. There is no interleaving or long sequence in them for a model to find.
- The database itself: statements are atomic and committed in the order they are executed (autocommit), transactions of the API appear as one step where they
  write only once, and as a check and a later write where they read first, which is what read committed isolation gives.
- Kubernetes, Google and the clocks are external and modelled as the code uses them.

## 7. The plan

Done, in this order: `JobExecution` and `JobLifecycle` with their runs and proofs; the controllers and `JobServices`; `JobCreation`;
`Builds`; `Console`; `Rooms` and `Notifications`; `JobData`.

What could follow:

1. Liveness of `job_services` with two services of one job; safety is proved for any number.
2. Abstract specifications for `Builds` (a sequence of numbered builds to which one is added at a time) and `Console` (a log to which lines are appended), with the modules shown to implement them,
   as `JobLifecycle` implements `JobExecution`.
3. Lemmas towards liveness that are safety properties: that a job in the queue, or a request, always has an action that is enabled by what it waits for (`Founded` is that lemma for `AllJobsEnd`).
