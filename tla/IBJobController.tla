--------------------------- MODULE IBJobController ---------------------------
(***************************************************************************)
(* The controller of IBJob objects (src/controller/controller.go), one per *)
(* cluster. For an IBJob it sets a finalizer, creates the services the job *)
(* asks for, waits until they are ready and creates a Kubernetes batch job; *)
(* when the IBJob is to be deleted it takes all of that back and removes    *)
(* the finalizer.                                                          *)
(*                                                                         *)
(* A sync reads IBJobs, batch jobs and pods from the informers' caches,     *)
(* which lag behind, and writes to the API server, which refuses an update  *)
(* of an object that is not the one the sync has read. Every request is a   *)
(* step of its own. The workqueue never hands out a key that is at work,    *)
(* and every cached object is synced again by the 30 s resync, so that a    *)
(* sync of an idle key may begin at any time.                               *)
(***************************************************************************)
EXTENDS Naturals, FiniteSets

CONSTANTS
    Jobs,        \* the names of IBJobs
    Services,    \* the names (service.infrabox.net/id) of the services they ask for
    OwnerOf,     \* the job whose spec lists a service
    MaxBirths,   \* bound: how often the scheduler posts the IBJob of a job
    MaxFaults    \* bound: failed requests and crashes

ASSUME OwnerAssumption == OwnerOf \in [Services -> Jobs]
ASSUME BirthsAssumption == MaxBirths \in Nat /\ MaxFaults \in Nat

VARIABLES
    ibjob, batch, pod,        \* the objects in the API server
    service,                  \* the service objects, shared with their controller
    seen, batchSeen, podSeen, \* what the informers' caches say of them
    sync,                     \* the sync of a key
    faults,                   \* the bound on faults, shared as well
    batches                   \* history: how many batch jobs were created

jobVars == <<ibjob, batch, pod>>
cacheVars == <<seen, batchSeen, podSeen>>
controllerVars == <<jobVars, service, cacheVars, sync, faults, batches>>

SyncStep ==
    {"idle", "finalizer", "services", "batch", "report",
     "deleteServices", "deleteBatch", "deletePods", "unfinalize"}

\* An IBJob object. "uid" numbers the objects that had the name one after the
\* other; the rest of the record stands for its resourceVersion, as an object
\* never returns to an earlier content.
IBJob ==
    [phase : {"none", "live", "deleting"}, finalizer : BOOLEAN,
     status : {"", "error"}, uid : Nat]

\* A service object; its controller writes the status.
Service ==
    [phase : {"none", "live", "deleting"}, finalizer : BOOLEAN,
     status : {"", "pending", "ready", "error"}, uid : Nat]

\* "job": the IBJob the sync has read; "todo": the services left in its loop;
\* "ok": all services so far were ready, or deleted.
Sync == [step : SyncStep, job : IBJob, todo : SUBSET Services, ok : BOOLEAN]

Absent == [phase |-> "none", finalizer |-> FALSE, status |-> "", uid |-> 0]
Idle == [step |-> "idle", job |-> Absent, todo |-> {}, ok |-> TRUE]

ControllerTypeOK ==
    /\ ibjob \in [Jobs -> IBJob] /\ seen \in [Jobs -> IBJob]
    /\ batch \in [Jobs -> BOOLEAN] /\ batchSeen \in [Jobs -> BOOLEAN]
    /\ pod \in [Jobs -> {"none", "up", "terminating"}] /\ podSeen \in [Jobs -> BOOLEAN]
    /\ service \in [Services -> Service]
    /\ sync \in [Jobs -> Sync]
    /\ faults \in 0..MaxFaults
    /\ batches \in [Jobs -> Nat]

ControllerInit ==
    /\ ibjob = [j \in Jobs |-> Absent] /\ seen = ibjob
    /\ batch = [j \in Jobs |-> FALSE] /\ batchSeen = batch
    /\ pod = [j \in Jobs |-> "none"] /\ podSeen = [j \in Jobs |-> FALSE]
    /\ service = [s \in Services |-> Absent]
    /\ sync = [j \in Jobs |-> Idle]
    /\ faults = 0
    /\ batches = [j \in Jobs |-> 0]

-----------------------------------------------------------------------------
(* Helpers.                                                                *)

ServicesOf(j) == {s \in Services : OwnerOf[s] = j}

\* A DELETE removes an object at once, unless a finalizer keeps it.
Deleted(o) ==
    IF o.phase = "none" THEN o
    ELSE IF o.finalizer THEN [o EXCEPT !.phase = "deleting"]
    ELSE [Absent EXCEPT !.uid = o.uid]

\* The sync of j is at a step; it goes to another one; it ends.
At(j, step) == sync[j].step = step
Goto(j, step) == sync' = [sync EXCEPT ![j].step = step]
End(j) == sync' = [sync EXCEPT ![j] = Idle]

\* No other write has changed the object since the sync has read it.
Unchanged(j) == ibjob[j] = sync[j].job

Fault == faults < MaxFaults /\ faults' = faults + 1
NoFault == UNCHANGED faults

-----------------------------------------------------------------------------
(* syncHandler, syncHandlerImpl.                                           *)

\* Mutant of FirstStep: a missing batch job is created before anything else.
FirstStepCreate(j) ==
    IF ~batchSeen[j] /\ seen[j].status # "error" THEN "finalizer"
    ELSE IF seen[j].phase = "deleting" THEN "deleteBatch" ELSE "idle"

\* Where the sync of a cached IBJob begins, "idle" if there is nothing to do.
FirstStep(j) ==
    IF seen[j].phase = "deleting"
    THEN IF ServicesOf(j) = {} THEN "deleteBatch" ELSE "deleteServices"
    ELSE IF seen[j].status = "error" \/ batchSeen[j] THEN "idle" ELSE "finalizer"

StartSync(j) ==
    /\ At(j, "idle")
    /\ seen[j].phase # "none"
    /\ FirstStep(j) # "idle"
    /\ sync' = [sync EXCEPT ![j] =
          [step |-> FirstStep(j), job |-> seen[j], todo |-> ServicesOf(j), ok |-> TRUE]]
    /\ NoFault
    /\ UNCHANGED <<jobVars, service, cacheVars, batches>>

\* An error of the sync is written into the status of the object it has read.
ReportError(j) ==
    /\ At(j, "report")
    /\ ibjob' = IF Unchanged(j) THEN [ibjob EXCEPT ![j].status = "error"] ELSE ibjob
    /\ End(j)
    /\ NoFault
    /\ UNCHANGED <<batch, pod, service, cacheVars, batches>>

\* Any request of a sync may fail. A failed deletion of a service is only
\* remembered; everything else is an error of the sync.
RequestFails(j) ==
    /\ ~At(j, "idle")
    /\ Fault
    /\ IF At(j, "report") THEN End(j)
       ELSE IF At(j, "deleteServices")
       THEN sync' = [sync EXCEPT ![j].step = "deleteBatch", ![j].todo = {}, ![j].ok = FALSE]
       ELSE Goto(j, "report")
    /\ UNCHANGED <<jobVars, service, cacheVars, batches>>

\* The process ends; its successor waits for its caches to be filled.
ControllerCrash ==
    /\ Fault
    /\ sync' = [j \in Jobs |-> Idle]
    /\ seen' = ibjob /\ batchSeen' = batch
    /\ podSeen' = [j \in Jobs |-> pod[j] # "none"]
    /\ UNCHANGED <<jobVars, service, batches>>

-----------------------------------------------------------------------------
(* createJob, createServices, createService, createBatchJob.               *)

SetFinalizer(j) ==
    /\ At(j, "finalizer")
    /\ IF Unchanged(j)
       THEN /\ ibjob' = [ibjob EXCEPT ![j].finalizer = TRUE]
            /\ Goto(j, IF ServicesOf(j) = {} THEN "batch" ELSE "services")
       ELSE Goto(j, "report") /\ UNCHANGED ibjob
    /\ NoFault
    /\ UNCHANGED <<batch, pod, service, cacheVars, batches>>

\* Be done with the service s in the loop; the batch job is created in the
\* sync that has found all of them ready.
CreatedService(j, s, ready) ==
    LET ok == sync[j].ok /\ ready
        todo == sync[j].todo \ {s}
    IN IF todo # {} THEN sync' = [sync EXCEPT ![j].todo = todo, ![j].ok = ok]
       ELSE IF ok THEN sync' = [sync EXCEPT ![j].todo = todo, ![j].step = "batch"]
       ELSE End(j)

\* A GET, and the POST of a service that is not there. What there is counts as
\* the service by its name, also when it is being deleted.
CreateService(j) ==
    /\ At(j, "services")
    /\ \E s \in sync[j].todo :
          \/ /\ service[s].phase = "none"
             /\ service' = [service EXCEPT ![s] =
                   [phase |-> "live", finalizer |-> FALSE, status |-> "", uid |-> @.uid + 1]]
             /\ CreatedService(j, s, FALSE)
          \/ /\ service[s].phase # "none" /\ service[s].status # "error"
             /\ CreatedService(j, s, service[s].status = "ready")
             /\ UNCHANGED service
          \/ /\ service[s].phase # "none" /\ service[s].status = "error"
             /\ Goto(j, "report")
             /\ UNCHANGED service
    /\ NoFault
    /\ UNCHANGED <<jobVars, cacheVars, batches>>

\* A batch job that the cache does not show yet is created again, which is
\* refused, and is an error.
CreateBatchJob(j) ==
    /\ At(j, "batch")
    /\ \/ batchSeen[j] /\ End(j) /\ UNCHANGED <<batch, batches>>
       \/ ~batchSeen[j] /\ batch[j] /\ Goto(j, "report") /\ UNCHANGED <<batch, batches>>
       \/ /\ ~batchSeen[j] /\ ~batch[j]
          /\ batch' = [batch EXCEPT ![j] = TRUE]
          /\ batches' = [batches EXCEPT ![j] = @ + 1]
          /\ End(j)
    /\ NoFault
    /\ UNCHANGED <<ibjob, pod, service, cacheVars>>

-----------------------------------------------------------------------------
(* deleteJob, deleteServices, deleteBatchJob, deletePods.                  *)

\* deleteService asks for resource.Name, the plural name of the kind, where
\* the path takes the name of an object: the whole collection is deleted,
\* the services of other jobs included.
DeleteService(j) ==
    /\ At(j, "deleteServices")
    /\ \E s \in sync[j].todo :
          sync' = [sync EXCEPT ![j].todo = @ \ {s},
                               ![j].step = IF sync[j].todo = {s} THEN "deleteBatch" ELSE @]
    /\ service' = [s \in Services |-> Deleted(service[s])]
    /\ NoFault
    /\ UNCHANGED <<jobVars, cacheVars, batches>>

\* Mutant of DeleteBatchJob: it looks for the batch job in the cache.
DeleteBatchJobSeen(j) ==
    /\ At(j, "deleteBatch")
    /\ batch' = IF batchSeen[j] THEN [batch EXCEPT ![j] = FALSE] ELSE batch
    /\ Goto(j, "deletePods")
    /\ NoFault
    /\ UNCHANGED <<ibjob, pod, service, cacheVars, batches>>

\* The IBJob is looked up in the cache once more, where the batch job is
\* meant; the deletion is sent in any case, and leaves the pods alone.
DeleteBatchJob(j) ==
    /\ At(j, "deleteBatch")
    /\ IF seen[j].phase = "none"
       THEN Goto(j, "report") /\ UNCHANGED batch
       ELSE Goto(j, "deletePods") /\ batch' = [batch EXCEPT ![j] = FALSE]
    /\ NoFault
    /\ UNCHANGED <<ibjob, pod, service, cacheVars, batches>>

\* Mutant of DeletePods: the pods have to be gone before they are deleted.
DeletePodsWaiting(j) ==
    /\ At(j, "deletePods")
    /\ IF podSeen[j] \/ ~sync[j].ok THEN End(j) ELSE Goto(j, "unfinalize")
    /\ NoFault
    /\ UNCHANGED <<jobVars, service, cacheVars, batches>>

DeletePods(j) ==
    /\ At(j, "deletePods")
    /\ pod' = IF podSeen[j] /\ pod[j] = "up" THEN [pod EXCEPT ![j] = "terminating"] ELSE pod
    /\ IF podSeen[j] \/ ~sync[j].ok THEN End(j) ELSE Goto(j, "unfinalize")
    /\ NoFault
    /\ UNCHANGED <<ibjob, batch, service, cacheVars, batches>>

RemoveFinalizer(j) ==
    /\ At(j, "unfinalize")
    /\ IF Unchanged(j)
       THEN ibjob' = [ibjob EXCEPT ![j] = [Absent EXCEPT !.uid = ibjob[j].uid]] /\ End(j)
       ELSE Goto(j, "report") /\ UNCHANGED ibjob
    /\ NoFault
    /\ UNCHANGED <<batch, pod, service, cacheVars, batches>>

-----------------------------------------------------------------------------
(* Kubernetes and the scheduler (external).                                *)

\* The scheduler posts the IBJob of a job that runs, again after a restart,
\* and deletes it.
PostIBJob(j) ==
    /\ ibjob[j].phase = "none" /\ ibjob[j].uid < MaxBirths
    /\ ibjob' = [ibjob EXCEPT ![j] =
          [phase |-> "live", finalizer |-> FALSE, status |-> "", uid |-> @.uid + 1]]
    /\ UNCHANGED <<batch, pod, service, cacheVars, sync, faults, batches>>

DeleteIBJob(j) ==
    /\ ibjob[j].phase = "live"
    /\ ibjob' = [ibjob EXCEPT ![j] = Deleted(@)]
    /\ UNCHANGED <<batch, pod, service, cacheVars, sync, faults, batches>>

\* A watch brings a cache up to date.
Watch(j) ==
    /\ \/ seen[j] # ibjob[j] /\ seen' = [seen EXCEPT ![j] = ibjob[j]]
          /\ UNCHANGED <<batchSeen, podSeen>>
       \/ batchSeen[j] # batch[j] /\ batchSeen' = [batchSeen EXCEPT ![j] = batch[j]]
          /\ UNCHANGED <<seen, podSeen>>
       \/ podSeen[j] # (pod[j] # "none") /\ podSeen' = [podSeen EXCEPT ![j] = ~@]
          /\ UNCHANGED <<seen, batchSeen>>
    /\ UNCHANGED <<jobVars, service, sync, faults, batches>>

StartPod(j) ==
    /\ batch[j] /\ pod[j] = "none"
    /\ pod' = [pod EXCEPT ![j] = "up"]
    /\ UNCHANGED <<ibjob, batch, service, cacheVars, sync, faults, batches>>

StopPod(j) ==
    /\ pod[j] = "terminating"
    /\ pod' = [pod EXCEPT ![j] = "none"]
    /\ UNCHANGED <<ibjob, batch, service, cacheVars, sync, faults, batches>>

-----------------------------------------------------------------------------

SyncNext(j) ==
    \/ StartSync(j) \/ ReportError(j)
    \/ SetFinalizer(j) \/ CreateService(j) \/ CreateBatchJob(j)
    \/ DeleteService(j) \/ DeleteBatchJob(j) \/ DeletePods(j) \/ RemoveFinalizer(j)

ControllerNext ==
    \/ \E j \in Jobs : SyncNext(j) \/ RequestFails(j)
    \/ ControllerCrash
    \/ \E j \in Jobs : PostIBJob(j) \/ DeleteIBJob(j) \/ Watch(j) \/ StartPod(j) \/ StopPod(j)

\* The workers keep syncing, the watches deliver, and pods start and stop.
ControllerFairness ==
    \A j \in Jobs :
        /\ WF_controllerVars(SyncNext(j))
        /\ WF_controllerVars(Watch(j))
        /\ WF_controllerVars(StartPod(j)) /\ WF_controllerVars(StopPod(j))
=============================================================================
