------------------------ MODULE GKEClusterController ------------------------
(***************************************************************************)
(* The controller of GKECluster objects (src/services/gcp/controller.go),  *)
(* the one service InfraBox brings along: for a service object it sets a    *)
(* finalizer, has gcloud create a cluster and reports in the status whether *)
(* that is ready; when the object is to be deleted it deletes the cluster   *)
(* and then removes the finalizer.                                         *)
(*                                                                         *)
(* As in IBJobController, a sync reads the object from a cache, an update   *)
(* of an object that has changed since is refused, every request and every  *)
(* gcloud command is a step, and a sync of an idle key may begin at any time.*)
(* The secret with the credentials is left out: the error of createSecret   *)
(* is overwritten by the next statement, deleteSecret takes a secret that   *)
(* exists for deleted, and nothing else depends on it.                      *)
(***************************************************************************)
EXTENDS Naturals, FiniteSets

CONSTANTS
    Services,     \* the GKECluster objects; the cluster of s is ib-<s>
    MaxFaults     \* bound: failed requests and commands, crashes

VARIABLES
    service,   \* the objects in the API server, shared with IBJobController
    cluster,   \* the GKE clusters, as gcloud lists them
    seenService, syncService,
    faults

gkeVars == <<cluster, seenService, syncService>>
gkeAllVars == <<service, gkeVars, faults>>

GKEStep ==
    {"idle", "list", "finalizer", "create", "listAgain", "status", "report",
     "pending", "listDeleted", "delete", "unfinalize"}

Cluster == {"none", "PROVISIONING", "RUNNING", "STOPPING", "ERROR"}

Absent == [phase |-> "none", finalizer |-> FALSE, status |-> "", uid |-> 0]

\* "read": the object of the cache; "mine": the object as of the last update
\* that the sync has made of it; "listed": the cluster as gcloud has listed it.
Idle == [step |-> "idle", read |-> Absent, mine |-> Absent, listed |-> "none"]

Service ==
    [phase : {"none", "live", "deleting"}, finalizer : BOOLEAN,
     status : {"", "pending", "ready", "error"}, uid : Nat]

GKETypeOK ==
    /\ cluster \in [Services -> Cluster]
    /\ seenService \in [Services -> Service]
    /\ syncService \in
          [Services -> [step : GKEStep, read : Service, mine : Service, listed : Cluster]]

GKEInit ==
    /\ cluster = [s \in Services |-> "none"]
    /\ seenService = [s \in Services |-> Absent]
    /\ syncService = [s \in Services |-> Idle]

-----------------------------------------------------------------------------
(* Helpers.                                                                *)

At(s, step) == syncService[s].step = step
Goto(s, step) == syncService' = [syncService EXCEPT ![s].step = step]
End(s) == syncService' = [syncService EXCEPT ![s] = Idle]

\* Update the object to o, and go on at a step with what the update returned;
\* if it has changed since the sync got hold of it, that is an error.
Update(s, o, step) ==
    IF service[s] = syncService[s].mine
    THEN /\ service' = [service EXCEPT ![s] = o]
         /\ syncService' = [syncService EXCEPT ![s].step = step, ![s].mine = o]
    ELSE Goto(s, "report") /\ UNCHANGED service

Fault == faults < MaxFaults /\ faults' = faults + 1
NoFault == UNCHANGED faults

\* Mutants of StatusOf: what gcloud says is not translated; a cluster that
\* runs is not told from one that is about to.
StatusOfVerbatim(listed) == listed
StatusOfNeverReady(listed) == IF listed \in {"RUNNING", "PROVISIONING"} THEN "pending" ELSE "error"

\* updateClusterStatus.
StatusOf(listed) ==
    IF listed = "RUNNING" THEN "ready"
    ELSE IF listed = "PROVISIONING" THEN "pending"
    ELSE "error"

-----------------------------------------------------------------------------
(* syncHandler, syncHandlerImpl: a cluster is created.                      *)

\* Mutant of Skipped: the status is looked at before the deletion.
SkippedInError(o) == o.phase = "none" \/ o.status = "error"

\* What there is nothing to do for, unless it is to be deleted.
Skipped(o) == o.phase = "none" \/ (o.phase = "live" /\ o.status = "error")

StartGKESync(s) ==
    /\ At(s, "idle")
    /\ LET o == seenService[s] IN
       /\ ~Skipped(o)
       /\ syncService' = [syncService EXCEPT ![s] =
             [step |-> IF o.phase = "live" THEN "list"
                       ELSE IF o.status # "pending" THEN "pending" ELSE "listDeleted",
              read |-> o, mine |-> o, listed |-> "none"]]
    /\ NoFault
    /\ UNCHANGED <<service, cluster, seenService>>

\* getRemoteCluster.
ListCluster(s) ==
    /\ At(s, "list")
    /\ syncService' = [syncService EXCEPT ![s].listed = cluster[s], ![s].step =
          IF cluster[s] = "none" THEN "finalizer" ELSE "status"]
    /\ NoFault
    /\ UNCHANGED <<service, cluster, seenService>>

SetGKEFinalizer(s) ==
    /\ At(s, "finalizer")
    /\ Update(s, [syncService[s].mine EXCEPT !.finalizer = TRUE], "create")
    /\ NoFault
    /\ UNCHANGED <<cluster, seenService>>

CreateCluster(s) ==
    /\ At(s, "create")
    /\ cluster' = [cluster EXCEPT ![s] = "PROVISIONING"]
    /\ Goto(s, "listAgain")
    /\ NoFault
    /\ UNCHANGED <<service, seenService>>

ListCreatedCluster(s) ==
    /\ At(s, "listAgain")
    /\ syncService' = [syncService EXCEPT ![s].listed = cluster[s], ![s].step = "status"]
    /\ NoFault
    /\ UNCHANGED <<service, cluster, seenService>>

UpdateClusterStatus(s) ==
    /\ At(s, "status")
    /\ LET o == [syncService[s].mine EXCEPT !.status = StatusOf(syncService[s].listed)] IN
       IF o = syncService[s].mine THEN End(s) /\ UNCHANGED service ELSE Update(s, o, "idle")
    /\ NoFault
    /\ UNCHANGED <<cluster, seenService>>

\* The error goes into the object that the sync has read first.
ReportGKEError(s) ==
    /\ At(s, "report")
    /\ service' = IF service[s] = syncService[s].read
                  THEN [service EXCEPT ![s].status = "error"] ELSE service
    /\ End(s)
    /\ NoFault
    /\ UNCHANGED <<cluster, seenService>>

-----------------------------------------------------------------------------
(* deleteCluster, deleteGKECluster, deleteSecret.                          *)

\* The updated object is kept in a variable of the inner block only: the last
\* update of this sync will be refused.
SetPending(s) ==
    /\ At(s, "pending")
    /\ IF service[s] = syncService[s].mine
       THEN service' = [service EXCEPT ![s].status = "pending"] /\ Goto(s, "listDeleted")
       ELSE Goto(s, "report") /\ UNCHANGED service
    /\ NoFault
    /\ UNCHANGED <<cluster, seenService>>

ListDeletedCluster(s) ==
    /\ At(s, "listDeleted")
    /\ Goto(s, IF cluster[s] = "none" THEN "unfinalize" ELSE "delete")
    /\ NoFault
    /\ UNCHANGED <<service, cluster, seenService>>

\* gcloud refuses to delete a cluster while it works on it.
DeleteCluster(s) ==
    /\ At(s, "delete")
    /\ \/ /\ cluster[s] \in {"RUNNING", "ERROR"}
          /\ cluster' = [cluster EXCEPT ![s] = "STOPPING"]
          /\ End(s)
       \/ /\ cluster[s] \in {"PROVISIONING", "STOPPING", "none"}
          /\ Goto(s, "report")
          /\ UNCHANGED cluster
    /\ NoFault
    /\ UNCHANGED <<service, seenService>>

RemoveGKEFinalizer(s) ==
    /\ At(s, "unfinalize")
    /\ IF service[s] = syncService[s].mine
       THEN service' = [service EXCEPT ![s] = [Absent EXCEPT !.uid = service[s].uid]] /\ End(s)
       ELSE Goto(s, "report") /\ UNCHANGED service
    /\ NoFault
    /\ UNCHANGED <<cluster, seenService>>

-----------------------------------------------------------------------------
(* Failures.                                                               *)

\* A gcloud command fails. deleteGKECluster returns the error of the listing
\* only if it says NotFound, which the error of a command never does, and goes
\* on without a cluster.
GcloudFails(s) ==
    /\ Fault
    /\ \/ At(s, "listDeleted") /\ Goto(s, "unfinalize")
       \/ \E step \in {"list", "create", "listAgain", "delete"} : At(s, step) /\ Goto(s, "report")
    /\ UNCHANGED <<service, cluster, seenService>>

\* A request to the API server fails.
GKERequestFails(s) ==
    /\ Fault
    /\ \/ At(s, "report") /\ End(s)
       \/ \E step \in {"finalizer", "status", "pending", "unfinalize"} :
             At(s, step) /\ Goto(s, "report")
    /\ UNCHANGED <<service, cluster, seenService>>

GKECrash ==
    /\ Fault
    /\ syncService' = [s \in Services |-> Idle]
    /\ seenService' = service
    /\ UNCHANGED <<service, cluster>>

-----------------------------------------------------------------------------
(* Google, and the watch of the objects (external).                        *)

\* A creation succeeds or not; a deletion takes its time.
GoogleFinishes(s) ==
    /\ \/ cluster[s] = "PROVISIONING"
          /\ \E r \in {"RUNNING", "ERROR"} : cluster' = [cluster EXCEPT ![s] = r]
       \/ cluster[s] = "STOPPING" /\ cluster' = [cluster EXCEPT ![s] = "none"]
    /\ UNCHANGED <<service, seenService, syncService, faults>>

WatchService(s) ==
    /\ seenService[s] # service[s]
    /\ seenService' = [seenService EXCEPT ![s] = service[s]]
    /\ UNCHANGED <<service, cluster, syncService, faults>>

-----------------------------------------------------------------------------

GKESyncNext(s) ==
    \/ StartGKESync(s) \/ ListCluster(s) \/ SetGKEFinalizer(s) \/ CreateCluster(s)
    \/ ListCreatedCluster(s) \/ UpdateClusterStatus(s) \/ ReportGKEError(s)
    \/ SetPending(s) \/ ListDeletedCluster(s) \/ DeleteCluster(s)
    \/ RemoveGKEFinalizer(s)

GKENext ==
    \/ \E s \in Services :
          GKESyncNext(s) \/ GcloudFails(s) \/ GKERequestFails(s)
          \/ GoogleFinishes(s) \/ WatchService(s)
    \/ GKECrash

GKEFairness ==
    \A s \in Services :
        /\ WF_gkeAllVars(GKESyncNext(s))
        /\ WF_gkeAllVars(WatchService(s))
        /\ WF_gkeAllVars(GoogleFinishes(s))
=============================================================================
