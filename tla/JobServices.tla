----------------------------- MODULE JobServices -----------------------------
(***************************************************************************)
(* The IBJob controller and the GKE controller at work on the same service *)
(* objects: the former creates and deletes them for its jobs, the latter    *)
(* gives them a cluster and a status.                                       *)
(***************************************************************************)
EXTENDS IBJobController

VARIABLES cluster, seenService, syncService

GKE == INSTANCE GKEClusterController

\* The variables of the one controller that the other one does not write.
ibjobOnly == <<ibjob, batch, pod, seen, batchSeen, podSeen, sync, batches>>
gkeOnly == <<cluster, seenService, syncService>>
vars == <<ibjobOnly, gkeOnly, service, faults>>

TypeOK == ControllerTypeOK /\ GKE!GKETypeOK

Init == ControllerInit /\ GKE!GKEInit

Next ==
    \/ ControllerNext /\ UNCHANGED gkeOnly
    \/ GKE!GKENext /\ UNCHANGED ibjobOnly

Spec == Init /\ [][Next]_vars

\* Both controllers keep working, Kubernetes and Google carry out what they
\* have accepted. Nobody has to post or to delete an IBJob.
FairSpec == Spec /\ ControllerFairness /\ GKE!GKEFairness

-----------------------------------------------------------------------------
(* Safety.                                                                 *)

\* What the IBJob controller has created is never out of its sight: the batch
\* job and the services of a job are there only while its IBJob is, and is kept
\* by a finalizer. A sync may stop after each of its requests, and its caches
\* show neither the batch job nor the pods in time.
NothingForgotten ==
    /\ \A j \in Jobs : batch[j] => ibjob[j].phase # "none" /\ ibjob[j].finalizer
    /\ \A s \in Services : service[s].phase = "live" =>
          ibjob[OwnerOf[s]].phase # "none" /\ ibjob[OwnerOf[s]].finalizer

\* The same of the GKE controller: a cluster that lives on is that of a service
\* object that is still there and kept by a finalizer ("First set finalizers so
\* we don't forget to delete it later on", src/services/gcp/controller.go:463).
NoOrphanCluster ==
    \A s \in Services : cluster[s] \in {"PROVISIONING", "RUNNING", "ERROR"} =>
        service[s].phase # "none" /\ service[s].finalizer

\* An IBJob gets one batch job, although the cache that says whether it has
\* one lags behind and its syncs crash and are repeated.
OneBatchPerIBJob == \A j \in Jobs : batches[j] <= ibjob[j].uid

\* docs/services/custom_services.md: a service provides additional resources
\* to a job; deleteService logs that it deletes the service of the job at hand.
\* So a service is taken away from no job but the one that is to be deleted.
DeletedWithItsJob ==
    [][\A s \in Services :
          service[s].phase = "live" /\ service'[s].phase # "live" =>
              ibjob[OwnerOf[s]].phase # "live"]_vars

\* docs/services/custom_services.md: a status of 'ready' means that the resource
\* is ready to use, and the job is started if all services are ready. So the
\* batch job of an IBJob comes after the services it asks for, and none of them
\* is on its way out: not even those of an earlier execution of a job that was
\* restarted, whose services have the same names.
StartsWithServices ==
    [][\A j \in Jobs : ~batch[j] /\ batch'[j] =>
          \A s \in ServicesOf(j) : service[s].phase = "live" /\ service[s].status = "ready"]_vars

-----------------------------------------------------------------------------
(* Liveness.                                                               *)

\* The deletion of an IBJob comes to its end, also when it begins in the
\* middle of the creation of its services, and whatever fails on the way.
DeletionCompletes ==
    \A j \in Jobs : (ibjob[j].phase = "deleting") ~> (ibjob[j].phase # "deleting")

\* A service object that is being deleted goes away: whatever status its
\* controller has written into it, one of its syncs comes to the end of the
\* deletion and removes the finalizer.
ServicesReclaimed ==
    \A s \in Services : (service[s].phase = "deleting") ~> (service[s].phase # "deleting")

\* An IBJob gets its batch job, or an error that the scheduler will find.
IBJobDecided ==
    \A j \in Jobs : (ibjob[j].phase = "live") ~>
        (batch[j] \/ ibjob[j].status = "error" \/ ibjob[j].phase # "live")
=============================================================================
