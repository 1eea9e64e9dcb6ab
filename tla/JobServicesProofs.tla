-------------------------- MODULE JobServicesProofs --------------------------
(* The two controllers of a job's objects at work together: their types, and *)
(* that the IBJob controller neither forgets what it has created nor creates *)
(* the batch job of an IBJob twice. For any jobs, services, births, faults.  *)
EXTENDS JobServices, TLAPS

(***************************************************************************)
(* Types.                                                                  *)
(***************************************************************************)

LEMMA ServiceSame == GKE!Service = Service /\ GKE!Absent = Absent
BY DEF GKE!Service, Service, GKE!Absent, Absent

LEMMA NewObjectTypes ==
  /\ \A o \in IBJob :
        [phase |-> "live", finalizer |-> FALSE, status |-> "", uid |-> o.uid + 1] \in IBJob
  /\ \A o \in Service :
        [phase |-> "live", finalizer |-> FALSE, status |-> "", uid |-> o.uid + 1] \in Service
<1>1. \A n \in Nat : n + 1 \in Nat
  OBVIOUS
<1>2. (\A o \in IBJob : o.uid \in Nat) /\ (\A o \in Service : o.uid \in Nat)
  BY DEF IBJob, Service
<1>3. \A n \in Nat :
        /\ [phase |-> "live", finalizer |-> FALSE, status |-> "", uid |-> n] \in IBJob
        /\ [phase |-> "live", finalizer |-> FALSE, status |-> "", uid |-> n] \in Service
  BY DEF IBJob, Service
<1> QED
  BY <1>1, <1>2, <1>3

LEMMA DeletedTypes ==
  /\ \A o \in IBJob : Deleted(o) \in IBJob
  /\ \A o \in Service : Deleted(o) \in Service
BY DEF Deleted, IBJob, Service, Absent

\* What a request of j leaves of the sync of j is a sync.
LEMMA SyncTypes ==
  ASSUME sync \in [Jobs -> Sync], NEW j \in Jobs
  PROVE  /\ \A step \in SyncStep : Goto(j, step) => sync' \in [Jobs -> Sync]
         /\ End(j) => sync' \in [Jobs -> Sync]
<1>1. Idle \in Sync
  BY DEF Idle, Sync, SyncStep, IBJob, Absent
<1>2. \A step \in SyncStep : [sync[j] EXCEPT !.step = step] \in Sync
  BY DEF Sync
<1> QED
  BY <1>1, <1>2 DEF Goto, End

LEMMA SyncNextTypes ==
  ASSUME ControllerTypeOK, NEW j \in Jobs, SyncNext(j)
  PROVE  ControllerTypeOK'
<1> USE DEF ControllerTypeOK
<1>1. SyncStep = {"idle", "finalizer", "services", "batch", "report",
                  "deleteServices", "deleteBatch", "deletePods", "unfinalize"}
  BY DEF SyncStep
<1>2. ServicesOf(j) \subseteq Services /\ sync[j] \in Sync /\ ibjob[j] \in IBJob /\ seen[j] \in IBJob
  BY DEF ServicesOf
<1>3. ASSUME StartSync(j) PROVE ControllerTypeOK'
  <2>1. [step |-> FirstStep(j), job |-> seen[j], todo |-> ServicesOf(j), ok |-> TRUE] \in Sync
    BY <1>1, <1>2 DEF FirstStep, Sync
  <2> QED
    BY <1>3, <2>1 DEF StartSync, NoFault, jobVars, cacheVars
<1>4. ASSUME ReportError(j) PROVE ControllerTypeOK'
  <2>1. [ibjob[j] EXCEPT !.status = "error"] \in IBJob
    BY <1>2 DEF IBJob
  <2>2. ibjob' \in [Jobs -> IBJob]
    BY <1>4, <2>1 DEF ReportError
  <2>3. sync' \in [Jobs -> Sync]
    BY <1>4, SyncTypes DEF ReportError
  <2> QED
    BY <1>4, <2>2, <2>3 DEF ReportError, NoFault, cacheVars
<1>5. ASSUME SetFinalizer(j) PROVE ControllerTypeOK'
  <2>1. [ibjob[j] EXCEPT !.finalizer = TRUE] \in IBJob
    BY <1>2 DEF IBJob
  <2>2. ibjob' \in [Jobs -> IBJob]
    BY <1>5, <2>1 DEF SetFinalizer
  <2>3. sync' \in [Jobs -> Sync]
    BY <1>1, <1>5, SyncTypes DEF SetFinalizer
  <2> QED
    BY <1>5, <2>2, <2>3 DEF SetFinalizer, NoFault, cacheVars
<1>6. ASSUME CreateService(j) PROVE ControllerTypeOK'
  <2>1. PICK s \in sync[j].todo :
          \/ /\ service' = [service EXCEPT ![s] =
                   [phase |-> "live", finalizer |-> FALSE, status |-> "", uid |-> @.uid + 1]]
             /\ CreatedService(j, s, FALSE)
          \/ CreatedService(j, s, service[s].status = "ready") /\ UNCHANGED service
          \/ Goto(j, "report") /\ UNCHANGED service
    BY <1>6 DEF CreateService
  <2>2. s \in Services
    BY <1>2 DEF Sync
  <2>3. [phase |-> "live", finalizer |-> FALSE, status |-> "", uid |-> service[s].uid + 1] \in Service
    BY <2>2, NewObjectTypes
  <2>4. service' \in [Services -> Service]
    BY <2>1, <2>3
  <2>5. ASSUME NEW ready \in BOOLEAN, CreatedService(j, s, ready)
        PROVE  sync' \in [Jobs -> Sync]
    <3>1. /\ [sync[j] EXCEPT !.todo = sync[j].todo \ {s}, !.ok = sync[j].ok /\ ready] \in Sync
          /\ [sync[j] EXCEPT !.todo = sync[j].todo \ {s}, !.step = "batch"] \in Sync
      BY <1>1, <1>2 DEF Sync
    <3> QED
      BY <2>5, <3>1, SyncTypes DEF CreatedService
  <2>6. sync' \in [Jobs -> Sync]
    BY <1>1, <2>1, <2>5, SyncTypes
  <2> QED
    BY <1>6, <2>4, <2>6 DEF CreateService, NoFault, jobVars, cacheVars
<1>7. ASSUME CreateBatchJob(j) PROVE ControllerTypeOK'
  <2>1. sync' \in [Jobs -> Sync]
    BY <1>1, <1>7, SyncTypes DEF CreateBatchJob
  <2>2. \/ UNCHANGED <<batch, batches>>
        \/ batch' = [batch EXCEPT ![j] = TRUE] /\ batches' = [batches EXCEPT ![j] = batches[j] + 1]
    BY <1>7 DEF CreateBatchJob
  <2>3. batches[j] + 1 \in Nat
    OBVIOUS
  <2>4. batch' \in [Jobs -> BOOLEAN] /\ batches' \in [Jobs -> Nat]
    BY <2>2, <2>3
  <2> QED
    BY <1>7, <2>1, <2>4 DEF CreateBatchJob, NoFault, cacheVars
<1>8. ASSUME DeleteService(j) PROVE ControllerTypeOK'
  <2>1. service' \in [Services -> Service]
    BY <1>8, DeletedTypes DEF DeleteService
  <2>2. PICK s \in sync[j].todo :
          sync' = [sync EXCEPT ![j].todo = @ \ {s},
                               ![j].step = IF sync[j].todo = {s} THEN "deleteBatch" ELSE @]
    BY <1>8 DEF DeleteService
  <2>3. [sync[j] EXCEPT !.todo = @ \ {s},
                        !.step = IF sync[j].todo = {s} THEN "deleteBatch" ELSE @] \in Sync
    BY <1>1, <1>2 DEF Sync
  <2>4. sync' \in [Jobs -> Sync]
    BY <2>2, <2>3
  <2> QED
    BY <1>8, <2>1, <2>4 DEF DeleteService, NoFault, jobVars, cacheVars
<1>9. ASSUME DeleteBatchJob(j) PROVE ControllerTypeOK'
  <2>1. sync' \in [Jobs -> Sync]
    BY <1>1, <1>9, SyncTypes DEF DeleteBatchJob
  <2> QED
    BY <1>9, <2>1 DEF DeleteBatchJob, NoFault, cacheVars
<1>10. ASSUME DeletePods(j) PROVE ControllerTypeOK'
  <2>1. sync' \in [Jobs -> Sync]
    BY <1>1, <1>10, SyncTypes DEF DeletePods
  <2> QED
    BY <1>10, <2>1 DEF DeletePods, NoFault, cacheVars
<1>11. ASSUME RemoveFinalizer(j) PROVE ControllerTypeOK'
  <2>1. [Absent EXCEPT !.uid = ibjob[j].uid] \in IBJob
    BY <1>2 DEF IBJob, Absent
  <2>2. ibjob' \in [Jobs -> IBJob]
    BY <1>11, <2>1 DEF RemoveFinalizer
  <2>3. sync' \in [Jobs -> Sync]
    BY <1>1, <1>11, SyncTypes DEF RemoveFinalizer
  <2> QED
    BY <1>11, <2>2, <2>3 DEF RemoveFinalizer, NoFault, cacheVars
<1> QED
  BY <1>3, <1>4, <1>5, <1>6, <1>7, <1>8, <1>9, <1>10, <1>11 DEF SyncNext

LEMMA ControllerNextTypes ==
  ASSUME ControllerTypeOK, ControllerNext
  PROVE  ControllerTypeOK'
<1> USE DEF ControllerTypeOK
<1>0. MaxFaults \in Nat
  BY BirthsAssumption DEF BirthsAssumption
<1>1. ASSUME NEW j \in Jobs, RequestFails(j) PROVE ControllerTypeOK'
  <2>1. [sync[j] EXCEPT !.step = "deleteBatch", !.todo = {}, !.ok = FALSE] \in Sync
    BY DEF Sync, SyncStep
  <2>2. sync' \in [Jobs -> Sync]
    BY <1>1, <2>1, SyncTypes DEF RequestFails, SyncStep
  <2> QED
    BY <1>0, <1>1, <2>2 DEF RequestFails, Fault, jobVars, cacheVars
<1>2. ASSUME ControllerCrash PROVE ControllerTypeOK'
  <2>1. Idle \in Sync
    BY DEF Idle, Sync, SyncStep, IBJob, Absent
  <2> QED
    BY <1>0, <1>2, <2>1 DEF ControllerCrash, Fault, jobVars
<1>3. ASSUME NEW j \in Jobs, PostIBJob(j) PROVE ControllerTypeOK'
  <2>1. [phase |-> "live", finalizer |-> FALSE, status |-> "", uid |-> ibjob[j].uid + 1] \in IBJob
    BY NewObjectTypes
  <2> QED
    BY <1>3, <2>1 DEF PostIBJob, cacheVars
<1>4. ASSUME NEW j \in Jobs, DeleteIBJob(j) PROVE ControllerTypeOK'
  BY <1>4, DeletedTypes DEF DeleteIBJob, cacheVars
<1>5. ASSUME NEW j \in Jobs, Watch(j) PROVE ControllerTypeOK'
  BY <1>5 DEF Watch, jobVars
<1>6. ASSUME NEW j \in Jobs, StartPod(j) \/ StopPod(j) PROVE ControllerTypeOK'
  BY <1>6 DEF StartPod, StopPod, cacheVars
<1> QED
  BY <1>1, <1>2, <1>3, <1>4, <1>5, <1>6, SyncNextTypes DEF ControllerNext

GKESync == [step : GKE!GKEStep, read : Service, mine : Service, listed : GKE!Cluster]

LEMMA GKESyncTypes ==
  ASSUME syncService \in [Services -> GKESync], NEW s \in Services
  PROVE  /\ \A step \in GKE!GKEStep : GKE!Goto(s, step) => syncService' \in [Services -> GKESync]
         /\ GKE!Idle \in GKESync
         /\ GKE!End(s) => syncService' \in [Services -> GKESync]
<1>1. GKE!Idle \in GKESync
  BY DEF GKE!Idle, GKESync, GKE!GKEStep, GKE!Cluster, GKE!Absent, Service
<1>2. \A step \in GKE!GKEStep : [syncService[s] EXCEPT !.step = step] \in GKESync
  BY DEF GKESync
<1> QED
  BY <1>1, <1>2 DEF GKE!Goto, GKE!End

LEMMA UpdateTypes ==
  ASSUME service \in [Services -> Service], syncService \in [Services -> GKESync],
         NEW s \in Services, NEW o \in Service, NEW step \in GKE!GKEStep, GKE!Update(s, o, step)
  PROVE  service' \in [Services -> Service] /\ syncService' \in [Services -> GKESync]
<1>1. "report" \in GKE!GKEStep
  BY DEF GKE!GKEStep
<1>2. [syncService[s] EXCEPT !.step = step, !.mine = o] \in GKESync
  BY DEF GKESync
<1> QED
  BY <1>1, <1>2, GKESyncTypes DEF GKE!Update

\* What of the types a step of the GKE controller can disturb.
GKEWritesTypeOK ==
    /\ service \in [Services -> Service] /\ faults \in 0..MaxFaults
    /\ cluster \in [Services -> GKE!Cluster] /\ seenService \in [Services -> Service]
    /\ syncService \in [Services -> GKESync]

LEMMA GKESyncNextTypes ==
  ASSUME GKEWritesTypeOK, NEW s \in Services, GKE!GKESyncNext(s)
  PROVE  GKEWritesTypeOK'
<1> USE DEF GKEWritesTypeOK
<1>1. GKE!GKEStep =
        {"idle", "list", "finalizer", "create", "listAgain", "status", "report",
         "pending", "listDeleted", "delete", "unfinalize"}
  BY DEF GKE!GKEStep
<1>2. GKE!Cluster = {"none", "PROVISIONING", "RUNNING", "STOPPING", "ERROR"}
  BY DEF GKE!Cluster
<1>3. /\ service[s] \in Service /\ seenService[s] \in Service /\ cluster[s] \in GKE!Cluster
      /\ syncService[s] \in GKESync /\ syncService[s].mine \in Service
  BY DEF GKESync
<1>4. \A o \in Service :
        /\ [o EXCEPT !.finalizer = TRUE] \in Service
        /\ \A v \in {"pending", "ready", "error"} : [o EXCEPT !.status = v] \in Service
        /\ [GKE!Absent EXCEPT !.uid = o.uid] \in Service
  BY DEF Service, GKE!Absent
<1>5. ASSUME GKE!StartGKESync(s) PROVE GKEWritesTypeOK'
  <2>1. PICK step \in {"list", "pending", "listDeleted"} :
          syncService' = [syncService EXCEPT ![s] =
             [step |-> step, read |-> seenService[s], mine |-> seenService[s], listed |-> "none"]]
    BY <1>5 DEF GKE!StartGKESync
  <2>2. [step |-> step, read |-> seenService[s], mine |-> seenService[s], listed |-> "none"] \in GKESync
    BY <1>1, <1>2, <1>3 DEF GKESync
  <2> QED
    BY <1>5, <2>1, <2>2 DEF GKE!StartGKESync, GKE!NoFault
<1>6. ASSUME GKE!ListCluster(s) \/ GKE!ListCreatedCluster(s) PROVE GKEWritesTypeOK'
  <2>1. PICK step \in {"finalizer", "status"} :
          syncService' = [syncService EXCEPT ![s].listed = cluster[s], ![s].step = step]
    BY <1>6 DEF GKE!ListCluster, GKE!ListCreatedCluster
  <2>2. [syncService[s] EXCEPT !.listed = cluster[s], !.step = step] \in GKESync
    BY <1>1, <1>3 DEF GKESync
  <2> QED
    BY <1>6, <2>1, <2>2 DEF GKE!ListCluster, GKE!ListCreatedCluster, GKE!NoFault
<1>7. ASSUME GKE!SetGKEFinalizer(s) PROVE GKEWritesTypeOK'
  <2>1. service' \in [Services -> Service] /\ syncService' \in [Services -> GKESync]
    BY <1>1, <1>3, <1>4, <1>7, UpdateTypes DEF GKE!SetGKEFinalizer
  <2> QED
    BY <1>7, <2>1 DEF GKE!SetGKEFinalizer, GKE!NoFault
<1>8. ASSUME GKE!CreateCluster(s) PROVE GKEWritesTypeOK'
  <2>1. syncService' \in [Services -> GKESync]
    BY <1>1, <1>8, GKESyncTypes DEF GKE!CreateCluster
  <2> QED
    BY <1>2, <1>8, <2>1 DEF GKE!CreateCluster, GKE!NoFault
<1>9. ASSUME GKE!UpdateClusterStatus(s) PROVE GKEWritesTypeOK'
  <2>1. PICK v \in {"pending", "ready", "error"} :
          \/ GKE!End(s) /\ UNCHANGED service
          \/ GKE!Update(s, [syncService[s].mine EXCEPT !.status = v], "idle")
    BY <1>9 DEF GKE!UpdateClusterStatus, GKE!StatusOf
  <2>2. service' \in [Services -> Service] /\ syncService' \in [Services -> GKESync]
    BY <1>1, <1>3, <1>4, <2>1, UpdateTypes, GKESyncTypes
  <2> QED
    BY <1>9, <2>2 DEF GKE!UpdateClusterStatus, GKE!NoFault
<1>10. ASSUME GKE!ReportGKEError(s) PROVE GKEWritesTypeOK'
  <2>1. service' \in [Services -> Service]
    BY <1>3, <1>4, <1>10 DEF GKE!ReportGKEError
  <2>2. syncService' \in [Services -> GKESync]
    BY <1>10, GKESyncTypes DEF GKE!ReportGKEError
  <2> QED
    BY <1>10, <2>1, <2>2 DEF GKE!ReportGKEError, GKE!NoFault
<1>11. ASSUME GKE!SetPending(s) PROVE GKEWritesTypeOK'
  <2>1. service' \in [Services -> Service]
    BY <1>3, <1>4, <1>11 DEF GKE!SetPending
  <2>2. syncService' \in [Services -> GKESync]
    BY <1>1, <1>11, GKESyncTypes DEF GKE!SetPending
  <2> QED
    BY <1>11, <2>1, <2>2 DEF GKE!SetPending, GKE!NoFault
<1>12. ASSUME GKE!ListDeletedCluster(s) PROVE GKEWritesTypeOK'
  <2>1. syncService' \in [Services -> GKESync]
    BY <1>1, <1>12, GKESyncTypes DEF GKE!ListDeletedCluster
  <2> QED
    BY <1>12, <2>1 DEF GKE!ListDeletedCluster, GKE!NoFault
<1>13. ASSUME GKE!DeleteCluster(s) PROVE GKEWritesTypeOK'
  <2>1. syncService' \in [Services -> GKESync]
    BY <1>1, <1>13, GKESyncTypes DEF GKE!DeleteCluster
  <2>2. cluster' \in [Services -> GKE!Cluster]
    BY <1>2, <1>13 DEF GKE!DeleteCluster
  <2> QED
    BY <1>13, <2>1, <2>2 DEF GKE!DeleteCluster, GKE!NoFault
<1>14. ASSUME GKE!RemoveGKEFinalizer(s) PROVE GKEWritesTypeOK'
  <2>1. service' \in [Services -> Service]
    BY <1>3, <1>4, <1>14 DEF GKE!RemoveGKEFinalizer
  <2>2. syncService' \in [Services -> GKESync]
    BY <1>1, <1>14, GKESyncTypes DEF GKE!RemoveGKEFinalizer
  <2> QED
    BY <1>14, <2>1, <2>2 DEF GKE!RemoveGKEFinalizer, GKE!NoFault
<1> QED
  BY <1>5, <1>6, <1>7, <1>8, <1>9, <1>10, <1>11, <1>12, <1>13, <1>14 DEF GKE!GKESyncNext

LEMMA GKENextTypes ==
  ASSUME GKEWritesTypeOK, GKE!GKENext
  PROVE  GKEWritesTypeOK'
<1> USE DEF GKEWritesTypeOK
<1>0. MaxFaults \in Nat
  BY BirthsAssumption DEF BirthsAssumption
<1>1. ASSUME NEW s \in Services, GKE!GcloudFails(s) \/ GKE!GKERequestFails(s)
      PROVE  GKEWritesTypeOK'
  <2>1. syncService' \in [Services -> GKESync]
    BY <1>1, GKESyncTypes DEF GKE!GcloudFails, GKE!GKERequestFails, GKE!GKEStep
  <2> QED
    BY <1>0, <1>1, <2>1 DEF GKE!GcloudFails, GKE!GKERequestFails, GKE!Fault
<1>2. ASSUME GKE!GKECrash PROVE GKEWritesTypeOK'
  <2>1. syncService' \in [Services -> GKESync]
    BY <1>2, GKESyncTypes DEF GKE!GKECrash
  <2> QED
    BY <1>0, <1>2, <2>1 DEF GKE!GKECrash, GKE!Fault
<1>3. ASSUME NEW s \in Services, GKE!GoogleFinishes(s) PROVE GKEWritesTypeOK'
  BY <1>3 DEF GKE!GoogleFinishes, GKE!Cluster
<1>4. ASSUME NEW s \in Services, GKE!WatchService(s) PROVE GKEWritesTypeOK'
  BY <1>4 DEF GKE!WatchService
<1> QED
  BY <1>1, <1>2, <1>3, <1>4, GKESyncNextTypes DEF GKE!GKENext

LEMMA TypeParts == TypeOK <=> ControllerTypeOK /\ GKEWritesTypeOK
BY ServiceSame DEF TypeOK, GKE!GKETypeOK, ControllerTypeOK, GKEWritesTypeOK, GKESync

LEMMA TypeStep == TypeOK /\ [Next]_vars => TypeOK'
<1> SUFFICES ASSUME TypeOK, [Next]_vars PROVE TypeOK'
  OBVIOUS
<1>0. ControllerTypeOK /\ GKEWritesTypeOK
  BY TypeParts
<1>1. ASSUME ControllerNext, UNCHANGED gkeOnly PROVE TypeOK'
  <2>1. ControllerTypeOK'
    BY <1>0, <1>1, ControllerNextTypes
  <2>2. GKE!GKETypeOK'
    BY <1>1 DEF TypeOK, GKE!GKETypeOK, gkeOnly
  <2> QED
    BY <2>1, <2>2 DEF TypeOK
<1>2. ASSUME GKE!GKENext, UNCHANGED ibjobOnly PROVE TypeOK'
  <2>1. GKEWritesTypeOK'
    BY <1>0, <1>2, GKENextTypes
  <2>2. ControllerTypeOK'
    BY <1>0, <1>2, <2>1 DEF ibjobOnly, ControllerTypeOK, GKEWritesTypeOK
  <2>3. GKE!GKETypeOK'
    BY <2>1, ServiceSame DEF GKE!GKETypeOK, GKEWritesTypeOK, GKESync
  <2> QED
    BY <2>2, <2>3 DEF TypeOK
<1>3. ASSUME UNCHANGED vars PROVE TypeOK'
  BY <1>3 DEF vars, ibjobOnly, gkeOnly, TypeOK, ControllerTypeOK, GKE!GKETypeOK
<1> QED
  BY <1>1, <1>2, <1>3 DEF Next

LEMMA TypeInit == Init => TypeOK
<1> SUFFICES ASSUME Init PROVE TypeOK
  OBVIOUS
<1>1. /\ Absent \in IBJob /\ Absent \in Service /\ Idle \in Sync /\ GKE!Absent \in GKE!Service
      /\ GKE!Idle \in [step : GKE!GKEStep, read : GKE!Service, mine : GKE!Service, listed : GKE!Cluster]
      /\ "none" \in GKE!Cluster
  BY DEF Absent, IBJob, Service, Idle, Sync, SyncStep, GKE!Absent, GKE!Service, GKE!Idle,
         GKE!GKEStep, GKE!Cluster
<1>2. ControllerTypeOK
  BY <1>1, BirthsAssumption DEF Init, ControllerInit, ControllerTypeOK, BirthsAssumption
<1>3. GKE!GKETypeOK
  BY <1>1 DEF Init, GKE!GKEInit, GKE!GKETypeOK
<1> QED
  BY <1>2, <1>3 DEF TypeOK

\* Whatever two controllers, Kubernetes and Google do, each variable of the
\* composition keeps its type (controller.go, services/gcp/controller.go).
THEOREM TypeCorrect == Spec => []TypeOK
BY TypeInit, TypeStep, PTL DEF Spec

(***************************************************************************)
(* What the IBJob controller has created stays in its sight, and is created *)
(* once. One job at a time: no step of one job's sync disturbs another job, *)
(* but for the collection of services it deletes.                          *)
(***************************************************************************)

\* o is an earlier state of the object than p, or the same: the objects that
\* have had the name are numbered, and each is alive, then being deleted, then
\* gone.
Before(o, p) ==
    \/ o.uid < p.uid
    \/ o.uid = p.uid /\ (o.phase = "live" \/ p.phase = "none" \/ o.phase = p.phase)

Kept(j) == ibjob[j].phase # "none" /\ ibjob[j].finalizer
NoService(j) == \A s \in ServicesOf(j) : service[s].phase # "live"
Creating == {"finalizer", "services", "batch"}
Deleting == {"deleteServices", "deleteBatch", "deletePods", "unfinalize"}

\* A cache and what a sync has read of it are behind, never ahead.
OrderInv(j) ==
    /\ ibjob[j].phase # "none" => ibjob[j].uid > 0
    /\ Before(seen[j], ibjob[j])
    /\ sync[j].todo \subseteq ServicesOf(j)
    /\ ~At(j, "idle") => sync[j].job.phase # "none" /\ Before(sync[j].job, seen[j])
    /\ sync[j].step \in Creating => sync[j].job.phase = "live"
    /\ sync[j].step \in Deleting => sync[j].job.phase = "deleting"

\* The finalizer is there from before the first creation until after the last
\* deletion.
KeptInv(j) ==
    /\ batch[j] \/ ~NoService(j) => Kept(j)
    /\ sync[j].step \in {"services", "batch"} => Kept(j) /\ sync[j].job.uid = ibjob[j].uid
    /\ sync[j].step \in {"deletePods", "unfinalize"} => ~batch[j]
    /\ sync[j].step \in {"deleteBatch", "deletePods", "unfinalize"} /\ sync[j].ok => NoService(j)
    /\ At(j, "unfinalize") => sync[j].ok

\* Once the IBJob that is there has had its batch job, the cache shows it, and
\* once that is gone again, the cache shows it as one to be deleted.
HadBatch(j) == batches[j] > 0 /\ batches[j] = ibjob[j].uid
OnceInv(j) ==
    /\ batches[j] <= ibjob[j].uid
    /\ HadBatch(j) => seen[j].uid = ibjob[j].uid
                      /\ (~At(j, "idle") => sync[j].job.uid = ibjob[j].uid)
    /\ HadBatch(j) /\ ~batch[j] => seen[j].phase # "live" /\ sync[j].step \notin Creating

JobInv(j) == OrderInv(j) /\ KeptInv(j) /\ OnceInv(j)

\* A step that leaves j alone, or only takes services away from it.
Untouched(j) ==
    /\ ibjob'[j] = ibjob[j] /\ batch'[j] = batch[j] /\ batches'[j] = batches[j]
    /\ seen'[j] = seen[j] /\ sync'[j] = sync[j]
    /\ \A s \in ServicesOf(j) : service'[s].phase = "live" => service[s].phase = "live"

LEMMA UntouchedInv ==
  ASSUME NEW j \in Jobs, JobInv(j), Untouched(j)
  PROVE  JobInv(j)'
<1>1. ServicesOf(j)' = ServicesOf(j) /\ (NoService(j) => NoService(j)')
  BY DEF ServicesOf, NoService, Untouched
<1>2. OrderInv(j)'
  BY <1>1 DEF JobInv, OrderInv, Untouched, At, Before
<1>3. KeptInv(j)'
  BY <1>1 DEF JobInv, KeptInv, Untouched, At, Kept
<1>4. OnceInv(j)'
  BY DEF JobInv, OnceInv, Untouched, At, HadBatch
<1> QED
  BY <1>2, <1>3, <1>4 DEF JobInv

LEMMA DeletedPhase ==
  /\ \A o \in Service : Deleted(o).phase # "live"
  /\ \A o \in IBJob : o.phase = "live" =>
        /\ Deleted(o).uid = o.uid
        /\ IF o.finalizer THEN Deleted(o).phase = "deleting" /\ Deleted(o).finalizer
           ELSE Deleted(o).phase = "none"
BY DEF Deleted, Absent, Service, IBJob

\* A step of the sync of i leaves the other jobs alone, but deletes their
\* services together with its own.
LEMMA OthersUntouched ==
  ASSUME ControllerTypeOK, NEW i \in Jobs, NEW j \in Jobs \ {i}, JobInv(i),
         SyncNext(i) \/ RequestFails(i) \/ PostIBJob(i) \/ DeleteIBJob(i) \/ Watch(i)
             \/ StartPod(i) \/ StopPod(i)
  PROVE  Untouched(j)
<1> USE DEF ControllerTypeOK
<1>1. sync'[j] = sync[j]
  <2>1. ASSUME NEW step, Goto(i, step) \/ End(i) PROVE sync'[j] = sync[j]
    BY <2>1 DEF Goto, End
  <2>2. ASSUME NEW s, NEW ready, CreatedService(i, s, ready) PROVE sync'[j] = sync[j]
    BY <2>2 DEF CreatedService, End
  <2> QED
    BY <2>1, <2>2 DEF SyncNext, StartSync, ReportError, SetFinalizer, CreateService, CreateBatchJob,
       DeleteService, DeleteBatchJob, DeletePods, RemoveFinalizer, RequestFails, PostIBJob,
       DeleteIBJob, Watch, StartPod, StopPod
<1>2. ibjob'[j] = ibjob[j] /\ batch'[j] = batch[j] /\ batches'[j] = batches[j] /\ seen'[j] = seen[j]
  BY DEF SyncNext, StartSync, ReportError, SetFinalizer, CreateService, CreateBatchJob,
       DeleteService, DeleteBatchJob, DeletePods, RemoveFinalizer, RequestFails, PostIBJob,
       DeleteIBJob, Watch, StartPod, StopPod, jobVars, cacheVars
<1>3. ASSUME NEW s \in ServicesOf(j), service'[s].phase = "live" PROVE service[s].phase = "live"
  <2>0. s \in Services /\ s \notin ServicesOf(i)
    BY DEF ServicesOf
  <2>1. CASE CreateService(i)
    <3>1. PICK r \in sync[i].todo : service'[s] = service[s] \/ r = s
      BY <2>0, <2>1 DEF CreateService
    <3> QED
      BY <1>3, <2>0, <3>1 DEF JobInv, OrderInv
  <2>2. CASE DeleteService(i)
    BY <1>3, <2>0, <2>2, DeletedPhase DEF DeleteService
  <2>3. CASE ~CreateService(i) /\ ~DeleteService(i)
    <3>1. service' = service
      BY <2>3 DEF SyncNext, StartSync, ReportError, SetFinalizer, CreateBatchJob,
         DeleteBatchJob, DeletePods, RemoveFinalizer, RequestFails, PostIBJob,
         DeleteIBJob, Watch, StartPod, StopPod
    <3> QED
      BY <1>3, <3>1
  <2> QED
    BY <2>1, <2>2, <2>3
<1> QED
  BY <1>1, <1>2, <1>3 DEF Untouched

\* What the objects and the syncs of the invariant are made of.
LEMMA Numbers ==
  ASSUME ControllerTypeOK, NEW j \in Jobs
  PROVE  /\ ibjob[j].uid \in Nat /\ seen[j].uid \in Nat /\ sync[j].job.uid \in Nat
         /\ ibjob[j].finalizer \in BOOLEAN /\ sync[j].ok \in BOOLEAN /\ batch[j] \in BOOLEAN
         /\ ibjob[j] \in IBJob /\ sync[j] \in Sync /\ batches[j] \in Nat
         /\ ibjob[j].phase \in {"none", "live", "deleting"}
         /\ seen[j].phase \in {"none", "live", "deleting"}
         /\ sync[j].job.phase \in {"none", "live", "deleting"}
<1>1. ibjob[j] \in IBJob /\ seen[j] \in IBJob /\ sync[j] \in Sync /\ batches[j] \in Nat /\ batch[j] \in BOOLEAN
  BY DEF ControllerTypeOK
<1>2. sync[j].job \in IBJob /\ sync[j].ok \in BOOLEAN
  BY <1>1 DEF Sync
<1> QED
  BY <1>1, <1>2 DEF IBJob

\* What a request leaves of the sync.
LEMMA SyncParts ==
  ASSUME ControllerTypeOK, NEW j \in Jobs
  PROVE  /\ \A step : Goto(j, step) =>
               /\ sync'[j].step = step /\ sync'[j].todo = sync[j].todo
               /\ sync'[j].job = sync[j].job /\ sync'[j].ok = sync[j].ok
         /\ End(j) => sync'[j].step = "idle" /\ sync'[j].todo = {}
         /\ \A s, ready : At(j, "services") /\ CreatedService(j, s, ready) =>
               \/ /\ sync'[j].step \in {"services", "batch"}
                  /\ sync'[j].todo \subseteq sync[j].todo /\ sync'[j].job = sync[j].job
               \/ sync'[j].step = "idle" /\ sync'[j].todo = {}
<1>0. sync \in [Jobs -> Sync] /\ sync[j] \in Sync
  BY DEF ControllerTypeOK
<1>1. ASSUME NEW step, Goto(j, step)
      PROVE  /\ sync'[j].step = step /\ sync'[j].todo = sync[j].todo
             /\ sync'[j].job = sync[j].job /\ sync'[j].ok = sync[j].ok
  BY <1>0, <1>1 DEF Goto, Sync
<1>2. End(j) => sync'[j].step = "idle" /\ sync'[j].todo = {}
  BY <1>0 DEF End, Idle
<1>3. ASSUME NEW s, NEW ready, At(j, "services"), CreatedService(j, s, ready)
      PROVE  \/ /\ sync'[j].step \in {"services", "batch"}
                /\ sync'[j].todo \subseteq sync[j].todo /\ sync'[j].job = sync[j].job
             \/ sync'[j].step = "idle" /\ sync'[j].todo = {}
  <2>1. \/ sync' = [sync EXCEPT ![j].todo = sync[j].todo \ {s}, ![j].ok = sync[j].ok /\ ready]
        \/ sync' = [sync EXCEPT ![j].todo = sync[j].todo \ {s}, ![j].step = "batch"]
        \/ End(j)
    BY <1>3 DEF CreatedService
  <2> QED
    BY <1>0, <1>2, <1>3, <2>1 DEF At, Sync
<1> QED
  BY <1>1, <1>2, <1>3

\* A sync that ends, or fails and is about to report it, promises nothing.
LEMMA EndInv ==
  ASSUME ControllerTypeOK, NEW j \in Jobs, JobInv(j), UNCHANGED <<seen, batches>>,
         \/ sync'[j].step = "idle" /\ sync'[j].todo \subseteq ServicesOf(j)
         \/ /\ sync'[j].step = "report" /\ sync[j].step # "idle"
            /\ sync'[j].todo = sync[j].todo /\ sync'[j].job = sync[j].job,
         ibjob'[j].uid = ibjob[j].uid, ibjob'[j].phase = ibjob[j].phase,
         ibjob'[j].finalizer = ibjob[j].finalizer, UNCHANGED <<service, batch>>
  PROVE  JobInv(j)'
<1> USE Numbers
<1>1. ServicesOf(j)' = ServicesOf(j) /\ NoService(j)' = NoService(j)
  BY DEF ServicesOf, NoService
<1>2. OrderInv(j)'
  BY <1>1 DEF JobInv, OrderInv, At, Before, Creating, Deleting
<1>3. KeptInv(j)'
  BY <1>1 DEF JobInv, KeptInv, Kept, At
<1>4. OnceInv(j)'
  BY DEF JobInv, OnceInv, HadBatch, At, Creating
<1> QED
  BY <1>2, <1>3, <1>4 DEF JobInv

LEMMA CreationInv ==
  ASSUME ControllerTypeOK, NEW j \in Jobs, JobInv(j), SetFinalizer(j) \/ CreateService(j)
  PROVE  JobInv(j)'
<1> USE Numbers DEF ControllerTypeOK
<1>1. ASSUME Goto(j, "report"), ~At(j, "idle"), UNCHANGED <<jobVars, service, cacheVars, batches>>
      PROVE  JobInv(j)'
  BY <1>1, EndInv DEF Goto, At, jobVars, cacheVars
<1>2. CASE SetFinalizer(j)
  <2>1. CASE Unchanged(j)
    <3>1. /\ At(j, "finalizer") /\ ibjob[j] = sync[j].job
          /\ ibjob' = [ibjob EXCEPT ![j].finalizer = TRUE]
          /\ sync'[j] = [sync[j] EXCEPT !.step = IF ServicesOf(j) = {} THEN "batch" ELSE "services"]
          /\ UNCHANGED <<batch, service, seen, batches>>
      BY <1>2, <2>1 DEF SetFinalizer, Goto, Unchanged, cacheVars
    <3>2. /\ ibjob'[j].uid = ibjob[j].uid /\ ibjob'[j].phase = ibjob[j].phase
          /\ ibjob'[j].finalizer = TRUE
          /\ sync'[j].step \in {"batch", "services"} /\ sync'[j].todo = sync[j].todo
          /\ sync'[j].job = sync[j].job
      <4>1. /\ ibjob'[j] = [ibjob[j] EXCEPT !.finalizer = TRUE]
            /\ \/ Goto(j, "batch") \/ Goto(j, "services")
        BY <1>2, <2>1, <3>1 DEF SetFinalizer
      <4> QED
        BY <4>1, SyncParts, Numbers DEF IBJob
    <3>3. ServicesOf(j)' = ServicesOf(j) /\ NoService(j)' = NoService(j)
      BY <3>1 DEF ServicesOf, NoService
    <3>4. OrderInv(j)'
      BY <3>1, <3>2, <3>3 DEF JobInv, OrderInv, At, Before, Creating, Deleting
    <3>5. KeptInv(j)'
      BY <3>1, <3>2, <3>3 DEF JobInv, OrderInv, KeptInv, Kept, At, Creating
    <3>6. OnceInv(j)'
      BY <3>1, <3>2 DEF JobInv, OnceInv, HadBatch, At, Creating
    <3> QED
      BY <3>4, <3>5, <3>6 DEF JobInv
  <2>2. CASE ~Unchanged(j)
    BY <1>1, <1>2, <2>2 DEF SetFinalizer, At, jobVars, cacheVars
  <2> QED
    BY <2>1, <2>2
<1>3. CASE CreateService(j)
  <2>1. PICK s \in sync[j].todo :
          \/ /\ \A r \in Services \ {s} : service'[r] = service[r]
             /\ CreatedService(j, s, FALSE)
          \/ CreatedService(j, s, service[s].status = "ready") /\ UNCHANGED service
          \/ Goto(j, "report") /\ UNCHANGED service
    BY <1>3 DEF CreateService
  <2>2. At(j, "services") /\ UNCHANGED <<jobVars, cacheVars, batches>>
    BY <1>3 DEF CreateService
  <2>3. ASSUME NEW ready \in BOOLEAN, CreatedService(j, s, ready) PROVE JobInv(j)'
    <3>1. \/ /\ sync'[j].step \in {"services", "batch"}
             /\ sync'[j].todo \subseteq sync[j].todo /\ sync'[j].job = sync[j].job
          \/ sync'[j].step = "idle" /\ sync'[j].todo = {}
      BY <2>2, <2>3, SyncParts
    <3>2. ServicesOf(j)' = ServicesOf(j) /\ Kept(j) /\ Kept(j)'
      BY <2>2 DEF JobInv, KeptInv, At, ServicesOf, Kept, jobVars
    <3>3. OrderInv(j)'
      BY <2>2, <3>1, <3>2 DEF JobInv, OrderInv, At, Before, Creating, Deleting, jobVars, cacheVars
    <3>4. KeptInv(j)'
      BY <2>2, <3>1, <3>2 DEF JobInv, KeptInv, At, jobVars
    <3>5. OnceInv(j)'
      BY <2>2, <3>1 DEF JobInv, OnceInv, HadBatch, At, Creating, jobVars, cacheVars
    <3> QED
      BY <3>3, <3>4, <3>5 DEF JobInv
  <2>4. ASSUME Goto(j, "report"), UNCHANGED service PROVE JobInv(j)'
    BY <1>1, <2>2, <2>4 DEF At
  <2> QED
    BY <2>1, <2>3, <2>4
<1> QED
  BY <1>2, <1>3

\* The IBJob at hand has not had a batch job yet: it would have been seen, and
\* a deletion that took it away is not followed by a creation.
LEMMA CreateBatchJobInv ==
  ASSUME ControllerTypeOK, NEW j \in Jobs, JobInv(j), CreateBatchJob(j)
  PROVE  JobInv(j)'
<1> USE Numbers DEF ControllerTypeOK
<1>1. At(j, "batch") /\ UNCHANGED <<ibjob, service, seen>>
  BY DEF CreateBatchJob, cacheVars
<1>2. CASE UNCHANGED <<batch, batches>> /\ (End(j) \/ Goto(j, "report"))
  <2>1. /\ ibjob'[j].uid = ibjob[j].uid /\ ibjob'[j].phase = ibjob[j].phase
        /\ ibjob'[j].finalizer = ibjob[j].finalizer
        /\ UNCHANGED <<seen, batches, service, batch>>
        /\ sync[j].step # "idle"
    BY <1>1, <1>2 DEF At
  <2>2. \/ sync'[j].step = "idle" /\ sync'[j].todo \subseteq ServicesOf(j)
        \/ /\ sync'[j].step = "report"
           /\ sync'[j].todo = sync[j].todo /\ sync'[j].job = sync[j].job
    BY <1>2, SyncParts
  <2> QED
    BY <2>1, <2>2, EndInv
<1>3. CASE ~batch[j] /\ batch' = [batch EXCEPT ![j] = TRUE]
           /\ batches' = [batches EXCEPT ![j] = @ + 1] /\ End(j)
  <2>1. /\ batch'[j] = TRUE /\ batches'[j] = batches[j] + 1
        /\ sync'[j].step = "idle" /\ sync'[j].todo = {}
    BY <1>3, SyncParts DEF End
  <2>2. Kept(j) /\ sync[j].job.uid = ibjob[j].uid /\ seen[j].uid = ibjob[j].uid
    BY <1>1 DEF JobInv, KeptInv, OrderInv, At, Before
  <2>3. batches[j] < ibjob[j].uid
    BY <1>1, <1>3, <2>2 DEF JobInv, OrderInv, OnceInv, HadBatch, Kept, At, Creating
  <2>4. ServicesOf(j)' = ServicesOf(j) /\ Kept(j)'
    BY <1>1, <2>2 DEF ServicesOf, Kept
  <2>5. OrderInv(j)'
    BY <1>1, <2>1, <2>4 DEF JobInv, OrderInv, At, Before, Creating, Deleting
  <2>6. KeptInv(j)'
    BY <2>1, <2>4 DEF KeptInv, At
  <2>7. OnceInv(j)'
    BY <1>1, <2>1, <2>2, <2>3 DEF OnceInv, HadBatch, At
  <2> QED
    BY <2>5, <2>6, <2>7 DEF JobInv
<1> QED
  BY <1>2, <1>3 DEF CreateBatchJob

LEMMA DeletionInv ==
  ASSUME ControllerTypeOK, NEW j \in Jobs, JobInv(j),
         DeleteService(j) \/ DeleteBatchJob(j) \/ DeletePods(j)
  PROVE  JobInv(j)'
<1> USE Numbers DEF ControllerTypeOK
<1>0. ServicesOf(j)' = ServicesOf(j) /\ (Kept(j) /\ UNCHANGED ibjob => Kept(j)')
  BY DEF ServicesOf, Kept
<1>1. CASE DeleteService(j)
  <2>1. /\ At(j, "deleteServices") /\ UNCHANGED <<jobVars, cacheVars, batches>>
        /\ NoService(j)'
    BY <1>1, <1>0, DeletedPhase DEF DeleteService, NoService, ServicesOf
  <2>2. /\ sync'[j].step \in {"deleteServices", "deleteBatch"}
        /\ sync'[j].todo \subseteq sync[j].todo /\ sync'[j].job = sync[j].job
    <3>1. PICK s \in sync[j].todo :
            sync' = [sync EXCEPT ![j].todo = @ \ {s},
                                 ![j].step = IF sync[j].todo = {s} THEN "deleteBatch" ELSE @]
      BY <1>1 DEF DeleteService
    <3> QED
      BY <2>1, <3>1 DEF At, Sync
  <2>3. OrderInv(j)'
    BY <1>0, <2>1, <2>2 DEF JobInv, OrderInv, At, Before, Creating, Deleting, jobVars, cacheVars
  <2>4. KeptInv(j)'
    BY <1>0, <2>1, <2>2 DEF JobInv, KeptInv, At, jobVars
  <2>5. OnceInv(j)'
    BY <2>1, <2>2 DEF JobInv, OnceInv, HadBatch, At, Creating, jobVars, cacheVars
  <2> QED
    BY <2>3, <2>4, <2>5 DEF JobInv
<1>2. CASE DeleteBatchJob(j)
  <2>1. At(j, "deleteBatch") /\ UNCHANGED <<ibjob, service, cacheVars, batches>>
    BY <1>2 DEF DeleteBatchJob
  <2>2. CASE Goto(j, "report") /\ UNCHANGED batch
    BY <2>1, <2>2, EndInv, SyncParts DEF At, cacheVars
  <2>3. CASE Goto(j, "deletePods") /\ batch' = [batch EXCEPT ![j] = FALSE]
    <3>1. /\ sync'[j].step = "deletePods" /\ sync'[j].todo = sync[j].todo
          /\ sync'[j].job = sync[j].job /\ sync'[j].ok = sync[j].ok /\ ~batch'[j]
          /\ NoService(j)' = NoService(j)
      BY <2>1, <2>3, SyncParts, <1>0 DEF NoService
    <3>2. OrderInv(j)'
      BY <1>0, <2>1, <3>1 DEF JobInv, OrderInv, At, Before, Creating, Deleting, cacheVars
    <3>3. KeptInv(j)'
      BY <1>0, <2>1, <3>1 DEF JobInv, KeptInv, At
    <3>4. HadBatch(j) => seen[j].phase # "live"
      BY <2>1 DEF JobInv, OrderInv, OnceInv, HadBatch, At, Before, Deleting
    <3>5. OnceInv(j)'
      BY <2>1, <3>1, <3>4 DEF JobInv, OnceInv, HadBatch, At, Creating, cacheVars
    <3> QED
      BY <3>2, <3>3, <3>5 DEF JobInv
  <2> QED
    BY <1>2, <2>2, <2>3 DEF DeleteBatchJob
<1>3. CASE DeletePods(j)
  <2>1. At(j, "deletePods") /\ UNCHANGED <<ibjob, batch, service, cacheVars, batches>>
    BY <1>3 DEF DeletePods
  <2>2. CASE End(j)
    BY <2>1, <2>2, EndInv, SyncParts DEF cacheVars
  <2>3. CASE sync[j].ok /\ Goto(j, "unfinalize")
    <3>1. /\ sync'[j].step = "unfinalize" /\ sync'[j].todo = sync[j].todo
          /\ sync'[j].job = sync[j].job /\ sync'[j].ok = sync[j].ok
          /\ NoService(j)' = NoService(j)
      <4>1. NoService(j)' = NoService(j)
        BY <1>0, <2>1 DEF NoService
      <4> QED
        BY <2>3, <4>1, SyncParts
    <3>2. OrderInv(j)'
      BY <1>0, <2>1, <3>1 DEF JobInv, OrderInv, At, Before, Creating, Deleting, cacheVars
    <3>3. KeptInv(j)'
      BY <1>0, <2>1, <2>3, <3>1 DEF JobInv, KeptInv, At
    <3>4. OnceInv(j)'
      BY <2>1, <3>1 DEF JobInv, OnceInv, HadBatch, At, Creating, cacheVars
    <3> QED
      BY <3>2, <3>3, <3>4 DEF JobInv
  <2> QED
    BY <1>3, <2>2, <2>3 DEF DeletePods
<1> QED
  BY <1>1, <1>2, <1>3

\* With the finalizer the IBJob goes, and nothing is left of what it kept.
LEMMA RemoveFinalizerInv ==
  ASSUME ControllerTypeOK, NEW j \in Jobs, JobInv(j), RemoveFinalizer(j)
  PROVE  JobInv(j)'
<1> USE Numbers DEF ControllerTypeOK
<1>1. At(j, "unfinalize") /\ UNCHANGED <<batch, service, cacheVars, batches>>
  BY DEF RemoveFinalizer
<1>2. CASE Goto(j, "report") /\ UNCHANGED ibjob
  BY <1>1, <1>2, EndInv, SyncParts DEF At, cacheVars
<1>3. CASE ibjob' = [ibjob EXCEPT ![j] = [Absent EXCEPT !.uid = ibjob[j].uid]] /\ End(j)
  <2>1. /\ ibjob'[j].phase = "none" /\ ibjob'[j].uid = ibjob[j].uid
        /\ sync'[j].step = "idle" /\ sync'[j].todo = {}
    BY <1>3, SyncParts DEF Absent
  <2>2. ~batch'[j] /\ NoService(j)'
    BY <1>1 DEF JobInv, KeptInv, At, NoService, ServicesOf
  <2>3. OrderInv(j)'
    BY <1>1, <2>1 DEF JobInv, OrderInv, At, Before, Creating, Deleting, cacheVars
  <2>4. KeptInv(j)'
    BY <2>1, <2>2 DEF KeptInv, At
  <2>5. OnceInv(j)'
    BY <1>1, <2>1, <2>2 DEF JobInv, OnceInv, HadBatch, At, Creating, cacheVars
  <2> QED
    BY <2>3, <2>4, <2>5 DEF JobInv
<1> QED
  BY <1>2, <1>3 DEF RemoveFinalizer

LEMMA StartSyncInv ==
  ASSUME ControllerTypeOK, NEW j \in Jobs, JobInv(j), StartSync(j)
  PROVE  JobInv(j)'
<1> USE Numbers DEF ControllerTypeOK
<1>1. /\ seen[j].phase # "none" /\ UNCHANGED <<jobVars, service, cacheVars, batches>>
      /\ sync'[j] = [step |-> FirstStep(j), job |-> seen[j], todo |-> ServicesOf(j), ok |-> TRUE]
  BY DEF StartSync
<1>2. /\ ServicesOf(j)' = ServicesOf(j) /\ NoService(j)' = NoService(j) /\ Kept(j)' = Kept(j)
  BY <1>1 DEF ServicesOf, NoService, Kept, jobVars
<1>3. \/ sync'[j].step = "finalizer" /\ seen[j].phase = "live"
      \/ sync'[j].step = "deleteServices" /\ seen[j].phase = "deleting"
      \/ sync'[j].step = "deleteBatch" /\ seen[j].phase = "deleting" /\ NoService(j)
  BY <1>1 DEF StartSync, FirstStep, NoService
<1>4. OrderInv(j)'
  BY <1>1, <1>2, <1>3 DEF JobInv, OrderInv, At, Before, Creating, Deleting, jobVars, cacheVars
<1>5. KeptInv(j)'
  BY <1>1, <1>2, <1>3 DEF JobInv, KeptInv, At, jobVars
<1>6. OnceInv(j)'
  BY <1>1, <1>3 DEF JobInv, OnceInv, HadBatch, At, Creating, jobVars, cacheVars
<1> QED
  BY <1>4, <1>5, <1>6 DEF JobInv

LEMMA ReportInv ==
  ASSUME ControllerTypeOK, NEW j \in Jobs, JobInv(j), ReportError(j) \/ RequestFails(j)
  PROVE  JobInv(j)'
<1> USE Numbers DEF ControllerTypeOK
<1>1. CASE ReportError(j)
  <2>1. /\ ibjob'[j].uid = ibjob[j].uid /\ ibjob'[j].phase = ibjob[j].phase
        /\ ibjob'[j].finalizer = ibjob[j].finalizer
        /\ UNCHANGED <<seen, batches, service, batch>> /\ End(j)
    BY <1>1 DEF ReportError, IBJob, cacheVars
  <2> QED
    BY <2>1, EndInv, SyncParts
<1>2. CASE RequestFails(j)
  <2>1. ~At(j, "idle") /\ UNCHANGED <<ibjob, batch, service, seen, batches>>
    BY <1>2 DEF RequestFails, jobVars, cacheVars
  <2>2. CASE End(j) \/ Goto(j, "report")
    BY <2>1, <2>2, EndInv, SyncParts DEF At
  <2>3. CASE /\ At(j, "deleteServices")
             /\ sync' = [sync EXCEPT ![j].step = "deleteBatch", ![j].todo = {}, ![j].ok = FALSE]
    <3>1. /\ sync'[j].step = "deleteBatch" /\ sync'[j].todo = {} /\ ~sync'[j].ok
          /\ sync'[j].job = sync[j].job
      BY <2>3 DEF Sync
    <3>2. /\ ServicesOf(j)' = ServicesOf(j) /\ NoService(j)' = NoService(j) /\ Kept(j)' = Kept(j)
      BY <2>1 DEF ServicesOf, NoService, Kept
    <3>3. OrderInv(j)'
      BY <2>1, <2>3, <3>1, <3>2 DEF JobInv, OrderInv, At, Before, Creating, Deleting
    <3>4. KeptInv(j)'
      BY <2>1, <3>1, <3>2 DEF JobInv, KeptInv, At
    <3>5. OnceInv(j)'
      BY <2>1, <2>3, <3>1 DEF JobInv, OnceInv, HadBatch, At, Creating
    <3> QED
      BY <3>3, <3>4, <3>5 DEF JobInv
  <2> QED
    BY <1>2, <2>2, <2>3 DEF RequestFails
<1> QED
  BY <1>1, <1>2

\* The scheduler posts a new object only where there is none; a deletion takes
\* away at once what has no finalizer, and then there is nothing to forget.
LEMMA SchedulerInv ==
  ASSUME ControllerTypeOK, NEW j \in Jobs, JobInv(j), PostIBJob(j) \/ DeleteIBJob(j)
  PROVE  JobInv(j)'
<1> USE Numbers DEF ControllerTypeOK
<1>1. UNCHANGED <<batch, service, cacheVars, sync, batches>>
  BY DEF PostIBJob, DeleteIBJob
<1>2. ServicesOf(j)' = ServicesOf(j) /\ NoService(j)' = NoService(j)
  BY <1>1 DEF ServicesOf, NoService
<1>3. CASE PostIBJob(j)
  <2>1. ibjob[j].phase = "none" /\ ibjob'[j].uid = ibjob[j].uid + 1
    BY <1>3 DEF PostIBJob
  <2>2. OrderInv(j)'
    BY <1>1, <1>2, <2>1 DEF JobInv, OrderInv, At, Before, Creating, Deleting, cacheVars
  <2>3. KeptInv(j)'
    BY <1>1, <1>2, <2>1 DEF JobInv, KeptInv, Kept, At
  <2>4. OnceInv(j)'
    BY <1>1, <2>1 DEF JobInv, OnceInv, HadBatch, At
  <2> QED
    BY <2>2, <2>3, <2>4 DEF JobInv
<1>4. CASE DeleteIBJob(j)
  <2>1. ibjob[j].phase = "live" /\ ibjob'[j] = Deleted(ibjob[j])
    BY <1>4 DEF DeleteIBJob
  <2>2. /\ ibjob'[j].uid = ibjob[j].uid
        /\ IF ibjob[j].finalizer THEN ibjob'[j].phase = "deleting" /\ ibjob'[j].finalizer
           ELSE ibjob'[j].phase = "none"
    BY <2>1, DeletedPhase
  <2>3. OrderInv(j)'
    BY <1>1, <1>2, <2>1, <2>2 DEF JobInv, OrderInv, At, Before, Creating, Deleting, cacheVars
  <2>4. KeptInv(j)'
    BY <1>1, <1>2, <2>1, <2>2 DEF JobInv, KeptInv, Kept, At
  <2>5. OnceInv(j)'
    BY <1>1, <2>2 DEF JobInv, OnceInv, HadBatch, At, cacheVars
  <2> QED
    BY <2>3, <2>4, <2>5 DEF JobInv
<1> QED
  BY <1>3, <1>4

\* A cache comes up to date, with or without a crash of the controller.
LEMMA CaughtUpInv ==
  ASSUME ControllerTypeOK, NEW j \in Jobs, JobInv(j), seen'[j] = ibjob[j],
         UNCHANGED <<ibjob, batch, service, batches>>,
         \/ sync'[j] = sync[j]
         \/ sync'[j].step = "idle" /\ sync'[j].todo = {}
  PROVE  JobInv(j)'
<1> USE Numbers DEF ControllerTypeOK
<1>1. /\ ServicesOf(j)' = ServicesOf(j) /\ NoService(j)' = NoService(j) /\ Kept(j)' = Kept(j)
  BY DEF ServicesOf, NoService, Kept
<1>2. OrderInv(j)'
  BY <1>1 DEF JobInv, OrderInv, At, Before, Creating, Deleting
<1>3. KeptInv(j)'
  BY <1>1 DEF JobInv, KeptInv, At
<1>4. HadBatch(j) /\ seen[j].phase # "live" => ibjob[j].phase # "live"
  BY DEF JobInv, OrderInv, OnceInv, HadBatch, Before
<1>5. OnceInv(j)'
  BY <1>4 DEF JobInv, OnceInv, HadBatch, At, Creating
<1> QED
  BY <1>2, <1>3, <1>5 DEF JobInv

LEMMA SyncNextInv ==
  ASSUME ControllerTypeOK, NEW j \in Jobs, JobInv(j),
         SyncNext(j) \/ RequestFails(j) \/ PostIBJob(j) \/ DeleteIBJob(j) \/ Watch(j)
             \/ StartPod(j) \/ StopPod(j)
  PROVE  JobInv(j)'
<1>1. ASSUME Watch(j) PROVE JobInv(j)'
  <2>1. CASE seen' = [seen EXCEPT ![j] = ibjob[j]]
    <3>1. /\ seen'[j] = ibjob[j] /\ sync'[j] = sync[j]
          /\ UNCHANGED <<ibjob, batch, service, batches>>
      BY <1>1, <2>1 DEF Watch, jobVars, ControllerTypeOK
    <3> QED
      BY <3>1, CaughtUpInv
  <2>2. CASE UNCHANGED seen
    BY <1>1, <2>2, UntouchedInv DEF Watch, jobVars, Untouched
  <2> QED
    BY <1>1, <2>1, <2>2 DEF Watch
<1>2. ASSUME StartPod(j) \/ StopPod(j) PROVE JobInv(j)'
  BY <1>2, UntouchedInv DEF StartPod, StopPod, cacheVars, Untouched
<1> QED
  BY <1>1, <1>2, StartSyncInv, ReportInv, CreationInv, CreateBatchJobInv, DeletionInv,
     RemoveFinalizerInv, SchedulerInv DEF SyncNext

\* No step of the GKE controller brings a service to life.
LEMMA GKENextUntouched ==
  ASSUME TypeOK, GKE!GKENext, UNCHANGED ibjobOnly, NEW j \in Jobs
  PROVE  Untouched(j)
<1>0. service \in [Services -> Service] /\ syncService \in [Services -> GKESync]
  BY TypeParts DEF GKEWritesTypeOK
<1>1. ASSUME NEW s \in Services, NEW r \in Services, NEW o, NEW step, GKE!Update(s, o, step),
             o.phase = syncService[s].mine.phase
      PROVE  service'[r].phase = service[r].phase
  BY <1>0, <1>1 DEF GKE!Update
<1>2. ASSUME NEW s \in Services, NEW r \in Services, GKE!GKESyncNext(s), service'[r].phase = "live"
      PROVE  service[r].phase = "live"
  <2>0. syncService[s].mine \in Service
    BY <1>0 DEF GKESync
  <2>1. CASE GKE!SetGKEFinalizer(s)
    <3>1. [syncService[s].mine EXCEPT !.finalizer = TRUE].phase = syncService[s].mine.phase
      BY <2>0 DEF Service
    <3> QED
      BY <1>1, <1>2, <2>1, <3>1 DEF GKE!SetGKEFinalizer
  <2>2. CASE GKE!UpdateClusterStatus(s)
    <3>1. \A v : [syncService[s].mine EXCEPT !.status = v].phase = syncService[s].mine.phase
      BY <2>0 DEF Service
    <3> QED
      BY <1>1, <1>2, <2>2, <3>1 DEF GKE!UpdateClusterStatus
  <2>3. CASE GKE!ReportGKEError(s) \/ GKE!SetPending(s)
    <3>1. \A v : [service[s] EXCEPT !.status = v].phase = service[s].phase
      BY <1>0 DEF Service
    <3>2. \/ service' = service
          \/ \E v : service' = [service EXCEPT ![s] = [service[s] EXCEPT !.status = v]]
      BY <2>3 DEF GKE!ReportGKEError, GKE!SetPending
    <3> QED
      BY <1>0, <1>2, <3>1, <3>2
  <2>4. CASE GKE!RemoveGKEFinalizer(s)
    <3>1. \A n : [GKE!Absent EXCEPT !.uid = n].phase = "none"
      BY DEF GKE!Absent
    <3> QED
      BY <1>0, <1>2, <2>4, <3>1 DEF GKE!RemoveGKEFinalizer
  <2>5. CASE UNCHANGED service
    BY <1>2, <2>5
  <2> QED
    BY <1>2, <2>1, <2>2, <2>3, <2>4, <2>5 DEF GKE!GKESyncNext, GKE!StartGKESync, GKE!ListCluster,
       GKE!CreateCluster, GKE!ListCreatedCluster, GKE!ListDeletedCluster, GKE!DeleteCluster
<1>3. ASSUME NEW s \in Services, GKE!GcloudFails(s) \/ GKE!GKERequestFails(s)
                 \/ GKE!GoogleFinishes(s) \/ GKE!WatchService(s) \/ GKE!GKECrash
      PROVE  UNCHANGED service
  BY <1>3 DEF GKE!GcloudFails, GKE!GKERequestFails, GKE!GoogleFinishes, GKE!WatchService, GKE!GKECrash
<1>4. \A r \in ServicesOf(j) : service'[r].phase = "live" => service[r].phase = "live"
  <2>1. CASE GKE!GKECrash
    BY <2>1 DEF GKE!GKECrash
  <2>2. CASE ~GKE!GKECrash
    BY <1>2, <1>3, <2>2 DEF GKE!GKENext, ServicesOf
  <2> QED
    BY <2>1, <2>2
<1> QED
  BY <1>4 DEF Untouched, ibjobOnly

JobsInv == TypeOK /\ \A j \in Jobs : JobInv(j)

LEMMA JobsInit == Init => JobsInv
<1> SUFFICES ASSUME Init, NEW j \in Jobs PROVE JobInv(j)
  BY TypeInit DEF JobsInv
<1>1. /\ ibjob[j] = Absent /\ seen[j] = Absent /\ ~batch[j] /\ sync[j] = Idle /\ batches[j] = 0
      /\ NoService(j)
  BY DEF Init, ControllerInit, NoService, ServicesOf, Absent
<1>2. Absent.uid = 0 /\ Absent.phase = "none" /\ Idle.step = "idle" /\ Idle.todo = {}
  BY DEF Absent, Idle
<1>3. OrderInv(j)
  BY <1>1, <1>2 DEF OrderInv, At, Before, Creating, Deleting
<1>4. KeptInv(j)
  BY <1>1, <1>2 DEF KeptInv, At
<1>5. OnceInv(j)
  BY <1>1, <1>2 DEF OnceInv, HadBatch
<1> QED
  BY <1>3, <1>4, <1>5 DEF JobInv

LEMMA JobsStep == JobsInv /\ [Next]_vars => JobsInv'
<1> SUFFICES ASSUME JobsInv, [Next]_vars, NEW j \in Jobs PROVE JobInv(j)'
  BY TypeStep DEF JobsInv
<1>0. TypeOK /\ ControllerTypeOK /\ JobInv(j)
  BY DEF JobsInv, TypeOK
<1>1. ASSUME ControllerNext PROVE JobInv(j)'
  <2>1. ASSUME NEW i \in Jobs,
               SyncNext(i) \/ RequestFails(i) \/ PostIBJob(i) \/ DeleteIBJob(i) \/ Watch(i)
                   \/ StartPod(i) \/ StopPod(i)
        PROVE  JobInv(j)'
    <3>1. CASE i = j
      BY <1>0, <2>1, <3>1, SyncNextInv
    <3>2. CASE i # j
      <4>1. JobInv(i)
        BY DEF JobsInv
      <4>2. Untouched(j)
        BY <1>0, <2>1, <3>2, <4>1, OthersUntouched
      <4> QED
        BY <1>0, <4>2, UntouchedInv
    <3> QED
      BY <3>1, <3>2
  <2>2. ASSUME ControllerCrash PROVE JobInv(j)'
    <3>1. /\ seen'[j] = ibjob[j] /\ sync'[j].step = "idle" /\ sync'[j].todo = {}
          /\ UNCHANGED <<ibjob, batch, service, batches>>
      BY <2>2 DEF ControllerCrash, Idle, jobVars
    <3> QED
      BY <1>0, <3>1, CaughtUpInv
  <2> QED
    BY <1>1, <2>1, <2>2 DEF ControllerNext
<1>2. ASSUME GKE!GKENext, UNCHANGED ibjobOnly PROVE JobInv(j)'
  BY <1>0, <1>2, GKENextUntouched, UntouchedInv
<1>3. ASSUME UNCHANGED vars PROVE JobInv(j)'
  <2>1. Untouched(j)
    BY <1>3 DEF vars, ibjobOnly, Untouched
  <2> QED
    BY <1>0, <2>1, UntouchedInv
<1> QED
  BY <1>1, <1>2, <1>3 DEF Next

\* However the syncs of a job's controller stop half way, and however late its
\* caches are (createServices, createBatchJob, deleteServices, deleteBatchJob of
\* controller.go): a batch job or a service is there only under an IBJob that a
\* finalizer keeps.
THEOREM CreationsAreKept == Spec => []NothingForgotten
<1>1. JobsInv => NothingForgotten
  <2> SUFFICES ASSUME JobsInv PROVE NothingForgotten
    OBVIOUS
  <2>1. \A j \in Jobs : batch[j] \/ ~NoService(j) => Kept(j)
    BY DEF JobsInv, JobInv, KeptInv
  <2>2. ASSUME NEW s \in Services, service[s].phase = "live" PROVE Kept(OwnerOf[s])
    <3>1. OwnerOf[s] \in Jobs /\ s \in ServicesOf(OwnerOf[s])
      BY OwnerAssumption DEF OwnerAssumption, ServicesOf
    <3> QED
      BY <2>1, <2>2, <3>1 DEF NoService
  <2> QED
    BY <2>1, <2>2 DEF NothingForgotten, Kept
<1> QED
  BY <1>1, JobsInit, JobsStep, PTL DEF Spec

\* An IBJob gets at most one batch job, whatever the cache of batch jobs says
\* (createBatchJob, controller.go), for any number of objects of the same name.
THEOREM BatchJobsCreatedOnce == Spec => []OneBatchPerIBJob
<1>1. JobsInv => OneBatchPerIBJob
  BY DEF JobsInv, JobInv, OnceInv, OneBatchPerIBJob
<1> QED
  BY <1>1, JobsInit, JobsStep, PTL DEF Spec
=============================================================================
