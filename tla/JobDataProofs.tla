----------------------------- MODULE JobDataProofs -----------------------------
(* What jobs leave to others, for any jobs, dependencies, clusters and      *)
(* bounds.                                                                  *)
EXTENDS JobData, TLAPS

(***************************************************************************)
(* Requests are sequences of handlers.                                     *)
(***************************************************************************)

RequestType == [job : Jobs, exec : Execution \ {0}, frames : Seq(Frame), waiting : BOOLEAN]

LEMMA SetupType ==
    ASSUME setup \in Setups
    PROVE  /\ setup.cluster \in [Jobs -> Clusters]
           /\ setup.parents \in [Jobs -> SUBSET Jobs]
           /\ \A j, p \in Jobs : On(j, p) \subseteq Condition
           /\ setup.creator \in [Jobs -> SUBSET Jobs]
           /\ setup.deployments \subseteq Nat
           /\ setup.tries \in Nat
           /\ setup.files \subseteq Kind \X Nat
BY JobDataAssumption DEF On

LEMMA HandlerType ==
    ASSUME NEW c \in Clusters
    PROVE  Handler(c) \in Frame
BY DEF Handler, Frame

LEMMA LastType ==
    ASSUME NEW r \in RequestType, Len(r.frames) > 0
    PROVE  /\ Last(r.frames) \in Frame
           /\ Last(r.frames) = r.frames[Len(r.frames)]
BY DEF RequestType, Last

LEMMA TopType ==
    ASSUME NEW r \in RequestType, NEW f \in Frame, Len(r.frames) > 0
    PROVE  /\ Top(r, f) \in RequestType
           /\ Top(r, f) = [r EXCEPT !.frames = [r.frames EXCEPT ![Len(r.frames)] = f]]
           /\ Top(r, f).frames = [r.frames EXCEPT ![Len(r.frames)] = f]
           /\ Len(Top(r, f).frames) = Len(r.frames)
BY DEF RequestType, Top

LEMMA CallType ==
    ASSUME NEW r \in RequestType, NEW f \in Frame
    PROVE  /\ [r EXCEPT !.frames = Append(@, f)] \in RequestType
           /\ Len(Append(r.frames, f)) = Len(r.frames) + 1
           /\ Append(r.frames, f)[Len(r.frames) + 1] = f
           /\ \A i \in 1..Len(r.frames) : Append(r.frames, f)[i] = r.frames[i]
BY DEF RequestType

LEMMA ReturnType ==
    ASSUME NEW r \in RequestType, Len(r.frames) > 1
    PROVE  /\ [r EXCEPT !.frames = Front(@)] \in RequestType
           /\ Len(Front(r.frames)) = Len(r.frames) - 1
           /\ \A i \in 1..(Len(r.frames) - 1) : Front(r.frames)[i] = r.frames[i]
BY DEF RequestType, Front

LEMMA OnType ==
    ASSUME NEW r \in RequestType, NEW n \in 1..Len(r.frames)
    PROVE  LET on == SubSeq(r.frames, Len(r.frames) - n + 1, Len(r.frames)) IN
              Request(r.job, r.exec, on, FALSE) \in RequestType /\ Len(on) = n
BY DEF RequestType, Request

(***************************************************************************)
(* Type correctness.                                                       *)
(***************************************************************************)

RowsOK ==
    /\ setup \in Setups
    /\ state \in [Jobs -> {"none", "queued", "running"} \cup Ended]
    /\ results \subseteq [job : Jobs, file : setup.files, exec : Execution]
    /\ active \subseteq Clusters
    /\ nFaults \in 0..MaxFaults
    /\ missed \subseteq Jobs \X Jobs

StorageOK ==
    /\ store \in [Clusters -> [Jobs -> Execution]]
    /\ caches \in [Jobs -> [job : Execution, branch : Execution]]
    /\ deployed \in [Jobs -> [setup.deployments -> Execution]]

ProgressOK ==
    /\ exec \in [Jobs -> Execution]
    /\ step \in [Jobs -> Step]
    /\ outcome \in [Jobs -> Outcome]
    /\ inputs \in [Jobs -> SUBSET (Jobs \X Execution)]
    /\ tries \in [Jobs -> 0..setup.tries]

LeavingsOK ==
    /\ wrote \in [Jobs -> BOOLEAN]
    /\ left \in [Jobs -> SUBSET setup.files]
    /\ todo \in [Jobs -> SUBSET setup.files]
    /\ lost \in [Jobs -> SUBSET setup.files]
    /\ \A j \in Jobs : todo[j] \cup lost[j] \subseteq left[j]

RunsOK == \A j \in Jobs : /\ step[j] = "idle" <=> state[j] # "running"
                          /\ step[j] # "idle" => exec[j] # 0
                          /\ step[j] \notin {"deploy", "results"} => todo[j] = {}

JobsOK == RowsOK /\ StorageOK /\ ProgressOK /\ LeavingsOK /\ RunsOK

\* The steps of a job: the first disjunct of Next.
JobNext(j) == StartJob(j) \/ Run(j) \/ RunFails(j) \/ Skip(j) \/ Abort(j) \/ Restart(j)
\/ ClearCache(j)

LEMMA FaultType ==
    ASSUME RowsOK, Fault
    PROVE  nFaults' \in 0..MaxFaults
BY JobDataAssumption DEF RowsOK, Fault

LEMMA InsertType ==
    ASSUME RowsOK, ProgressOK, NEW j \in Jobs, NEW f \in setup.files, Insert(j, f)
    PROVE  results' \subseteq [job : Jobs, file : setup.files, exec : Execution]
BY DEF RowsOK, ProgressOK, Insert

LEMMA RowsStep ==
    ASSUME JobsOK, NEW j \in Jobs, JobNext(j)
    PROVE  RowsOK'
<1>1. CASE GetSource(j) \/ FetchCache(j) \/ BuildFails(j) \/ ContainerFails(j) \/ RunContainer(j)
        \/ DeployContainer(j) \/ PushContainer(j) \/ EndBody(j) \/ PostOutput(j) \/ GiveUp(j)
        \/ PostCache(j) \/ ClearCache(j) \/ (\E p \in Jobs : FetchInput(j, p))
  BY <1>1 DEF RowsOK, GetSource, FetchCache, BuildFails, ContainerFails, RunContainer,
     DeployContainer,
     PushContainer, EndBody, PostOutput, GiveUp, PostCache, ClearCache, FetchInput, JobsOK, rows,
     storage, leavings, runner
<1>2. CASE StartJob(j) \/ Skip(j)
  BY <1>2 DEF Ended, RowsOK, StartJob, Skip, JobsOK, rows, storage, leavings, runner
<1>3. CASE Abort(j)
  BY <1>3, FaultType DEF Ended, RowsOK, Abort, JobsOK, rows, storage, leavings, runner
<1>4. CASE Restart(j)
  BY <1>4 DEF RowsOK, Restart, JobsOK, rows, storage, leavings, runner
<1>5. CASE CreateJobs(j)
  BY <1>5 DEF RowsOK, CreateJobs, JobsOK, rows, storage, leavings, runner
<1>6. CASE Report(j)
  BY <1>6 DEF Ended, RowsOK, Report, JobsOK, rows, storage, leavings, runner, ProgressOK
<1>7. CASE FetchFails(j) \/ DeployFails(j) \/ PostCacheFails(j)
  BY <1>7, FaultType DEF RowsOK, FetchFails, DeployFails, PostCacheFails, JobsOK, rows, storage,
     leavings, runner
<1>8. CASE (\E p \in Jobs : DownloadFails(j, p))
  BY <1>8, FaultType DEF RowsOK, DownloadFails, JobsOK, rows, storage, leavings, runner
<1>9. CASE (\E f \in setup.files : PostResult(j, f) \/ ResultRefused(j, f))
  BY <1>9, InsertType DEF RowsOK, PostResult, ResultRefused, JobsOK, rows, storage, leavings, runner
<1>10. CASE (\E f \in setup.files : PostResultFails(j, f))
  BY <1>10, InsertType, FaultType DEF RowsOK, PostResultFails, JobsOK, rows, storage, leavings,
     runner
<1> QED
  BY <1>1, <1>2, <1>3, <1>4, <1>5, <1>6, <1>7, <1>8, <1>9, <1>10 DEF JobNext, Run, RunFails

LEMMA StorageStep ==
    ASSUME JobsOK, NEW j \in Jobs, JobNext(j)
    PROVE  StorageOK'
<1>1. CASE StartJob(j) \/ GetSource(j) \/ FetchCache(j) \/ BuildFails(j) \/ ContainerFails(j)
        \/ RunContainer(j) \/ PushContainer(j) \/ EndBody(j) \/ CreateJobs(j) \/ PostOutput(j)
        \/ GiveUp(j) \/ Report(j) \/ FetchFails(j) \/ DeployFails(j) \/ PostCacheFails(j) \/ Skip(j)
        \/ Abort(j) \/ Restart(j) \/ (\E p \in Jobs : FetchInput(j, p))
        \/ (\E p \in Jobs : DownloadFails(j, p))
        \/ (\E f \in setup.files : PostResult(j, f) \/ ResultRefused(j, f))
        \/ (\E f \in setup.files : PostResultFails(j, f))
  BY <1>1 DEF StorageOK, StartJob, GetSource, FetchCache, BuildFails, ContainerFails, RunContainer,
     PushContainer, EndBody, CreateJobs, PostOutput, GiveUp, Report, FetchFails, DeployFails,
     PostCacheFails, Skip, Abort, Restart, FetchInput, DownloadFails, PostResult, ResultRefused, PostResultFails,
     JobsOK, rows, storage, leavings, runner
<1>2. CASE DeployContainer(j)
  BY <1>2 DEF StorageOK, DeployContainer, JobsOK, rows, storage, leavings, runner, ProgressOK,
     RowsOK
<1>3. CASE PostCache(j)
  BY <1>3 DEF StorageOK, PostCache, JobsOK, rows, storage, leavings, runner, ProgressOK
<1>4. CASE ClearCache(j)
  BY <1>4, SetupType, JobDataAssumption DEF StorageOK, ClearCache, JobsOK, rows, storage, leavings,
     runner, Execution
<1> QED
  BY <1>1, <1>2, <1>3, <1>4 DEF JobNext, Run, RunFails

LEMMA ProgressStep ==
    ASSUME JobsOK, NEW j \in Jobs, JobNext(j)
    PROVE  ProgressOK'
<1>1. CASE DeployContainer(j) \/ Skip(j) \/ Restart(j) \/ ClearCache(j)
        \/ (\E f \in setup.files : PostResult(j, f) \/ ResultRefused(j, f))
  BY <1>1 DEF ProgressOK, DeployContainer, Skip, Restart, ClearCache, PostResult, ResultRefused,
     JobsOK, rows, storage,
     leavings, runner
<1>2. CASE StartJob(j)
  BY <1>2, SetupType, JobDataAssumption DEF ProgressOK, StartJob, JobsOK, rows, storage, leavings,
     runner, RowsOK, Go, Step, Outcome, Execution
<1>3. CASE GetSource(j) \/ FetchCache(j) \/ PushContainer(j) \/ EndBody(j) \/ CreateJobs(j)
        \/ RunContainer(j) \/ Report(j) \/ Abort(j) \/ PostCache(j)
  BY <1>3 DEF ProgressOK, GetSource, FetchCache, PushContainer, EndBody, CreateJobs, RunContainer,
     Report, Abort, PostCache, JobsOK, rows, storage, leavings, runner, Go, Step
<1>4. CASE BuildFails(j) \/ ContainerFails(j) \/ DeployFails(j)
  BY <1>4 DEF ProgressOK, BuildFails, ContainerFails, DeployFails, JobsOK, rows, storage, leavings,
     runner, Go, Step, Outcome
<1>5. CASE FetchFails(j) \/ GiveUp(j) \/ PostCacheFails(j)
  BY <1>5 DEF ProgressOK, FetchFails, GiveUp, PostCacheFails, JobsOK, rows, storage, leavings,
     runner,
     Raise, Go, Step, Outcome
<1>6. CASE (\E f \in setup.files : PostResultFails(j, f))
  BY <1>6 DEF ProgressOK, PostResultFails, JobsOK, rows, storage, leavings, runner, Raise, Go, Step,
     Outcome
<1>7. CASE (\E p \in Jobs : FetchInput(j, p))
  BY <1>7, SetupType, JobDataAssumption DEF ProgressOK, FetchInput, JobsOK, rows, storage, leavings,
     runner, Input, RowsOK, StorageOK, ClusterOf
<1>8. CASE (\E p \in Jobs : DownloadFails(j, p))
  BY <1>8, SetupType, JobDataAssumption DEF ProgressOK, DownloadFails, JobsOK, rows, storage,
     leavings,
     runner, Input, Execution
<1>9. CASE PostOutput(j)
  BY <1>9, SetupType, JobDataAssumption DEF ProgressOK, PostOutput, JobsOK, rows, storage, leavings,
     runner, RowsOK
<1> QED
  BY <1>1, <1>2, <1>3, <1>4, <1>5, <1>6, <1>7, <1>8, <1>9 DEF JobNext, Run, RunFails

LEMMA LeavingsStep ==
    ASSUME JobsOK, NEW j \in Jobs, JobNext(j)
    PROVE  LeavingsOK'
<1>1. CASE GetSource(j) \/ FetchCache(j) \/ BuildFails(j) \/ DeployContainer(j) \/ PushContainer(j)
        \/ EndBody(j) \/ CreateJobs(j) \/ PostOutput(j) \/ GiveUp(j) \/ PostCache(j) \/ Report(j)
        \/ FetchFails(j) \/ DeployFails(j) \/ PostCacheFails(j) \/ Skip(j) \/ Restart(j)
        \/ ClearCache(j)
        \/ (\E p \in Jobs : FetchInput(j, p)) \/ (\E p \in Jobs : DownloadFails(j, p))
  BY <1>1 DEF LeavingsOK, GetSource, FetchCache, BuildFails, DeployContainer, PushContainer,
     EndBody,
     CreateJobs, PostOutput, GiveUp, PostCache, Report, FetchFails, DeployFails, PostCacheFails, Skip,
     Restart, ClearCache, FetchInput, DownloadFails, JobsOK, rows, storage, leavings, runner
<1>2. CASE StartJob(j)
  BY <1>2 DEF LeavingsOK, StartJob, JobsOK, rows, storage, leavings, runner, RunsOK, RowsOK, Step
<1>3. CASE ContainerFails(j) \/ RunContainer(j)
  BY <1>3 DEF LeavingsOK, ContainerFails, RunContainer, JobsOK, rows, storage, leavings, runner,
     Leaves
<1>4. CASE (\E f \in setup.files : PostResult(j, f))
            \/ (\E f \in setup.files : PostResultFails(j, f))
        \/ Abort(j)
  BY <1>4 DEF LeavingsOK, PostResult, PostResultFails, Abort, JobsOK, rows, storage, leavings,
     runner,
     RowsOK
<1>5. ASSUME NEW f \in setup.files, ResultRefused(j, f) PROVE LeavingsOK'
  <2>1. f \in todo[j] /\ f \in left[j]
    BY <1>5 DEF ResultRefused, Remaining, LeavingsOK, JobsOK
  <2>2. /\ todo' = [todo EXCEPT ![j] = @ \ {f}] /\ lost' = [lost EXCEPT ![j] = @ \cup {f}]
        /\ UNCHANGED <<setup, wrote, left>>
    BY <1>5 DEF ResultRefused
  <2> QED
    BY <2>1, <2>2 DEF LeavingsOK, JobsOK
<1> QED
  BY <1>1, <1>2, <1>3, <1>4, <1>5 DEF JobNext, Run, RunFails

LEMMA RunsStep ==
    ASSUME JobsOK, NEW j \in Jobs, JobNext(j)
    PROVE  RunsOK'
<1>1. CASE DeployContainer(j) \/ PostOutput(j) \/ ClearCache(j)
            \/ (\E p \in Jobs : FetchInput(j, p))
        \/ (\E p \in Jobs : DownloadFails(j, p))
  BY <1>1 DEF RunsOK, DeployContainer, PostOutput, ClearCache, FetchInput, DownloadFails, JobsOK,
     rows,
     storage, leavings, runner
<1>2. CASE StartJob(j)
  BY <1>2 DEF RunsOK, StartJob, JobsOK, rows, storage, leavings, runner, RowsOK, StorageOK,
     ProgressOK,
     Go, Execution
<1>3. CASE GetSource(j) \/ FetchCache(j) \/ PostCache(j)
  BY <1>3 DEF RunsOK, GetSource, FetchCache, PostCache, JobsOK, rows, storage, leavings, runner,
     ProgressOK, Go
<1>4. CASE PushContainer(j) \/ EndBody(j) \/ CreateJobs(j)
  BY <1>4 DEF RunsOK, PushContainer, EndBody, CreateJobs, JobsOK, rows, storage, leavings, runner,
     RowsOK, ProgressOK, Go
<1>5. CASE Report(j)
  BY <1>5 DEF RunsOK, Report, JobsOK, rows, storage, leavings, runner, RowsOK, ProgressOK, Go,
     Outcome
<1>6. CASE BuildFails(j) \/ ContainerFails(j) \/ RunContainer(j)
  BY <1>6 DEF RunsOK, BuildFails, ContainerFails, RunContainer, JobsOK, rows, storage, leavings,
     runner,
     ProgressOK, LeavingsOK, Leaves, Go
<1>7. CASE DeployFails(j) \/ FetchFails(j) \/ GiveUp(j) \/ PostCacheFails(j)
  BY <1>7 DEF RunsOK, DeployFails, FetchFails, GiveUp, PostCacheFails, JobsOK, rows, storage,
     leavings,
     runner, ProgressOK, Go, Raise
<1>8. CASE (\E f \in setup.files : PostResult(j, f) \/ ResultRefused(j, f))
  BY <1>8 DEF RunsOK, PostResult, ResultRefused, JobsOK, rows, storage, leavings, runner,
     ProgressOK, LeavingsOK, Go,
     Raise
<1>9. CASE (\E f \in setup.files : PostResultFails(j, f))
  BY <1>9 DEF RunsOK, PostResultFails, JobsOK, rows, storage, leavings, runner, ProgressOK,
     LeavingsOK,
     Go, Raise
<1>10. CASE Abort(j)
  BY <1>10 DEF RunsOK, Abort, JobsOK, rows, storage, leavings, runner, RowsOK, ProgressOK,
     LeavingsOK, Go
<1>11. CASE Restart(j) \/ Skip(j)
  BY <1>11 DEF RunsOK, Restart, Skip, JobsOK, rows, storage, leavings, runner, RowsOK, Restartable
<1> QED
  BY <1>1, <1>2, <1>3, <1>4, <1>5, <1>6, <1>7, <1>8, <1>9, <1>10, <1>11 DEF JobNext, Run, RunFails


\* The type of the requests: a runner waits for one answer at most, and asks
\* the API of its own cluster.
RequestsOK ==
    /\ requests \subseteq RequestType
    /\ \A r \in requests :
          /\ Len(r.frames) \in 1..MaxChain
          /\ r.waiting => /\ step[r.job] = "output" /\ r.exec = exec[r.job]
                          /\ r.frames[1].at = ClusterOf(r.job)
    /\ \A r, q \in requests : r.waiting /\ q.waiting /\ r.job = q.job => r = q

LEMMA RequestsStep ==
    ASSUME JobsOK, RequestsOK, NEW j \in Jobs, JobNext(j)
    PROVE  RequestsOK'
<1>1. CASE DeployContainer(j) \/ Skip(j) \/ Restart(j) \/ ClearCache(j)
        \/ (\E p \in Jobs : FetchInput(j, p)) \/ (\E p \in Jobs : DownloadFails(j, p))
        \/ (\E f \in setup.files : PostResult(j, f) \/ ResultRefused(j, f))
  BY <1>1 DEF ClusterOf, RequestsOK, DeployContainer, Skip, Restart, ClearCache, FetchInput,
     DownloadFails, PostResult, ResultRefused, JobsOK, rows, storage, leavings, runner
<1>2. CASE StartJob(j)
  BY <1>2 DEF RequestsOK, StartJob, JobsOK, rows, storage, leavings, runner, RunsOK, RequestType,
     Go,
     ClusterOf, RowsOK, ProgressOK
<1>3. CASE GetSource(j) \/ FetchCache(j) \/ PostCache(j) \/ PushContainer(j) \/ EndBody(j)
        \/ CreateJobs(j) \/ BuildFails(j) \/ ContainerFails(j) \/ RunContainer(j) \/ DeployFails(j)
        \/ Report(j)
  BY <1>3 DEF RequestsOK, GetSource, FetchCache, PostCache, PushContainer, EndBody, CreateJobs,
     BuildFails, ContainerFails, RunContainer, DeployFails, Report, JobsOK, rows, storage, leavings,
     runner, Go, RowsOK, ProgressOK, RequestType, ClusterOf
<1>4. CASE FetchFails(j) \/ GiveUp(j) \/ PostCacheFails(j)
        \/ (\E f \in setup.files : PostResultFails(j, f))
  BY <1>4 DEF RequestsOK, FetchFails, GiveUp, PostCacheFails, PostResultFails, JobsOK, rows,
     storage,
     leavings, runner, Raise, Uploading, Go, RowsOK, ProgressOK, RequestType, ClusterOf
<1>5. CASE PostOutput(j)
  <2> DEFINE q == Request(j, exec[j], <<Handler(ClusterOf(j))>>, TRUE)
  <2>1. q \in RequestType /\ Len(q.frames) = 1 /\ q.frames[1].at = ClusterOf(j)
    <3>1. ClusterOf(j) \in Clusters /\ exec[j] \in Execution \ {0}
      BY <1>5, SetupType DEF PostOutput, JobsOK, RowsOK, ProgressOK, RunsOK, ClusterOf, Execution
    <3>2. Handler(ClusterOf(j)) \in Frame /\ Handler(ClusterOf(j)).at = ClusterOf(j)
      BY <3>1, HandlerType DEF Handler
    <3> QED
      BY <3>1, <3>2 DEF Request, RequestType
  <2>2. 1 \in 1..MaxChain
    BY JobDataAssumption
  <2>3. q.job = j /\ q.exec = exec[j] /\ q.waiting
    BY DEF Request
  <2>4. requests' = requests \cup {q} /\ step[j] = "output" /\ ~Uploading(j) /\ UNCHANGED <<setup, step, exec>>
    BY <1>5 DEF PostOutput
  <2>5. \A r \in requests : ~(r.waiting /\ r.job = j)
    BY <2>4 DEF Uploading
  <2> HIDE DEF q
  <2> QED
    BY <2>1, <2>2, <2>3, <2>4, <2>5 DEF RequestsOK, RequestType, ClusterOf
<1>6. CASE Abort(j)
  <2> DEFINE f(r) == IF r.job = j THEN [r EXCEPT !.waiting = FALSE] ELSE r
  <2>1. \A r \in requests : /\ f(r) \in RequestType /\ f(r).frames = r.frames /\ f(r).job = r.job
                            /\ f(r).exec = r.exec
                            /\ f(r).waiting => r.job # j /\ f(r) = r
    BY DEF RequestsOK, RequestType
  <2>2. requests' = {f(r) : r \in requests} /\ UNCHANGED <<setup, exec>> /\ Go(j, "idle")
    BY <1>6 DEF Abort
  <2>3. \A k \in Jobs : k # j => step'[k] = step[k]
    BY <2>2 DEF Go, JobsOK, ProgressOK
  <2> HIDE DEF f
  <2> QED
    BY <2>1, <2>2, <2>3 DEF RequestsOK, RequestType, ClusterOf
<1> QED
  BY <1>1, <1>2, <1>3, <1>4, <1>5, <1>6 DEF JobNext, Run, RunFails

\* The steps of a request: the second disjunct of Next.
RequestNext(r) == Serve(r) \/ \E n \in 0..MaxChain : RequestFails(r, n)

LEMMA AtHand ==
    ASSUME RequestsOK, NEW r \in requests
    PROVE  /\ r \in RequestType /\ r.job \in Jobs
           /\ Len(r.frames) \in 1..MaxChain /\ Len(r.frames) \in Nat /\ Len(r.frames) > 0
           /\ Last(r.frames) \in Frame /\ Last(r.frames) = r.frames[Len(r.frames)]
           /\ DOMAIN r.frames = 1..Len(r.frames)
<1>1. r \in RequestType /\ Len(r.frames) \in 1..MaxChain
  BY DEF RequestsOK
<1>2. Len(r.frames) \in Nat /\ Len(r.frames) > 0 /\ DOMAIN r.frames = 1..Len(r.frames)
  BY <1>1, JobDataAssumption DEF RequestType
<1> QED
  BY <1>1, <1>2, LastType DEF RequestType

\* A request that takes the place of another.
LEMMA BecomesType ==
    ASSUME RequestsOK, NEW r \in requests, NEW q \in RequestType, Len(q.frames) \in 1..MaxChain,
           q.job = r.job, q.exec = r.exec,
           q.waiting => r.waiting /\ q.frames[1].at = r.frames[1].at,
           Becomes(r, q), UNCHANGED <<setup, step, exec>>
    PROVE  RequestsOK'
BY DEF RequestsOK, RequestType, Becomes, ClusterOf

LEMMA TargetsType ==
    ASSUME JobsOK, NEW j, NEW c
    PROVE  Targets(j, c) \in SUBSET Clusters
BY DEF JobsOK, RowsOK, Targets

LEMMA NotWaitingType ==
    ASSUME JobsOK, NEW j \in Jobs
    PROVE  NotWaiting(j) \subseteq Jobs \X Jobs
BY DEF NotWaiting, Children

LEMMA FirstAt ==
    ASSUME NEW r \in RequestType, NEW n \in 1..Len(r.frames), NEW f, f.at = r.frames[n].at
    PROVE  [r.frames EXCEPT ![n] = f][1].at = r.frames[1].at
<1>1. r.frames \in Seq(Frame) /\ Len(r.frames) \in Nat
  BY DEF RequestType
<1>2. 1 \in DOMAIN r.frames
  BY <1>1
<1> QED
  BY <1>2

LEMMA Positive == \A n \in Nat : n # 0 => n \in 1..n /\ 1 \in 1..n /\ (n # 1 => 1 \in 1..(n - 1))
OBVIOUS

LEMMA AboveTwo == \A n \in Nat : n # 0 => (n # 1 /\ n # 2 => 2 \in 1..(n - 1))
OBVIOUS

LEMMA Places ==
    ASSUME RequestsOK, NEW r \in requests
    PROVE  LET n == Len(r.frames) IN /\ n \in 1..n /\ 1 \in 1..n /\ (n # 1 => 1 \in 1..(n - 1))
                                     /\ n # 1 /\ n # 2 => 2 \in 1..(n - 1)
<1>1. Len(r.frames) \in Nat /\ Len(r.frames) # 0
  <2>1. Len(r.frames) \in Nat /\ Len(r.frames) > 0
    BY AtHand
  <2> QED
    BY <2>1
<1>2. LET n == Len(r.frames) IN n \in 1..n /\ 1 \in 1..n /\ (n # 1 => 1 \in 1..(n - 1))
  BY <1>1, Positive
<1>3. LET n == Len(r.frames) IN n # 1 /\ n # 2 => 2 \in 1..(n - 1)
  BY <1>1, AboveTwo
<1> QED
  BY <1>2, <1>3

\* What each step of a handler makes of its request.
LEMMA ReadTargetsEffect ==
    ASSUME JobsOK, RequestsOK, NEW r \in requests, ReadTargets(r)
    PROVE  LET n == Len(r.frames)
               f == [r.frames[n] EXCEPT !.step = "store", !.targets = Targets(r.job, r.frames[n].at)]
               q == Top(r, f)
           IN  /\ f \in Frame /\ q \in RequestType /\ Becomes(r, q)
               /\ q = [r EXCEPT !.frames = [r.frames EXCEPT ![n] = f]]
               /\ q.job = r.job /\ q.exec = r.exec /\ q.waiting = r.waiting
               /\ q.frames = [r.frames EXCEPT ![n] = f] /\ Len(q.frames) = n
               /\ r.frames[n].step = "read"
<1> DEFINE n == Len(r.frames)
           f == [r.frames[n] EXCEPT !.step = "store", !.targets = Targets(r.job, r.frames[n].at)]
<1>1. f \in Frame
  BY AtHand, TargetsType DEF Frame
<1>2. Top(r, f) \in RequestType /\ Top(r, f) = [r EXCEPT !.frames = [r.frames EXCEPT ![n] = f]]
      /\ Top(r, f).frames = [r.frames EXCEPT ![n] = f] /\ Len(Top(r, f).frames) = n
  BY <1>1, AtHand, TopType
<1>3. Top(r, f).job = r.job /\ Top(r, f).exec = r.exec /\ Top(r, f).waiting = r.waiting
  BY AtHand DEF Top, RequestType
<1>4. Becomes(r, Top(r, f)) /\ r.frames[n].step = "read"
  BY AtHand DEF ReadTargets
<1> QED
  BY <1>1, <1>2, <1>3, <1>4

LEMMA StoreOutputEffect ==
    ASSUME JobsOK, RequestsOK, NEW r \in requests, StoreOutput(r)
    PROVE  LET n == Len(r.frames)
               f == [r.frames[n] EXCEPT !.step = "forward"]
               q == Top(r, f)
           IN  /\ f \in Frame /\ q \in RequestType /\ Becomes(r, q)
               /\ q = [r EXCEPT !.frames = [r.frames EXCEPT ![n] = f]]
               /\ q.job = r.job /\ q.exec = r.exec /\ q.waiting = r.waiting
               /\ q.frames = [r.frames EXCEPT ![n] = f] /\ Len(q.frames) = n
               /\ r.frames[n].step = "store"
               /\ store' = [store EXCEPT ![r.frames[n].at][r.job] = r.exec]
<1> DEFINE n == Len(r.frames)
           f == [r.frames[n] EXCEPT !.step = "forward"]
<1>1. f \in Frame
  BY AtHand DEF Frame
<1>2. Top(r, f) \in RequestType /\ Top(r, f) = [r EXCEPT !.frames = [r.frames EXCEPT ![n] = f]]
      /\ Top(r, f).frames = [r.frames EXCEPT ![n] = f] /\ Len(Top(r, f).frames) = n
  BY <1>1, AtHand, TopType
<1>3. Top(r, f).job = r.job /\ Top(r, f).exec = r.exec /\ Top(r, f).waiting = r.waiting
  BY AtHand DEF Top, RequestType
<1>4. Becomes(r, Top(r, f)) /\ r.frames[n].step = "store"
      /\ store' = [store EXCEPT ![r.frames[n].at][r.job] = r.exec]
  BY AtHand DEF StoreOutput
<1> QED
  BY <1>1, <1>2, <1>3, <1>4

LEMMA ForwardEffect ==
    ASSUME JobsOK, RequestsOK, NEW r \in requests, NEW c \in Clusters, Forward(r, c)
    PROVE  LET n == Len(r.frames)
               f == [r.frames[n] EXCEPT !.targets = @ \ {c}]
               q == [Top(r, f) EXCEPT !.frames = Append(@, Handler(c))]
           IN  /\ f \in Frame /\ q \in RequestType /\ Becomes(r, q)
               /\ q.job = r.job /\ q.exec = r.exec /\ q.waiting = r.waiting
               /\ Len(q.frames) = n + 1 /\ n < MaxChain
               /\ q.frames[n] = f /\ q.frames[n + 1] = Handler(c)
               /\ \A i \in 1..(n - 1) : q.frames[i] = r.frames[i]
               /\ r.frames[n].step = "forward" /\ c \in r.frames[n].targets
<1> DEFINE n == Len(r.frames)
           f == [r.frames[n] EXCEPT !.targets = @ \ {c}]
           t == Top(r, f)
           q == [t EXCEPT !.frames = Append(@, Handler(c))]
<1>1. f \in Frame
  BY AtHand DEF Frame
<1>2. /\ t \in RequestType
      /\ t.frames = [r.frames EXCEPT ![n] = f] /\ Len(t.frames) = n
  BY <1>1, AtHand, TopType
<1>3. t.job = r.job /\ t.exec = r.exec /\ t.waiting = r.waiting
  BY AtHand DEF Top, RequestType
<1>4. Becomes(r, q) /\ r.frames[n].step = "forward" /\ c \in r.frames[n].targets /\ n < MaxChain
  BY AtHand DEF Forward
<1> HIDE DEF t
<1>5. /\ q \in RequestType /\ q.frames = Append(t.frames, Handler(c))
      /\ q.job = t.job /\ q.exec = t.exec /\ q.waiting = t.waiting
  BY <1>2, HandlerType, CallType DEF RequestType
<1>6. /\ Len(q.frames) = n + 1 /\ q.frames[n + 1] = Handler(c)
      /\ \A i \in 1..n : q.frames[i] = t.frames[i]
  BY <1>2, <1>5, HandlerType, CallType
<1>7. t.frames[n] = f /\ \A i \in 1..(n - 1) : t.frames[i] = r.frames[i] /\ i \in 1..n
  BY <1>2, AtHand
<1>8. n \in 1..n
  BY AtHand
<1> QED
  BY <1>1, <1>3, <1>4, <1>5, <1>6, <1>7, <1>8 DEF t

LEMMA ReturnEffect ==
    ASSUME JobsOK, RequestsOK, NEW r \in requests, Answer(r), Len(r.frames) > 1
    PROVE  LET n == Len(r.frames)
               q == [r EXCEPT !.frames = Front(@)]
           IN  /\ q \in RequestType /\ Becomes(r, q)
               /\ q.job = r.job /\ q.exec = r.exec /\ q.waiting = r.waiting
               /\ Len(q.frames) = n - 1 /\ \A i \in 1..(n - 1) : q.frames[i] = r.frames[i]
               /\ r.frames[n].step = "forward" /\ r.frames[n].targets = {}
               /\ UNCHANGED step
<1> DEFINE q == [r EXCEPT !.frames = Front(@)]
<1>1. q \in RequestType /\ q.frames = Front(r.frames)
      /\ q.job = r.job /\ q.exec = r.exec /\ q.waiting = r.waiting
  BY AtHand, ReturnType DEF RequestType
<1>2. Len(q.frames) = Len(r.frames) - 1 /\ \A i \in 1..(Len(r.frames) - 1) : q.frames[i] = r.frames[i]
  BY <1>1, AtHand, ReturnType
<1>3. Becomes(r, q) /\ UNCHANGED step
      /\ r.frames[Len(r.frames)].step = "forward" /\ r.frames[Len(r.frames)].targets = {}
  BY AtHand DEF Answer
<1> QED
  BY <1>1, <1>2, <1>3

LEMMA ReplyEffect ==
    ASSUME JobsOK, RequestsOK, NEW r \in requests, Answer(r), ~(Len(r.frames) > 1)
    PROVE  /\ Len(r.frames) = 1
           /\ r.frames[1].step = "forward" /\ r.frames[1].targets = {}
           /\ requests' = requests \ {r}
           /\ step' = IF r.waiting THEN [step EXCEPT ![r.job] = "cache"] ELSE step
<1>1. Len(r.frames) \in Nat /\ Len(r.frames) > 0
  BY AtHand
<1>2. \A n \in Nat : n > 0 /\ ~(n > 1) => n = 1
  OBVIOUS
<1>3. Len(r.frames) = 1
  BY <1>1, <1>2
<1> QED
  BY <1>3, AtHand DEF Answer

LEMMA RequestFailsEffect ==
    ASSUME JobsOK, RequestsOK, NEW r \in requests, NEW n \in 0..MaxChain, RequestFails(r, n)
    PROVE  \/ requests' = requests \ {r}
           \/ \E q \in RequestType : /\ Becomes(r, q) /\ q.job = r.job /\ q.exec = r.exec
                                      /\ Len(q.frames) \in 1..MaxChain /\ q.waiting = FALSE
<1>1. CASE n = 0
  BY <1>1 DEF RequestFails
<1>2. CASE n # 0
  <2> DEFINE q == Request(r.job, r.exec, SubSeq(r.frames, Len(r.frames) - n + 1, Len(r.frames)), FALSE)
  <2>1. n \in 1..Len(r.frames) /\ requests' = (requests \ {r}) \cup {q}
    BY <1>2, JobDataAssumption DEF RequestFails
  <2>2. q \in RequestType /\ Len(q.frames) = n
    BY <2>1, AtHand, OnType DEF Request
  <2>3. n \in 1..MaxChain
    BY <2>1, AtHand, JobDataAssumption
  <2>4. q.job = r.job /\ q.exec = r.exec /\ q.waiting = FALSE
    BY DEF Request
  <2> HIDE DEF q
  <2> QED
    BY <2>1, <2>2, <2>3, <2>4 DEF Becomes
<1> QED
  BY <1>1, <1>2

TypeInv == JobsOK /\ RequestsOK

LEMMA RequestStepType ==
    ASSUME TypeInv, NEW r \in requests, RequestNext(r)
    PROVE  TypeInv'
<1> USE DEF TypeInv
<1>0. Len(r.frames) \in 1..MaxChain /\ r.job \in Jobs /\ r \in RequestType /\ Len(r.frames) \in Nat
  BY AtHand
<1>1. CASE ReadTargets(r)
  <2>1. JobsOK'
    <3>1. /\ UNCHANGED <<setup, rows, storage, runner, nFaults>>
          /\ missed' \subseteq missed \cup NotWaiting(r.job)
      BY <1>1 DEF ReadTargets
    <3>2. missed' \subseteq Jobs \X Jobs
      BY <3>1, <1>0, NotWaitingType DEF JobsOK, RowsOK
    <3> QED
      BY <3>1, <3>2 DEF JobsOK, RowsOK, StorageOK, ProgressOK, LeavingsOK, RunsOK, rows, storage,
         runner,
         leavings
  <2>2. RequestsOK'
    <3> DEFINE f == [r.frames[Len(r.frames)] EXCEPT !.step = "store",
                 !.targets = Targets(r.job, r.frames[Len(r.frames)].at)]
    <3>1. Top(r, f) \in RequestType /\ Len(Top(r, f).frames) \in 1..MaxChain /\ Top(r, f).job = r.job
          /\ Top(r, f).exec = r.exec /\ Top(r, f).waiting = r.waiting /\ Becomes(r, Top(r, f))
      BY <1>0, <1>1, ReadTargetsEffect
    <3>2. Top(r, f).frames[1].at = r.frames[1].at
      <4>1. f.at = r.frames[Len(r.frames)].at
        BY AtHand DEF Frame
      <4>2. Top(r, f).frames = [r.frames EXCEPT ![Len(r.frames)] = f]
        BY <1>1, ReadTargetsEffect
      <4> HIDE DEF f
      <4> QED
        BY <4>1, <4>2, <1>0, Places, FirstAt
    <3>3. UNCHANGED <<setup, step, exec>>
      BY <1>1 DEF ReadTargets, runner
    <3> QED
      BY <3>1, <3>2, <3>3, BecomesType
  <2> QED
    BY <2>1, <2>2
<1>2. CASE StoreOutput(r)
  <2>1. JobsOK'
    <3>1. /\ UNCHANGED <<setup, rows, caches, deployed, runner, nFaults>>
          /\ missed' \subseteq missed \cup ({r.job} \X Children(r.job))
      BY <1>2 DEF StoreOutput
    <3>2. missed' \subseteq Jobs \X Jobs
      BY <3>1, <1>0 DEF JobsOK, RowsOK, Children
    <3>3. store' \in [Clusters -> [Jobs -> Execution]]
      <4>1. store' = [store EXCEPT ![r.frames[Len(r.frames)].at][r.job] = r.exec]
        BY <1>2, StoreOutputEffect
      <4>2. r.exec \in Execution
        BY <1>0 DEF RequestType
      <4> QED
        BY <4>1, <4>2 DEF JobsOK, StorageOK
    <3> QED
      BY <3>1, <3>2, <3>3 DEF JobsOK, RowsOK, StorageOK, ProgressOK, LeavingsOK, RunsOK, rows,
         runner,
         leavings
  <2>2. RequestsOK'
    <3> DEFINE f == [r.frames[Len(r.frames)] EXCEPT !.step = "forward"]
    <3>1. Top(r, f) \in RequestType /\ Len(Top(r, f).frames) \in 1..MaxChain /\ Top(r, f).job = r.job
          /\ Top(r, f).exec = r.exec /\ Top(r, f).waiting = r.waiting /\ Becomes(r, Top(r, f))
      BY <1>0, <1>2, StoreOutputEffect
    <3>2. Top(r, f).frames[1].at = r.frames[1].at
      <4>1. f.at = r.frames[Len(r.frames)].at
        BY AtHand DEF Frame
      <4>2. Top(r, f).frames = [r.frames EXCEPT ![Len(r.frames)] = f]
        BY <1>2, StoreOutputEffect
      <4> HIDE DEF f
      <4> QED
        BY <4>1, <4>2, <1>0, Places, FirstAt
    <3>3. UNCHANGED <<setup, step, exec>>
      BY <1>2 DEF StoreOutput, runner
    <3> QED
      BY <3>1, <3>2, <3>3, BecomesType
  <2> QED
    BY <2>1, <2>2
<1>3. ASSUME NEW c \in Clusters, Forward(r, c) PROVE TypeInv'
  <2>1. JobsOK'
    BY <1>3 DEF Forward, JobsOK, RowsOK, StorageOK, ProgressOK, LeavingsOK, RunsOK, rows, storage,
       runner, leavings
  <2>2. RequestsOK'
    <3> DEFINE f == [r.frames[Len(r.frames)] EXCEPT !.targets = @ \ {c}]
               q == [Top(r, f) EXCEPT !.frames = Append(@, Handler(c))]
    <3>1. q \in RequestType /\ Len(q.frames) = Len(r.frames) + 1 /\ Len(r.frames) < MaxChain /\ q.job = r.job
          /\ q.exec = r.exec /\ q.waiting = r.waiting /\ Becomes(r, q)
      BY <1>3, ForwardEffect
    <3>2. q.frames[1].at = r.frames[1].at
      <4>1. q.frames[Len(r.frames)] = f /\ f.at = r.frames[Len(r.frames)].at
            /\ \A i \in 1..(Len(r.frames) - 1) : q.frames[i] = r.frames[i]
        BY <1>3, ForwardEffect, AtHand DEF Frame
      <4> HIDE DEF q, f
      <4>2. CASE Len(r.frames) = 1
        BY <4>1, <4>2
      <4>3. CASE Len(r.frames) # 1
        <5>1. 1 \in 1..(Len(r.frames) - 1)
          BY <4>3, Places
        <5> QED
          BY <4>1, <5>1
      <4> QED
        BY <4>2, <4>3
    <3>3. UNCHANGED <<setup, step, exec>>
      BY <1>3 DEF Forward, runner
    <3>4. Len(q.frames) \in 1..MaxChain
      BY <3>1, <1>0, JobDataAssumption
    <3> HIDE DEF q
    <3> QED
      BY <3>1, <3>2, <3>3, <3>4, BecomesType
  <2> QED
    BY <2>1, <2>2
<1>4. CASE Answer(r) /\ Len(r.frames) > 1
  <2>1. JobsOK'
    BY <1>4, ReturnEffect DEF Answer, JobsOK, RowsOK, StorageOK, ProgressOK, LeavingsOK, RunsOK,
       rows,
       storage, leavings
  <2>2. RequestsOK'
    <3> DEFINE q == [r EXCEPT !.frames = Front(@)]
    <3>1. q \in RequestType /\ Len(q.frames) = Len(r.frames) - 1 /\ q.job = r.job
          /\ q.exec = r.exec /\ q.waiting = r.waiting /\ Becomes(r, q)
          /\ \A i \in 1..(Len(r.frames) - 1) : q.frames[i] = r.frames[i]
      BY <1>4, ReturnEffect
    <3> HIDE DEF q
    <3>2. 1 \in 1..(Len(r.frames) - 1) /\ Len(q.frames) \in 1..MaxChain
      BY <1>0, <1>4, <3>1, JobDataAssumption
    <3>3. UNCHANGED <<setup, step, exec>>
      BY <1>4, ReturnEffect DEF Answer
    <3> QED
      BY <3>1, <3>2, <3>3, BecomesType
  <2> QED
    BY <2>1, <2>2
<1>5. CASE Answer(r) /\ ~(Len(r.frames) > 1)
  <2>1. /\ UNCHANGED <<setup, rows, storage, exec, outcome, inputs, leavings, tries, nFaults, missed>>
        /\ requests' = requests \ {r}
        /\ step' = IF r.waiting THEN [step EXCEPT ![r.job] = "cache"] ELSE step
    BY <1>5, ReplyEffect DEF Answer
  <2>2. r.waiting => step[r.job] = "output"
    BY DEF RequestsOK
  <2>3. JobsOK'
    BY <1>0, <2>1, <2>2 DEF JobsOK, RowsOK, StorageOK, ProgressOK, LeavingsOK, RunsOK, rows,
       storage,
       leavings, Step
  <2>4. RequestsOK'
    BY <1>0, <2>1 DEF RequestsOK, RequestType, ClusterOf, JobsOK, ProgressOK
  <2> QED
    BY <2>3, <2>4
<1>6. ASSUME NEW n \in 0..MaxChain, RequestFails(r, n) PROVE TypeInv'
  <2>1. /\ Fault /\ UNCHANGED <<setup, rows, storage, runner, missed>>
    BY <1>6 DEF RequestFails
  <2>2. JobsOK'
    <3>1. nFaults' \in 0..MaxFaults
      BY <2>1, FaultType DEF JobsOK
    <3> QED
      BY <2>1, <3>1 DEF JobsOK, RowsOK, StorageOK, ProgressOK, LeavingsOK, RunsOK, rows, storage,
         leavings, runner
  <2>3. UNCHANGED <<setup, step, exec>>
    BY <2>1 DEF runner
  <2>4. CASE requests' = requests \ {r}
    <3>1. requests' \subseteq requests
      BY <2>4
    <3> QED
      BY <2>2, <2>3, <3>1 DEF RequestsOK, ClusterOf
  <2>5. ASSUME NEW q \in RequestType, Becomes(r, q), q.job = r.job, q.exec = r.exec,
               Len(q.frames) \in 1..MaxChain, q.waiting = FALSE
        PROVE  RequestsOK'
    BY <2>3, <2>5, BecomesType
  <2> QED
    BY <1>6, <2>2, <2>4, <2>5, RequestFailsEffect
<1> QED
  BY <1>1, <1>2, <1>3, <1>4, <1>5, <1>6 DEF RequestNext, Serve

LEMMA OtherStepType ==
    ASSUME TypeInv, UNCHANGED vars \/ \E c \in Clusters : Deactivate(c) \/ Activate(c)
    PROVE  TypeInv'
<1>1. ASSUME NEW c \in Clusters, Deactivate(c) \/ Activate(c)
      PROVE  /\ UNCHANGED <<setup, state, results, storage, runner, requests, missed>>
             /\ active' \subseteq Clusters /\ nFaults' \in 0..MaxFaults
  BY <1>1, FaultType DEF Deactivate, Activate, TypeInv, JobsOK, RowsOK
<1>2. CASE UNCHANGED <<setup, state, results, storage, runner, requests, missed>>
           /\ active' \subseteq Clusters /\ nFaults' \in 0..MaxFaults
  BY <1>2 DEF TypeInv, JobsOK, RowsOK, StorageOK, ProgressOK, LeavingsOK, RunsOK, RequestsOK,
     RequestType, ClusterOf, storage, runner, leavings
<1>3. CASE UNCHANGED vars
  BY <1>3 DEF vars, rows, TypeInv, JobsOK, RowsOK, StorageOK, ProgressOK, LeavingsOK, RunsOK,
     RequestsOK,
     RequestType, ClusterOf, storage, runner, leavings
<1> QED
  BY <1>1, <1>2, <1>3

LEMMA InitType == Init => TypeInv
<1> SUFFICES ASSUME Init PROVE TypeInv
  OBVIOUS
<1>1. RowsOK
  BY JobDataAssumption DEF Init, RowsOK
<1>2. StorageOK
  BY JobDataAssumption DEF Init, StorageOK, Execution
<1>3. ProgressOK
  BY SetupType, JobDataAssumption DEF Init, ProgressOK, Execution, Step, Outcome
<1>4. LeavingsOK /\ RunsOK
  BY DEF Init, LeavingsOK, RunsOK
<1>5. RequestsOK
  BY DEF Init, RequestsOK
<1> QED
  BY <1>1, <1>2, <1>3, <1>4, <1>5 DEF TypeInv, JobsOK

LEMMA NextSplits ==
    ASSUME [Next]_vars
    PROVE  \/ \E j \in Jobs : JobNext(j)
           \/ \E r \in requests : RequestNext(r)
           \/ UNCHANGED vars \/ \E c \in Clusters : Deactivate(c) \/ Activate(c)
BY DEF Next, JobNext, RequestNext

LEMMA TypeStep == TypeInv /\ [Next]_vars => TypeInv'
<1> SUFFICES ASSUME TypeInv, [Next]_vars PROVE TypeInv'
  OBVIOUS
<1>1. ASSUME NEW j \in Jobs, JobNext(j) PROVE TypeInv'
  BY <1>1, RowsStep, StorageStep, ProgressStep, LeavingsStep, RunsStep, RequestsStep DEF TypeInv,
     JobsOK
<1> QED
  BY <1>1, RequestStepType, OtherStepType, NextSplits

LEMMA TypeInvariance == Spec => []TypeInv
BY InitType, TypeStep, PTL DEF Spec

\* Every variable keeps its type; the rows and the storage hold executions of
\* jobs, and a request that its runner waits for is that of the execution that
\* uploads.
THEOREM TypeCorrect == Spec => []TypeOK
<1>1. TypeInv => TypeOK
  BY DEF TypeInv, JobsOK, RowsOK, StorageOK, ProgressOK, LeavingsOK, RunsOK, RequestsOK,
     RequestType,
     TypeOK
<1> QED
  BY <1>1, TypeInvariance, PTL

(***************************************************************************)
(* What a step does to one job.                                            *)
(***************************************************************************)

Untouched(k) ==
    /\ exec'[k] = exec[k] /\ step'[k] = step[k] /\ outcome'[k] = outcome[k] /\ inputs'[k] = inputs[k]
    /\ wrote'[k] = wrote[k] /\ left'[k] = left[k] /\ todo'[k] = todo[k] /\ lost'[k] = lost[k]
    /\ deployed'[k] = deployed[k]

\* The runner of another job leaves this one alone, but for its row.
LEMMA OtherRunners ==
    ASSUME TypeInv, NEW j \in Jobs, NEW k \in Jobs, k # j, JobNext(j)
    PROVE  Untouched(k)
<1> USE DEF TypeInv, JobsOK, StorageOK, ProgressOK, LeavingsOK, Untouched, storage, runner,
   leavings, Go,
   Raise
<1>1. CASE StartJob(j) \/ RunFails(j) \/ Skip(j) \/ Abort(j) \/ Restart(j) \/ ClearCache(j)
  BY <1>1 DEF StartJob, RunFails, FetchFails, DeployFails, PostCacheFails, DownloadFails,
     PostResultFails,
              Skip, Abort, Restart, ClearCache, Input
<1>2. CASE Run(j)
  BY <1>2 DEF Run, GetSource, FetchCache, BuildFails, ContainerFails, RunContainer, DeployContainer,
              PushContainer, EndBody, CreateJobs, PostOutput, GiveUp, PostCache, Report, FetchInput,
              PostResult, ResultRefused, Input, Leaves
<1> QED
  BY <1>1, <1>2 DEF JobNext

\* A row changes to 'queued' by a request of a user or a generated job, or by
\* what happens to the job itself.
LEMMA RowChanges ==
    ASSUME TypeInv, NEW j \in Jobs, NEW k \in Jobs, JobNext(j)
    PROVE  \/ state'[k] = state[k]
           \/ state[k] = "none" /\ state'[k] = "queued"
           \/ Restart(j) /\ k \in Closure({j}) /\ state'[k] = "queued"
           \/ k = j /\ state[k] \in {"queued", "running"}
<1> USE DEF TypeInv, JobsOK, RowsOK, RunsOK, rows
<1>1. CASE RunFails(j) \/ ClearCache(j)
  BY <1>1 DEF RunFails, FetchFails, DeployFails, PostCacheFails, DownloadFails, PostResultFails,
     ClearCache
<1>2. CASE Run(j) /\ ~CreateJobs(j) /\ ~Report(j)
  BY <1>2 DEF Run, GetSource, FetchCache, BuildFails, ContainerFails, RunContainer, DeployContainer,
              PushContainer, EndBody, PostOutput, GiveUp, PostCache, FetchInput, PostResult, ResultRefused
<1>3. CASE StartJob(j) \/ Report(j) \/ Skip(j) \/ Abort(j)
  BY <1>3 DEF StartJob, Report, Skip, Abort
<1>4. CASE CreateJobs(j)
  BY <1>4 DEF CreateJobs
<1>5. CASE Restart(j)
  BY <1>5 DEF Restart
<1> QED
  BY <1>1, <1>2, <1>3, <1>4, <1>5 DEF JobNext

\* What is missed is forgotten only when the job is executed again.
LEMMA RunnerHistory ==
    ASSUME TypeInv, NEW j \in Jobs, JobNext(j)
    PROVE  /\ UNCHANGED <<setup, store>>
           /\ results \subseteq results'
           /\ \A m \in missed : m \in missed' \/ (StartJob(j) /\ m[1] = j)
<1> USE DEF rows, storage, runner, leavings
<1>1. CASE StartJob(j) \/ RunFails(j) \/ Skip(j) \/ Abort(j) \/ Restart(j) \/ ClearCache(j)
  BY <1>1 DEF StartJob, RunFails, FetchFails, DeployFails, PostCacheFails, DownloadFails,
     PostResultFails,
              Skip, Abort, Restart, ClearCache, Insert
<1>2. CASE Run(j)
  BY <1>2 DEF Run, GetSource, FetchCache, BuildFails, ContainerFails, RunContainer, DeployContainer,
              PushContainer, EndBody, CreateJobs, PostOutput, GiveUp, PostCache, Report, FetchInput,
              PostResult, ResultRefused, Insert
<1> QED
  BY <1>1, <1>2 DEF JobNext

\* The handlers leave the runners alone, but for the one that waits.
LEMMA RequestHistory ==
    ASSUME TypeInv, NEW r \in requests, RequestNext(r)
    PROVE  /\ UNCHANGED <<setup, rows, deployed, exec, outcome, inputs, leavings>>
           /\ \/ UNCHANGED step
              \/ /\ step[r.job] = "output" /\ step' = [step EXCEPT ![r.job] = "cache"]
                 /\ Answer(r) /\ r.waiting /\ Len(r.frames) = 1
           /\ \A m \in missed : m \in missed' \/ (r.waiting /\ m[1] = r.job)
<1>1. CASE ReadTargets(r)
  BY <1>1 DEF ReadTargets, storage, runner
<1>2. CASE StoreOutput(r)
  BY <1>2 DEF StoreOutput, runner
<1>3. CASE \E c \in Clusters : Forward(r, c)
  BY <1>3 DEF Forward, storage, runner
<1>4. CASE Answer(r)
  <2>1. UNCHANGED <<setup, rows, storage, exec, outcome, inputs, leavings, tries, nFaults, missed>>
    BY <1>4 DEF Answer
  <2>2. CASE Len(r.frames) > 1
    BY <1>4, <2>1, <2>2, ReturnEffect DEF TypeInv, storage
  <2>3. CASE ~(Len(r.frames) > 1)
    <3>1. Len(r.frames) = 1 /\ step' = IF r.waiting THEN [step EXCEPT ![r.job] = "cache"] ELSE step
      BY <1>4, <2>3, ReplyEffect DEF TypeInv
    <3>2. r.waiting => step[r.job] = "output"
      BY DEF TypeInv, RequestsOK
    <3> QED
      BY <1>4, <2>1, <3>1, <3>2 DEF storage
  <2> QED
    BY <2>2, <2>3
<1>5. CASE \E n \in 0..MaxChain : RequestFails(r, n)
  BY <1>5 DEF RequestFails, storage, runner
<1> QED
  BY <1>1, <1>2, <1>3, <1>4, <1>5 DEF RequestNext, Serve

LEMMA OtherHistory ==
    ASSUME UNCHANGED vars \/ \E c \in Clusters : Deactivate(c) \/ Activate(c)
    PROVE  UNCHANGED <<setup, state, results, storage, runner, requests, missed>>
BY DEF vars, rows, Deactivate, Activate

(***************************************************************************)
(* The parents of a job that runs have ended, and stay so: a restart takes  *)
(* all that depends on them.                                               *)
(***************************************************************************)

ParentsInv == \A j \in Jobs : step[j] # "idle" => \A p \in Parents(j) : state[p] \in Ended

LEMMA ClosureStep ==
    ASSUME NEW j, NEW k \in Closure({j}), NEW l \in Children(k)
    PROVE  l \in Closure({j})
BY DEF Closure, Children

LEMMA ParentsStep ==
    ASSUME TypeInv, ParentsInv, [Next]_vars
    PROVE  ParentsInv'
<1> SUFFICES ASSUME NEW k \in Jobs, step'[k] # "idle", NEW p \in Parents(k)' PROVE state'[p] \in Ended
  BY DEF ParentsInv
<1>1. CASE \E c \in Clusters : Deactivate(c) \/ Activate(c)
  BY <1>1, OtherHistory DEF ParentsInv, Parents, runner
<1>2. ASSUME NEW r \in requests, RequestNext(r) PROVE state'[p] \in Ended
  BY <1>2, RequestHistory DEF ParentsInv, Parents, rows, TypeInv, JobsOK, ProgressOK
<1>3. ASSUME NEW j \in Jobs, JobNext(j) PROVE state'[p] \in Ended
  <2>1. p \in Jobs /\ p \in Parents(k) /\ k \in Children(p)
    BY <1>3, RunnerHistory, SetupType DEF Parents, Children, TypeInv, JobsOK, RowsOK
  <2>2. CASE StartJob(j) /\ k = j
    <3>1. state[p] \in On(k, p) /\ On(k, p) \subseteq Condition
      BY <2>1, <2>2, SetupType DEF StartJob, ConditionMet, TypeInv, JobsOK, RowsOK
    <3>2. p # k
      BY <2>2, <3>1 DEF StartJob, Condition, Outcome
    <3>3. state'[p] = state[p]
      BY <2>1, <2>2, <3>2 DEF StartJob, TypeInv, JobsOK, RowsOK
    <3> QED
      BY <3>1, <3>3 DEF Condition, Ended
  <2>3. CASE ~(StartJob(j) /\ k = j)
    <3>1. step[k] # "idle"
      <4>1. CASE k # j
        BY <1>3, <4>1, OtherRunners DEF Untouched
      <4>2. CASE k = j
        BY <1>3, <2>3, <4>2 DEF JobNext, Run, RunFails, GetSource, FetchCache, BuildFails,
           ContainerFails,
           RunContainer, DeployContainer, PushContainer, EndBody, CreateJobs, PostOutput, GiveUp, PostCache,
           Report, FetchInput, PostResult, ResultRefused, FetchFails, DeployFails, PostCacheFails, DownloadFails,
           PostResultFails, Skip, Abort, Restart, ClearCache, Go, TypeInv, JobsOK, ProgressOK, runner
      <4> QED
        BY <4>1, <4>2
    <3>2. state[p] \in Ended /\ state[k] = "running"
      BY <2>1, <3>1 DEF ParentsInv, TypeInv, JobsOK, RunsOK
    <3>3. ~(Restart(j) /\ p \in Closure({j}))
      BY <2>1, <3>2, ClosureStep DEF Restart, Restartable
    <3> QED
      BY <1>3, <2>1, <3>2, <3>3, RowChanges DEF Ended, Outcome
  <2> QED
    BY <2>2, <2>3
<1>4. CASE UNCHANGED vars
  BY <1>4, OtherHistory DEF ParentsInv, Parents, runner
<1> QED
  BY <1>1, <1>2, <1>3, <1>4, NextSplits

(***************************************************************************)
(* What an execution has done when it is about to finish.                  *)
(***************************************************************************)

Finishing(j, steps) == (step[j] \in steps /\ outcome[j] = "finished") \/ state[j] = "finished"

Posted(j, f) == \E r \in results : r.job = j /\ r.file[1] = f[1]

DeployedAll(j) ==
    Finishing(j, {"results", "jobs", "output", "cache", "report"}) =>
        \A d \in setup.deployments : deployed[j][d] = exec[j]

PostedAll(j) ==
    /\ Finishing(j, {"jobs", "output", "cache", "report"}) =>
          \A f \in left[j] \ lost[j] : Posted(j, f)
    /\ Finishing(j, {"deploy", "results"}) =>
          \A f \in left[j] \ lost[j] : f \in todo[j] \/ Posted(j, f)

FinishInv == \A j \in Jobs : DeployedAll(j) /\ PostedAll(j)

\* Nothing happens to the execution.
LEMMA FinishSame ==
    ASSUME NEW k \in Jobs, DeployedAll(k), PostedAll(k), Untouched(k), UNCHANGED setup, results \subseteq results',
           state'[k] = "finished" => state[k] = "finished"
    PROVE  DeployedAll(k)' /\ PostedAll(k)'
BY DEF DeployedAll, PostedAll, Finishing, Posted, Untouched

LEMMA FinishStep ==
    ASSUME TypeInv, FinishInv, [Next]_vars
    PROVE  FinishInv'
<1> SUFFICES ASSUME NEW k \in Jobs PROVE DeployedAll(k)' /\ PostedAll(k)'
  BY DEF FinishInv
<1>0. DeployedAll(k) /\ PostedAll(k)
  BY DEF FinishInv
<1>1. CASE UNCHANGED vars \/ \E c \in Clusters : Deactivate(c) \/ Activate(c)
  BY <1>0, <1>1, OtherHistory, FinishSame DEF Untouched, storage, runner, leavings
<1>2. ASSUME NEW r \in requests, RequestNext(r) PROVE DeployedAll(k)' /\ PostedAll(k)'
  <2>1. UNCHANGED <<setup, rows, deployed, exec, outcome, inputs, leavings>>
    BY <1>2, RequestHistory
  <2>2. step'[k] = step[k] \/ (step[k] = "output" /\ step'[k] = "cache")
    BY <1>2, RequestHistory DEF TypeInv, JobsOK, ProgressOK
  <2> QED
    BY <1>0, <2>1, <2>2 DEF DeployedAll, PostedAll, Finishing, Posted, rows, leavings
<1>3. ASSUME NEW j \in Jobs, JobNext(j), j # k PROVE DeployedAll(k)' /\ PostedAll(k)'
  BY <1>0, <1>3, FinishSame, OtherRunners, RowChanges, RunnerHistory
<1>4. ASSUME JobNext(k) PROVE DeployedAll(k)'
  <2> USE <1>0 DEF DeployedAll, Finishing, Go, Raise, rows, storage, runner, leavings, TypeInv,
     JobsOK,
     RowsOK, StorageOK, ProgressOK, RunsOK
  <2>1. CASE StartJob(k) \/ Restart(k) \/ Skip(k) \/ Abort(k) \/ ClearCache(k)
    BY <2>1 DEF StartJob, Restart, Skip, Abort, ClearCache
  <2>2. CASE RunFails(k)
    BY <2>2 DEF RunFails, FetchFails, DeployFails, PostCacheFails, DownloadFails, PostResultFails
  <2>3. CASE GetSource(k) \/ FetchCache(k) \/ BuildFails(k) \/ ContainerFails(k) \/ RunContainer(k)
             \/ DeployContainer(k) \/ PushContainer(k)
    BY <2>3 DEF GetSource, FetchCache, BuildFails, ContainerFails, RunContainer, DeployContainer,
       PushContainer, ToDeploy
  <2>4. CASE EndBody(k) \/ CreateJobs(k) \/ PostOutput(k) \/ GiveUp(k) \/ PostCache(k) \/ Report(k)
             \/ (\E p \in Jobs : FetchInput(k, p))
             \/ (\E f \in setup.files : PostResult(k, f) \/ ResultRefused(k, f))
    BY <2>4 DEF EndBody, CreateJobs, PostOutput, GiveUp, PostCache, Report, FetchInput,
       PostResult, ResultRefused
  <2> QED
    BY <1>4, <2>1, <2>2, <2>3, <2>4 DEF JobNext, Run
<1>5. ASSUME JobNext(k) PROVE PostedAll(k)'
  <2> USE <1>0 DEF PostedAll, Finishing, Posted, Go, Raise, rows, storage, runner, leavings,
     TypeInv,
     JobsOK, RowsOK, ProgressOK, LeavingsOK, RunsOK
  <2>1. CASE StartJob(k) \/ Restart(k) \/ Skip(k) \/ Abort(k) \/ ClearCache(k)
    BY <2>1 DEF StartJob, Restart, Skip, Abort, ClearCache
  <2>2. CASE FetchFails(k) \/ DeployFails(k) \/ PostCacheFails(k)
              \/ \E p \in Jobs : DownloadFails(k, p)
    BY <2>2 DEF FetchFails, DeployFails, PostCacheFails, DownloadFails
  <2>3. CASE \E f \in setup.files : PostResultFails(k, f)
    BY <2>3 DEF PostResultFails
  <2>4. CASE GetSource(k) \/ FetchCache(k) \/ BuildFails(k) \/ ContainerFails(k) \/ RunContainer(k)
             \/ DeployContainer(k) \/ PushContainer(k)
    BY <2>4 DEF GetSource, FetchCache, BuildFails, ContainerFails, RunContainer, DeployContainer,
       PushContainer, Leaves
  <2>5. CASE EndBody(k) \/ CreateJobs(k) \/ PostOutput(k) \/ GiveUp(k) \/ PostCache(k) \/ Report(k)
             \/ (\E p \in Jobs : FetchInput(k, p))
    BY <2>5 DEF EndBody, CreateJobs, PostOutput, GiveUp, PostCache, Report, FetchInput
  <2>6. ASSUME NEW f \in setup.files, PostResult(k, f) PROVE PostedAll(k)'
    <3>1. results \subseteq results'
      BY <2>6 DEF PostResult, Insert
    <3>2. \E r \in results' : r.job = k /\ r.file[1] = f[1]
      <4>1. CASE Accepts(k, f[1])
        <5> DEFINE row == [job |-> k, file |-> f, exec |-> exec[k]]
        <5>1. row \in results' /\ row.job = k /\ row.file[1] = f[1]
          BY <2>6, <4>1 DEF PostResult, Insert
        <5> HIDE DEF row
        <5> QED
          BY <5>1
      <4>2. CASE ~Accepts(k, f[1])
        BY <2>6, <4>2 DEF PostResult, Insert, Accepts
      <4> QED
        BY <4>1, <4>2
    <3> QED
      BY <2>6, <3>1, <3>2 DEF PostResult
  <2>7. ASSUME NEW f \in setup.files, ResultRefused(k, f) PROVE PostedAll(k)'
    BY <2>7 DEF ResultRefused
  <2> QED
    BY <1>5, <2>1, <2>2, <2>3, <2>4, <2>5, <2>6, <2>7 DEF JobNext, Run, RunFails
<1> QED
  BY <1>1, <1>2, <1>3, <1>4, <1>5, NextSplits

(***************************************************************************)
(* Where the output of a job is.                                           *)
(***************************************************************************)

\* What a child will find.
Uploaded(j) ==
    (step[j] = "cache" \/ Finishing(j, {"report"})) /\ wrote[j] =>
        \A k \in Children(j) : <<j, k>> \notin missed => store[ClusterOf(k)][j] = exec[j]

UploadInv == \A j \in Jobs : Uploaded(j)

\* The handler that the runner has called will still store the output in c, or
\* one it has called does.
OnItsWay(r, c) ==
    LET f == r.frames[1] IN
    \/ c = f.at /\ f.step = "store"
    \/ c # f.at /\ c \in f.targets
    \/ c # f.at /\ Len(r.frames) > 1 /\ r.frames[2].at = c /\ r.frames[2].step # "forward"

Covered(r, k) == store[ClusterOf(k)][r.job] = r.exec \/ OnItsWay(r, ClusterOf(k))

CoverInv ==
    \A r \in requests : r.waiting /\ r.frames[1].step # "read" =>
        \A k \in Children(r.job) : <<r.job, k>> \notin missed => Covered(r, k)

\* An output is overwritten by the same execution, or is missed.
LEMMA StoreChanges ==
    ASSUME TypeInv, NEW r \in requests, RequestNext(r), NEW c \in Clusters, NEW j \in Jobs, NEW k \in Children(j),
           <<j, k>> \notin missed'
    PROVE  store'[c][j] = store[c][j] \/ store'[c][j] = exec[j]
<1>1. CASE StoreOutput(r)
  <2> DEFINE at == r.frames[Len(r.frames)].at
  <2>1. store' = [store EXCEPT ![at][r.job] = r.exec] /\ at \in Clusters
    BY <1>1, StoreOutputEffect, AtHand DEF TypeInv, Frame
  <2>2. CASE r.job = j
    <3>1. r.exec = exec[j]
      BY <1>1, <2>2 DEF StoreOutput
    <3> QED
      BY <2>1, <2>2, <3>1 DEF TypeInv, JobsOK, StorageOK
  <2>3. CASE r.job # j
    BY <2>1, <2>3 DEF TypeInv, JobsOK, StorageOK
  <2> QED
    BY <2>2, <2>3
<1>2. CASE ~StoreOutput(r)
  BY <1>2 DEF RequestNext, Serve, ReadTargets, Forward, Answer, RequestFails, storage
<1> QED
  BY <1>1, <1>2

LEMMA ChildType ==
    ASSUME TypeInv, NEW j, NEW k \in Children(j)
    PROVE  k \in Jobs /\ ClusterOf(k) \in Clusters
BY SetupType DEF Children, ClusterOf, TypeInv, JobsOK, RowsOK

LEMMA UploadStep ==
    ASSUME TypeInv, CoverInv, UploadInv, [Next]_vars
    PROVE  UploadInv'
<1> SUFFICES ASSUME NEW j \in Jobs, step'[j] = "cache" \/ Finishing(j, {"report"})', wrote'[j],
                    NEW k \in Children(j)', <<j, k>> \notin missed'
             PROVE  (store[ClusterOf(k)][j] = exec[j])'
  BY DEF UploadInv, Uploaded
<1>0. ASSUME UNCHANGED setup
      PROVE  k \in Children(j) /\ k \in Jobs /\ ClusterOf(k) \in Clusters /\ ClusterOf(k)' = ClusterOf(k)
  <2>1. k \in Children(j) /\ ClusterOf(k)' = ClusterOf(k)
    BY <1>0 DEF Children, Parents, ClusterOf
  <2> QED
    BY <2>1, ChildType
<1>1. ASSUME UNCHANGED <<setup, store>>, step[j] = "cache" \/ Finishing(j, {"report"}), wrote[j],
             exec'[j] = exec[j], <<j, k>> \notin missed
      PROVE  (store[ClusterOf(k)][j] = exec[j])'
  BY <1>0, <1>1 DEF UploadInv, Uploaded
<1>2. CASE UNCHANGED vars \/ \E c \in Clusters : Deactivate(c) \/ Activate(c)
  BY <1>1, <1>2, OtherHistory DEF Finishing, storage, runner, leavings
<1>3. ASSUME NEW i \in Jobs, JobNext(i), i # j PROVE (store[ClusterOf(k)][j] = exec[j])'
  <2>1. Untouched(j) /\ UNCHANGED <<setup, store>> /\ <<j, k>> \notin missed
    BY <1>3, OtherRunners, RunnerHistory
  <2>2. state'[j] = "finished" => state[j] = "finished"
    BY <1>3, RowChanges
  <2> QED
    BY <1>1, <2>1, <2>2 DEF Finishing, Untouched
<1>4. ASSUME JobNext(j) PROVE (store[ClusterOf(k)][j] = exec[j])'
  <2>1. UNCHANGED <<setup, store>> /\ (<<j, k>> \notin missed \/ StartJob(j))
    BY <1>4, RunnerHistory
  <2>2. (step[j] = "cache"
  \/ Finishing(j, {"report"})) /\ wrote[j] /\ exec'[j] = exec[j] /\ ~StartJob(j)
    <3> USE DEF Finishing, Go, Raise, rows, storage, runner, leavings, TypeInv, JobsOK, RowsOK,
       ProgressOK, LeavingsOK, RunsOK
    <3>1. CASE StartJob(j) \/ Restart(j) \/ Skip(j) \/ Abort(j) \/ ClearCache(j)
      BY <3>1 DEF StartJob, Restart, Skip, Abort, ClearCache
    <3>2. CASE RunFails(j) /\ ~StartJob(j)
      BY <3>2 DEF RunFails, FetchFails, DeployFails, PostCacheFails, DownloadFails, PostResultFails
    <3>3. CASE GetSource(j) \/ FetchCache(j) \/ BuildFails(j) \/ ContainerFails(j)
                \/ RunContainer(j)
               \/ DeployContainer(j) \/ PushContainer(j)
      BY <3>3 DEF GetSource, FetchCache, BuildFails, ContainerFails, RunContainer, DeployContainer,
         PushContainer
    <3>4. CASE EndBody(j) \/ GiveUp(j)
      BY <3>4 DEF EndBody, GiveUp
    <3>7. CASE PostOutput(j) \/ PostCache(j)
      BY <3>7 DEF StartJob, PostOutput, PostCache
    <3>8. CASE Report(j)
      BY <3>8 DEF StartJob, Report
    <3>5. CASE CreateJobs(j)
      BY <3>5 DEF CreateJobs
    <3>6. CASE (\E p \in Jobs : FetchInput(j, p))
             \/ (\E f \in setup.files : PostResult(j, f) \/ ResultRefused(j, f))
      BY <3>6 DEF FetchInput, PostResult, ResultRefused
    <3> QED
      BY <1>4, <3>1, <3>2, <3>3, <3>4, <3>5, <3>6, <3>7, <3>8 DEF JobNext, Run
  <2> QED
    BY <1>1, <2>1, <2>2
<1>5. ASSUME NEW r \in requests, RequestNext(r) PROVE (store[ClusterOf(k)][j] = exec[j])'
  <2>1. /\ UNCHANGED <<setup, rows, deployed, exec, outcome, inputs, leavings>>
        /\ \/ UNCHANGED step
           \/ /\ step[r.job] = "output" /\ step' = [step EXCEPT ![r.job] = "cache"]
              /\ Answer(r) /\ r.waiting /\ Len(r.frames) = 1
    BY <1>5, RequestHistory
  <2>2. k \in Children(j) /\ k \in Jobs /\ ClusterOf(k) \in Clusters /\ ClusterOf(k)' = ClusterOf(k)
    BY <1>0, <2>1
  <2>3. store'[ClusterOf(k)][j] = store[ClusterOf(k)][j] \/ store'[ClusterOf(k)][j] = exec[j]
    BY <1>5, <2>2, StoreChanges
  <2>4. CASE step[j] = "cache" \/ Finishing(j, {"report"})
    <3>1. ~(r.waiting /\ r.job = j)
      BY <2>4 DEF TypeInv, RequestsOK, JobsOK, RunsOK, Finishing
    <3>2. <<j, k>> \notin missed
      BY <1>5, <3>1, RequestHistory
    <3> QED
      BY <2>1, <2>2, <2>3, <2>4, <3>2 DEF UploadInv, Uploaded, leavings
  <2>5. CASE ~(step[j] = "cache" \/ Finishing(j, {"report"}))
    <3>1. Answer(r) /\ r.waiting /\ Len(r.frames) = 1 /\ r.job = j
      BY <2>1, <2>5 DEF Finishing, rows, TypeInv, JobsOK, ProgressOK
    <3>2. r.frames[1].step = "forward" /\ r.frames[1].targets = {}
      <4>1. ~(Len(r.frames) > 1)
        BY <3>1
      <4> QED
        BY <3>1, <4>1, ReplyEffect DEF TypeInv
    <3>3. UNCHANGED <<store, missed>> /\ r.exec = exec[j]
      BY <3>1 DEF Answer, storage, TypeInv, RequestsOK
    <3>4. Covered(r, k)
      BY <2>2, <3>1, <3>2, <3>3 DEF CoverInv
    <3>5. ~OnItsWay(r, ClusterOf(k))
      BY <3>1, <3>2 DEF OnItsWay
    <3> QED
      BY <2>1, <2>2, <3>1, <3>3, <3>4, <3>5 DEF Covered
  <2> QED
    BY <2>4, <2>5
<1> QED
  BY <1>2, <1>3, <1>4, <1>5, NextSplits

\* The step of a handler under a waiting runner: what was covered still is.
LEMMA CoverOwn ==
    ASSUME TypeInv, CoverInv, NEW r \in requests, r.waiting, RequestNext(r),
           NEW q \in requests', q.waiting, q.job = r.job, q.frames[1].step # "read",
           NEW k \in Children(r.job), <<r.job, k>> \notin missed'
    PROVE  q.job = r.job /\ q.exec = r.exec /\ (store'[ClusterOf(k)][r.job] = q.exec
    \/ OnItsWay(q, ClusterOf(k)))
<1> DEFINE c == ClusterOf(k)
           n == Len(r.frames)
<1>0. /\ k \in Jobs /\ c \in Clusters /\ r.job \in Jobs /\ r.exec = exec[r.job] /\ step[r.job] = "output"
      /\ r.frames[1].at = ClusterOf(r.job) /\ r.frames[n] \in Frame
      /\ n \in 1..n /\ 1 \in 1..n /\ (n # 1 => 1 \in 1..(n - 1))
      /\ n \in Nat /\ r \in RequestType /\ DOMAIN r.frames = 1..n
  BY AtHand, ChildType, Places DEF TypeInv, RequestsOK
<1>6. q \notin requests \ {r}
  BY DEF TypeInv, RequestsOK
<1>1. CASE ReadTargets(r)
  <2> DEFINE f == [r.frames[n] EXCEPT !.step = "store", !.targets = Targets(r.job, r.frames[n].at)]
  <2>1. Becomes(r, Top(r, f)) /\ Top(r, f).job = r.job /\ Top(r, f).exec = r.exec
        /\ Top(r, f).frames = [r.frames EXCEPT ![n] = f] /\ Len(Top(r, f).frames) = n /\ r.frames[n].step = "read"
    BY <1>1, ReadTargetsEffect DEF TypeInv
  <2>2. q.job = r.job /\ q.exec = r.exec /\ q.frames = [r.frames EXCEPT ![n] = f] /\ Len(q.frames) = n
    BY <1>6, <2>1 DEF Becomes
  <2>3. f.at = r.frames[n].at /\ f.step = "store" /\ f.targets = Targets(r.job, r.frames[n].at)
    BY <1>0 DEF Frame
  <2>4. UNCHANGED store
    BY <1>1 DEF ReadTargets, storage
  <2> HIDE DEF f
  <2>5. CASE n = 1
    <3>1. q.frames[1] = f
      BY <1>0, <2>2, <2>5
    <3>2. <<r.job, k>> \notin NotWaiting(r.job)
      BY <1>1, <2>5 DEF ReadTargets
    <3>3. c = ClusterOf(r.job) \/ (state[k] = "queued" /\ c \in active)
      BY <3>2 DEF NotWaiting
    <3>4. c # ClusterOf(r.job) => c \in Targets(r.job, r.frames[n].at)
      BY <1>0, <2>5, <3>3 DEF Targets
    <3> QED
      BY <1>0, <2>2, <2>3, <2>5, <3>1, <3>4 DEF OnItsWay
  <2>6. CASE n # 1
    <3>1. q.frames[1] = r.frames[1] /\ missed' = missed
      BY <1>0, <1>1, <2>2, <2>6 DEF ReadTargets
    <3>2. Covered(r, k)
      BY <3>1 DEF CoverInv
    <3>3. n > 1 => q.frames[2] = r.frames[2] \/ (n = 2 /\ q.frames[2] = f)
      BY <1>0, <2>2, <2>6
    <3> QED
      BY <2>2, <2>3, <2>4, <3>1, <3>2, <3>3 DEF Covered, OnItsWay
  <2> QED
    BY <1>0, <2>5, <2>6
<1>2. CASE StoreOutput(r)
  <2> DEFINE f == [r.frames[n] EXCEPT !.step = "forward"]
  <2>1. Becomes(r, Top(r, f)) /\ Top(r, f).job = r.job /\ Top(r, f).exec = r.exec
        /\ Top(r, f).frames = [r.frames EXCEPT ![n] = f] /\ Len(Top(r, f).frames) = n /\ r.frames[n].step = "store"
        /\ store' = [store EXCEPT ![r.frames[n].at][r.job] = r.exec]
    BY <1>2, StoreOutputEffect DEF TypeInv
  <2>2. q.job = r.job /\ q.exec = r.exec /\ q.frames = [r.frames EXCEPT ![n] = f] /\ Len(q.frames) = n
    BY <1>6, <2>1 DEF Becomes
  <2>3. f.at = r.frames[n].at /\ f.step = "forward" /\ f.targets = r.frames[n].targets
    BY <1>0 DEF Frame
  <2>4. r.frames[1].step # "read" /\ missed' = missed
    <3>1. missed' = missed
      BY <1>0, <1>2 DEF StoreOutput
    <3> QED
      BY <1>0, <2>1, <2>2, <3>1
  <2>5. Covered(r, k)
    BY <2>4 DEF CoverInv
  <2>6. store'[c][r.job] = IF c = r.frames[n].at THEN r.exec ELSE store[c][r.job]
    BY <1>0, <2>1 DEF TypeInv, JobsOK, StorageOK
  <2> HIDE DEF f
  <2>7. \A i \in 1..n : q.frames[i] = IF i = n THEN f ELSE r.frames[i]
    BY <1>0, <2>2
  <2>8. n > 1 => 2 \in 1..n
    BY <1>0
  <2> QED
    BY <1>0, <2>2, <2>3, <2>5, <2>6, <2>7, <2>8 DEF Covered, OnItsWay
<1>3. ASSUME NEW d \in Clusters, Forward(r, d)
      PROVE  q.job = r.job /\ q.exec = r.exec /\ (store'[c][r.job] = q.exec \/ OnItsWay(q, c))
  <2> DEFINE f == [r.frames[n] EXCEPT !.targets = @ \ {d}]
             s == [Top(r, f) EXCEPT !.frames = Append(@, Handler(d))]
  <2>1. /\ Becomes(r, s) /\ s.job = r.job /\ s.exec = r.exec /\ Len(s.frames) = n + 1
        /\ s.frames[n] = f /\ s.frames[n + 1] = Handler(d)
        /\ \A i \in 1..(n - 1) : s.frames[i] = r.frames[i]
        /\ r.frames[n].step = "forward"
    BY <1>3, ForwardEffect DEF TypeInv
  <2>2. f.at = r.frames[n].at /\ f.step = "forward" /\ f.targets = r.frames[n].targets \ {d}
    BY <1>0, <2>1 DEF Frame
  <2>3. q = s /\ UNCHANGED <<store, missed>>
    BY <1>3, <1>6, <2>1 DEF Becomes, Forward, storage
  <2> HIDE DEF s, f
  <2>4. r.frames[1].step # "read"
    BY <1>0, <2>1, <2>3
  <2>5. Covered(r, k)
    BY <2>3, <2>4 DEF CoverInv
  <2>6. CASE n = 1
    BY <1>0, <2>1, <2>2, <2>3, <2>5, <2>6 DEF Covered, OnItsWay, Handler
  <2>7. CASE n # 1
    <3>1. n > 1 /\ q.frames[1] = r.frames[1]
      BY <1>0, <2>1, <2>3, <2>7
    <3>2. q.frames[2] = r.frames[2] \/ (n = 2 /\ q.frames[2] = f)
      <4>1. CASE n = 2
        BY <2>1, <2>3, <4>1
      <4>2. CASE n # 2
        <5>1. 2 \in 1..(n - 1)
          BY <2>7, <4>2, Places DEF TypeInv
        <5> QED
          BY <2>1, <2>3, <5>1
      <4> QED
        BY <4>1, <4>2
    <3> QED
      BY <1>0, <2>1, <2>2, <2>3, <2>5, <3>1, <3>2 DEF Covered, OnItsWay
  <2> QED
    BY <2>6, <2>7
<1>4. CASE Answer(r)
  <2>1. n > 1
    <3> SUFFICES ASSUME ~(n > 1) PROVE FALSE
      OBVIOUS
    <3> QED
      BY <1>4, <1>6, ReplyEffect DEF TypeInv
  <2> DEFINE s == [r EXCEPT !.frames = Front(@)]
  <2>2. /\ Becomes(r, s) /\ s.job = r.job /\ s.exec = r.exec /\ Len(s.frames) = n - 1
        /\ \A i \in 1..(n - 1) : s.frames[i] = r.frames[i]
        /\ r.frames[n].step = "forward"
    BY <1>4, <2>1, ReturnEffect DEF TypeInv
  <2>3. q = s /\ UNCHANGED <<store, missed>>
    BY <1>4, <1>6, <2>2 DEF Becomes, Answer, storage
  <2> HIDE DEF s
  <2>4. q.frames[1] = r.frames[1] /\ (n > 2 => q.frames[2] = r.frames[2])
    BY <1>0, <2>1, <2>2, <2>3
  <2>5. Covered(r, k)
    BY <2>3, <2>4 DEF CoverInv
  <2> QED
    BY <1>0, <2>1, <2>2, <2>3, <2>4, <2>5 DEF Covered, OnItsWay
<1>5. ASSUME NEW m \in 0..MaxChain, RequestFails(r, m) PROVE FALSE
  BY <1>5, <1>6, RequestFailsEffect DEF TypeInv, Becomes
<1> QED
  BY <1>1, <1>2, <1>3, <1>4, <1>5 DEF RequestNext, Serve

\* A waiting request comes from one.
LEMMA NewRequest ==
    ASSUME TypeInv, NEW r \in requests, RequestNext(r), NEW q \in requests', q \notin requests, q.waiting
    PROVE  r.waiting /\ q.job = r.job
<1> USE DEF TypeInv
<1>1. CASE ReadTargets(r)
  <2> DEFINE s == Top(r, [r.frames[Len(r.frames)] EXCEPT !.step = "store",
                 !.targets = Targets(r.job, r.frames[Len(r.frames)].at)])
  <2>1. Becomes(r, s) /\ s.job = r.job /\ s.waiting = r.waiting
    BY <1>1, ReadTargetsEffect
  <2> HIDE DEF s
  <2> QED
    BY <2>1 DEF Becomes
<1>2. CASE StoreOutput(r)
  <2> DEFINE s == Top(r, [r.frames[Len(r.frames)] EXCEPT !.step = "forward"])
  <2>1. Becomes(r, s) /\ s.job = r.job /\ s.waiting = r.waiting
    BY <1>2, StoreOutputEffect
  <2> HIDE DEF s
  <2> QED
    BY <2>1 DEF Becomes
<1>3. ASSUME NEW c \in Clusters, Forward(r, c) PROVE r.waiting /\ q.job = r.job
  <2> DEFINE f == [r.frames[Len(r.frames)] EXCEPT !.targets = @ \ {c}]
             s == [Top(r, f) EXCEPT !.frames = Append(@, Handler(c))]
  <2>1. Becomes(r, s) /\ s.job = r.job /\ s.waiting = r.waiting
    BY <1>3, ForwardEffect
  <2> HIDE DEF s
  <2> QED
    BY <2>1 DEF Becomes
<1>4. CASE Answer(r) /\ Len(r.frames) > 1
  <2> DEFINE s == [r EXCEPT !.frames = Front(@)]
  <2>1. Becomes(r, s) /\ s.job = r.job /\ s.waiting = r.waiting
    BY <1>4, ReturnEffect
  <2> HIDE DEF s
  <2> QED
    BY <2>1 DEF Becomes
<1>5. CASE Answer(r) /\ ~(Len(r.frames) > 1)
  BY <1>5, ReplyEffect
<1>6. CASE \E n \in 0..MaxChain : RequestFails(r, n)
  BY <1>6, RequestFailsEffect DEF Becomes
<1> QED
  BY <1>1, <1>2, <1>3, <1>4, <1>5, <1>6 DEF RequestNext, Serve

LEMMA CoverStep ==
    ASSUME TypeInv, CoverInv, [Next]_vars
    PROVE  CoverInv'
<1> SUFFICES ASSUME NEW q \in requests', q.waiting, q.frames[1].step # "read",
                    NEW k \in Children(q.job)', <<q.job, k>> \notin missed'
             PROVE  Covered(q, k)'
  BY DEF CoverInv
<1>0. UNCHANGED setup
  <2>1. ASSUME NEW j \in Jobs, JobNext(j) PROVE UNCHANGED setup
    BY <2>1, RunnerHistory
  <2>2. ASSUME NEW r \in requests, RequestNext(r) PROVE UNCHANGED setup
    BY <2>2, RequestHistory
  <2> QED
    BY <2>1, <2>2, OtherHistory, NextSplits
<1>1. k \in Children(q.job) /\ ClusterOf(k)' = ClusterOf(k) /\ ClusterOf(k) \in Clusters
  <2>1. k \in Children(q.job) /\ ClusterOf(k)' = ClusterOf(k)
    BY <1>0 DEF Children, Parents, ClusterOf
  <2> QED
    BY <2>1, ChildType
<1>2. Covered(q, k)' <=> (store'[ClusterOf(k)][q.job] = q.exec \/ OnItsWay(q, ClusterOf(k)))
  BY <1>1 DEF Covered, OnItsWay
<1>3. ASSUME q \in requests, <<q.job, k>> \notin missed,
             store'[ClusterOf(k)][q.job] = store[ClusterOf(k)][q.job]
             \/ store'[ClusterOf(k)][q.job] = exec[q.job]
      PROVE  Covered(q, k)'
  <2>1. Covered(q, k) /\ q.exec = exec[q.job]
    BY <1>1, <1>3 DEF CoverInv, TypeInv, RequestsOK
  <2> QED
    BY <1>2, <1>3, <2>1 DEF Covered
<1>4. CASE UNCHANGED vars \/ \E c \in Clusters : Deactivate(c) \/ Activate(c)
  BY <1>3, <1>4, OtherHistory DEF storage
<1>5. ASSUME NEW j \in Jobs, JobNext(j) PROVE Covered(q, k)'
  <2>1. UNCHANGED store /\ (<<q.job, k>> \notin missed \/ (StartJob(j) /\ q.job = j))
    BY <1>5, RunnerHistory
  <2>2. q \in requests
    <3>1. CASE PostOutput(j)
      BY <3>1 DEF PostOutput, Request, Handler
    <3>2. CASE Abort(j)
      BY <3>2 DEF Abort, TypeInv, RequestsOK, RequestType
    <3>3. CASE ~PostOutput(j) /\ ~Abort(j)
      BY <1>5, <3>3 DEF JobNext, Run, RunFails, StartJob, GetSource, FetchCache, BuildFails,
         ContainerFails,
         RunContainer, DeployContainer, PushContainer, EndBody, CreateJobs, GiveUp, PostCache,
         Report, FetchInput, PostResult, ResultRefused, FetchFails, DeployFails, PostCacheFails, DownloadFails,
         PostResultFails, Skip, Restart, ClearCache, runner
    <3> QED
      BY <3>1, <3>2, <3>3
  <2>3. ~(StartJob(j) /\ q.job = j)
    BY <2>2 DEF StartJob, TypeInv, JobsOK, RunsOK, RequestsOK
  <2> QED
    BY <1>3, <2>1, <2>2, <2>3
<1>6. ASSUME NEW r \in requests, RequestNext(r) PROVE Covered(q, k)'
  <2>1. CASE q \in requests /\ ~(r.waiting /\ r.job = q.job)
    <3>1. <<q.job, k>> \notin missed
      BY <1>6, <2>1, RequestHistory
    <3>2. q.job \in Jobs
      BY <2>1, AtHand DEF TypeInv
    <3> QED
      BY <1>1, <1>3, <1>6, <2>1, <3>1, <3>2, StoreChanges
  <2>2. CASE r.waiting /\ r.job = q.job
    BY <1>1, <1>2, <1>6, <2>2, CoverOwn
  <2>3. CASE q \notin requests
    BY <1>6, <2>2, <2>3, NewRequest
  <2> QED
    BY <2>1, <2>2, <2>3
<1> QED
  BY <1>4, <1>5, <1>6, NextSplits

(***************************************************************************)
(* What a job has got of its parents.                                      *)
(***************************************************************************)

Known(j, i) ==
    /\ i[1] \in Parents(j)
    /\ state[i[1]] = "finished" /\ wrote[i[1]] /\ <<i[1], j>> \notin missed => i[2] = exec[i[1]]

InputsInv == \A j \in Jobs : step[j] \in {"source", "inputs", "body"} => \A i \in inputs[j] : Known(j, i)

\* The parent of a job that runs has ended and does not move.
LEMMA ParentQuiet ==
    ASSUME TypeInv, ParentsInv, NEW j \in Jobs, step[j] # "idle", NEW p \in Parents(j), [Next]_vars
    PROVE  /\ exec'[p] = exec[p] /\ wrote'[p] = wrote[p] /\ UNCHANGED setup
           /\ \A k : <<p, k>> \in missed => <<p, k>> \in missed'
           /\ state'[p] = "finished" => state[p] = "finished"
<1>1. p \in Jobs /\ state[p] \in Ended
  BY SetupType DEF ParentsInv, Parents, TypeInv, JobsOK, RowsOK
<1>5. state[p] \notin {"none", "queued", "running"} /\ step[p] = "idle"
  BY <1>1 DEF Ended, Outcome, TypeInv, JobsOK, RunsOK
<1>6. state'[p] = "finished" => state[p] = "finished"
  <2>1. ASSUME NEW i \in Jobs, JobNext(i) PROVE state'[p] = "finished" => state[p] = "finished"
    BY <1>1, <1>5, <2>1, RowChanges
  <2>2. ASSUME NEW r \in requests, RequestNext(r) PROVE state' = state
    BY <2>2, RequestHistory DEF rows
  <2> QED
    BY <2>1, <2>2, OtherHistory, NextSplits
<1>2. ASSUME NEW i \in Jobs, JobNext(i)
      PROVE  /\ exec'[p] = exec[p] /\ wrote'[p] = wrote[p] /\ UNCHANGED setup
             /\ \A k : <<p, k>> \in missed => <<p, k>> \in missed'
  <2>1. CASE i # p
    BY <1>1, <1>2, <2>1, OtherRunners, RunnerHistory DEF Untouched
  <2>2. CASE i = p
    <3>1. Skip(p) \/ Restart(p) \/ ClearCache(p) \/ Abort(p)
      BY <1>1, <1>5, <1>2, <2>2 DEF JobNext, Run, RunFails, StartJob, GetSource, FetchCache,
         BuildFails,
         ContainerFails,
         RunContainer, DeployContainer, PushContainer, EndBody, CreateJobs, PostOutput, GiveUp, PostCache,
         Report, FetchInput, PostResult, ResultRefused, FetchFails, DeployFails, PostCacheFails, DownloadFails,
         PostResultFails
    <3> QED
      BY <1>1, <3>1 DEF Skip, Restart, ClearCache, Abort, runner, leavings
  <2> QED
    BY <2>1, <2>2
<1>3. ASSUME NEW r \in requests, RequestNext(r)
      PROVE  /\ exec'[p] = exec[p] /\ wrote'[p] = wrote[p] /\ UNCHANGED setup
             /\ \A k : <<p, k>> \in missed => <<p, k>> \in missed'
  <2>1. ~(r.waiting /\ r.job = p)
    BY <1>1, <1>5 DEF TypeInv, RequestsOK
  <2> QED
    BY <1>3, <2>1, RequestHistory DEF leavings
<1> QED
  BY <1>2, <1>3, <1>6, OtherHistory, NextSplits DEF runner, leavings

LEMMA InputsStep ==
    ASSUME TypeInv, ParentsInv, UploadInv, InputsInv, [Next]_vars
    PROVE  InputsInv'
<1> SUFFICES ASSUME NEW j \in Jobs, step'[j] \in {"source", "inputs", "body"}, NEW i \in inputs'[j]
             PROVE  Known(j, i)'
  BY DEF InputsInv
<1>1. ASSUME step[j] # "idle", Known(j, i) PROVE Known(j, i)'
  BY <1>1, ParentQuiet DEF Known, Parents
<1>2. CASE step[j] \in {"source", "inputs", "body"} /\ inputs'[j] = inputs[j]
  BY <1>1, <1>2 DEF InputsInv
<1>3. CASE StartJob(j)
  BY <1>3 DEF StartJob, TypeInv, JobsOK, ProgressOK
<1>4. ASSUME NEW p \in Jobs, FetchInput(j, p) PROVE Known(j, i)'
  <2>1. p \in Parents(j) /\ step[j] = "inputs"
    BY <1>4 DEF FetchInput
  <2>2. i \in inputs[j] \/ i = <<p, store[ClusterOf(j)][p]>>
    BY <1>4 DEF FetchInput, Input, TypeInv, JobsOK, ProgressOK
  <2>3. CASE i \in inputs[j]
    BY <1>1, <2>1, <2>3 DEF InputsInv
  <2>4. CASE i = <<p, store[ClusterOf(j)][p]>>
    <3>1. j \in Children(p)
      BY <2>1 DEF Children
    <3>2. state[p] = "finished" /\ wrote[p] /\ <<p, j>> \notin missed => store[ClusterOf(j)][p] = exec[p]
      BY <3>1 DEF UploadInv, Uploaded, Finishing
    <3> QED
      BY <1>1, <2>1, <2>4, <3>2 DEF Known
  <2> QED
    BY <2>2, <2>3, <2>4
<1>5. ASSUME NEW p \in Jobs, DownloadFails(j, p) PROVE Known(j, i)'
  <2>1. p \in Parents(j) /\ step[j] = "inputs" /\ <<p, j>> \in missed' /\ UNCHANGED setup
    BY <1>5 DEF DownloadFails
  <2>2. i \in inputs[j] \/ i = <<p, 0>>
    BY <1>5 DEF DownloadFails, Input, TypeInv, JobsOK, ProgressOK
  <2>3. CASE i \in inputs[j]
    BY <1>1, <2>1, <2>3 DEF InputsInv
  <2>4. CASE i = <<p, 0>>
    BY <2>1, <2>4 DEF Known, Parents
  <2> QED
    BY <2>2, <2>3, <2>4
<1>6. ASSUME JobNext(j), ~StartJob(j), ~(\E p \in Jobs : FetchInput(j, p) \/ DownloadFails(j, p))
      PROVE  step[j] \in {"source", "inputs", "body"} /\ inputs'[j] = inputs[j]
  <2> USE DEF Go, Raise, runner, leavings, TypeInv, JobsOK, ProgressOK
  <2>1. CASE FetchFails(j) \/ DeployFails(j) \/ PostCacheFails(j)
          \/ (\E f \in setup.files : PostResultFails(j, f))
             \/ Skip(j) \/ Abort(j) \/ Restart(j) \/ ClearCache(j)
    BY <2>1 DEF FetchFails, DeployFails, PostCacheFails, PostResultFails, Skip, Abort, Restart,
       ClearCache
  <2>2. CASE GetSource(j) \/ FetchCache(j) \/ BuildFails(j) \/ ContainerFails(j) \/ RunContainer(j)
             \/ DeployContainer(j) \/ PushContainer(j)
    BY <2>2 DEF GetSource, FetchCache, BuildFails, ContainerFails, RunContainer, DeployContainer,
       PushContainer
  <2>3. CASE EndBody(j) \/ CreateJobs(j) \/ PostOutput(j) \/ GiveUp(j) \/ PostCache(j) \/ Report(j)
             \/ (\E f \in setup.files : PostResult(j, f) \/ ResultRefused(j, f))
    BY <2>3 DEF EndBody, CreateJobs, PostOutput, GiveUp, PostCache, Report, PostResult,
       ResultRefused
  <2> QED
    BY <1>6, <2>1, <2>2, <2>3 DEF JobNext, Run, RunFails
<1>7. ASSUME NEW k \in Jobs, JobNext(k), k # j
      PROVE  step[j] \in {"source", "inputs", "body"} /\ inputs'[j] = inputs[j]
  BY <1>7, OtherRunners DEF Untouched
<1>8. ASSUME NEW r \in requests, RequestNext(r)
      PROVE  step[j] \in {"source", "inputs", "body"} /\ inputs'[j] = inputs[j]
  BY <1>8, RequestHistory DEF TypeInv, JobsOK, ProgressOK
<1>9. ASSUME UNCHANGED vars \/ \E c \in Clusters : Deactivate(c) \/ Activate(c)
      PROVE  step[j] \in {"source", "inputs", "body"} /\ inputs'[j] = inputs[j]
  BY <1>9, OtherHistory DEF runner
<1> QED
  BY <1>2, <1>3, <1>4, <1>5, <1>6, <1>7, <1>8, <1>9, NextSplits

(***************************************************************************)
(* The invariant.                                                          *)
(***************************************************************************)

DataInv == TypeInv /\ ParentsInv /\ FinishInv /\ CoverInv /\ UploadInv /\ InputsInv

LEMMA DataInit == Init => DataInv
<1> SUFFICES ASSUME Init PROVE DataInv
  OBVIOUS
<1>1. TypeInv
  BY InitType
<1>2. ParentsInv /\ CoverInv /\ InputsInv
  BY DEF Init, ParentsInv, CoverInv, InputsInv
<1>3. FinishInv /\ UploadInv
  BY DEF Init, FinishInv, DeployedAll, PostedAll, UploadInv, Uploaded, Finishing
<1> QED
  BY <1>1, <1>2, <1>3 DEF DataInv

LEMMA DataInvariance == Spec => []DataInv
<1>1. DataInv /\ [Next]_vars => DataInv'
  BY TypeStep, ParentsStep, FinishStep, CoverStep, UploadStep, InputsStep DEF DataInv
<1> QED
  BY <1>1, DataInit, PTL DEF Spec

\* A job has, before its container runs, the output of the last execution of
\* each finished parent that left some, in whatever cluster it ran, however often the
\* upload was tried and whichever handlers failed; but for what it has missed.
THEOREM InputsArrive == Spec => []InputsComplete
<1>1. DataInv => InputsComplete
  BY DEF DataInv, InputsInv, Known, InputsComplete
<1> QED
  BY <1>1, DataInvariance, PTL

\* The images of a finished job are those of its last execution, in all of its
\* registries.
THEOREM ImagesDeployed == Spec => []FinishedIsDeployed
<1>1. DataInv => FinishedIsDeployed
  BY DEF DataInv, FinishInv, DeployedAll, Finishing, FinishedIsDeployed
<1> QED
  BY <1>1, DataInvariance, PTL

\* A finished job has a row of each kind of result it left and that was not
\* refused, whatever was not answered.
THEOREM ResultsAreKept == Spec => []ResultsKept
<1>1. DataInv => ResultsKept
  BY DEF DataInv, FinishInv, PostedAll, Finishing, Posted, ResultsKept
<1> QED
  BY <1>1, DataInvariance, PTL
=============================================================================
