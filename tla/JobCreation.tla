----------------------------- MODULE JobCreation -----------------------------
(***************************************************************************)
(* How a build gets its jobs. The runner of its first job, 'Create Jobs',   *)
(* validates the infrabox.json of the commit (pyinfrabox), turns the        *)
(* workflow tree into one list of jobs (get_job_list in src/job/job.py) and  *)
(* posts the list to the job API, which inserts it into the job table        *)
(* (CreateJobs in src/api/handlers/job_api.py). Any other job may leave a    *)
(* document in its output folder, whose jobs are created in the same way     *)
(* before the job has finished.                                             *)
(*                                                                         *)
(* How a queued job comes to run, and to its end, is the subject of         *)
(* JobLifecycle; here that is one step each. A job of a list is named by its *)
(* path in the workflow tree. A list is a set: what it is sorted by          *)
(* (avg_duration), and the cluster that follows from it, reach neither       *)
(* dependencies nor states, and are left out.                               *)
(***************************************************************************)
EXTENDS Naturals, FiniteSets, SequencesExt

CONSTANTS
    Names,          \* of jobs, in one document
    Doc,            \* all documents, with those of their workflows
    Depth,          \* how deep they are: no document includes itself
    Documents,      \* the infrabox.json files that the commit may hold
    Generated,      \* the ones that a job may leave in its output folder
    MaxLists,       \* bound: lists of jobs sent, unless a container restarts
    MaxFaults       \* bound: refused or late answers, dying containers, aborts

Condition == {"finished", "error", "failure", "*"}

\* A job, or a workflow with a document of its own.
Dependency == [job : Names, on : SUBSET Condition \ {{}}]
Entry == [name : Names, workflow : BOOLEAN, sub : Doc, deps : Seq(Dependency)]

ASSUME DocumentsAssumption ==
    /\ Documents \cup Generated \subseteq Doc
    /\ Doc \subseteq Seq(Entry)
    /\ Depth \in [Doc -> Nat]
    /\ \A doc \in Doc : \A i \in DOMAIN doc :
          doc[i].workflow => Depth[doc[i].sub] < Depth[doc]

ASSUME BoundsAssumption == MaxLists \in Nat /\ MaxFaults \in Nat

VARIABLES
    job,        \* the job table, by the list and the path of a job
    runner,     \* what the runner of a job does
    request,    \* the create_jobs requests that the API server works on
    document,   \* the infrabox.json of the commit
    lists,      \* history: the documents that lists were made from, and by whom
    faults

vars == <<job, runner, request, document, lists, faults>>

Ended == {"finished", "failure", "error", "killed", "skipped"}
HasRun == {"running", "finished", "failure", "error"}

-----------------------------------------------------------------------------
(* Documents: what makes them valid.                                        *)

NamesOf(doc) == {doc[i].name : i \in DOMAIN doc}
ParentsOf(entry) == {entry.deps[k].job : k \in DOMAIN entry.deps}

\* Mutant of ValidEntry: a job may depend on any other one.
ValidEntryAnywhere(doc, i) ==
    /\ doc[i].name \notin {doc[k].name : k \in 1..(i - 1)}
    /\ ParentsOf(doc[i]) \subseteq NamesOf(doc) \ {doc[i].name}
    /\ Cardinality(ParentsOf(doc[i])) = Len(doc[i].deps)

\* validate_json: no name is used twice, and a job depends on jobs in front of
\* it, on each of them once.
ValidEntry(doc, i) ==
    LET earlier == {doc[k].name : k \in 1..(i - 1)} IN
    /\ doc[i].name \notin earlier
    /\ ParentsOf(doc[i]) \subseteq earlier
    /\ Cardinality(ParentsOf(doc[i])) = Len(doc[i].deps)

Valid[doc \in Doc] ==
    \A i \in DOMAIN doc : ValidEntry(doc, i) /\ (doc[i].workflow => Valid[doc[i].sub])

-----------------------------------------------------------------------------
(* The list of the jobs of a document.                                      *)

\* Mutant of Rewritten: "*" stays as it is.
RewrittenNot(on) == on

\* rewrite_depends_on.
Rewritten(on) == IF "*" \in on THEN {"finished", "error", "failure", "skipped"} ELSE on

Prefixed(entry) ==
    {[job |-> <<entry.deps[k].job>>, on |-> Rewritten(entry.deps[k].on)] : k \in DOMAIN entry.deps}

\* The jobs of a workflow have its name in front: parent_name.
Under(name, list) ==
    {[name |-> <<name>> \o j.name, wait |-> j.wait,
      deps |-> {[job |-> <<name>> \o d.job, on |-> d.on] : d \in j.deps}] : j \in list}

\* Mutant of Adopted: the jobs of a workflow do not wait for its parents.
AdoptedByNone(list, deps) == list

\* Every job of a workflow that waits for no other one waits for the parents
\* of the workflow.
Adopted(list, deps) ==
    {[name |-> j.name, wait |-> j.wait, deps |-> IF j.deps = {} THEN deps ELSE j.deps] : j \in list}

Parents(j) == {d.job : d \in j.deps}

\* Mutant of Leaves: only one of them.
LeavesOne(list) ==
    LET leaves == {j \in list : \A k \in list : j.name \notin Parents(k)} IN
    IF leaves = {} THEN {} ELSE {CHOOSE j \in leaves : TRUE}

\* The jobs of a list that no other one of the list waits for.
Leaves(list) == {j \in list : \A k \in list : j.name \notin Parents(k)}

\* The final job of a workflow has its name, and waits for its leaves.
Final(name, list) ==
    [name |-> <<name>>, wait |-> TRUE,
     deps |-> {[job |-> j.name, on |-> {"finished"}] : j \in Leaves(list)}]

\* What becomes of an entry, with the list of its document.
JobsOf(entry, list) ==
    IF entry.workflow
    THEN LET sub == Under(entry.name, list) IN
         Adopted(sub, Prefixed(entry)) \cup {Final(entry.name, sub)}
    ELSE {[name |-> <<entry.name>>, wait |-> FALSE, deps |-> Prefixed(entry)]}

\* get_job_list.
JobList[doc \in Doc] ==
    UNION {JobsOf(doc[i], IF doc[i].workflow THEN JobList[doc[i].sub] ELSE {}) : i \in DOMAIN doc}

-----------------------------------------------------------------------------
(* The job table.                                                          *)

\* A row is found by the list and the path of its job.
Id == [list : Nat, path : Seq(Names)]
CreateJobs == [list |-> 0, path |-> <<>>]

Init ==
    /\ document \in Documents
    /\ job = [i \in {CreateJobs} |-> [deps |-> {}, wait |-> FALSE, state |-> "queued"]]
    /\ runner = [i \in {CreateJobs} |-> "off"]
    /\ request = {}
    /\ lists = <<>>
    /\ faults = 0

SetState(i, s) == job' = [job EXCEPT ![i].state = s]
Fault == faults < MaxFaults /\ faults' = faults + 1

\* Nobody waits for the answers to the requests of i any more.
Unawaited(i) == {IF q.creator = i THEN [q EXCEPT !.awaited = FALSE] ELSE q : q \in request}

ParentsEnded(i) == \A d \in job[i].deps : job[d.job].state \in Ended
ConditionsMet(i) == \A d \in job[i].deps : job[d.job].state \in d.on

-----------------------------------------------------------------------------
(* The scheduler: schedule, as far as it decides on a job; an abort.        *)

StartJob(i) ==
    /\ job[i].state = "queued" /\ ~job[i].wait
    /\ ParentsEnded(i) /\ ConditionsMet(i)
    /\ SetState(i, "running")
    /\ runner' = [runner EXCEPT ![i] = "body"]
    /\ UNCHANGED <<request, document, lists, faults>>

FinishWait(i) ==
    /\ job[i].state = "queued" /\ job[i].wait
    /\ ParentsEnded(i) /\ ConditionsMet(i)
    /\ SetState(i, "finished")
    /\ UNCHANGED <<runner, request, document, lists, faults>>

SkipJob(i) ==
    /\ job[i].state = "queued"
    /\ ParentsEnded(i) /\ ~ConditionsMet(i)
    /\ SetState(i, "skipped")
    /\ UNCHANGED <<runner, request, document, lists, faults>>

KillJob(i) ==
    /\ job[i].state \in {"queued", "running"}
    /\ Fault
    /\ SetState(i, "killed")
    /\ runner' = [runner EXCEPT ![i] = "off"]
    /\ request' = Unawaited(i)
    /\ UNCHANGED <<document, lists>>

-----------------------------------------------------------------------------
(* The runner: main_create_jobs, main_run_job, create_dynamic_jobs.         *)

\* The job is at its end, and its runner has reported it.
EndJob(i, s) == SetState(i, s) /\ runner' = [runner EXCEPT ![i] = "off"]

\* The body of a job, or the upload of its output, fails.
FailJob(i) ==
    /\ runner[i] \in {"body", "output"}
    /\ \E s \in {"failure", "error"} : EndJob(i, s)
    /\ UNCHANGED <<request, document, lists, faults>>

\* The body is done. A document that it leaves is validated, and its jobs are
\* posted, if it has any; an invalid one is a failure of the job.
LeaveDocument(i, doc) ==
    /\ runner[i] = "body"
    /\ \/ ~Valid[doc] /\ EndJob(i, "failure") /\ UNCHANGED <<request, lists>>
       \/ /\ doc = <<>> /\ runner' = [runner EXCEPT ![i] = "output"]
          /\ UNCHANGED <<job, request, lists>>
       \/ /\ Valid[doc] /\ doc # <<>>
          /\ lists' = Append(lists, [creator |-> i, doc |-> doc])
          /\ request' = request \union
                {[creator |-> i, jobs |-> JobList[doc], list |-> Len(lists'), awaited |-> TRUE]}
          /\ runner' = [runner EXCEPT ![i] = "creating"]
          /\ UNCHANGED job
    /\ UNCHANGED <<document, faults>>

LeaveNothing(i) ==
    /\ runner[i] = "body"
    /\ runner' = [runner EXCEPT ![i] = "output"]
    /\ UNCHANGED <<job, request, document, lists, faults>>

EndBody(i) ==
    IF i = CreateJobs THEN LeaveDocument(i, document)
    ELSE \/ LeaveNothing(i)
         \/ Len(lists) < MaxLists /\ \E doc \in Generated : LeaveDocument(i, doc)

FinishJob(i) ==
    /\ runner[i] = "output"
    /\ EndJob(i, "finished")
    /\ UNCHANGED <<request, document, lists, faults>>

\* requests.post with timeout=60, for a handler that sleeps 0.1 s per job: the
\* exception ends the job, while the handler goes on.
CreationTimesOut(i) ==
    /\ runner[i] = "creating"
    /\ Fault
    /\ EndJob(i, "error")
    /\ request' = Unawaited(i)
    /\ UNCHANGED <<document, lists>>

\* The container dies and is started again in the same pod. Nothing looks for
\* what the previous one has done: check_container_crashed is not called.
RestartContainer(i) ==
    /\ runner[i] # "off"
    /\ Fault
    /\ runner' = [runner EXCEPT ![i] = "body"]
    /\ request' = Unawaited(i)
    /\ UNCHANGED <<job, document, lists>>

-----------------------------------------------------------------------------
(* The job API: CreateJobs.post, one transaction.                           *)

\* Names are looked up among the jobs of the request.
Resolved(q) == \A j \in q.jobs : \A d \in j.deps : \E k \in q.jobs : k.name = d.job

\* Mutant of RowDeps: a job without dependencies waits for nothing.
RowDepsNone(q, j) == {[job |-> [list |-> q.list, path |-> d.job], on |-> d.on] : d \in j.deps}

\* What a job depends on; the creator, if on nothing else.
RowDeps(q, j) ==
    IF j.deps = {} THEN {[job |-> q.creator, on |-> {"finished"}]}
    ELSE {[job |-> [list |-> q.list, path |-> d.job], on |-> d.on] : d \in j.deps}

Rows(q) == {[list |-> q.list, path |-> j.name] : j \in q.jobs}
RowOf(q, i) ==
    LET j == CHOOSE k \in q.jobs : k.name = i.path IN
    [deps |-> RowDeps(q, j), wait |-> j.wait, state |-> "queued"]

\* The UPDATE that is to make the children of the creator wait for the new
\* leaf jobs takes the identifier that is left over from an earlier loop, of
\* one of the new jobs: no job depends on that one yet, and it updates nothing.
CommitJobs(q) ==
    /\ Resolved(q)
    /\ job' = [i \in DOMAIN job \cup Rows(q) |-> IF i \in DOMAIN job THEN job[i] ELSE RowOf(q, i)]
    /\ runner' = [i \in DOMAIN job \cup Rows(q) |->
          CASE i = q.creator /\ q.awaited -> "output"
            [] i \notin DOMAIN job -> "off"
            [] OTHER -> runner[i]]
    /\ request' = request \ {q}
    /\ UNCHANGED <<document, lists, faults>>

\* An error of the handler: nothing is inserted, and the runner's job fails.
RejectJobs(q) ==
    /\ faults' = IF Resolved(q) THEN faults + 1 ELSE faults
    /\ faults' <= MaxFaults
    /\ IF q.awaited THEN EndJob(q.creator, "failure") ELSE UNCHANGED <<job, runner>>
    /\ request' = request \ {q}
    /\ UNCHANGED <<document, lists>>

-----------------------------------------------------------------------------

SchedulerNext(i) == StartJob(i) \/ FinishWait(i) \/ SkipJob(i)

RunnerNext(i) == EndBody(i) \/ FinishJob(i) \/ FailJob(i)

Next ==
    \/ \E i \in DOMAIN job :
          \/ SchedulerNext(i) \/ KillJob(i)
          \/ RunnerNext(i) \/ CreationTimesOut(i) \/ RestartContainer(i)
    \/ \E q \in request : CommitJobs(q) \/ RejectJobs(q)

Spec == Init /\ [][Next]_vars

\* The scheduler and the runners keep going (what hangs is killed by its
\* timeout), and the API server answers.
FairSpec ==
    /\ Spec
    /\ WF_vars(\E i \in DOMAIN job : SchedulerNext(i) \/ RunnerNext(i))
    /\ WF_vars(\E q \in request : CommitJobs(q))

-----------------------------------------------------------------------------
(* The meaning of a document, whatever list it becomes: the entry of the    *)
(* one job stands before that of the other one, directly or not.            *)

\* A workflow without jobs waits for nobody, not even with its final job.
WaitsFor(entry) == IF entry.workflow /\ entry.sub = <<>> THEN {} ELSE ParentsOf(entry)

\* Whatever n waits for, with what these wait for, includes m.
Precedes(doc, m, n) ==
    \A before \in SUBSET NamesOf(doc) :
        (\A i \in DOMAIN doc :
            doc[i].name \in before \cup {n} => WaitsFor(doc[i]) \subseteq before)
        => m \in before

Path == Seq(Names) \ {<<>>}

\* Where the paths of two jobs part, the one precedes the other.
Before[doc \in Doc] ==
    [p \in Path |-> [q \in Path |->
        IF Head(p) # Head(q) THEN Precedes(doc, Head(p), Head(q))
        ELSE \E i \in DOMAIN doc :
                /\ doc[i].name = Head(p) /\ doc[i].workflow
                /\ Tail(p) # <<>> /\ Tail(q) # <<>>
                /\ Before[doc[i].sub][Tail(p)][Tail(q)]]]

Created == DOMAIN job \ {CreateJobs}
CreatorOf(i) == lists[i.list].creator
SameList(i, k) == i.list = k.list

\* A job of the list was killed before what it waits for has ended: what
\* depends on that one is skipped at once, and "*" includes the skipped ones.
Torn(list) ==
    \E i \in Created : i.list = list /\ job[i].state = "killed" /\ ~ParentsEnded(i)

-----------------------------------------------------------------------------
(* Properties.                                                             *)

TypeOK ==
    /\ DOMAIN job \subseteq Id
    /\ \A i \in DOMAIN job :
          /\ job[i].state \in Ended \union {"queued", "running"}
          /\ job[i].wait \in BOOLEAN
          /\ i.list \in 0..Len(lists)
          /\ \A d \in job[i].deps : d.job \in DOMAIN job /\ d.on \subseteq Ended
    /\ runner \in [DOMAIN job -> {"off", "body", "creating", "output"}]
    /\ \A i \in DOMAIN job : runner[i] # "off" <=> job[i].state = "running"
    /\ \A q \in request : q.awaited => runner[q.creator] = "creating"
    /\ document \in Documents
    /\ faults \in 0..MaxFaults

\* A job runs only when every job before it in its document has ended, however
\* deep in the workflows the two are (docs/doc.md: "jobs which should finish
\* before the current job may be executed"), unless the list is torn. The
\* order of the document has to survive its way into a list, and the list's
\* way into rows.
DocumentOrder ==
    \A i, k \in Created :
        /\ SameList(i, k) /\ job[k].state \in HasRun
        /\ Before[lists[i.list].doc][i.path][k.path]
        => job[i].state \in Ended \/ Torn(i.list)

\* The final job of a workflow finishes only after every job of the workflow
\* has ended, unless the list is torn: who waits for the workflow waits for
\* all of it.
WorkflowEnds ==
    \A i, k \in Created :
        /\ SameList(i, k) /\ job[k].wait /\ job[k].state = "finished"
        /\ IsStrictPrefix(k.path, i.path)
        => job[i].state \in Ended \/ Torn(i.list)

\* No job runs while the one that has created it is at work, whose output it
\* may want, unless the list is torn.
StartsAfterCreator ==
    \A i \in Created :
        job[i].state \in HasRun => job[CreatorOf(i)].state \in Ended \/ Torn(i.list)

\* Every job of a build comes to its end: the dependencies that get into the
\* table have no cycle and no loose ends, also when the request is late, is
\* repeated by a restarted container, or its sender is gone.
AllJobsEnd == <>[](\A i \in DOMAIN job : job[i].state \in Ended)

\* docs/doc.md, Dynamic Workflows: the jobs of a document that a job leaves in
\* its output are added as predecessors, that is, the jobs that wait for their
\* creator wait for them.
GeneratedBeforeChildren ==
    \A i \in Created : \A k \in DOMAIN job :
        /\ CreatorOf(i) # CreateJobs /\ ~SameList(i, k)
        /\ \E d \in job[k].deps : d.job = CreatorOf(i)
        /\ job[k].state \in HasRun
        => job[i].state \in Ended

\* check_container_crashed: a container that is started again after a crash is
\* marked as failed, instead of doing everything once more.
CreatedOnce ==
    \A i, k \in Created : CreatorOf(i) = CreatorOf(k) => SameList(i, k)
=============================================================================
