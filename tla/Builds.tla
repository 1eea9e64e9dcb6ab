------------------------------- MODULE Builds -------------------------------
(***************************************************************************)
(* How builds come into being: the requests that number a build and put    *)
(* its first job, 'Create Jobs', into the queue.                           *)
(*                                                                         *)
(*   - the API: trigger (src/api/handlers/trigger.py), upload              *)
(*     (src/api/handlers/project.py) and restart of a build                *)
(*     (src/api/handlers/projects/build.py), one transaction per request;  *)
(*   - the hook of GitHub (src/github/trigger/trigger.py), whose wrapper   *)
(*     (src/pyinfraboxutils/ibbottle.py) repeats a failed transaction;     *)
(*   - the listener of Gerrit (src/gerrit/trigger/trigger.py), a process   *)
(*     that handles one event of a stream after the other.                 *)
(*                                                                         *)
(* Every SQL statement that may wait for, or fail on, a row of another     *)
(* transaction is a step. A statement sees what is committed; an INSERT    *)
(* waits for the transaction that holds its key and fails if the key is    *)
(* there.                                                                  *)
(***************************************************************************)
EXTENDS Naturals, FiniteSets

CONSTANTS
    Requests,     \* the requests, deliveries and events to come
    Scenarios,    \* what they may be together
    Projects,
    TypeOf,       \* project.type
    Commits,
    Remote,       \* the clusters other than 'master'
    Master,       \* the cluster 'master'
    None,         \* no commit
    MaxFaults     \* bound: lost connections

HookAttempts == 3    \* ibbottle: for _ in range(0, 3)
EventAttempts == 2   \* gerrit: for _ in range(0, 2)

HookKind == {"push", "pull_request"}
Kind == {"trigger", "upload", "restart", "event"} \cup HookKind

\* "branch": the request names a branch (a trigger may name a commit instead,
\* a push a tag); commit.branch may not be null.
Descriptor == [kind : Kind, project : Projects, commit : Commits \cup {None}, branch : BOOLEAN]

Source == Commits \cup Requests
Build == [project : Projects, number : Nat, restart : Nat, source : Source]

\* A request for a commit; an upload project is triggered without one.
ForCommit(d) ==
    d.kind \in HookKind \cup {"event"} \/ (d.kind = "trigger" /\ TypeOf[d.project] # "upload")

\* An upload is refused by a project of another type; the listener looks for
\* gerrit projects only, and the hook for the repository of a github project.
Expected(d) ==
    /\ d.kind \in HookKind => TypeOf[d.project] = "github"
    /\ d.kind = "event" => TypeOf[d.project] = "gerrit" /\ d.branch
    /\ d.kind = "upload" => TypeOf[d.project] = "upload"
    /\ ForCommit(d) => d.commit \in Commits

ASSUME BuildsAssumption ==
    /\ TypeOf \in [Projects -> {"github", "gerrit", "upload"}]
    /\ Scenarios \subseteq [Requests -> {d \in Descriptor : Expected(d)}]
    /\ None \notin Commits \cup Requests
    /\ Master \notin Remote
    /\ Commits \cap Requests = {}
    /\ MaxFaults \in Nat
    /\ IsFiniteSet(Requests)

VARIABLES
    \* --- the database, committed rows
    builds,     \* build, the upload of a build named by its request
    firstJobs,  \* the builds with a job 'Create Jobs'
    commits,    \* commit: <<project, id>>
    pulls,      \* pull_request, by the request that inserted the row
    \* --- the storage of every cluster
    stored,     \* the uploads (by request) that a cluster has
    \* --- the requests
    req,        \* what each request is
    pc,         \* its next statement, or its outcome
    attempt,    \* the attempt of a hook or an event
    key,        \* [number, restart, source] of the build to be inserted
    tx,         \* the rows its transaction holds
    todo,       \* the clusters to forward an upload to
    listening,  \* the listener of Gerrit is connected
    nFaults,
    \* --- history
    built,      \* how many builds of a request have been committed
    unheard,    \* how often a commit was applied without its answer
    targets     \* the clusters an upload found active

dbVars == <<builds, firstJobs, commits, pulls>>
historyVars == <<built, unheard, targets>>
vars == <<dbVars, stored, req, pc, attempt, key, tx, todo, listening, nFaults, historyVars>>

\* Answered with a build, answered without one, or without an answer.
Outcome == {"ok", "refused", "lost"}
Statement == {"new", "buffered", "commit", "insert", "number", "store", "forward", "source",
              "build", "job", "end"}

\* The rows a transaction may hold besides its build.
Row == {"commit", "pull", "build", "job"}

Key == [number : Nat, restart : Nat, source : Source \cup {None}]
NoKey == [number |-> 0, restart |-> 0, source |-> None]

TypeOK ==
    /\ builds \subseteq Build
    /\ firstJobs \subseteq builds
    /\ commits \subseteq Projects \X Commits
    /\ pulls \subseteq Requests
    /\ stored \in [Remote \cup {Master} -> SUBSET Requests]
    /\ req \in Scenarios
    /\ pc \in [Requests -> Statement \cup Outcome]
    /\ attempt \in [Requests -> 1..HookAttempts]
    /\ key \in [Requests -> Key]
    /\ tx \in [Requests -> SUBSET Row]
    /\ todo \in [Requests -> SUBSET Remote]
    /\ listening \in BOOLEAN
    /\ nFaults \in 0..MaxFaults
    /\ built \in [Requests -> Nat]
    /\ unheard \in [Requests -> Nat]
    /\ targets \in [Requests -> SUBSET Remote]

Init ==
    /\ builds = {} /\ firstJobs = {} /\ commits = {} /\ pulls = {}
    /\ stored = [c \in Remote \cup {Master} |-> {}]
    /\ req \in Scenarios
    /\ pc = [r \in Requests |-> "new"]
    /\ attempt = [r \in Requests |-> 1]
    /\ key = [r \in Requests |-> NoKey]
    /\ tx = [r \in Requests |-> {}]
    /\ todo = [r \in Requests |-> {}]
    /\ listening = TRUE
    /\ nFaults = 0
    /\ built = [r \in Requests |-> 0]
    /\ unheard = [r \in Requests |-> 0]
    /\ targets = [r \in Requests |-> {}]

-----------------------------------------------------------------------------
(* Rows, keys and transactions.                                            *)

Goto(r, s) == pc' = [pc EXCEPT ![r] = s]
Is(r, kind, s) == req[r].kind = kind /\ pc[r] = s

CommitOf(r) == <<req[r].project, req[r].commit>>
BuildOf(r) ==
    [project |-> req[r].project, number |-> key[r].number,
     restart |-> key[r].restart, source |-> key[r].source]

SameKey(b, c) == b.project = c.project /\ b.number = c.number /\ b.restart = c.restart
OfProject(p) == {b \in builds : b.project = p}
Numbers(p) == {b.number : b \in OfProject(p)}
Restarts(p, n) == {b.restart : b \in {c \in OfProject(p) : c.number = n}}

\* max(...) + 1, and 1 if there is nothing.
Greatest(S) == IF S = {} THEN 0 ELSE CHOOSE n \in S : \A m \in S : m <= n
NextNumber(p) == Greatest(Numbers(p)) + 1

\* Mutant: count(build_number) + 1, restarts included.
CountedBuilds(p) == Cardinality(OfProject(p)) + 1

\* count(distinct build_number) + 1
CountedNumber(p) == Cardinality(Numbers(p)) + 1

Hold(r, row) == tx' = [tx EXCEPT ![r] = @ \cup {row}]
Rollback(r) == tx' = [tx EXCEPT ![r] = {}]
OnlyRequest == UNCHANGED <<dbVars, stored, req, attempt, key, tx, todo, listening, nFaults, historyVars>>
OnlyTx == UNCHANGED <<dbVars, stored, req, attempt, key, todo, listening, nFaults, historyVars>>

\* The statement failed: the request is answered with an error,
ApiFails(r) ==
    /\ Rollback(r)
    /\ Goto(r, "refused")
    /\ UNCHANGED <<attempt, listening>>

\* Mutants: no limit; no second attempt; no rollback before the next one.
HookFailsForever(r) ==
    /\ Rollback(r)
    /\ attempt' = [attempt EXCEPT ![r] = @ + 1]
    /\ Goto(r, "new")
    /\ UNCHANGED listening

HookFailsOnce(r) == Rollback(r) /\ Goto(r, "lost") /\ UNCHANGED <<attempt, listening>>

HookFailsHolding(r) ==
    /\ IF attempt[r] < HookAttempts
       THEN attempt' = [attempt EXCEPT ![r] = @ + 1] /\ Goto(r, "new")
       ELSE Goto(r, "lost") /\ UNCHANGED attempt
    /\ UNCHANGED <<tx, listening>>

\* the hook is handled once more, at most three times, and then answered
\* without a result, which GitHub takes for success,
HookFails(r) ==
    /\ Rollback(r)
    /\ IF attempt[r] < HookAttempts
       THEN attempt' = [attempt EXCEPT ![r] = @ + 1] /\ Goto(r, "new")
       ELSE Goto(r, "lost") /\ UNCHANGED attempt
    /\ UNCHANGED listening

\* the listener ends, with this event and those of the stream behind it.
ListenerDies(r) ==
    /\ Rollback(r)
    /\ listening' = FALSE
    /\ pc' = [q \in Requests |-> IF q = r \/ pc[q] = "buffered" THEN "lost" ELSE pc[q]]
    /\ UNCHANGED attempt

Violation(r) ==
    CASE req[r].kind \in HookKind -> HookFails(r)
      [] req[r].kind = "event" -> ListenerDies(r)
      [] OTHER -> ApiFails(r)

\* A lost connection (OperationalError): the listener connects again and
\* handles the event a second time.
EventRepeats(r) ==
    /\ Rollback(r)
    /\ IF attempt[r] < EventAttempts
       THEN attempt' = [attempt EXCEPT ![r] = @ + 1] /\ Goto(r, "buffered")
       ELSE Goto(r, "lost") /\ UNCHANGED attempt
    /\ UNCHANGED listening

Disconnected(r) ==
    CASE req[r].kind \in HookKind -> HookFails(r)
      [] req[r].kind = "event" -> EventRepeats(r)
      [] OTHER -> ApiFails(r)

-----------------------------------------------------------------------------
(* POST /projects/<id>/trigger                                             *)

\* The number is read first, the commit fetched and inserted afterwards.
StartTrigger(r) ==
    /\ Is(r, "trigger", "new")
    /\ key' = [key EXCEPT ![r] = [number |-> NextNumber(req[r].project), restart |-> 1,
                                  source |-> req[r].commit]]
    /\ Goto(r, IF TypeOf[req[r].project] = "upload" THEN "source" ELSE "commit")
    /\ UNCHANGED <<dbVars, stored, req, attempt, tx, todo, listening, nFaults, historyVars>>

\* GitHub, or the API in front of Gerrit, does not know the commit.
CommitUnknown(r) ==
    /\ Is(r, "trigger", "commit")
    /\ Goto(r, "refused")
    /\ OnlyRequest

TriggerCommit(r) ==
    /\ Is(r, "trigger", "commit")
    /\ Goto(r, IF CommitOf(r) \in commits THEN "build" ELSE "insert")
    /\ OnlyRequest

\* An upload project is built again from the source of its last build.
LastSource(r) ==
    /\ Is(r, "trigger", "source")
    /\ LET p == req[r].project IN
       \/ /\ OfProject(p) = {}
          /\ Goto(r, "refused")
          /\ UNCHANGED key
       \/ \E b \in OfProject(p) :
             /\ b.number = Greatest(Numbers(p))
             /\ key' = [key EXCEPT ![r].source = b.source]
             /\ Goto(r, "build")
    /\ UNCHANGED <<dbVars, stored, req, attempt, tx, todo, listening, nFaults, historyVars>>

-----------------------------------------------------------------------------
(* POST /projects/<id>/upload                                              *)

\* The file is stored first, then the clusters are selected.
StoreUpload(r) ==
    /\ Is(r, "upload", "new")
    /\ stored' = [stored EXCEPT ![Master] = @ \cup {r}]
    /\ \E active \in SUBSET Remote :
          todo' = [todo EXCEPT ![r] = active] /\ targets' = [targets EXCEPT ![r] = active]
    /\ Goto(r, "forward")
    /\ UNCHANGED <<dbVars, req, attempt, key, tx, listening, nFaults, built, unheard>>

\* The API of another cluster stores the file (UploadRemote.post).
ForwardUpload(r) ==
    /\ Is(r, "upload", "forward")
    /\ \E c \in todo[r] :
          /\ stored' = [stored EXCEPT ![c] = @ \cup {r}]
          /\ todo' = [todo EXCEPT ![r] = @ \ {c}]
    /\ UNCHANGED <<dbVars, req, pc, attempt, key, tx, listening, nFaults, historyVars>>

\* Mutant: the next cluster is tried.
ForwardIgnored(r) ==
    /\ nFaults < MaxFaults /\ nFaults' = nFaults + 1
    /\ \E c \in todo[r] : todo' = [todo EXCEPT ![r] = @ \ {c}]
    /\ UNCHANGED <<dbVars, stored, req, pc, attempt, key, tx, listening, historyVars>>

\* It does not answer, or with an error: the upload is refused.
ForwardFails(r) ==
    /\ nFaults < MaxFaults /\ nFaults' = nFaults + 1
    /\ todo[r] # {}
    /\ Goto(r, "refused")
    /\ UNCHANGED <<dbVars, stored, req, attempt, key, tx, todo, listening, historyVars>>

ForwardRefused(r) == Is(r, "upload", "forward") /\ ForwardFails(r)

NumberUpload(r) ==
    /\ Is(r, "upload", "forward")
    /\ todo[r] = {}
    /\ key' = [key EXCEPT ![r] = [number |-> CountedNumber(req[r].project), restart |-> 1,
                                  source |-> r]]
    /\ Goto(r, "build")
    /\ UNCHANGED <<dbVars, stored, req, attempt, tx, todo, listening, nFaults, historyVars>>

-----------------------------------------------------------------------------
(* The hook of GitHub.                                                     *)

\* Nothing to do: build_on_push is off, the owner has no token, the push has
\* no commits, or none that is distinct, the action is not one of a new head.
HookIgnored(r) ==
    /\ req[r].kind \in HookKind /\ pc[r] = "new"
    /\ Goto(r, "refused")
    /\ OnlyRequest

\* The repository is unknown, or the head commit not among those of the
\* pull request.
HookRefused(r) ==
    /\ req[r].kind \in HookKind /\ pc[r] = "new"
    /\ Goto(r, "refused")
    /\ OnlyRequest

StartPush(r) ==
    /\ Is(r, "push", "new")
    /\ Goto(r, IF CommitOf(r) \in commits THEN "number" ELSE "insert")
    /\ OnlyRequest

\* The row of a pull request is looked for under the wrong identifier, and
\* inserted again for every event.
StartPullRequest(r) ==
    /\ Is(r, "pull_request", "new")
    /\ Hold(r, "pull")
    /\ Goto(r, "commit")
    /\ OnlyTx

\* A commit that is known already is not built: nothing is committed.
PullRequestCommit(r) ==
    /\ Is(r, "pull_request", "commit")
    /\ IF CommitOf(r) \in commits
       THEN Rollback(r) /\ Goto(r, "refused")
       ELSE Goto(r, "insert") /\ UNCHANGED tx
    /\ OnlyTx

\* create_build
NumberHook(r) ==
    /\ req[r].kind \in HookKind /\ pc[r] = "number"
    /\ key' = [key EXCEPT ![r] = [number |-> NextNumber(req[r].project), restart |-> 1,
                                  source |-> req[r].commit]]
    /\ Goto(r, "build")
    /\ UNCHANGED <<dbVars, stored, req, attempt, tx, todo, listening, nFaults, historyVars>>

-----------------------------------------------------------------------------
(* The listener of Gerrit.                                                 *)

\* An event reaches the listener, or nobody.
EmitEvent(r) ==
    /\ Is(r, "event", "new")
    /\ Goto(r, IF listening THEN "buffered" ELSE "lost")
    /\ OnlyRequest

\* One event at a time; events of other types, and drafts, are skipped.
Handling(r) == req[r].kind = "event" /\ pc[r] \notin {"new", "buffered"} \cup Outcome

SkipEvent(r) ==
    /\ Is(r, "event", "buffered")
    /\ \A q \in Requests : ~Handling(q)
    /\ Goto(r, "refused")
    /\ OnlyRequest

StartEvent(r) ==
    /\ Is(r, "event", "buffered")
    /\ \A q \in Requests : ~Handling(q)
    /\ Goto(r, IF CommitOf(r) \in commits THEN "number" ELSE "insert")
    /\ OnlyRequest

NumberEvent(r) ==
    /\ Is(r, "event", "number")
    /\ key' = [key EXCEPT ![r] = [number |-> NextNumber(req[r].project), restart |-> 1,
                                  source |-> req[r].commit]]
    /\ Goto(r, "build")
    /\ UNCHANGED <<dbVars, stored, req, attempt, tx, todo, listening, nFaults, historyVars>>

\* The container of the listener is started again.
ListenAgain ==
    /\ ~listening
    /\ listening' = TRUE
    /\ UNCHANGED <<dbVars, stored, req, pc, attempt, key, tx, todo, nFaults, historyVars>>

-----------------------------------------------------------------------------
(* Restart of a build.                                                     *)

StartRestart(r) ==
    /\ Is(r, "restart", "new")
    /\ \E b \in OfProject(req[r].project) :
          key' = [key EXCEPT ![r] = [number |-> b.number,
                                     restart |-> Greatest(Restarts(b.project, b.number)) + 1,
                                     source |-> b.source]]
    /\ Goto(r, "build")
    /\ UNCHANGED <<dbVars, stored, req, attempt, tx, todo, listening, nFaults, historyVars>>

\* The user is no collaborator, or there is no such build.
RestartRefused(r) ==
    /\ Is(r, "restart", "new")
    /\ Goto(r, "refused")
    /\ OnlyRequest

-----------------------------------------------------------------------------
(* The statements all of them share.                                       *)

\* Mutant: the row is committed at once.
InsertCommitAlone(r) ==
    /\ pc[r] = "insert"
    /\ IF CommitOf(r) \in commits \/ ~req[r].branch
       THEN Violation(r) /\ UNCHANGED commits
       ELSE /\ commits' = commits \cup {CommitOf(r)}
            /\ Goto(r, IF req[r].kind = "trigger" THEN "build" ELSE "number")
            /\ UNCHANGED <<tx, attempt, listening>>
    /\ UNCHANGED <<builds, firstJobs, pulls, stored, req, key, todo, nFaults, historyVars>>

InsertCommit(r) ==
    /\ pc[r] = "insert"
    /\ \A q \in Requests \ {r} : "commit" \in tx[q] => CommitOf(q) # CommitOf(r)
    /\ IF CommitOf(r) \in commits \/ ~req[r].branch
       THEN Violation(r)
       ELSE /\ Hold(r, "commit")
            /\ Goto(r, IF req[r].kind = "trigger" THEN "build" ELSE "number")
            /\ UNCHANGED <<attempt, listening>>
    /\ UNCHANGED <<dbVars, stored, req, key, todo, nFaults, historyVars>>

\* The unique key: project, number, restart counter.
Taken(r) == \E b \in builds : SameKey(b, BuildOf(r))

InsertBuild(r) ==
    /\ pc[r] = "build"
    /\ \A q \in Requests \ {r} : "build" \in tx[q] => ~SameKey(BuildOf(q), BuildOf(r))
    /\ IF Taken(r)
       THEN Violation(r)
       ELSE Hold(r, "build") /\ Goto(r, "job") /\ UNCHANGED <<attempt, listening>>
    /\ UNCHANGED <<dbVars, stored, req, key, todo, nFaults, historyVars>>

\* The job 'Create Jobs'; a restart copies the one of the build it restarts.
InsertJob(r) ==
    /\ pc[r] = "job"
    /\ Hold(r, "job")
    /\ Goto(r, "end")
    /\ OnlyTx

\* The rows of the transaction become visible.
Apply(r) ==
    /\ builds' = builds \cup {BuildOf(r)}
    /\ firstJobs' = firstJobs \cup (IF "job" \in tx[r] THEN {BuildOf(r)} ELSE {})
    /\ commits' = commits \cup (IF "commit" \in tx[r] THEN {CommitOf(r)} ELSE {})
    /\ pulls' = pulls \cup (IF "pull" \in tx[r] THEN {r} ELSE {})
    /\ built' = [built EXCEPT ![r] = @ + 1]

Commit(r) ==
    /\ pc[r] = "end"
    /\ Apply(r)
    /\ Rollback(r)
    /\ Goto(r, "ok")
    /\ UNCHANGED <<stored, req, attempt, key, todo, listening, nFaults, unheard, targets>>

-----------------------------------------------------------------------------
(* Faults, and what happens around the requests.                           *)

\* The connection to the database is lost at any statement,
ConnectionLost(r) ==
    /\ nFaults < MaxFaults /\ nFaults' = nFaults + 1
    /\ pc[r] \in {"commit", "insert", "number", "build", "job", "end"}
    /\ Disconnected(r)
    /\ UNCHANGED <<dbVars, stored, req, key, todo, historyVars>>

\* or when the commit has been applied, but not answered.
CommitUnheard(r) ==
    /\ nFaults < MaxFaults /\ nFaults' = nFaults + 1
    /\ pc[r] = "end"
    /\ Apply(r)
    /\ unheard' = [unheard EXCEPT ![r] = @ + 1]
    /\ Disconnected(r)
    /\ UNCHANGED <<stored, req, key, todo, targets>>

Answer(r) ==
    \/ StartTrigger(r) \/ CommitUnknown(r) \/ TriggerCommit(r) \/ LastSource(r)
    \/ StoreUpload(r) \/ ForwardUpload(r) \/ NumberUpload(r)
    \/ HookIgnored(r) \/ HookRefused(r) \/ StartPush(r)
    \/ StartPullRequest(r) \/ PullRequestCommit(r) \/ NumberHook(r)
    \/ EmitEvent(r) \/ SkipEvent(r) \/ StartEvent(r) \/ NumberEvent(r)
    \/ StartRestart(r) \/ RestartRefused(r)
    \/ InsertCommit(r) \/ InsertBuild(r) \/ InsertJob(r) \/ Commit(r)

Next ==
    \/ \E r \in Requests :
          Answer(r) \/ ForwardRefused(r) \/ ConnectionLost(r) \/ CommitUnheard(r)
    \/ ListenAgain

Spec == Init /\ [][Next]_vars

\* The servers and the database go on with a request once it has arrived.
Arrived(r) == pc[r] # "new" \/ attempt[r] > 1
Fairness == \A r \in Requests : WF_vars(Arrived(r) /\ Answer(r))

FairSpec == Spec /\ Fairness

-----------------------------------------------------------------------------
(* Properties.                                                             *)

\* Builds are numbered 1, 2, ... without a gap, and so are the restarts of a
\* number, which all have the same source, although the number is read in one
\* statement and used in a later one, beside other transactions. The number
\* of an upload (a count) and that of a trigger (a maximum) agree only as long
\* as this holds, and the last build stands for the last source.
NumbersIdentify ==
    \A p \in Projects :
        /\ Numbers(p) = 1..Cardinality(Numbers(p))
        /\ \A n \in Numbers(p) : Restarts(p, n) = 1..Cardinality(Restarts(p, n))
        /\ \A b, c \in OfProject(p) : b.number = c.number =>
              (b.source = c.source /\ (b.restart = c.restart => b = c))

\* A commit that is in the table has a build, and that build its first job:
\* the hook of a pull request takes the row for a sign that there is nothing
\* left to do, also when the transaction that inserts it is still under way.
CommitsAreBuilt ==
    \A x \in commits : \E b \in firstJobs : b.project = x[1] /\ b.source = x[2]

\* What a build is made from can be fetched: its commit is in the table, its
\* upload is in the storage of the master and of every cluster that was active
\* when it arrived. A restart finds the first job of the build it copies.
BuildsHaveSource ==
    \A b \in builds :
        /\ b \in firstJobs
        /\ IF TypeOf[b.project] = "upload"
           THEN \A c \in targets[b.source] \cup {Master} : b.source \in stored[c]
           ELSE <<b.project, b.source>> \in commits

\* A push or pull request is lost, though GitHub was answered 200, only after
\* as many setbacks as the wrapper has attempts, each a build of the project
\* that someone else has committed in the meantime, or a lost connection (or
\* because the row has no branch). An event of Gerrit is lost after one such
\* build of any gerrit project, all of which share the listener, or two lost
\* connections. Nobody is built twice whose commit was answered.
Rivals(r) == {b \in builds :
    b.project = req[r].project \/ (req[r].kind = "event" /\ TypeOf[b.project] = "gerrit")}

OtherBuilds(r) == Cardinality(Rivals(r)) - built[r]

LostToOthers ==
    \A r \in Requests :
        /\ pc[r] = "lost" =>
              \/ ~req[r].branch
              \/ req[r].kind \in HookKind /\ OtherBuilds(r) + nFaults >= HookAttempts
              \/ req[r].kind = "event" /\ (OtherBuilds(r) > 0 \/ nFaults >= EventAttempts)
        /\ built[r] <= 1 + unheard[r]
        /\ pc[r] = "ok" => built[r] > 0

\* Every request that has arrived is answered: transactions that wait for each
\* other's rows do not wait in a circle.
RequestsAnswered == \A r \in Requests : Arrived(r) ~> (pc[r] \in Outcome)
=============================================================================
