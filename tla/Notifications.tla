---------------------------- MODULE Notifications ----------------------------
(***************************************************************************)
(* Who is told of the changes of jobs and of their output, and by whom.    *)
(* Triggers of the tables job and console (src/db/migrations/00001.sql)    *)
(* notify every connection that listens; what is sent while a service is   *)
(* not connected is lost.                                                  *)
(*                                                                         *)
(*   - the API (src/api/listeners/job.py, src/api/listeners/console.py)    *)
(*     reads the row of each event in a green thread of its own and sends  *)
(*     it to the clients in the room (Rooms);                              *)
(*   - github-review (src/github/review/review.py) posts the state of the  *)
(*     job as a status of its commit;                                      *)
(*   - gerrit-review (src/gerrit/review/review.py) votes on the commit     *)
(*     when the jobs of a build have ended.                                *)
(*                                                                         *)
(* The services share nothing but the rows they read, so that a behaviour  *)
(* follows one of them. Every query and every message of it is a step.     *)
(***************************************************************************)
EXTENDS Rooms, Sequences

CONSTANTS
    Jobs,
    NameOf,         \* the name of a job
    BuildOf,        \* the build of a job
    CommitOf,       \* the commit of a build
    ProjectOf,      \* the project of a commit
    Ends,           \* the states jobs end in
    Setups,         \* [service, type, builds, room, clients] to look at
    Unreportable,   \* commits without a status URL, or whose owner has no token
    MaxChanges,     \* bound: changes of rows, for each service
    MaxFaults       \* bound: failures of the service

Active == {"queued", "scheduled", "running"}
Ended == {"finished", "failure", "error", "skipped", "killed", "unstable"}
State == Active \cup Ended
Review == {"github-review", "gerrit-review"}
Service == Review \cup {"job-listener", "console-listener"}
Type == {"github", "gerrit", "upload"}
Builds == {BuildOf[j] : j \in Jobs}
Commits == {CommitOf[b] : b \in Builds}
Projects == {ProjectOf[c] : c \in Commits}
Creator == {j \in Jobs : NameOf[j] = "Create Jobs"}

JobsOf(b) == {j \in Jobs : BuildOf[j] = b}
Commit(j) == CommitOf[BuildOf[j]]
Project(j) == ProjectOf[Commit(j)]

\* GitHub keeps one status for each context of a commit, 'Job: <name>'. Builds
\* of a commit, and its restarts, share it.
Context(j) == <<Commit(j), NameOf[j]>>
Contexts == {Context(j) : j \in Jobs}

ASSUME NotificationsAssumption ==
    /\ Ends \subseteq Ended
    /\ Setups \subseteq [service : Service, type : [Projects -> Type], builds : SUBSET Builds,
                          room : Room, clients : SUBSET Clients]
    /\ Unreportable \subseteq Commits
    /\ MaxChanges \in [Service -> Nat] /\ MaxFaults \in Nat

VARIABLES
    \* --- the database
    row,        \* job.state, "none" if there is no row
    type,       \* project.type
    projects,   \* the projects that have not been deleted
    output,     \* the rows of console, by the number of their change
    nChanges,
    \* --- the service
    service,
    conn,       \* its connection: "down", "leader", "listening"
    inbox,      \* what it has been sent
    collected,  \* how many of these a query of a review has put into conn.notifies
    loop,       \* where a review is: "check" (is_leader), "select", "drain"
    tasks,      \* the events that are being handled
    nFaults,
    \* --- whom it tells
    status,     \* the statuses of the commits, by context
    vote,       \* the vote on each commit
    \* --- history
    changed,    \* the number of the last change of a job
    removed,    \* rows of console that have been gathered
    told,       \* the changes each client has been sent
    due,        \* the changes since each client has entered the room
    missed      \* the changes that were lost; the first is unknown to all

database == <<row, type, projects, output, nChanges, changed, removed>>
outside == <<status, vote, told, due>>
wake == <<collected, loop>>
vars == <<database, service, conn, inbox, wake, tasks, nFaults, outside, missed, roomVars>>

\* The payload has the state too, but nobody reads it.
Event == [type : {"INSERT", "UPDATE"}, job : Jobs, n : 1..MaxChanges[service]]
Task == [event : Event, at : {"job", "console", "emit", "owner", "status", "count", "vote"},
         change : 0..MaxChanges[service], value : {"", "pending", "failure", "error", "success",
                                          "0", "-1", "+1"}]

DatabaseTypeOK ==
    /\ row \in [Jobs -> State \cup {"none"}]
    /\ type \in [Projects -> Type]
    /\ projects \subseteq Projects
    /\ nChanges \in 0..MaxChanges[service]
    /\ changed \in [Jobs -> 0..MaxChanges[service]]
    /\ output \subseteq 1..MaxChanges[service] /\ removed \subseteq 1..MaxChanges[service]

ServiceTypeOK ==
    /\ service \in Service
    /\ conn \in {"down", "leader", "listening"}
    /\ inbox \in Seq(Event) /\ (inbox # <<>> => conn = "listening")
    /\ collected \in 0..Len(inbox) /\ loop \in {"check", "select", "drain"}
    /\ tasks \subseteq Task
    /\ nFaults \in 0..MaxFaults
    /\ missed \subseteq 0..MaxChanges[service]

OutsideTypeOK ==
    /\ status \in [Contexts -> {"none", "pending", "failure", "error", "success"}]
    /\ vote \in [Commits -> {"none", "0", "-1", "+1"}]
    /\ told \in [Clients -> SUBSET (0..MaxChanges[service])]
    /\ due \in [Clients -> SUBSET (1..MaxChanges[service])]

\* A review handles one event after the other.
TypeOK ==
    /\ DatabaseTypeOK /\ ServiceTypeOK /\ OutsideTypeOK /\ RoomsTypeOK
    /\ service \in Review => Cardinality(tasks) <= 1

\* The service starts in the middle of builds: their creators run.
Init ==
    /\ \E s \in Setups :
          /\ service = s.service /\ type = s.type /\ RoomsInit(s.room, s.clients)
          /\ row = [j \in Jobs |-> IF j \in Creator /\ BuildOf[j] \in s.builds THEN "running" ELSE "none"]
    /\ projects = Projects
    /\ nChanges = 0
    /\ conn = "down" /\ inbox = <<>> /\ tasks = {}
    /\ collected = 0 /\ loop = "check"
    /\ nFaults = 0
    /\ status = [x \in Contexts |-> "none"]
    /\ vote = [c \in Commits |-> "none"]
    /\ changed = [j \in Jobs |-> 0]
    /\ output = {} /\ removed = {}
    /\ told = [c \in Clients |-> {}] /\ due = [c \in Clients |-> {}]
    /\ missed = {0}

-----------------------------------------------------------------------------
(* The database.                                                           *)

\* job_queue_notify, console_notify: whoever listens to it is notified.
Notify(op, j) ==
    LET n == nChanges + 1 IN
    /\ nChanges' = n
    /\ IF conn = "listening"
       THEN inbox' = Append(inbox, [type |-> op, job |-> j, n |-> n]) /\ UNCHANGED missed
       ELSE UNCHANGED inbox /\ missed' = missed \cup {n}
    /\ due' = [c \in Clients |-> IF c \in members THEN due[c] \cup {n} ELSE due[c]]

NotifyJob(op, j) ==
    /\ service # "console-listener"
    /\ Notify(op, j)
    /\ changed' = [changed EXCEPT ![j] = nChanges + 1]
    /\ UNCHANGED <<type, projects, output, removed, service, conn, wake, tasks, nFaults, status, vote,
                   told, roomVars>>

\* The scheduler, the runner, an abort and a restart change the row of a job.
Moves ==
    {<<"queued", "scheduled">>, <<"scheduled", "running">>}
        \cup ({"queued"} \X (Ends \cap {"skipped", "killed", "error"}))
        \cup ({"running"} \X (Ends \ {"skipped"}))
        \cup (Ends \X {"queued"})

UpdateJob(j, s) ==
    /\ nChanges < MaxChanges[service]
    /\ <<row[j], s>> \in Moves
    /\ row' = [row EXCEPT ![j] = s]
    /\ NotifyJob("UPDATE", j)

\* A running job inserts others.
InsertJob(j) ==
    /\ nChanges < MaxChanges[service]
    /\ row[j] = "none"
    /\ \E c \in Creator : BuildOf[c] = BuildOf[j] /\ row[c] = "running"
    /\ row' = [row EXCEPT ![j] = "queued"]
    /\ NotifyJob("INSERT", j)

\* A running job posts a piece of its output; its rows are removed when it ends.
InsertConsole(j) ==
    /\ nChanges < MaxChanges[service]
    /\ service = "console-listener" /\ row[j] = "running"
    /\ output' = output \cup {nChanges + 1}
    /\ Notify("INSERT", j)
    /\ UNCHANGED <<row, type, projects, changed, removed, service, conn, wake, tasks, nFaults, status,
                   vote, told, roomVars>>

RemoveConsole ==
    /\ output # {}
    /\ output' = {} /\ removed' = removed \cup output
    /\ UNCHANGED <<row, type, projects, nChanges, changed, service, conn, inbox, wake, tasks, nFaults,
                   outside, missed, roomVars>>

\* The rows of builds and jobs stay.
DeleteProject(p) ==
    /\ nChanges < MaxChanges[service] /\ nChanges' = nChanges + 1
    /\ p \in projects
    /\ projects' = projects \ {p}
    /\ service # "console-listener"
    /\ UNCHANGED <<row, type, output, removed, changed, service, conn, inbox, wake, tasks, nFaults,
                   outside, missed, roomVars>>

-----------------------------------------------------------------------------
(* The service: its connection and its queue.                              *)

\* _is_leader: the row of a service can only have the name of that service,
\* so that every process that asks is told it leads.
Elected(s, name, expired) == (IF expired THEN s ELSE name) = s

ElectLeader ==
    /\ service \in Review /\ conn = "down"
    /\ \E expired \in BOOLEAN : Elected(service, service, expired)
    /\ conn' = "leader"
    /\ UNCHANGED <<database, service, inbox, wake, tasks, nFaults, outside, missed, roomVars>>

Listen ==
    /\ conn = IF service \in Review THEN "leader" ELSE "down"
    /\ conn' = "listening"
    /\ UNCHANGED <<database, service, inbox, wake, tasks, nFaults, outside, missed, roomVars>>

\* A query of a review is made on the connection that listens: with its answer,
\* the notifications that have arrived are read off the socket, and put into
\* conn.notifies. The listeners of the API have other connections for that.
Query ==
    /\ collected' = IF service \in Review THEN Len(inbox) ELSE collected
    /\ UNCHANGED loop

\* is_leader, at the beginning of each round.
CheckLeader ==
    /\ service \in Review /\ conn = "listening" /\ tasks = {}
    /\ loop = "check" \/ (loop = "drain" /\ collected = 0)
    /\ \E expired \in BOOLEAN : Elected(service, service, expired)
    /\ collected' = Len(inbox) /\ loop' = "select"
    /\ UNCHANGED <<database, service, conn, inbox, tasks, nFaults, outside, missed, roomVars>>

\* select returns when there is something on the socket: then it is read, and
\* conn.notifies is emptied. Or it times out, and what the query of is_leader
\* has read off the socket before waits in conn.notifies.
Select ==
    /\ loop = "select"
    /\ IF collected < Len(inbox)
       THEN collected' = Len(inbox) /\ loop' = "drain"
       ELSE loop' = "check" /\ UNCHANGED collected
    /\ UNCHANGED <<database, service, conn, inbox, tasks, nFaults, outside, missed, roomVars>>

TaskOf(event) ==
    [event |-> event, at |-> IF service = "console-listener" THEN "console" ELSE "job",
     change |-> 0, value |-> ""]

\* Mutant: one thread for each job.
StartTaskOnce ==
    /\ service \notin Review /\ inbox # <<>>
    /\ LET event == inbox[Len(inbox)] IN
          tasks' = IF \E t \in tasks : t.event.job = event.job
                   THEN tasks ELSE tasks \cup {TaskOf(event)}
    /\ inbox' = SubSeq(inbox, 1, Len(inbox) - 1)
    /\ UNCHANGED <<database, service, conn, wake, nFaults, outside, missed, roomVars>>

\* The API takes the last event, and does not wait for the ones before.
StartTask ==
    /\ service \notin Review /\ inbox # <<>>
    /\ tasks' = tasks \cup {TaskOf(inbox[Len(inbox)])}
    /\ inbox' = SubSeq(inbox, 1, Len(inbox) - 1)
    /\ UNCHANGED <<database, service, conn, wake, nFaults, outside, missed, roomVars>>

\* Mutant: a review does not wait either.
NextEventAtOnce ==
    /\ service \in Review /\ loop = "drain" /\ collected > 0
    /\ tasks' = tasks \cup {TaskOf(Head(inbox))}
    /\ inbox' = Tail(inbox) /\ collected' = collected - 1
    /\ UNCHANGED <<database, service, conn, loop, nFaults, outside, missed, roomVars>>

\* Mutant: 'if conn.notifies' instead of 'while'.
NextEventOnce ==
    /\ service \in Review /\ loop = "drain" /\ collected > 0 /\ tasks = {}
    /\ tasks' = {TaskOf(Head(inbox))}
    /\ inbox' = Tail(inbox) /\ collected' = collected - 1 /\ loop' = "check"
    /\ UNCHANGED <<database, service, conn, nFaults, outside, missed, roomVars>>

\* A review takes the first one that is in conn.notifies.
NextEvent ==
    /\ service \in Review /\ loop = "drain" /\ collected > 0 /\ tasks = {}
    /\ tasks' = {TaskOf(Head(inbox))}
    /\ inbox' = Tail(inbox) /\ collected' = collected - 1
    /\ UNCHANGED <<database, service, conn, loop, nFaults, outside, missed, roomVars>>

\* The listener of the API loses its connection, and with it what it has been
\* sent. A review ends with its connection, and when Gerrit cannot be reached.
ServiceFails ==
    /\ nFaults < MaxFaults /\ nFaults' = nFaults + 1
    /\ conn # "down"
    /\ conn' = "down" /\ inbox' = <<>> /\ collected' = 0 /\ loop' = "check"
    /\ LET lost == {inbox[i].n : i \in DOMAIN inbox}
                      \cup (IF service \in Review THEN {t.event.n : t \in tasks} ELSE {})
       IN missed' = missed \cup lost
    /\ tasks' = IF service \in Review THEN {} ELSE tasks
    /\ UNCHANGED <<database, service, outside, roomVars>>

-----------------------------------------------------------------------------
(* An event is handled.                                                    *)

Becomes(t, u) == tasks' = (tasks \ {t}) \cup {u}
Done(t) == tasks' = tasks \ {t}

\* Nothing to do: the project is gone or of the other type, the event is that of
\* an INSERT, or the job has not ended.
Ignored(t) ==
    LET job == t.event.job IN
    \/ Project(job) \notin projects
    \/ service = "github-review" /\ type[Project(job)] # "github"
    \/ service = "gerrit-review" /\ (t.event.type # "UPDATE" \/ type[Project(job)] # "gerrit"
                                     \/ row[job] \in Active)

IgnoreJob(t) ==
    /\ t.at = "job" /\ Ignored(t)
    /\ Done(t) /\ Query
    /\ UNCHANGED <<database, service, conn, inbox, nFaults, outside, missed, roomVars>>

\* Mutant: 'error' and 'skipped' fall through to the default.
GitHubStateFailures(s) ==
    IF s \in Active THEN "pending" ELSE IF s \in {"failure", "killed"} THEN "failure" ELSE "success"

GitHubState(s) ==
    CASE s \in Active -> "pending"
      [] s \in {"failure", "skipped", "killed"} -> "failure"
      [] s = "error" -> "error"
      [] OTHER -> "success"

\* The row is read: at a later time than that of the event.
ReadJob(t) ==
    /\ t.at = "job" /\ ~Ignored(t)
    /\ LET job == t.event.job
           at == CASE service = "job-listener" -> "emit" [] service = "github-review" -> "owner"
                   [] OTHER -> "count"
       IN Becomes(t, [t EXCEPT !.at = at, !.change = changed[job],
                               !.value = IF at = "owner" THEN GitHubState(row[job]) ELSE ""])
    /\ Query
    /\ UNCHANGED <<database, service, conn, inbox, nFaults, outside, missed, roomVars>>

\* The token of the owner and the status URL of the commit.
ReadOwner(t) ==
    /\ t.at = "owner"
    /\ IF Commit(t.event.job) \in Unreportable THEN Done(t) ELSE Becomes(t, [t EXCEPT !.at = "status"])
    /\ Query
    /\ UNCHANGED <<database, service, conn, inbox, nFaults, outside, missed, roomVars>>

\* The console listener looks for clients first, and for the row only then.
ReadConsole(t) ==
    /\ t.at = "console"
    /\ IF has_clients /\ t.event.n \in output
       THEN Becomes(t, [t EXCEPT !.at = "emit", !.change = t.event.n])
       ELSE Done(t)
    /\ UNCHANGED <<database, service, conn, inbox, wake, nFaults, outside, missed, roomVars>>

\* To those who are in the room.
Emit(t) ==
    /\ t.at = "emit"
    /\ told' = [c \in Clients |-> IF c \in members THEN told[c] \cup {t.change} ELSE told[c]]
    /\ Done(t)
    /\ UNCHANGED <<database, service, conn, inbox, wake, nFaults, status, vote, due, missed, roomVars>>

PostStatus(t) ==
    /\ t.at = "status"
    /\ status' = [status EXCEPT ![Context(t.event.job)] = t.value]
    /\ Done(t)
    /\ UNCHANGED <<database, service, conn, inbox, wake, nFaults, vote, told, due, missed, roomVars>>

States(b) == {row[j] : j \in JobsOf(b)} \ {"none"}

\* Mutant: a job that was skipped counts as one that is still to come.
VoteSkipped(b) ==
    IF States(b) = {"finished"} THEN "+1"
    ELSE IF States(b) \cap (Active \cup {"skipped"}) # {} THEN "0" ELSE "-1"

Vote(b) ==
    IF States(b) = {"finished"} THEN "+1"
    ELSE IF States(b) \cap Active # {} THEN "0" ELSE "-1"

\* The states of all jobs of the build, at a later time than that of the row.
CountStates(t) ==
    /\ t.at = "count"
    /\ LET v == Vote(BuildOf[t.event.job]) IN
          IF v \in {"-1", "+1"} \/ t.event.job \in Creator
          THEN Becomes(t, [t EXCEPT !.at = "vote", !.value = v])
          ELSE Done(t)
    /\ Query
    /\ UNCHANGED <<database, service, conn, inbox, nFaults, outside, missed, roomVars>>

SetReview(t) ==
    /\ t.at = "vote"
    /\ vote' = [vote EXCEPT ![Commit(t.event.job)] = t.value]
    /\ Done(t)
    /\ UNCHANGED <<database, service, conn, inbox, wake, nFaults, status, told, due, missed, roomVars>>

\* What GitHub, or 'gerrit review', answers is logged, nothing more.
Refused(t) ==
    /\ nFaults < MaxFaults /\ nFaults' = nFaults + 1
    /\ t.at \in {"status", "vote"}
    /\ Done(t)
    /\ missed' = missed \cup {t.event.n}
    /\ UNCHANGED <<database, service, conn, inbox, wake, outside, roomVars>>

-----------------------------------------------------------------------------
(* The clients load the jobs, or the output, and listen afterwards.         *)

Load(c) ==
    /\ client[c] = "connected"
    /\ client' = [client EXCEPT ![c] = "loaded"]
    /\ told' = [told EXCEPT ![c] = IF room = "job" THEN output ELSE {changed[j] : j \in Jobs}]
    /\ UNCHANGED <<database, service, conn, inbox, wake, tasks, nFaults, status, vote, due, missed,
                   room, members, entries, nEntries>>

Leave(c) ==
    /\ Disconnect(c)
    /\ due' = [due EXCEPT ![c] = {}]
    /\ UNCHANGED <<database, service, conn, inbox, wake, tasks, nFaults, status, vote, told, missed>>

Enter(c) ==
    /\ RoomsStep(c)
    /\ UNCHANGED <<database, service, conn, inbox, wake, tasks, nFaults, outside, missed>>

-----------------------------------------------------------------------------
Handle(t) ==
    \/ IgnoreJob(t) \/ ReadJob(t) \/ ReadOwner(t) \/ ReadConsole(t) \/ Emit(t) \/ PostStatus(t)
    \/ CountStates(t) \/ SetReview(t)

Serve ==
    \/ ElectLeader \/ Listen \/ CheckLeader \/ Select \/ StartTask \/ NextEvent
    \/ \E t \in tasks : Handle(t)

Change ==
    \/ \E j \in Jobs : InsertJob(j) \/ InsertConsole(j) \/ \E s \in State : UpdateJob(j, s)
    \/ RemoveConsole
    \/ \E p \in Projects : DeleteProject(p)

Next ==
    \/ Serve
    \/ Change
    \/ ServiceFails \/ \E t \in tasks : Refused(t)
    \/ \E c \in Clients : Load(c) \/ Enter(c) \/ Leave(c)

Spec == Init /\ [][Next]_vars

\* A service that has ended is started again, and goes on with its events.
FairSpec == Spec /\ WF_vars(Serve)

-----------------------------------------------------------------------------
(* Properties.                                                             *)

Quiet == conn = "listening" /\ inbox = <<>> /\ tasks = {}

\* Although the events are taken from the end of the list, and the rows are
\* read and sent by threads that pass each other: once all are handled, every
\* client in the room has been sent the current state of each job that has
\* changed since it came, and each piece of output (but those that were
\* gathered before they were read), unless the event was lost with a
\* connection. (It may have been sent an older state after the current one.)
ClientsTold ==
    Quiet => \A c \in members :
        /\ service = "job-listener" =>
              \A j \in Jobs : Project(j) \in projects /\ changed[j] \in due[c] =>
                  changed[j] \in told[c] \cup missed
        /\ service = "console-listener" => due[c] \subseteq told[c] \cup missed \cup removed

\* The event of a change has come, and has been dealt with to the end.
Waiting == {inbox[i].n : i \in DOMAIN inbox} \cup {t.event.n : t \in tasks}
Handled(n) == n \notin missed \cup Waiting

\* The job of S that has changed last.
LastIn(j, S) == j \in S /\ \A i \in S : changed[i] <= changed[j]

\* A status of a commit tells the current state of the job that has changed
\* last, among those of this name in all builds of the commit, as soon as the
\* event of that change has been handled, although states are read and posted at
\* different times: unless the event came while nobody listened, or the POST
\* was refused.
Failing == {"failure", "skipped", "killed"}

StatusCurrent ==
    service = "github-review" =>
        \A j \in Jobs :
            /\ Project(j) \in projects /\ type[Project(j)] = "github" /\ Commit(j) \notin Unreportable
            /\ LastIn(j, {i \in Jobs : Context(i) = Context(j)}) /\ Handled(changed[j])
            => /\ status[Context(j)] = "pending" <=> row[j] \in Active
               /\ status[Context(j)] = "failure" <=> row[j] \in Failing
               /\ status[Context(j)] = "error" <=> row[j] = "error"

\* The vote on a commit is that of the build that has changed last, if its jobs
\* have ended: +1 exactly if all are finished, whatever the order in which the
\* jobs of all its builds ended, were restarted, and their events were handled.
\* It takes only the event of the last change to be handled: neither lost, nor
\* its vote refused.
Verdict(b) == IF States(b) = {"finished"} THEN "+1" ELSE "-1"

VoteFinal ==
    service = "gerrit-review" =>
        \A j \in Jobs :
            LET build == BuildOf[j] IN
            /\ Project(j) \in projects /\ type[Project(j)] = "gerrit" /\ States(build) \subseteq Ended
            /\ LastIn(j, {i \in Jobs : Commit(i) = Commit(j)}) /\ Handled(changed[j])
            => vote[Commit(j)] = Verdict(build)

\* When the jobs stop changing, and the service stops failing, nothing is in
\* hand, and nothing that was sent is left on the socket; and a review that has
\* been woken up goes on until it has handled all that it has read off it. (What
\* the query of is_leader reads off the socket wakes nobody up: EventsHandled.)
NotificationsSettle ==
    /\ <>[](conn = "listening" /\ tasks = {} /\ collected = Len(inbox))
    /\ loop = "drain" ~> (tasks = {} /\ collected = 0)

\* What one expects of 'while conn.notifies' (github/review/review.py:47): when
\* the jobs stop changing, all their events have been handled in the end. The
\* code does not promise it.
EventsHandled == <>[]Quiet

\* What one expects of a status with a link to its build (github/review/
\* review.py:133): the last change of each job of each build that was not
\* missed is posted, and stays. Builds of a commit share the context.
StatusOfEachJob ==
    service = "github-review" =>
        \A j \in Jobs :
            /\ Project(j) \in projects /\ type[Project(j)] = "github" /\ Commit(j) \notin Unreportable
            /\ Handled(changed[j])
            => status[Context(j)] = GitHubState(row[j])
=============================================================================
