------------------------------- MODULE Console -------------------------------
(***************************************************************************)
(* The output of a job, from its lines to its log. The runner              *)
(* (src/job/infrabox_job/process.py) collects lines and posts them in      *)
(* pieces; the API (src/api/handlers/job_api.py) keeps each piece as a row *)
(* of the table console; whoever ends the job, the runner with             *)
(* 'setfinished' or the scheduler (src/scheduler/kubernetes/scheduler.py), *)
(* gathers the rows into job.console.                                      *)
(*                                                                         *)
(* A POST the runner gives up may still arrive, at any later time. Each    *)
(* SQL statement that matters to another transaction is a step.            *)
(***************************************************************************)
EXTENDS Naturals, FiniteSets, Sequences

CONSTANTS
    MaxUpdates,     \* the limit of console_output_updates
    MaxLength,      \* the limit of console_output_len, in lines
    MaxLines,       \* bound: lines of an execution
    MaxExecutions,  \* bound: executions of the job
    MaxFaults,      \* bound: connections that break, statements that fail
    MaxEndings      \* bound: aborts and timeouts

ASSUME ConsoleAssumption ==
    {MaxUpdates, MaxLength, MaxLines, MaxExecutions, MaxFaults, MaxEndings} \subseteq Nat

VARIABLES
    state,       \* job.state
    log,         \* job.console, a sequence of pieces
    rows,        \* the rows of console
    date,        \* the clock of the database
    requests,    \* the requests on their way
    execution,   \* how often the job has been started
    phase,       \* of the runner
    result,      \* what it is about to report
    written,     \* lines it has collected
    sent,        \* lines it has posted, or dropped
    posting,     \* it waits for an answer
    gathered,    \* the pieces its 'setfinished' has read
    ending,      \* the abort or timeout the scheduler deals with
    nEndings,
    nFaults,
    \* --- history
    due,         \* lines that were flushed at the end of the body
    trouble      \* a POST was given up or refused, failed, or outlived its execution

runnerVars == <<phase, result, written, sent, posting, gathered, due>>
jobVars == <<state, log>>
vars == <<jobVars, rows, date, requests, execution, runnerVars, ending, nEndings, nFaults, trouble>>

ActiveState == {"queued", "running"}
Result == {"finished", "failure"}
Nothing == <<>>

\* Lines first..last of an execution.
Piece == [execution : 1..MaxExecutions, first : 1..MaxLines + 1, last : 1..MaxLines + 1]
Row == [piece : Piece, date : Nat]

TypeOK ==
    /\ state \in ActiveState \cup Result \cup {"killed", "error"}
    /\ log \in Seq(Piece)
    /\ rows \subseteq Row
    /\ \A r, s \in rows : r.date = s.date => r = s
    /\ date \in Nat
    /\ requests \subseteq [piece : Piece, date : Nat]
    /\ execution \in 0..MaxExecutions
    /\ phase \in {"none", "start", "body", "header", "report", "gathered"}
    /\ result \in Result
    /\ written \in 0..MaxLines + 1 /\ sent \in 0..written
    /\ posting \in BOOLEAN
    /\ gathered \in Seq(Piece)
    /\ ending \in [kind : {"none", "abort", "timeout"}, read : BOOLEAN, log : Seq(Piece)]
    /\ due \in 0..written
    /\ trouble \in BOOLEAN
    \* the limits are checked before a row is inserted, and one POST at a time
    /\ ~trouble => Cardinality(rows) <= MaxUpdates + 1

NoEnding == [kind |-> "none", read |-> FALSE, log |-> Nothing]

Init ==
    /\ state = "queued" /\ log = Nothing
    /\ rows = {} /\ date = 0 /\ requests = {}
    /\ execution = 0
    /\ phase = "none" /\ result = "finished"
    /\ written = 0 /\ sent = 0 /\ posting = FALSE /\ gathered = Nothing
    /\ ending = NoEnding /\ nEndings = 0 /\ nFaults = 0
    /\ due = 0 /\ trouble = FALSE

-----------------------------------------------------------------------------
(* The runner.                                                             *)

StartPod ==
    /\ state = "queued" /\ phase = "none" /\ execution < MaxExecutions
    /\ phase' = "start" /\ execution' = execution + 1
    /\ written' = 0 /\ sent' = 0 /\ posting' = FALSE /\ due' = 0 /\ gathered' = Nothing
    /\ UNCHANGED <<jobVars, rows, date, requests, result, ending, nEndings, nFaults, trouble>>

\* Mutant: the rows of the execution before stay.
SetRunningKeepingRows ==
    /\ phase = "start" /\ state \in ActiveState
    /\ state' = "running" /\ phase' = "body"
    /\ trouble' = (trouble \/ requests # {})
    /\ UNCHANGED <<log, rows, date, requests, execution, result, written, sent, posting, gathered,
                   due, ending, nEndings, nFaults>>

SetRunning ==
    /\ phase = "start" /\ state \in ActiveState
    /\ rows' = {}
    /\ state' = "running" /\ phase' = "body"
    /\ trouble' = (trouble \/ requests # {})
    /\ UNCHANGED <<log, date, requests, execution, result, written, sent, posting, gathered, due,
                   ending, nEndings, nFaults>>

\* collect: a line is kept until the last POST is a second ago.
Collect ==
    /\ phase = "body" /\ ~posting /\ written < MaxLines
    /\ written' = written + 1
    /\ UNCHANGED <<jobVars, rows, date, requests, execution, phase, result, sent, posting, gathered,
                   due, ending, nEndings, nFaults, trouble>>

\* flush: the lines leave the buffer, whatever becomes of the POST.
Flush ==
    /\ phase \in {"body", "header"} /\ ~posting /\ sent < written
    /\ requests' = requests \cup
          {[piece |-> [execution |-> execution, first |-> sent + 1, last |-> written], date |-> 0]}
    /\ sent' = written /\ posting' = TRUE
    /\ UNCHANGED <<jobVars, rows, date, execution, phase, result, written, gathered, due, ending,
                   nEndings, nFaults, trouble>>

\* The connection breaks before, or after the request has left.
FlushFails ==
    /\ nFaults < MaxFaults /\ nFaults' = nFaults + 1
    /\ posting /\ posting' = FALSE
    /\ trouble' = TRUE
    /\ \/ UNCHANGED requests
       \/ requests' = {q \in requests : q.piece.execution # execution \/ q.piece.last # sent}
    /\ UNCHANGED <<jobVars, rows, date, execution, phase, result, written, sent, gathered, due,
                   ending, nEndings>>

\* main: the body has succeeded, its output is flushed, a header follows that
\* is posted only if the last POST is a second ago; or it has failed, and the
\* header is flushed with the rest.
EndBody(r) ==
    /\ phase = "body" /\ ~posting
    /\ r = "finished" => sent = written
    /\ result' = r /\ phase' = "header"
    /\ written' = written + 1
    /\ due' = IF r = "finished" THEN written ELSE written + 1
    /\ UNCHANGED <<jobVars, rows, date, requests, execution, sent, posting, gathered, ending,
                   nEndings, nFaults, trouble>>

Report ==
    /\ phase = "header" /\ ~posting
    /\ sent >= due
    /\ phase' = "report"
    /\ UNCHANGED <<jobVars, rows, date, requests, execution, result, written, sent, posting,
                   gathered, due, ending, nEndings, nFaults, trouble>>

\* The pod of a job that is over is removed, whatever the runner is doing.
PodGone ==
    /\ phase # "none"
    /\ state \notin ActiveState \/ ending.kind # "none"
    /\ phase' = "none" /\ posting' = FALSE
    /\ UNCHANGED <<jobVars, rows, date, requests, execution, result, written, sent, gathered, due,
                   ending, nEndings, nFaults, trouble>>

-----------------------------------------------------------------------------
(* POST /consoleupdate, within a transaction whose start is the date.      *)

Answered(q) == posting' = (posting /\ ~(q.piece.execution = execution /\ q.piece.last = sent))

Authorise(q) ==
    /\ q.date = 0 /\ state \in ActiveState
    /\ date' = date + 1
    /\ requests' = (requests \ {q}) \cup {[q EXCEPT !.date = date + 1]}
    /\ UNCHANGED <<jobVars, rows, execution, runnerVars, ending, nEndings, nFaults, trouble>>

\* The answer 401 is an answer.
Unauthorised(q) ==
    /\ q.date = 0 /\ state \notin ActiveState
    /\ requests' = requests \ {q}
    /\ Answered(q)
    /\ trouble' = TRUE
    /\ UNCHANGED <<jobVars, rows, date, execution, phase, result, written, sent, gathered, due,
                   ending, nEndings, nFaults>>

Lines == UNION {{r} \X (r.piece.first..r.piece.last) : r \in rows}
Length == Cardinality(Lines)
TooMuch == Length > MaxLength \/ Cardinality(rows) > MaxUpdates

\* Mutant: no limits.
InsertAlways(q) ==
    /\ q.date > 0
    /\ rows' = rows \cup {q}
    /\ requests' = requests \ {q}
    /\ Answered(q)
    /\ UNCHANGED <<jobVars, date, execution, phase, result, written, sent, gathered, due, ending,
                   nEndings, nFaults, trouble>>

ConsoleUpdate(q) ==
    /\ q.date > 0
    /\ rows' = IF TooMuch THEN rows ELSE rows \cup {q}
    /\ requests' = requests \ {q}
    /\ Answered(q)
    /\ UNCHANGED <<jobVars, date, execution, phase, result, written, sent, gathered, due, ending,
                   nEndings, nFaults, trouble>>

\* A statement fails: the INSERT, which is answered with 200 all the same, or
\* one before it, with 500. The runner takes either for an answer, and the
\* piece is lost.
ConsoleUpdateFails(q) ==
    /\ nFaults < MaxFaults /\ nFaults' = nFaults + 1
    /\ requests' = requests \ {q}
    /\ Answered(q)
    /\ trouble' = TRUE
    /\ UNCHANGED <<jobVars, rows, date, execution, phase, result, written, sent, gathered, due,
                   ending, nEndings>>

-----------------------------------------------------------------------------
(* The rows become the log.                                                *)

\* The place of a row in ORDER BY date.
Place(r) == Cardinality({s \in rows : s.date <= r.date})

Gather == [i \in 1..Cardinality(rows) |-> (CHOOSE r \in rows : Place(r) = i).piece]

\* POST /setfinished: the rows are read in one statement, and deleted in
\* another one.
ReadRows ==
    /\ phase = "report" /\ state \in ActiveState
    /\ gathered' = Gather
    /\ phase' = "gathered"
    /\ UNCHANGED <<jobVars, rows, date, requests, execution, result, written, sent, posting, due,
                   ending, nEndings, nFaults, trouble>>

SetFinished ==
    /\ phase = "gathered"
    /\ state' = result /\ log' = gathered
    /\ rows' = {}
    /\ phase' = "none"
    /\ UNCHANGED <<date, requests, execution, result, written, sent, posting, gathered, due, ending,
                   nEndings, nFaults, trouble>>

\* handle_aborts, handle_timeouts: the IBJob is deleted first, then the rows
\* are read, which stay.
StartEnding(kind) ==
    /\ nEndings < MaxEndings /\ nEndings' = nEndings + 1
    /\ ending = NoEnding
    /\ state = "running" \/ (kind = "abort" /\ state = "queued")
    /\ ending' = [kind |-> kind, read |-> FALSE, log |-> Nothing]
    /\ UNCHANGED <<jobVars, rows, date, requests, execution, runnerVars, nFaults, trouble>>

ReadRowsOfEnding ==
    /\ ending.kind # "none" /\ ~ending.read
    /\ ending' = [ending EXCEPT !.read = TRUE, !.log = Gather]
    /\ UNCHANGED <<jobVars, rows, date, requests, execution, runnerVars, nEndings, nFaults, trouble>>

SetKilled ==
    /\ ending.kind = "abort" /\ ending.read
    /\ IF state \in ActiveState
       THEN state' = "killed" /\ log' = ending.log ELSE UNCHANGED jobVars
    /\ ending' = NoEnding
    /\ UNCHANGED <<rows, date, requests, execution, runnerVars, nEndings, nFaults, trouble>>

\* The UPDATE has no condition: it replaces a log that is complete.
SetTimedOut ==
    /\ ending.kind = "timeout" /\ ending.read
    /\ state' = "error" /\ log' = ending.log
    /\ ending' = NoEnding
    /\ UNCHANGED <<rows, date, requests, execution, runnerVars, nEndings, nFaults, trouble>>

Restart ==
    /\ state \notin ActiveState
    /\ state' = "queued" /\ log' = Nothing
    /\ UNCHANGED <<rows, date, requests, execution, runnerVars, ending, nEndings, nFaults, trouble>>

-----------------------------------------------------------------------------
Next ==
    \/ StartPod \/ SetRunning \/ Collect \/ Flush \/ FlushFails
    \/ \E r \in Result : EndBody(r)
    \/ Report \/ PodGone
    \/ \E q \in requests : Authorise(q) \/ Unauthorised(q) \/ ConsoleUpdate(q) \/ ConsoleUpdateFails(q)
    \/ ReadRows \/ SetFinished
    \/ \E kind \in {"abort", "timeout"} : StartEnding(kind)
    \/ ReadRowsOfEnding \/ SetKilled \/ SetTimedOut \/ Restart

Spec == Init /\ [][Next]_vars

-----------------------------------------------------------------------------
(* Properties.                                                             *)

Sequel(p, q) == q.execution = p.execution /\ q.first = p.last + 1

\* No line is in two pieces of an execution.
LinesOnce(l) ==
    \A i, j \in DOMAIN l :
        i < j /\ l[i].execution = l[j].execution => l[i].last < l[j].first \/ l[j].last < l[i].first

\* One execution, from its first line on, without a gap.
Contiguous(l) == \A i \in DOMAIN l : IF i = 1 THEN l[1].first = 1 ELSE Sequel(l[i - 1], l[i])

\* A contiguous log that ends with line n has n lines.
UpToLimit(l) == Len(l) > MaxUpdates \/ (Len(l) > 0 /\ l[Len(l)].last > MaxLength)

Whole(l) == due = 0 \/ UpToLimit(l) \/ (Len(l) > 0 /\ l[Len(l)].last >= due)

\* The log of a job holds every line at most once, also when its pieces were
\* gathered by the runner and the scheduler at the same time. It is the output
\* of one execution from its first line on, without a gap, in the order it was
\* written, as long as no POST was given up, or refused because somebody else
\* had ended the job, or failed in the database (the API swallows a failed
\* INSERT and answers 200), or outlived its execution. When the runner has
\* ended the job, nothing that was flushed at the end of its body is missing
\* (the limit apart), and no row is left.
LogFaithful ==
    /\ LinesOnce(log)
    /\ ~trouble =>
          /\ Contiguous(log)
          /\ state \in Result /\ state = result => rows = {} /\ Whole(log)
=============================================================================
