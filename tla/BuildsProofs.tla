---------------------------- MODULE BuildsProofs ----------------------------
(* Builds are numbered without a gap, and made from what is there, for any  *)
(* requests, projects, commits, clusters and number of faults.              *)
EXTENDS Builds, FiniteSetTheorems, TLAPS

(***************************************************************************)
(* The inductive invariant: what a request has read, and what its          *)
(* transaction holds.                                                      *)
(***************************************************************************)

Late == {"build", "job", "end"}

\* How far a request of a kind may be.
PlaceOK(r) ==
    /\ pc[r] \in {"commit", "insert", "number"} => ForCommit(req[r])
    /\ pc[r] = "number" => req[r].kind # "trigger"
    /\ pc[r] = "source" => req[r].kind = "trigger" /\ TypeOf[req[r].project] = "upload"
    /\ pc[r] = "forward" => req[r].kind = "upload"
    /\ pc[r] = "buffered" => req[r].kind = "event"
    /\ pc[r] = "lost" => req[r].kind \in HookKind \cup {"event"}
    /\ "build" \in tx[r] <=> pc[r] \in {"job", "end"}
    /\ pc[r] = "end" => "job" \in tx[r]
    /\ "commit" \in tx[r] => ForCommit(req[r]) /\ pc[r] \in {"number"} \cup Late

\* The key it has read is at most one ahead of the builds, which only grow.
KeyOK(r) ==
    pc[r] \in Late \/ (req[r].kind = "trigger" /\ pc[r] \in {"commit", "insert", "source"}) =>
        /\ key[r].number > 0 /\ key[r].restart > 0
        /\ IF req[r].kind = "restart"
           THEN /\ key[r].number \in Numbers(req[r].project)
                /\ 1..(key[r].restart - 1) \subseteq Restarts(req[r].project, key[r].number)
           ELSE key[r].restart = 1 /\ 1..(key[r].number - 1) \subseteq Numbers(req[r].project)

\* What it builds from is there.
SourceOK(r) ==
    /\ ForCommit(req[r]) =>
          /\ pc[r] \in Late \/ (req[r].kind = "trigger" /\ pc[r] \in {"commit", "insert"})
                => key[r].source = req[r].commit
          /\ pc[r] \in {"number"} \cup Late => "commit" \in tx[r] \/ CommitOf(r) \in commits
    /\ req[r].kind = "upload" =>
          /\ pc[r] \in {"forward"} \cup Late =>
                r \in stored[Master] /\ \A c \in targets[r] \ todo[r] : r \in stored[c]
          /\ pc[r] \in Late => key[r].source = r /\ todo[r] = {}
    /\ pc[r] \in Late /\ ~ForCommit(req[r]) /\ req[r].kind # "upload" =>
          \E b \in OfProject(req[r].project) :
              /\ b.source = key[r].source
              /\ req[r].kind = "restart" => b.number = key[r].number

RequestsOK == \A r \in Requests : PlaceOK(r) /\ KeyOK(r) /\ SourceOK(r)

\* A key is held by one transaction, and not taken.
HeldOK ==
    \A r \in Requests : "build" \in tx[r] =>
        /\ ~Taken(r)
        /\ \A q \in Requests : q # r /\ "build" \in tx[q] => ~SameKey(BuildOf(q), BuildOf(r))

NumbersOK ==
    \A p \in Projects :
        /\ \E k \in Nat : Numbers(p) = 1..k
        /\ \A n \in Numbers(p) : \E k \in Nat : Restarts(p, n) = 1..k
        /\ \A b, c \in OfProject(p) : b.number = c.number =>
              (b.source = c.source /\ (b.restart = c.restart => b = c))

BuiltOK ==
    \A b \in builds :
        /\ b \in firstJobs
        /\ IF TypeOf[b.project] = "upload"
           THEN /\ b.source \in Requests /\ req[b.source].kind = "upload" /\ pc[b.source] # "new"
                /\ \A c \in targets[b.source] \cup {Master} : b.source \in stored[c]
           ELSE <<b.project, b.source>> \in commits

BuildsInv ==
    TypeOK /\ IsFiniteSet(builds) /\ RequestsOK /\ HeldOK /\ NumbersOK /\ BuiltOK /\ CommitsAreBuilt

(***************************************************************************)
(* Setbacks: every one has a build of somebody else, or a fault, to blame. *)
(***************************************************************************)

Event(r) == req[r].kind = "event"

Count(r) == Cardinality(Rivals(r))

\* The builds that r is after are rivals of q.
Against(q, r) ==
    req[q].project = req[r].project \/ (Event(q) /\ TypeOf[req[r].project] = "gerrit")

\* Somebody has committed what the request has not seen.
Beaten(r) == (pc[r] = "insert" /\ CommitOf(r) \in commits) \/ (pc[r] = "build" /\ Taken(r))

CountsOK ==
    \A r \in Requests :
        /\ built[r] = unheard[r] + (IF pc[r] = "ok" THEN 1 ELSE 0)
        /\ Count(r) >= built[r]

HooksOK ==
    \A r \in Requests : req[r].kind \in HookKind /\ req[r].branch =>
        /\ Count(r) + nFaults >= built[r] + attempt[r] - 1
        /\ Beaten(r) => Count(r) + nFaults >= built[r] + attempt[r]
        /\ pc[r] = "lost" => Count(r) + nFaults >= built[r] + HookAttempts

EventsOK ==
    /\ \A q, r \in Requests : Handling(q) /\ Handling(r) => q = r
    /\ \A r \in Requests : Event(r) =>
          /\ attempt[r] <= EventAttempts /\ attempt[r] <= nFaults + 1
          /\ Beaten(r) \/ ~listening => \A q \in Requests : Event(q) => Count(q) > built[q]
          /\ pc[r] = "lost" => Count(r) > built[r] \/ nFaults >= EventAttempts

LostInv == CountsOK /\ HooksOK /\ EventsOK

(***************************************************************************)
(* Numbers.                                                                *)
(***************************************************************************)

LEMMA GreatestOf ==
    ASSUME NEW k \in Nat
    PROVE  Greatest(1..k) = k /\ Cardinality(1..k) = k /\ IsFiniteSet(1..k)
<1>1. Cardinality(1..k) = k /\ IsFiniteSet(1..k)
  <2>1. IsFiniteSet(1..k) /\ Cardinality(1..k) = IF 1 > k THEN 0 ELSE k - 1 + 1
    BY FS_Interval
  <2> QED
    BY <2>1
<1>2. CASE k = 0
  <2>1. 1..k = {}
    BY <1>2
  <2> QED
    BY <1>1, <1>2, <2>1 DEF Greatest
<1>3. CASE k # 0
  <2>1. k \in 1..k /\ \A m \in 1..k : m <= k
    BY <1>3
  <2>2. ASSUME NEW n \in 1..k, \A m \in 1..k : m <= n PROVE n = k
    BY <2>1, <2>2
  <2>3. 1..k # {}
    BY <2>1
  <2>4. (CHOOSE n \in 1..k : \A m \in 1..k : m <= n) = k
    BY <2>1, <2>2
  <2> QED
    BY <1>1, <2>3, <2>4 DEF Greatest
<1> QED
  BY <1>2, <1>3

LEMMA NextOf ==
    ASSUME NEW k \in Nat, NEW n \in Nat, n > k, 1..(n - 1) \subseteq 1..k
    PROVE  n = k + 1
<1>1. ASSUME n # k + 1 PROVE FALSE
  <2>1. k + 1 \in 1..(n - 1)
    BY <1>1
  <2> QED
    BY <2>1
<1> QED
  BY <1>1

LEMMA NumbersNext ==
    ASSUME NumbersOK, NEW p \in Projects
    PROVE  /\ NextNumber(p) \in Nat /\ NextNumber(p) > 0 /\ CountedNumber(p) = NextNumber(p)
           /\ NextNumber(p) \notin Numbers(p) /\ 1..(NextNumber(p) - 1) = Numbers(p)
<1>1. PICK k \in Nat : Numbers(p) = 1..k
  BY DEF NumbersOK
<1>2. NextNumber(p) = k + 1 /\ CountedNumber(p) = k + 1
  BY <1>1, GreatestOf DEF NextNumber, CountedNumber
<1> QED
  BY <1>1, <1>2

LEMMA RestartsNext ==
    ASSUME NumbersOK, NEW p \in Projects, NEW n \in Numbers(p)
    PROVE  LET m == Greatest(Restarts(p, n)) + 1
           IN  m \in Nat /\ m > 0 /\ 1..(m - 1) = Restarts(p, n)
<1>1. PICK k \in Nat : Restarts(p, n) = 1..k
  BY DEF NumbersOK
<1>2. Greatest(Restarts(p, n)) = k
  BY <1>1, GreatestOf
<1> QED
  BY <1>1, <1>2

(***************************************************************************)
(* Types.                                                                  *)
(***************************************************************************)

LEMMA RequestType ==
    ASSUME TypeOK, NEW r \in Requests
    PROVE  /\ req[r] \in Descriptor /\ Expected(req[r])
           /\ req[r].kind \in Kind /\ req[r].project \in Projects
           /\ req[r].commit \in Commits \cup {None} /\ req[r].branch \in BOOLEAN
           /\ ForCommit(req[r]) => req[r].commit \in Commits
           /\ pc[r] \in Statement \cup Outcome /\ key[r] \in Key
           /\ key[r].number \in Nat /\ key[r].restart \in Nat /\ key[r].source \in Source \cup {None}
           /\ tx[r] \in SUBSET Row /\ todo[r] \in SUBSET Remote /\ targets[r] \in SUBSET Remote
           /\ attempt[r] \in Nat /\ built[r] \in Nat /\ unheard[r] \in Nat
<1>1. req[r] \in {d \in Descriptor : Expected(d)}
  BY BuildsAssumption DEF TypeOK
<1>2. /\ req[r].kind \in Kind /\ req[r].project \in Projects
      /\ req[r].commit \in Commits \cup {None} /\ req[r].branch \in BOOLEAN
  BY <1>1 DEF Descriptor
<1>3. ForCommit(req[r]) => req[r].commit \in Commits
  BY <1>1 DEF Expected
<1>4. key[r] \in Key
  BY DEF TypeOK
<1>5. key[r].number \in Nat /\ key[r].restart \in Nat /\ key[r].source \in Source \cup {None}
  BY <1>4 DEF Key
<1> QED
  BY <1>1, <1>2, <1>3, <1>4, <1>5 DEF TypeOK, HookAttempts

\* The build of a transaction that inserts one.
LEMMA BuildType ==
    ASSUME BuildsInv, NEW r \in Requests, pc[r] \in Late
    PROVE  /\ BuildOf(r) \in Build
           /\ BuildOf(r).project = req[r].project /\ BuildOf(r).number = key[r].number
           /\ BuildOf(r).restart = key[r].restart /\ BuildOf(r).source = key[r].source
<1>1. key[r].source \in Source
  <2>1. CASE ForCommit(req[r])
    BY <2>1, RequestType DEF BuildsInv, RequestsOK, SourceOK, Source
  <2>2. CASE req[r].kind = "upload"
    BY <2>2, RequestType DEF BuildsInv, RequestsOK, SourceOK, Source
  <2>3. CASE ~ForCommit(req[r]) /\ req[r].kind # "upload"
    <3>1. PICK b \in builds : b.source = key[r].source
      BY <2>3 DEF BuildsInv, RequestsOK, SourceOK, OfProject
    <3>2. b.source \in Source
      BY DEF BuildsInv, TypeOK, Build
    <3> QED
      BY <3>1, <3>2
  <2> QED
    BY <2>1, <2>2, <2>3
<1> QED
  BY <1>1, RequestType DEF BuildsInv, BuildOf, Build

\* A request that cannot go on is tried again, answered or lost.
Setback(r) ==
    /\ pc' \in [Requests -> Statement \cup Outcome]
    /\ tx' = [tx EXCEPT ![r] = {}]
    /\ attempt' \in [Requests -> 1..HookAttempts]
    /\ listening' \in BOOLEAN
    /\ \A q \in Requests \ {r} :
          /\ attempt'[q] = attempt[q]
          /\ pc'[q] = pc[q] \/ (pc[q] = "buffered" /\ pc'[q] = "lost" /\ ~listening' /\ Event(r))
    /\ \/ /\ pc'[r] = "refused" /\ ~Event(r) /\ req[r].kind \notin HookKind
          /\ attempt' = attempt /\ listening' = listening
       \/ /\ req[r].kind \in HookKind /\ listening' = listening
          /\ \/ pc'[r] = "new" /\ attempt'[r] = attempt[r] + 1
             \/ pc'[r] = "lost" /\ attempt[r] = HookAttempts /\ attempt'[r] = attempt[r]
       \/ Event(r) /\ pc'[r] = "lost" /\ attempt' = attempt /\ ~listening'
       \/ /\ Event(r) /\ listening' = listening
          /\ \/ pc'[r] = "buffered" /\ attempt[r] = 1 /\ attempt'[r] = 2
             \/ pc'[r] = "lost" /\ attempt[r] >= EventAttempts /\ attempt'[r] = attempt[r]

LEMMA Failing ==
    ASSUME TypeOK, NEW r \in Requests, Violation(r) \/ Disconnected(r)
    PROVE  Setback(r)
<1> USE DEF TypeOK, Setback, Rollback, Goto, Event, Statement, Outcome, HookAttempts, EventAttempts
<1>1. CASE ApiFails(r) /\ req[r].kind \notin HookKind /\ req[r].kind # "event"
  BY <1>1 DEF ApiFails
<1>2. CASE HookFails(r) /\ req[r].kind \in HookKind
  BY <1>2 DEF HookFails
<1>3. CASE ListenerDies(r) /\ req[r].kind = "event"
  BY <1>3 DEF ListenerDies
<1>4. CASE EventRepeats(r) /\ req[r].kind = "event"
  BY <1>4 DEF EventRepeats
<1>5. req[r].kind = "event" => req[r].kind \notin HookKind
  BY DEF HookKind
<1> QED
  BY <1>1, <1>2, <1>3, <1>4, <1>5 DEF Violation, Disconnected

(***************************************************************************)
(* A statement that changes nothing but its request, and the storage.      *)
(***************************************************************************)

Only(r) ==
    /\ UNCHANGED <<dbVars, req, attempt, listening, built, unheard>>
    /\ nFaults' >= nFaults
    /\ \A c \in Remote \cup {Master} : stored[c] \subseteq stored'[c]
    /\ \A q \in Requests \ {r} :
          /\ pc'[q] = pc[q] /\ key'[q] = key[q] /\ tx'[q] = tx[q]
          /\ todo'[q] = todo[q] /\ targets'[q] = targets[q]

ReadStep(r) == StartTrigger(r) \/ NumberUpload(r) \/ NumberHook(r) \/ NumberEvent(r)

MoveStep(r) ==
    \/ CommitUnknown(r) \/ TriggerCommit(r)
    \/ HookIgnored(r) \/ HookRefused(r) \/ StartPush(r)
    \/ StartPullRequest(r) \/ PullRequestCommit(r)
    \/ EmitEvent(r) \/ SkipEvent(r) \/ StartEvent(r) \/ RestartRefused(r) \/ InsertJob(r)

UploadStep(r) == StoreUpload(r) \/ ForwardUpload(r) \/ ForwardRefused(r)

CopyStep(r) == LastSource(r) \/ StartRestart(r)

\* The insertions that succeed.
CommitInserted(r) == InsertCommit(r) /\ CommitOf(r) \notin commits /\ req[r].branch
BuildInserted(r) == InsertBuild(r) /\ ~Taken(r)

LEMMA ReadTypes ==
    ASSUME BuildsInv, NEW r \in Requests, ReadStep(r)
    PROVE  TypeOK' /\ Only(r)
<1>1. req[r].project \in Projects /\ req[r].commit \in Commits \cup {None}
  BY RequestType DEF BuildsInv
<1>2. NextNumber(req[r].project) \in Nat /\ CountedNumber(req[r].project) \in Nat
  BY <1>1, NumbersNext DEF BuildsInv
<1>3. PICK n \in Nat, x \in Source \cup {None} :
         key' = [key EXCEPT ![r] = [number |-> n, restart |-> 1, source |-> x]]
  <2>1. {req[r].commit, r} \subseteq Source \cup {None}
    BY <1>1 DEF Source
  <2> QED
    BY <1>2, <2>1 DEF ReadStep, StartTrigger, NumberUpload, NumberHook, NumberEvent
<1>4. [number |-> n, restart |-> 1, source |-> x] \in Key
  BY DEF Key
<1>5. key' \in [Requests -> Key]
  BY <1>3, <1>4 DEF BuildsInv, TypeOK
<1>6. /\ UNCHANGED <<dbVars, stored, req, attempt, tx, todo, listening, nFaults, historyVars>>
      /\ \E x1 \in Statement : pc' = [pc EXCEPT ![r] = x1]
  BY DEF ReadStep, StartTrigger, NumberUpload, NumberHook, NumberEvent, Goto, Statement
<1>7. TypeOK'
  BY <1>5, <1>6 DEF BuildsInv, TypeOK, dbVars, historyVars
<1> QED
  BY <1>3, <1>6, <1>7 DEF Only, BuildsInv, TypeOK, dbVars, historyVars

LEMMA MoveTypes ==
    ASSUME BuildsInv, NEW r \in Requests, MoveStep(r)
    PROVE  TypeOK' /\ Only(r)
<1>1. /\ UNCHANGED <<dbVars, stored, req, attempt, key, todo, listening, nFaults, historyVars>>
      /\ \E x \in Statement \cup Outcome : pc' = [pc EXCEPT ![r] = x]
      /\ \E x \in SUBSET Row : tx' = [tx EXCEPT ![r] = x]
  <2>1. tx[r] \in SUBSET Row /\ tx = [tx EXCEPT ![r] = tx[r]]
    BY DEF BuildsInv, TypeOK
  <2>2. tx[r] \cup {"pull"} \in SUBSET Row /\ tx[r] \cup {"job"} \in SUBSET Row /\ {} \in SUBSET Row
    BY <2>1 DEF Row
  <2>3. CASE \/ CommitUnknown(r) \/ TriggerCommit(r) \/ HookIgnored(r) \/ HookRefused(r) \/ StartPush(r)
             \/ EmitEvent(r) \/ SkipEvent(r) \/ StartEvent(r) \/ RestartRefused(r)
    BY <2>1, <2>3 DEF CommitUnknown, TriggerCommit, HookIgnored, HookRefused, StartPush, EmitEvent,
                      SkipEvent, StartEvent, RestartRefused, Goto, OnlyRequest, Statement, Outcome
  <2>4. CASE StartPullRequest(r) \/ PullRequestCommit(r) \/ InsertJob(r)
    BY <2>1, <2>2, <2>4 DEF StartPullRequest, PullRequestCommit, InsertJob, Goto, OnlyTx, Hold, Rollback,
                            Statement, Outcome
  <2> QED
    BY <2>3, <2>4 DEF MoveStep
<1> QED
  BY <1>1 DEF BuildsInv, TypeOK, Only, dbVars, historyVars

LEMMA UploadTypes ==
    ASSUME BuildsInv, NEW r \in Requests, UploadStep(r)
    PROVE  TypeOK' /\ Only(r)
<1> USE BuildsAssumption DEF BuildsInv, TypeOK, Only, dbVars, historyVars, Goto, Statement, Outcome
<1>1. CASE StoreUpload(r)
  BY <1>1 DEF StoreUpload
<1>2. CASE ForwardUpload(r)
  BY <1>2 DEF ForwardUpload
<1>3. CASE ForwardRefused(r)
  BY <1>3 DEF ForwardRefused, ForwardFails
<1> QED
  BY <1>1, <1>2, <1>3 DEF UploadStep

LEMMA CopyTypes ==
    ASSUME BuildsInv, NEW r \in Requests, CopyStep(r)
    PROVE  TypeOK' /\ Only(r)
<1>1. req[r].project \in Projects /\ key[r] \in Key
  BY RequestType DEF BuildsInv
<1>2. \A b \in builds : b.source \in Source /\ b.number \in Nat /\ b.project \in Projects
  BY DEF BuildsInv, TypeOK, Build
<1>3. /\ UNCHANGED <<dbVars, stored, req, attempt, tx, todo, listening, nFaults, historyVars>>
      /\ \E x \in Statement \cup Outcome : pc' = [pc EXCEPT ![r] = x]
      /\ \E k \in Key : key' = [key EXCEPT ![r] = k]
  <2>1. CASE LastSource(r)
    <3>1. CASE UNCHANGED key
      <4>1. key' = [key EXCEPT ![r] = key[r]]
        BY <3>1 DEF BuildsInv, TypeOK
      <4> QED
        BY <1>1, <2>1, <4>1 DEF LastSource, Goto, Statement, Outcome
    <3>2. CASE \E b \in OfProject(req[r].project) : key' = [key EXCEPT ![r].source = b.source]
      <4>1. PICK b \in builds : key' = [key EXCEPT ![r].source = b.source]
        BY <3>2 DEF OfProject
      <4>2. [key[r] EXCEPT !.source = b.source] \in Key
        BY <1>1, <1>2 DEF Key
      <4>3. key' = [key EXCEPT ![r] = [key[r] EXCEPT !.source = b.source]]
        BY <4>1 DEF BuildsInv, TypeOK
      <4> QED
        BY <2>1, <4>2, <4>3 DEF LastSource, Goto, Statement, Outcome
    <3> QED
      BY <2>1, <3>1, <3>2 DEF LastSource
  <2>2. CASE StartRestart(r)
    <3>1. PICK b \in OfProject(req[r].project) :
             key' = [key EXCEPT ![r] = [number |-> b.number,
                                        restart |-> Greatest(Restarts(b.project, b.number)) + 1,
                                        source |-> b.source]]
      BY <2>2 DEF StartRestart
    <3>2. b \in builds /\ b.project \in Projects /\ b.number \in Numbers(b.project)
      BY <1>2 DEF OfProject, Numbers
    <3>3. Greatest(Restarts(b.project, b.number)) + 1 \in Nat
      BY <3>2, RestartsNext DEF BuildsInv
    <3>4. [number |-> b.number, restart |-> Greatest(Restarts(b.project, b.number)) + 1,
           source |-> b.source] \in Key
      BY <1>2, <3>2, <3>3 DEF Key
    <3> QED
      BY <2>2, <3>1, <3>4 DEF StartRestart, Goto, Statement, Outcome
  <2> QED
    BY <2>1, <2>2 DEF CopyStep
<1> QED
  BY <1>3 DEF BuildsInv, TypeOK, Only, dbVars, historyVars

LEMMA InsertedTypes ==
    ASSUME BuildsInv, NEW r \in Requests, CommitInserted(r) \/ BuildInserted(r)
    PROVE  TypeOK' /\ Only(r)
<1>1. /\ UNCHANGED <<dbVars, stored, req, attempt, key, todo, listening, nFaults, historyVars>>
      /\ \E x \in Statement : pc' = [pc EXCEPT ![r] = x]
      /\ \E x \in Row : tx' = [tx EXCEPT ![r] = @ \cup {x}]
  BY DEF CommitInserted, BuildInserted, InsertCommit, InsertBuild, Goto, Hold, Statement, Row
<1> QED
  BY <1>1 DEF BuildsInv, TypeOK, Only, dbVars, historyVars

(***************************************************************************)
(* What the other requests rely on only grows.                             *)
(***************************************************************************)

Grow ==
    /\ builds \subseteq builds' /\ commits \subseteq commits' /\ req' = req
    /\ \A c \in Remote \cup {Master} : stored[c] \subseteq stored'[c]

Same(q) ==
    /\ pc'[q] = pc[q] \/ (pc[q] = "buffered" /\ pc'[q] = "lost")
    /\ key'[q] = key[q] /\ tx'[q] = tx[q] /\ todo'[q] = todo[q] /\ targets'[q] = targets[q]

LEMMA OthersKept ==
    ASSUME BuildsInv, NEW q \in Requests, Grow, Same(q)
    PROVE  PlaceOK(q)' /\ KeyOK(q)' /\ SourceOK(q)'
<1>1. PlaceOK(q) /\ KeyOK(q) /\ SourceOK(q)
  BY DEF BuildsInv, RequestsOK
<1>2. PICK p \in Projects : p = req[q].project /\ p = req'[q].project
  BY RequestType DEF BuildsInv, Grow
<1>3. /\ OfProject(p) \subseteq OfProject(p)' /\ Numbers(p) \subseteq Numbers(p)'
      /\ \A n : Restarts(p, n) \subseteq Restarts(p, n)'
  BY DEF Grow, OfProject, Numbers, Restarts
<1>4. pc'[q] \in Late \cup {"commit", "insert", "source", "number", "forward"} => pc'[q] = pc[q]
  BY DEF Same, Late
<1>5. PlaceOK(q)'
  BY <1>1 DEF PlaceOK, Grow, Same, Late, ForCommit
<1>6. KeyOK(q)'
  BY <1>1, <1>2, <1>3, <1>4 DEF KeyOK, Grow, Same, Late, Numbers, OfProject, Restarts
<1>7. SourceOK(q)'
  <2>1. ForCommit(req[q])' <=> ForCommit(req[q])
    BY DEF Grow, ForCommit
  <2>2. CommitOf(q)' = CommitOf(q)
    BY DEF Grow, CommitOf
  <2>3. targets[q] \subseteq Remote
    BY DEF BuildsInv, TypeOK
  <2> QED
    BY <1>1, <1>2, <1>3, <1>4, <2>1, <2>2, <2>3 DEF SourceOK, Grow, Same, Late, OfProject
<1> QED
  BY <1>5, <1>6, <1>7

(***************************************************************************)
(* What a request relies on after a statement of its own.                  *)
(***************************************************************************)

OwnOK(r) ==
    /\ PlaceOK(r)' /\ KeyOK(r)' /\ SourceOK(r)'
    /\ pc'[r] \notin {"new", "ok"} /\ pc[r] # "ok"
    /\ req[r].kind \in HookKind \cup {"event"} => ~Beaten(r)'
    /\ pc'[r] = "lost" => Event(r) /\ ~listening
    /\ Handling(r)' => Handling(r) \/ \A q \in Requests : ~Handling(q)

LEMMA ReadOK ==
    ASSUME BuildsInv, NEW r \in Requests, ReadStep(r)
    PROVE  OwnOK(r)
<1> DEFINE p == req[r].project
<1>1. PlaceOK(r) /\ KeyOK(r) /\ SourceOK(r)
  BY DEF BuildsInv, RequestsOK
<1>2. p \in Projects
  BY RequestType DEF BuildsInv
<1>3. /\ NextNumber(p) \in Nat /\ NextNumber(p) > 0 /\ CountedNumber(p) = NextNumber(p)
      /\ NextNumber(p) \notin Numbers(p) /\ 1..(NextNumber(p) - 1) = Numbers(p)
  BY <1>2, NumbersNext DEF BuildsInv
<1>4. /\ UNCHANGED <<dbVars, stored, req, tx, todo, targets>>
      /\ key'[r].number = NextNumber(p) /\ key'[r].restart = 1
  BY <1>3 DEF ReadStep, StartTrigger, NumberUpload, NumberHook, NumberEvent, historyVars, BuildsInv,
     TypeOK
<1>5. ~Taken(r)'
  <2>1. \A b \in builds : b.project = p => b.number # NextNumber(p)
    BY <1>3 DEF Numbers, OfProject
  <2> QED
    BY <1>4, <2>1 DEF Taken, SameKey, BuildOf, dbVars
<1>6. /\ 1..(key'[r].number - 1) \subseteq Numbers(p)
      /\ key'[r].number > 0
  BY <1>3, <1>4
<1>7. Numbers(p)' = Numbers(p)
  BY <1>4 DEF Numbers, OfProject, dbVars
<1>8. CASE StartTrigger(r)
  <2>1. /\ req[r].kind = "trigger" /\ key'[r].source = req[r].commit
        /\ pc[r] = "new" /\ pc'[r] = IF TypeOf[p] = "upload" THEN "source" ELSE "commit"
    BY <1>8 DEF StartTrigger, Is, Goto, BuildsInv, TypeOK
  <2>2. PlaceOK(r)'
    BY <1>1, <1>4, <2>1 DEF PlaceOK, ForCommit, Late, HookKind
  <2>3. KeyOK(r)'
    BY <1>4, <1>6, <1>7, <2>1 DEF KeyOK, Late
  <2>4. SourceOK(r)'
    BY <1>4, <2>1 DEF SourceOK, ForCommit, Late
  <2> QED
    BY <1>4, <2>1, <2>2, <2>3, <2>4 DEF OwnOK, Event, Handling, HookKind
<1>9. CASE NumberUpload(r)
  <2>1. /\ req[r].kind = "upload" /\ key'[r].source = r /\ pc[r] = "forward" /\ pc'[r] = "build"
        /\ todo[r] = {}
    BY <1>9 DEF NumberUpload, Is, Goto, BuildsInv, TypeOK
  <2>2. PlaceOK(r)'
    BY <1>1, <1>4, <2>1 DEF PlaceOK, ForCommit, Late, HookKind
  <2>3. KeyOK(r)'
    BY <1>4, <1>6, <1>7, <2>1 DEF KeyOK, Late
  <2>4. SourceOK(r)'
    BY <1>1, <1>4, <2>1 DEF SourceOK, ForCommit, Late, HookKind
  <2> QED
    BY <1>4, <2>1, <2>2, <2>3, <2>4 DEF OwnOK, Event, Handling, HookKind
<1>10. CASE NumberHook(r) \/ NumberEvent(r)
  <2>1. /\ req[r].kind \in HookKind \cup {"event"} /\ key'[r].source = req[r].commit
        /\ pc[r] = "number" /\ pc'[r] = "build"
    BY <1>10 DEF NumberHook, NumberEvent, Is, Goto, BuildsInv, TypeOK
  <2>2. PlaceOK(r)'
    BY <1>1, <1>4, <2>1 DEF PlaceOK, ForCommit, Late, HookKind
  <2>3. KeyOK(r)'
    BY <1>4, <1>6, <1>7, <2>1 DEF KeyOK, Late, HookKind
  <2>4. SourceOK(r)'
    BY <1>1, <1>4, <2>1 DEF SourceOK, ForCommit, Late, HookKind, CommitOf, dbVars
  <2> QED
    BY <1>4, <1>5, <2>1, <2>2, <2>3, <2>4 DEF OwnOK, Event, Handling, HookKind, Beaten, Outcome
<1> QED
  BY <1>8, <1>9, <1>10 DEF ReadStep

LEMMA MoveOK ==
    ASSUME BuildsInv, NEW r \in Requests, MoveStep(r)
    PROVE  OwnOK(r)
<1>1. PlaceOK(r) /\ KeyOK(r) /\ SourceOK(r)
  BY DEF BuildsInv, RequestsOK
<1>2. UNCHANGED <<dbVars, req, key, stored, todo, targets>>
  BY DEF MoveStep, CommitUnknown, TriggerCommit, HookIgnored, HookRefused, StartPush, StartPullRequest,
         PullRequestCommit, EmitEvent, SkipEvent, StartEvent, RestartRefused, InsertJob, OnlyRequest,
         OnlyTx, historyVars
<1>3. CommitOf(r)' = CommitOf(r) /\ (ForCommit(req[r])' <=> ForCommit(req[r]))
  BY <1>2 DEF CommitOf, ForCommit
<1>4. CASE CommitUnknown(r) \/ HookIgnored(r) \/ HookRefused(r) \/ SkipEvent(r) \/ RestartRefused(r)
  <2>1. pc'[r] = "refused" /\ pc[r] \in {"commit", "new", "buffered"} /\ tx' = tx
    BY <1>4 DEF CommitUnknown, HookIgnored, HookRefused, SkipEvent, RestartRefused, Is, Goto,
                OnlyRequest, BuildsInv, TypeOK
  <2> QED
    BY <1>1, <1>2, <1>3, <2>1 DEF OwnOK, PlaceOK, KeyOK, SourceOK, Late, Beaten, Handling, Outcome
<1>5. CASE TriggerCommit(r)
  <2>1. /\ req[r].kind = "trigger" /\ pc[r] = "commit" /\ tx' = tx
        /\ pc'[r] = IF CommitOf(r) \in commits THEN "build" ELSE "insert"
    BY <1>5 DEF TriggerCommit, Is, Goto, OnlyRequest, BuildsInv, TypeOK
  <2>2. ForCommit(req[r])
    BY <1>1, <2>1 DEF PlaceOK
  <2>3. PlaceOK(r)'
    BY <1>1, <1>2, <1>3, <2>1, <2>2 DEF PlaceOK, Late
  <2>4. KeyOK(r)'
    BY <1>1, <1>2, <2>1 DEF KeyOK, Late, Numbers, OfProject, dbVars
  <2>5. SourceOK(r)'
    BY <1>1, <1>2, <1>3, <2>1, <2>2 DEF SourceOK, Late, dbVars
  <2> QED
    BY <2>1, <2>3, <2>4, <2>5, <1>2 DEF OwnOK, Handling, HookKind
<1>6. CASE StartPush(r) \/ StartEvent(r)
  <2>1. /\ req[r].kind \in {"push", "event"} /\ tx' = tx
        /\ pc[r] \in {"new", "buffered"}
        /\ pc'[r] = IF CommitOf(r) \in commits THEN "number" ELSE "insert"
        /\ req[r].kind = "event" => \A q \in Requests : ~Handling(q)
    BY <1>6 DEF StartPush, StartEvent, Is, Goto, OnlyRequest, BuildsInv, TypeOK
  <2>2. ForCommit(req[r])
    BY <2>1 DEF ForCommit, HookKind
  <2>3. PlaceOK(r)'
    BY <1>1, <1>2, <1>3, <2>1, <2>2 DEF PlaceOK, Late
  <2>4. KeyOK(r)' /\ SourceOK(r)'
    BY <1>2, <1>3, <2>1, <2>2 DEF KeyOK, SourceOK, Late, dbVars
  <2> QED
    BY <2>1, <2>3, <2>4, <1>2, <1>3 DEF OwnOK, Handling, HookKind, Beaten, dbVars
<1>7. CASE StartPullRequest(r) \/ PullRequestCommit(r)
  <2>1. /\ req[r].kind = "pull_request" /\ pc[r] \in {"new", "commit"}
        /\ pc'[r] \in {"commit", "refused", "insert"}
        /\ pc'[r] = "insert" => CommitOf(r) \notin commits
        /\ tx'[r] \in {tx[r], tx[r] \cup {"pull"}, {}}
    BY <1>7 DEF StartPullRequest, PullRequestCommit, Is, Goto, OnlyTx, Hold, Rollback, BuildsInv, TypeOK
  <2>2. ForCommit(req[r])
    BY <2>1 DEF ForCommit, HookKind
  <2>3. PlaceOK(r)'
    BY <1>1, <1>2, <1>3, <2>1, <2>2 DEF PlaceOK, Late
  <2>4. KeyOK(r)' /\ SourceOK(r)'
    BY <1>2, <1>3, <2>1, <2>2 DEF KeyOK, SourceOK, Late, dbVars
  <2> QED
    BY <2>1, <2>3, <2>4, <1>2, <1>3 DEF OwnOK, Handling, HookKind, Beaten, dbVars
<1>8. CASE EmitEvent(r)
  <2>1. /\ req[r].kind = "event" /\ tx' = tx /\ pc[r] = "new"
        /\ pc'[r] = IF listening THEN "buffered" ELSE "lost"
    BY <1>8 DEF EmitEvent, Is, Goto, OnlyRequest, BuildsInv, TypeOK
  <2> QED
    BY <1>1, <1>2, <1>3, <2>1 DEF OwnOK, PlaceOK, KeyOK, SourceOK, Late, Beaten, Handling, Event, Outcome
<1>9. CASE InsertJob(r)
  <2>1. pc[r] = "job" /\ pc'[r] = "end" /\ tx'[r] = tx[r] \cup {"job"}
    BY <1>9 DEF InsertJob, Goto, OnlyTx, Hold, BuildsInv, TypeOK
  <2>2. PlaceOK(r)'
    BY <1>1, <1>2, <1>3, <2>1 DEF PlaceOK, Late
  <2>3. KeyOK(r)'
    BY <1>1, <1>2, <2>1 DEF KeyOK, Late, Numbers, Restarts, OfProject, dbVars
  <2>4. SourceOK(r)'
    BY <1>1, <1>2, <1>3, <2>1 DEF SourceOK, Late, OfProject, dbVars
  <2> QED
    BY <1>2, <2>1, <2>2, <2>3, <2>4 DEF OwnOK, Handling, Outcome, Beaten
<1> QED
  BY <1>4, <1>5, <1>6, <1>7, <1>8, <1>9 DEF MoveStep

LEMMA UploadOK ==
    ASSUME BuildsInv, NEW r \in Requests, UploadStep(r)
    PROVE  OwnOK(r)
<1>1. PlaceOK(r) /\ KeyOK(r) /\ SourceOK(r)
  BY DEF BuildsInv, RequestsOK
<1>2. UNCHANGED <<dbVars, req, key, tx>> /\ req[r].kind = "upload"
  BY DEF UploadStep, StoreUpload, ForwardUpload, ForwardRefused, ForwardFails, Is, historyVars
<1>3. ~ForCommit(req[r]) /\ req[r].kind \notin HookKind
  BY <1>2 DEF ForCommit, HookKind
<1>4. /\ pc[r] \in {"new", "forward"} /\ pc'[r] \in {"forward", "refused"}
      /\ pc'[r] = "forward" => /\ r \in stored'[Master]
                                /\ \A c \in targets'[r] \ todo'[r] : r \in stored'[c]
  <2>1. CASE StoreUpload(r)
    BY <2>1 DEF StoreUpload, Is, Goto, BuildsInv, TypeOK
  <2>2. CASE ForwardUpload(r)
    <3>1. PICK c \in todo[r] : stored' = [stored EXCEPT ![c] = @ \cup {r}]
                               /\ todo' = [todo EXCEPT ![r] = @ \ {c}]
      BY <2>2 DEF ForwardUpload
    <3>2. /\ pc[r] = "forward" /\ pc' = pc /\ targets' = targets
          /\ stored \in [Remote \cup {Master} -> SUBSET Requests] /\ todo[r] \subseteq Remote
          /\ targets[r] \subseteq Remote /\ todo \in [Requests -> SUBSET Remote]
      BY <2>2 DEF ForwardUpload, Is, historyVars, BuildsInv, TypeOK
    <3>3. r \in stored[Master] /\ \A d \in targets[r] \ todo[r] : r \in stored[d]
      BY <1>1, <1>2, <3>2 DEF SourceOK
    <3>4. todo'[r] = todo[r] \ {c} /\ r \in stored'[c]
          /\ \A d \in Remote \cup {Master} : stored[d] \subseteq stored'[d]
      BY <3>1, <3>2
    <3> QED
      BY <3>2, <3>3, <3>4
  <2>3. CASE ForwardRefused(r)
    BY <2>3 DEF ForwardRefused, ForwardFails, Is, Goto, BuildsInv, TypeOK
  <2> QED
    BY <2>1, <2>2, <2>3 DEF UploadStep
<1>5. ForCommit(req[r])' <=> ForCommit(req[r])
  BY <1>2 DEF ForCommit
<1>6. PlaceOK(r)'
  BY <1>1, <1>2, <1>3, <1>4, <1>5 DEF PlaceOK, Late
<1>7. KeyOK(r)' /\ SourceOK(r)'
  BY <1>2, <1>3, <1>4, <1>5 DEF KeyOK, SourceOK, Late
<1> QED
  BY <1>2, <1>3, <1>4, <1>6, <1>7 DEF OwnOK, Handling

LEMMA CopyOK ==
    ASSUME BuildsInv, NEW r \in Requests, CopyStep(r)
    PROVE  OwnOK(r)
<1>1. PlaceOK(r) /\ KeyOK(r) /\ SourceOK(r)
  BY DEF BuildsInv, RequestsOK
<1>2. UNCHANGED <<dbVars, req, tx>>
  BY DEF CopyStep, LastSource, StartRestart
<1>3. ForCommit(req[r])' <=> ForCommit(req[r])
  BY <1>2 DEF ForCommit
<1>4. req[r].project \in Projects
  BY RequestType DEF BuildsInv
<1>5. CASE LastSource(r)
  <2>1. req[r].kind = "trigger" /\ pc[r] = "source" /\ pc'[r] \in {"refused", "build"}
    BY <1>5 DEF LastSource, Is, Goto, BuildsInv, TypeOK
  <2>2. ~ForCommit(req[r])
    BY <1>1, <2>1 DEF PlaceOK, ForCommit, HookKind
  <2>3. PlaceOK(r)'
    BY <1>1, <1>2, <1>3, <2>1, <2>2 DEF PlaceOK, Late
  <2>4. CASE pc'[r] = "build"
    <3>1. PICK b \in OfProject(req[r].project) : key' = [key EXCEPT ![r].source = b.source]
      BY <1>5, <2>4 DEF LastSource, Goto, BuildsInv, TypeOK
    <3>2. key[r] \in Key
      BY RequestType DEF BuildsInv
    <3>3. key'[r].number = key[r].number /\ key'[r].restart = key[r].restart /\ key'[r].source = b.source
      BY <3>1, <3>2 DEF Key, BuildsInv, TypeOK
    <3>4. KeyOK(r)'
      BY <1>1, <1>2, <2>1, <3>3 DEF KeyOK, Late, Numbers, OfProject, dbVars
    <3>5. SourceOK(r)'
      BY <1>2, <1>3, <2>1, <2>2, <3>1, <3>3 DEF SourceOK, Late, OfProject, dbVars
    <3> QED
      BY <1>2, <2>1, <2>3, <2>4, <3>4, <3>5 DEF OwnOK, Handling, HookKind
  <2>5. CASE pc'[r] = "refused"
    BY <1>2, <1>3, <2>1, <2>2, <2>3, <2>5 DEF OwnOK, KeyOK, SourceOK, Late, Handling, HookKind
  <2> QED
    BY <2>1, <2>4, <2>5
<1>6. CASE StartRestart(r)
  <2> DEFINE p == req[r].project
  <2>1. req[r].kind = "restart" /\ pc[r] = "new" /\ pc'[r] = "build"
    BY <1>6 DEF StartRestart, Is, Goto, BuildsInv, TypeOK
  <2>2. ~ForCommit(req[r])
    BY <2>1 DEF ForCommit, HookKind
  <2>3. PICK b \in OfProject(p) :
           key' = [key EXCEPT ![r] = [number |-> b.number,
                                      restart |-> Greatest(Restarts(b.project, b.number)) + 1,
                                      source |-> b.source]]
    BY <1>6 DEF StartRestart
  <2>4. b.number \in Numbers(p) /\ b.project = p
    BY DEF Numbers, OfProject
  <2>5. /\ key'[r].number = b.number /\ key'[r].source = b.source
        /\ key'[r].restart = Greatest(Restarts(p, b.number)) + 1
    BY <2>3, <2>4 DEF BuildsInv, TypeOK
  <2>6. key'[r].restart > 0 /\ 1..(key'[r].restart - 1) = Restarts(p, b.number)
    BY <1>4, <2>4, <2>5, RestartsNext DEF BuildsInv
  <2>7. b.number > 0
    <3>1. PICK k \in Nat : Numbers(p) = 1..k
      BY <1>4 DEF BuildsInv, NumbersOK
    <3> QED
      BY <2>4, <3>1
  <2>8. PlaceOK(r)'
    BY <1>1, <1>2, <1>3, <2>1, <2>2 DEF PlaceOK, Late
  <2>9. Numbers(p)' = Numbers(p) /\ \A n : Restarts(p, n)' = Restarts(p, n)
    BY <1>2 DEF Numbers, Restarts, OfProject, dbVars
  <2>10. KeyOK(r)'
    BY <1>2, <2>1, <2>4, <2>5, <2>6, <2>7, <2>9 DEF KeyOK, Late, Numbers, Restarts, OfProject, dbVars
  <2>11. SourceOK(r)'
    BY <1>2, <1>3, <2>1, <2>2, <2>3, <2>5 DEF SourceOK, Late, OfProject, dbVars
  <2> QED
    BY <1>2, <2>1, <2>8, <2>10, <2>11 DEF OwnOK, Handling, HookKind
<1> QED
  BY <1>5, <1>6 DEF CopyStep

LEMMA InsertedOK ==
    ASSUME BuildsInv, NEW r \in Requests, CommitInserted(r) \/ BuildInserted(r)
    PROVE  OwnOK(r)
<1>1. PlaceOK(r) /\ KeyOK(r) /\ SourceOK(r)
  BY DEF BuildsInv, RequestsOK
<1>2. UNCHANGED <<dbVars, req, key, stored, todo, targets>>
  BY DEF CommitInserted, BuildInserted, InsertCommit, InsertBuild, historyVars
<1>3. CommitOf(r)' = CommitOf(r) /\ (ForCommit(req[r])' <=> ForCommit(req[r]))
  BY <1>2 DEF CommitOf, ForCommit
<1>4. CASE CommitInserted(r)
  <2>1. /\ pc[r] = "insert" /\ tx'[r] = tx[r] \cup {"commit"}
        /\ pc'[r] = IF req[r].kind = "trigger" THEN "build" ELSE "number"
    BY <1>4 DEF CommitInserted, InsertCommit, Goto, Hold, BuildsInv, TypeOK
  <2>2. ForCommit(req[r])
    BY <1>1, <2>1 DEF PlaceOK
  <2>3. PlaceOK(r)'
    BY <1>1, <1>2, <1>3, <2>1, <2>2 DEF PlaceOK, Late
  <2>4. KeyOK(r)'
    BY <1>1, <1>2, <2>1 DEF KeyOK, Late, Numbers, Restarts, OfProject, dbVars
  <2>5. SourceOK(r)'
    BY <1>1, <1>2, <1>3, <2>1, <2>2 DEF SourceOK, Late, dbVars, HookKind
  <2> QED
    BY <1>2, <2>1, <2>3, <2>4, <2>5 DEF OwnOK, Handling, Outcome, Beaten, HookKind
<1>5. CASE BuildInserted(r)
  <2>1. pc[r] = "build" /\ pc'[r] = "job" /\ tx'[r] = tx[r] \cup {"build"}
    BY <1>5 DEF BuildInserted, InsertBuild, Goto, Hold, BuildsInv, TypeOK
  <2>2. PlaceOK(r)'
    BY <1>1, <1>2, <1>3, <2>1 DEF PlaceOK, Late
  <2>3. KeyOK(r)'
    BY <1>1, <1>2, <2>1 DEF KeyOK, Late, Numbers, Restarts, OfProject, dbVars
  <2>4. SourceOK(r)'
    BY <1>1, <1>2, <1>3, <2>1 DEF SourceOK, Late, OfProject, dbVars
  <2> QED
    BY <1>2, <2>1, <2>2, <2>3, <2>4 DEF OwnOK, Handling, Outcome, Beaten
<1> QED
  BY <1>4, <1>5

(***************************************************************************)
(* Statements that commit nothing.                                         *)
(***************************************************************************)

Plain(r) ==
    ReadStep(r) \/ MoveStep(r) \/ UploadStep(r) \/ CopyStep(r) \/ CommitInserted(r) \/ BuildInserted(r)

LEMMA PlainFacts ==
    ASSUME BuildsInv, NEW r \in Requests, Plain(r)
    PROVE  TypeOK' /\ Only(r) /\ OwnOK(r)
BY ReadTypes, MoveTypes, UploadTypes, CopyTypes, InsertedTypes, ReadOK, MoveOK, UploadOK, CopyOK,
   InsertedOK DEF Plain

\* A key stays while it is held, and is held by inserting the build.
LEMMA KeyHeld ==
    ASSUME BuildsInv, NEW r \in Requests, Plain(r), "build" \in tx'[r]
    PROVE  /\ key'[r] = key[r]
           /\ "build" \in tx[r] \/ BuildInserted(r)
<1>1. pc'[r] \in {"job", "end"}
  BY PlainFacts DEF OwnOK, PlaceOK
<1>2. CASE ReadStep(r)
  BY <1>1, <1>2 DEF ReadStep, StartTrigger, NumberUpload, NumberHook, NumberEvent, Goto, BuildsInv,
     TypeOK
<1>3. CASE MoveStep(r)
  BY <1>1, <1>3 DEF MoveStep, CommitUnknown, TriggerCommit, HookIgnored, HookRefused, StartPush,
         StartPullRequest, PullRequestCommit, EmitEvent, SkipEvent, StartEvent, RestartRefused, InsertJob,
         OnlyRequest, OnlyTx, Goto, Hold, BuildsInv, TypeOK
<1>4. CASE UploadStep(r)
  BY <1>1, <1>4 DEF UploadStep, StoreUpload, ForwardUpload, ForwardRefused, ForwardFails, Is, Goto,
                    BuildsInv, TypeOK
<1>5. CASE CopyStep(r)
  BY <1>1, <1>5 DEF CopyStep, LastSource, StartRestart, Goto, BuildsInv, TypeOK
<1>6. CASE CommitInserted(r)
  BY <1>1, <1>6 DEF CommitInserted, InsertCommit, Goto, BuildsInv, TypeOK
<1>7. CASE BuildInserted(r)
  BY <1>7 DEF BuildInserted, InsertBuild
<1> QED
  BY <1>2, <1>3, <1>4, <1>5, <1>6, <1>7 DEF Plain

\* The clusters of an upload are found once.
LEMMA TargetsKept ==
    ASSUME BuildsInv, NEW r \in Requests, Plain(r), pc[r] # "new"
    PROVE  targets'[r] = targets[r]
<1>1. CASE StoreUpload(r)
  BY <1>1 DEF StoreUpload, Is
<1>2. CASE ~StoreUpload(r)
  BY <1>2 DEF Plain, ReadStep, StartTrigger, NumberUpload, NumberHook, NumberEvent, MoveStep,
        CommitUnknown, TriggerCommit, HookIgnored, HookRefused, StartPush, StartPullRequest,
        PullRequestCommit, EmitEvent, SkipEvent, StartEvent, RestartRefused, InsertJob, OnlyRequest,
        OnlyTx, UploadStep, ForwardUpload, ForwardRefused, ForwardFails, CopyStep, LastSource,
        StartRestart, CommitInserted, BuildInserted, InsertCommit, InsertBuild, historyVars
<1> QED
  BY <1>1, <1>2

LEMMA NumbersKept ==
    ASSUME NumbersOK, builds' = builds
    PROVE  NumbersOK'
<1>1. ASSUME NEW p \in Projects
      PROVE  /\ OfProject(p)' = OfProject(p) /\ Numbers(p)' = Numbers(p)
             /\ \A n : Restarts(p, n)' = Restarts(p, n)
  <2>1. OfProject(p)' = OfProject(p)
    BY DEF OfProject
  <2> QED
    BY <2>1 DEF Numbers, Restarts
<1> QED
  BY <1>1 DEF NumbersOK

LEMMA PlainStep ==
    ASSUME BuildsInv, NEW r \in Requests, Plain(r)
    PROVE  BuildsInv'
<1>1. TypeOK' /\ Only(r) /\ OwnOK(r)
  BY PlainFacts
<1>2. Grow /\ \A q \in Requests \ {r} : Same(q)
  BY <1>1 DEF Only, Grow, Same, dbVars
<1>3. RequestsOK'
  <2>1. ASSUME NEW q \in Requests PROVE PlaceOK(q)' /\ KeyOK(q)' /\ SourceOK(q)'
    BY <1>1, <1>2, OthersKept DEF OwnOK
  <2> QED
    BY <2>1 DEF RequestsOK
<1>4. builds' = builds /\ firstJobs' = firstJobs /\ commits' = commits /\ req' = req
  BY <1>1 DEF Only, dbVars
<1>5. \A q \in Requests \ {r} : /\ tx'[q] = tx[q] /\ BuildOf(q)' = BuildOf(q)
                                /\ Taken(q)' <=> Taken(q)
  BY <1>1, <1>4 DEF Only, BuildOf, Taken
<1>6. HeldOK'
  <2>1. CASE "build" \notin tx'[r]
    BY <1>5, <2>1 DEF BuildsInv, HeldOK
  <2>2. CASE "build" \in tx'[r]
    <3>1. BuildOf(r)' = BuildOf(r) /\ (Taken(r)' <=> Taken(r))
      BY <1>4, <2>2, KeyHeld DEF BuildOf, Taken
    <3>2. ~Taken(r) /\ \A q \in Requests \ {r} : "build" \in tx[q] => ~SameKey(BuildOf(q), BuildOf(r))
      BY <2>2, KeyHeld DEF BuildsInv, HeldOK, BuildInserted, InsertBuild
    <3>3. \A q \in Requests \ {r} : "build" \in tx[q] => ~SameKey(BuildOf(r), BuildOf(q))
      BY <3>2 DEF SameKey
    <3> QED
      BY <1>5, <3>1, <3>2, <3>3 DEF BuildsInv, HeldOK
  <2> QED
    BY <2>1, <2>2
<1>7. NumbersOK' /\ CommitsAreBuilt'
  BY <1>4, NumbersKept DEF BuildsInv, CommitsAreBuilt
<1>8. BuiltOK'
  <2>1. ASSUME NEW b \in builds, TypeOf[b.project] = "upload"
        PROVE  /\ pc'[b.source] # "new" /\ targets'[b.source] = targets[b.source]
    <3>1. b.source \in Requests /\ pc[b.source] # "new"
      BY <2>1 DEF BuildsInv, BuiltOK
    <3>2. CASE b.source = r
      BY <1>1, <3>1, <3>2, TargetsKept DEF OwnOK
    <3>3. CASE b.source # r
      BY <1>1, <3>1, <3>3 DEF Only
    <3> QED
      BY <3>2, <3>3
  <2>2. \A q \in Requests : targets[q] \subseteq Remote
    BY DEF BuildsInv, TypeOK
  <2> QED
    BY <1>2, <1>4, <2>1, <2>2 DEF BuildsInv, BuiltOK, Grow
<1> QED
  BY <1>1, <1>3, <1>4, <1>6, <1>7, <1>8 DEF BuildsInv

(***************************************************************************)
(* The end of a transaction.                                               *)
(***************************************************************************)

\* The request is answered, or set back, and holds nothing any more.
Left(r) ==
    /\ (Commit(r) /\ pc'[r] = "ok") \/ Setback(r)
    /\ pc' \in [Requests -> Statement \cup Outcome]
    /\ attempt' \in [Requests -> 1..HookAttempts]
    /\ listening' \in BOOLEAN /\ nFaults' \in 0..MaxFaults /\ nFaults' >= nFaults
    /\ tx' = [tx EXCEPT ![r] = {}]
    /\ UNCHANGED <<stored, req, key, todo, targets>>
    /\ pc'[r] \in {"new", "refused", "lost", "buffered", "ok"}
    /\ pc'[r] = "new" => req[r].kind \in HookKind
    /\ pc'[r] = "buffered" => Event(r)
    /\ pc'[r] = "lost" => req[r].kind \in HookKind \cup {"event"}
    /\ \A q \in Requests \ {r} : Same(q)

\* Nothing is committed,
Rolled(r) ==
    \/ InsertCommit(r) /\ (CommitOf(r) \in commits \/ ~req[r].branch)
    \/ InsertBuild(r) /\ Taken(r)
    \/ ConnectionLost(r)

\* or everything.
Applied(r) == Commit(r) \/ CommitUnheard(r)

LEMMA LeftFacts ==
    ASSUME BuildsInv, NEW r \in Requests, Rolled(r) \/ Applied(r)
    PROVE  /\ Left(r)
           /\ Rolled(r) => UNCHANGED <<dbVars, built, unheard>>
           /\ Applied(r) => Apply(r) /\ pc[r] = "end" /\ (unheard' \in [Requests -> Nat])
<1>1. CASE Rolled(r)
  <2>1. Setback(r) /\ UNCHANGED <<dbVars, stored, req, key, todo, historyVars>>
        /\ nFaults' \in 0..MaxFaults /\ nFaults' >= nFaults
    <3>1. Violation(r) \/ Disconnected(r)
      BY <1>1 DEF Rolled, InsertCommit, InsertBuild, ConnectionLost
    <3>2. Setback(r)
      BY <3>1, Failing DEF BuildsInv
    <3> QED
      BY <1>1, <3>2, BuildsAssumption
         DEF Rolled, InsertCommit, InsertBuild, ConnectionLost, BuildsInv, TypeOK
  <2>2. ~Applied(r) \/ pc[r] = "end"
    BY DEF Applied, Commit, CommitUnheard
  <2>3. Applied(r) => Apply(r) /\ unheard' \in [Requests -> Nat]
    BY DEF Applied, Commit, CommitUnheard, BuildsInv, TypeOK
  <2> QED
    BY <2>1, <2>2, <2>3 DEF Left, Setback, Same, historyVars, HookKind, Event
<1>2. CASE Commit(r)
  <2>1. pc' = [pc EXCEPT ![r] = "ok"] /\ pc'[r] = "ok" /\ pc[r] = "end"
    BY <1>2 DEF Commit, Goto, BuildsInv, TypeOK
  <2>2. ~Rolled(r) \/ UNCHANGED <<dbVars, built, unheard>>
    BY DEF Rolled, InsertCommit, InsertBuild, ConnectionLost, historyVars
  <2> QED
    BY <1>2, <2>1, <2>2 DEF Commit, Left, Rollback, Same, BuildsInv, TypeOK, Outcome
<1>3. CASE CommitUnheard(r)
  <2>1. Setback(r)
    BY <1>3, Failing DEF CommitUnheard, BuildsInv
  <2>2. ~Rolled(r) \/ UNCHANGED <<dbVars, built, unheard>>
    BY DEF Rolled, InsertCommit, InsertBuild, ConnectionLost, historyVars
  <2>3. nFaults' \in 0..MaxFaults /\ nFaults' >= nFaults /\ unheard' \in [Requests -> Nat]
    BY <1>3, BuildsAssumption DEF CommitUnheard, BuildsInv, TypeOK
  <2> QED
    BY <1>3, <2>1, <2>2, <2>3 DEF CommitUnheard, Left, Setback, Same, HookKind, Event
<1> QED
  BY <1>1, <1>2, <1>3 DEF Applied

LEMMA LeftOK ==
    ASSUME BuildsInv, NEW r \in Requests, Left(r), builds \subseteq builds', commits \subseteq commits'
    PROVE  RequestsOK'
<1>1. Grow
  BY DEF Left, Grow
<1>2. ASSUME NEW q \in Requests, q # r PROVE PlaceOK(q)' /\ KeyOK(q)' /\ SourceOK(q)'
  BY <1>1, <1>2, OthersKept DEF Left
<1>3. PlaceOK(r)' /\ KeyOK(r)' /\ SourceOK(r)'
  BY DEF Left, PlaceOK, KeyOK, SourceOK, Late, Event, BuildsInv, TypeOK
<1> QED
  BY <1>2, <1>3 DEF RequestsOK

LEMMA RolledStep ==
    ASSUME BuildsInv, NEW r \in Requests, Rolled(r)
    PROVE  BuildsInv'
<1>1. Left(r) /\ UNCHANGED <<dbVars, built, unheard>>
  BY LeftFacts
<1>2. builds' = builds /\ firstJobs' = firstJobs /\ commits' = commits /\ pulls' = pulls
  BY <1>1 DEF dbVars
<1>3. RequestsOK'
  BY <1>1, <1>2, LeftOK
<1>4. TypeOK'
  BY <1>1, <1>2 DEF Left, BuildsInv, TypeOK
<1>5. HeldOK'
  <2>1. \A q \in Requests : "build" \in tx'[q] => "build" \in tx[q]
    BY <1>1 DEF Left, BuildsInv, TypeOK
  <2>2. \A q \in Requests : BuildOf(q)' = BuildOf(q) /\ (Taken(q)' <=> Taken(q))
    BY <1>1, <1>2 DEF Left, BuildOf, Taken
  <2> QED
    BY <2>1, <2>2 DEF BuildsInv, HeldOK
<1>6. NumbersOK' /\ CommitsAreBuilt'
  BY <1>2, NumbersKept DEF BuildsInv, CommitsAreBuilt
<1>7. BuiltOK'
  <2>1. ASSUME NEW b \in builds, TypeOf[b.project] = "upload"
        PROVE  pc'[b.source] # "new"
    <3>1. b.source \in Requests /\ pc[b.source] # "new" /\ req[b.source].kind = "upload"
      BY <2>1 DEF BuildsInv, BuiltOK
    <3> QED
      BY <1>1, <3>1 DEF Left, Same, HookKind
  <2> QED
    BY <1>1, <1>2, <2>1 DEF BuildsInv, BuiltOK, Left
<1> QED
  BY <1>2, <1>3, <1>4, <1>5, <1>6, <1>7 DEF BuildsInv

\* The build that is committed is the next one, or the next restart of one.
LEMMA NewBuild ==
    ASSUME BuildsInv, NEW r \in Requests, pc[r] \in {"job", "end"}
    PROVE  LET b == BuildOf(r)
               p == req[r].project
           IN  /\ b \in Build /\ b \notin builds /\ b.project = p /\ p \in Projects
               /\ IF b.number \in Numbers(p)
                  THEN /\ \E k \in Nat : Restarts(p, b.number) = 1..k /\ b.restart = k + 1
                       /\ \A c \in OfProject(p) : c.number = b.number => c.source = b.source
                  ELSE /\ \E k \in Nat : Numbers(p) = 1..k /\ b.number = k + 1
                       /\ b.restart = 1
               /\ \A c \in OfProject(p) : c.number = b.number => c.restart # b.restart
<1> DEFINE b == BuildOf(r)
           p == req[r].project
<1>1. /\ b \in Build /\ b.project = p /\ b.number = key[r].number /\ b.restart = key[r].restart
      /\ b.source = key[r].source /\ p \in Projects
      /\ key[r].number \in Nat /\ key[r].restart \in Nat
  BY BuildType, RequestType DEF Late, BuildsInv
<1>2. PlaceOK(r) /\ KeyOK(r) /\ SourceOK(r)
  BY DEF BuildsInv, RequestsOK
<1>3. ~Taken(r)
  BY <1>2 DEF PlaceOK, BuildsInv, HeldOK
<1> HIDE DEF b
<1>4. \A c \in OfProject(p) : c.number = b.number => c.restart # b.restart
  BY <1>1, <1>3 DEF Taken, SameKey, OfProject, b
<1>5. b \notin builds
  BY <1>1, <1>4 DEF OfProject
<1>6. \A c \in OfProject(p) : c.number \in Nat /\ c.restart \in Nat
  BY DEF OfProject, BuildsInv, TypeOK, Build
<1>7. b.number > 0 /\ b.restart > 0
  BY <1>1, <1>2 DEF KeyOK, Late
<1>8. CASE b.number \in Numbers(p)
  <2>1. PICK k \in Nat : Restarts(p, b.number) = 1..k
    BY <1>1, <1>8 DEF BuildsInv, NumbersOK
  <2>2. \A m \in 1..k : m # b.restart
    <3>1. \A m \in Restarts(p, b.number) : m # b.restart
      BY <1>4 DEF Restarts
    <3> QED
      BY <2>1, <3>1
  <2>3. k > 0
    <3>1. PICK c \in OfProject(p) : c.number = b.number
      BY <1>8 DEF Numbers
    <3>2. c.restart \in 1..k
      BY <2>1, <3>1 DEF Restarts
    <3> QED
      BY <2>1, <3>2
  <2>4. 1..(b.restart - 1) \subseteq 1..k /\ req[r].kind = "restart"
    <3>1. CASE req[r].kind = "restart"
      BY <1>1, <1>2, <2>1, <3>1 DEF KeyOK, Late
    <3>2. CASE req[r].kind # "restart"
      <4>1. b.restart = 1
        BY <1>1, <1>2, <3>2 DEF KeyOK, Late
      <4> QED
        BY <2>1, <2>2, <2>3, <4>1
    <3> QED
      BY <3>1, <3>2
  <2>5. b.restart = k + 1
    <3>1. b.restart \in Nat /\ b.restart > k
      BY <1>1, <1>7, <2>1, <2>2
    <3> QED
      BY <2>1, <2>4, <3>1, NextOf
  <2>6. \A c \in OfProject(p) : c.number = b.number => c.source = b.source
    <3>1. ~ForCommit(req[r]) /\ req[r].kind # "upload"
      BY <2>4 DEF ForCommit, HookKind
    <3>2. PICK d \in OfProject(p) : d.source = b.source /\ d.number = b.number
      BY <1>1, <1>2, <2>4, <3>1 DEF SourceOK, Late
    <3> QED
      BY <1>1, <3>2 DEF BuildsInv, NumbersOK
  <2> QED
    BY <1>1, <1>4, <1>5, <1>8, <2>1, <2>5, <2>6 DEF b
<1>9. CASE b.number \notin Numbers(p)
  <2>1. PICK k \in Nat : Numbers(p) = 1..k
    BY <1>1 DEF BuildsInv, NumbersOK
  <2>2. b.restart = 1 /\ 1..(b.number - 1) \subseteq 1..k
    BY <1>1, <1>2, <1>9, <2>1 DEF KeyOK, Late
  <2>3. b.number = k + 1
    <3>1. b.number \in Nat /\ b.number > k
      BY <1>1, <1>7, <1>9, <2>1
    <3> QED
      BY <2>1, <2>2, <3>1, NextOf
  <2> QED
    BY <1>1, <1>4, <1>5, <1>9, <2>1, <2>2, <2>3 DEF b
<1> QED
  BY <1>8, <1>9

LEMMA AppliedStep ==
    ASSUME BuildsInv, NEW r \in Requests, Applied(r)
    PROVE  BuildsInv'
<1> DEFINE p == req[r].project
<1>1. Left(r) /\ Apply(r) /\ pc[r] = "end" /\ unheard' \in [Requests -> Nat]
  BY LeftFacts
<1>2. PICK b : b = BuildOf(r)
  OBVIOUS
<1>3. /\ b \in Build /\ b \notin builds /\ b.project = p /\ p \in Projects
      /\ IF b.number \in Numbers(p)
         THEN /\ \E k \in Nat : Restarts(p, b.number) = 1..k /\ b.restart = k + 1
              /\ \A c \in OfProject(p) : c.number = b.number => c.source = b.source
         ELSE /\ \E k \in Nat : Numbers(p) = 1..k /\ b.number = k + 1
              /\ b.restart = 1
      /\ \A c \in OfProject(p) : c.number = b.number => c.restart # b.restart
  BY <1>1, <1>2, NewBuild
<1>4. /\ b.number = key[r].number /\ b.restart = key[r].restart /\ b.source = key[r].source
  BY <1>1, <1>2, BuildType DEF Late
<1>5. PlaceOK(r) /\ KeyOK(r) /\ SourceOK(r) /\ "job" \in tx[r]
  BY <1>1 DEF BuildsInv, RequestsOK, PlaceOK
<1>6. /\ builds' = builds \cup {b} /\ firstJobs' = firstJobs \cup {b}
      /\ commits' = commits \cup (IF "commit" \in tx[r] THEN {CommitOf(r)} ELSE {})
      /\ pulls' \subseteq pulls \cup {r} /\ built' = [built EXCEPT ![r] = @ + 1]
  BY <1>1, <1>2, <1>5 DEF Apply
<1>7. RequestsOK'
  BY <1>1, <1>6, LeftOK
<1>8. req[r].kind \in Kind /\ (ForCommit(req[r]) => req[r].commit \in Commits)
  BY RequestType DEF BuildsInv
<1>9. TypeOK'
  <2>1. "commit" \in tx[r] => CommitOf(r) \in Projects \X Commits
    BY <1>3, <1>5, <1>8 DEF PlaceOK, CommitOf
  <2>2. builds' \subseteq Build /\ firstJobs' \subseteq builds' /\ commits' \subseteq Projects \X Commits
        /\ pulls' \subseteq Requests /\ built' \in [Requests -> Nat]
    BY <1>3, <1>6, <2>1 DEF BuildsInv, TypeOK
  <2> QED
    BY <1>1, <2>2 DEF Left, BuildsInv, TypeOK
<1>10. IsFiniteSet(builds)'
  BY <1>6, FS_AddElement DEF BuildsInv
<1>11. HeldOK'
  <2>1. \A q \in Requests : "build" \in tx'[q] => q # r /\ "build" \in tx[q]
    BY <1>1 DEF Left, BuildsInv, TypeOK
  <2>2. \A q \in Requests : BuildOf(q)' = BuildOf(q)
    BY <1>1 DEF Left, BuildOf
  <2>3. "build" \in tx[r]
    BY <1>1, <1>5 DEF PlaceOK
  <2>4. ASSUME NEW q \in Requests, "build" \in tx'[q] PROVE ~Taken(q)'
    <3>1. ~Taken(q) /\ ~SameKey(b, BuildOf(q))
      BY <1>2, <2>1, <2>3, <2>4 DEF BuildsInv, HeldOK
    <3> QED
      BY <1>6, <2>2, <3>1 DEF Taken
  <2> QED
    BY <2>1, <2>2, <2>4 DEF BuildsInv, HeldOK
<1>12. \A q \in Projects \ {p} : OfProject(q)' = OfProject(q)
  BY <1>3, <1>6 DEF OfProject
<1>13. OfProject(p)' = OfProject(p) \cup {b} /\ Numbers(p)' = Numbers(p) \cup {b.number}
  <2>1. p' = p
    BY <1>1 DEF Left
  <2>2. OfProject(p)' = OfProject(p) \cup {b}
    BY <1>3, <1>6, <2>1 DEF OfProject
  <2> QED
    BY <2>2 DEF Numbers
<1>14. /\ Restarts(p, b.number)' = Restarts(p, b.number) \cup {b.restart}
       /\ \A n : n # b.number => Restarts(p, n)' = Restarts(p, n)
  BY <1>13 DEF Restarts
<1>15. NumbersOK'
  <2>1. ASSUME NEW q \in Projects, q # p
        PROVE  /\ \E k \in Nat : Numbers(q)' = 1..k
               /\ \A n \in Numbers(q)' : \E k \in Nat : Restarts(q, n)' = 1..k
               /\ \A a, c \in OfProject(q)' : a.number = c.number =>
                     (a.source = c.source /\ (a.restart = c.restart => a = c))
    <3>1. OfProject(q)' = OfProject(q) /\ Numbers(q)' = Numbers(q)
          /\ \A n : Restarts(q, n)' = Restarts(q, n)
      BY <1>12, <2>1 DEF Numbers, Restarts
    <3> QED
      BY <3>1 DEF BuildsInv, NumbersOK
  <2>2. \E k \in Nat : Numbers(p)' = 1..k
    <3>1. CASE b.number \in Numbers(p)
      <4>1. Numbers(p)' = Numbers(p)
        BY <1>13, <3>1
      <4> QED
        BY <1>3, <4>1 DEF BuildsInv, NumbersOK
    <3>2. CASE b.number \notin Numbers(p)
      <4>1. PICK k \in Nat : Numbers(p) = 1..k /\ b.number = k + 1
        BY <1>3, <3>2
      <4>2. Numbers(p)' = 1..(k + 1) /\ k + 1 \in Nat
        BY <1>13, <4>1
      <4> QED
        BY <4>2
    <3> QED
      BY <3>1, <3>2
  <2>3. ASSUME NEW n \in Numbers(p)' PROVE \E k \in Nat : Restarts(p, n)' = 1..k
    <3>1. CASE n # b.number
      <4>1. n \in Numbers(p) /\ Restarts(p, n)' = Restarts(p, n)
        BY <1>13, <1>14, <2>3, <3>1
      <4> QED
        BY <1>3, <4>1 DEF BuildsInv, NumbersOK
    <3>2. CASE n = b.number /\ b.number \in Numbers(p)
      <4>1. PICK k \in Nat : Restarts(p, b.number) = 1..k /\ b.restart = k + 1
        BY <1>3, <3>2
      <4>2. Restarts(p, b.number)' = 1..(k + 1) /\ k + 1 \in Nat
        <5>1. 1..k \cup {k + 1} = 1..(k + 1)
          OBVIOUS
        <5> QED
          BY <1>14, <4>1, <5>1
      <4>3. Restarts(p, n)' = Restarts(p, b.number)'
        BY <3>2
      <4> QED
        BY <4>2, <4>3
    <3>3. CASE n = b.number /\ b.number \notin Numbers(p)
      <4>1. Restarts(p, n) = {}
        BY <3>3 DEF Restarts, Numbers
      <4>2. Restarts(p, n)' = 1..1
        BY <1>3, <1>14, <3>3, <4>1
      <4> QED
        BY <4>2
    <3> QED
      BY <3>1, <3>2, <3>3
  <2>4. ASSUME NEW a \in OfProject(p)', NEW c \in OfProject(p)', a.number = c.number
        PROVE  a.source = c.source /\ (a.restart = c.restart => a = c)
    <3>1. \A d \in OfProject(p) : d.number = b.number => d.source = b.source /\ d.restart # b.restart
      BY <1>3 DEF Numbers
    <3>2. CASE a \in OfProject(p) /\ c \in OfProject(p)
      BY <1>3, <2>4, <3>2 DEF BuildsInv, NumbersOK
    <3>3. CASE a = b \/ c = b
      BY <1>13, <2>4, <3>1, <3>3
    <3> QED
      BY <1>13, <3>2, <3>3
  <2>5. ASSUME NEW q \in Projects
        PROVE  /\ \E k \in Nat : Numbers(q)' = 1..k
               /\ \A n \in Numbers(q)' : \E k \in Nat : Restarts(q, n)' = 1..k
               /\ \A a, c \in OfProject(q)' : a.number = c.number =>
                     (a.source = c.source /\ (a.restart = c.restart => a = c))
    <3>1. CASE q # p
      BY <2>1, <3>1
    <3>2. CASE q = p
      <4>1. p' = p
        BY <1>1 DEF Left
      <4> QED
        <5>1. OfProject(q)' = OfProject(p)' /\ Numbers(q)' = Numbers(p)'
              /\ \A n : Restarts(q, n)' = Restarts(p, n)'
          BY <3>2, <4>1 DEF Numbers, Restarts, OfProject
        <5> QED
          BY <2>2, <2>3, <2>4, <5>1
    <3> QED
      BY <3>1, <3>2
  <2> QED
    BY <2>5 DEF NumbersOK
<1>16. CommitsAreBuilt'
  <2>1. ASSUME "commit" \in tx[r] PROVE b.source = req[r].commit
    BY <1>1, <1>4, <1>5, <2>1 DEF PlaceOK, SourceOK, Late
  <2>2. CommitOf(r)[1] = p /\ CommitOf(r)[2] = req[r].commit
    BY DEF CommitOf
  <2> QED
    BY <1>3, <1>6, <2>1, <2>2 DEF BuildsInv, CommitsAreBuilt
<1>17. BuiltOK'
  <2>1. ASSUME NEW c \in builds, TypeOf[c.project] = "upload"
        PROVE  c.source \in Requests /\ req[c.source].kind = "upload" /\ pc'[c.source] # "new"
    <3>1. c.source \in Requests /\ pc[c.source] # "new" /\ req[c.source].kind = "upload"
      BY <2>1 DEF BuildsInv, BuiltOK
    <3> QED
      BY <1>1, <3>1 DEF Left, Same, HookKind
  <2>2. CASE ForCommit(req[r])
    <3>1. TypeOf[p] # "upload"
      BY <2>2, RequestType DEF BuildsInv, ForCommit, Expected
    <3>2. b.source = req[r].commit /\ ("commit" \in tx[r] \/ CommitOf(r) \in commits)
      BY <1>1, <1>4, <1>5, <2>2 DEF SourceOK, Late
    <3>3. <<b.project, b.source>> \in commits'
      BY <1>3, <1>6, <3>2 DEF CommitOf
    <3> QED
      BY <1>1, <1>3, <1>6, <2>1, <3>1, <3>3 DEF BuildsInv, BuiltOK, Left
  <2>3. CASE req[r].kind = "upload"
    <3>1. TypeOf[p] = "upload"
      BY <2>3, RequestType DEF BuildsInv, Expected
    <3>2. /\ b.source = r /\ pc'[r] # "new"
          /\ \A c \in targets[r] \cup {Master} : r \in stored[c]
      BY <1>1, <1>4, <1>5, <2>3 DEF SourceOK, Late, Left, HookKind
    <3> QED
      BY <1>1, <1>3, <1>6, <2>1, <2>3, <3>1, <3>2 DEF BuildsInv, BuiltOK, Left
  <2>4. CASE ~ForCommit(req[r]) /\ req[r].kind # "upload"
    <3>1. PICK d \in OfProject(p) : d.source = b.source
      BY <1>1, <1>4, <1>5, <2>4 DEF SourceOK, Late
    <3>2. d \in builds /\ d.project = b.project
      BY <1>3, <3>1 DEF OfProject
    <3> QED
      BY <1>1, <1>6, <2>1, <3>1, <3>2 DEF BuildsInv, BuiltOK, Left
  <2> QED
    BY <2>2, <2>3, <2>4
<1> QED
  BY <1>7, <1>9, <1>10, <1>11, <1>15, <1>16, <1>17 DEF BuildsInv

LEMMA BuildsInit == Init => BuildsInv
<1> SUFFICES ASSUME Init PROVE BuildsInv
  OBVIOUS
<1>1. IsFiniteSet({})
  BY FS_EmptySet
<1>2. NoKey \in Key
  BY DEF NoKey, Key
<1>3. TypeOK
  BY <1>2, BuildsAssumption DEF Init, TypeOK, Statement, HookAttempts, Row
<1>4. RequestsOK
  BY DEF Init, RequestsOK, PlaceOK, KeyOK, SourceOK, Late
<1>5. HeldOK /\ BuiltOK /\ CommitsAreBuilt
  BY DEF Init, HeldOK, BuiltOK, CommitsAreBuilt
<1>6. NumbersOK
  <2>1. 0 \in Nat /\ 1..0 = {}
    OBVIOUS
  <2> QED
    BY <2>1 DEF Init, NumbersOK, Numbers, OfProject
<1> QED
  BY <1>1, <1>3, <1>4, <1>5, <1>6 DEF BuildsInv, Init

\* Every step is one of those above.
LEMMA Steps ==
    ASSUME Next
    PROVE  (\E r \in Requests : Plain(r) \/ Rolled(r) \/ Applied(r)) \/ ListenAgain
<1>1. ASSUME NEW r \in Requests, InsertCommit(r) \/ InsertBuild(r) PROVE Plain(r) \/ Rolled(r)
  BY <1>1 DEF Plain, Rolled, CommitInserted, BuildInserted
<1>2. ASSUME NEW r \in Requests, Answer(r) \/ ForwardRefused(r) \/ ConnectionLost(r) \/ CommitUnheard(r)
      PROVE  Plain(r) \/ Rolled(r) \/ Applied(r)
  BY <1>1, <1>2 DEF Answer, Plain, ReadStep, MoveStep, UploadStep, CopyStep, Rolled, Applied
<1> QED
  BY <1>2 DEF Next

LEMMA BuildsStep == BuildsInv /\ [Next]_vars => BuildsInv'
<1> SUFFICES ASSUME BuildsInv, [Next]_vars PROVE BuildsInv'
  OBVIOUS
<1>1. CASE ListenAgain \/ UNCHANGED vars
  <2>1. /\ UNCHANGED <<dbVars, stored, req, pc, attempt, key, tx, todo, nFaults, historyVars>>
        /\ listening' \in BOOLEAN
    BY <1>1 DEF ListenAgain, vars, BuildsInv, TypeOK
  <2>6. NumbersOK'
    <3>1. builds' = builds
      BY <2>1 DEF dbVars
    <3> QED
      BY <3>1, NumbersKept DEF BuildsInv
  <2> USE <2>1 DEF BuildsInv, dbVars, historyVars
  <2>2. TypeOK'
    BY DEF TypeOK
  <2>3. Grow /\ \A q \in Requests : Same(q)
    BY DEF Grow, Same
  <2>4. RequestsOK'
    BY <2>3, OthersKept DEF RequestsOK
  <2>5. HeldOK'
    BY DEF HeldOK, Taken, SameKey, BuildOf
  <2>7. CommitsAreBuilt' /\ BuiltOK'
    BY DEF CommitsAreBuilt, BuiltOK
  <2> QED
    BY <2>2, <2>4, <2>5, <2>6, <2>7
<1>2. CASE Next
  BY <1>1, <1>2, Steps, PlainStep, RolledStep, AppliedStep
<1> QED
  BY <1>1, <1>2

LEMMA BuildsInvariant == Spec => []BuildsInv
BY BuildsInit, BuildsStep, PTL DEF Spec

(***************************************************************************)
(* Counting builds.                                                        *)
(***************************************************************************)

LEMMA CountType ==
    ASSUME BuildsInv, NEW r \in Requests
    PROVE  Count(r) \in Nat /\ IsFiniteSet(Rivals(r))
<1>1. Rivals(r) \subseteq builds
  BY DEF Rivals
<1> QED
  BY <1>1, FS_Subset, FS_CardinalityType DEF Count, BuildsInv

LEMMA CountKept ==
    ASSUME NEW r \in Requests, builds' = builds, req' = req
    PROVE  Count(r)' = Count(r)
BY DEF Count, Rivals

\* The build that is committed counts for those it is a rival of.
LEMMA CountGrows ==
    ASSUME BuildsInv, NEW r \in Requests, Applied(r), NEW q \in Requests
    PROVE  /\ Count(q)' \in Nat /\ Count(q)' >= Count(q)
           /\ Against(q, r) => Count(q)' = Count(q) + 1
<1>1. Left(r) /\ Apply(r) /\ pc[r] = "end"
  BY LeftFacts
<1>2. PICK b : b = BuildOf(r)
  OBVIOUS
<1>3. b \notin builds /\ b.project = req[r].project
  BY <1>1, <1>2, NewBuild
<1>4. builds' = builds \cup {b} /\ req' = req
  BY <1>1, <1>2 DEF Apply, Left
<1>5. Count(q) \in Nat /\ IsFiniteSet(Rivals(q))
  BY CountType
<1>6. CASE Against(q, r)
  <2>1. Rivals(q)' = Rivals(q) \cup {b} /\ b \notin Rivals(q)
    BY <1>3, <1>4, <1>6 DEF Rivals, Against, Event
  <2>2. Cardinality(Rivals(q) \cup {b}) = Cardinality(Rivals(q)) + 1
    BY <1>5, <2>1, FS_AddElement
  <2>3. Count(q)' = Count(q) + 1
    BY <2>1, <2>2 DEF Count
  <2> QED
    BY <1>5, <2>3
<1>7. CASE ~Against(q, r)
  <2>1. Rivals(q)' = Rivals(q)
    BY <1>3, <1>4, <1>7 DEF Rivals, Against, Event
  <2> QED
    BY <1>5, <1>7, <2>1 DEF Count
<1> QED
  BY <1>6, <1>7

LEMMA Counters ==
    ASSUME BuildsInv, LostInv, NEW r \in Requests
    PROVE  /\ Count(r) \in Nat /\ built[r] \in Nat /\ unheard[r] \in Nat /\ nFaults \in Nat
           /\ attempt[r] \in 1..HookAttempts /\ attempt[r] \in Nat
           /\ built[r] = unheard[r] + (IF pc[r] = "ok" THEN 1 ELSE 0)
           /\ Count(r) >= built[r]
BY CountType, BuildsAssumption DEF BuildsInv, TypeOK, LostInv, CountsOK, HookAttempts

(***************************************************************************)
(* Setbacks.                                                               *)
(***************************************************************************)

LEMMA LostPlain ==
    ASSUME BuildsInv, LostInv, NEW r \in Requests, Plain(r)
    PROVE  LostInv'
<1>1. /\ UNCHANGED <<builds, commits, req, attempt, listening, built, unheard>> /\ nFaults' >= nFaults
      /\ nFaults' \in Nat /\ nFaults \in Nat
      /\ \A q \in Requests \ {r} : pc'[q] = pc[q] /\ key'[q] = key[q]
  BY PlainFacts, BuildsAssumption DEF Only, dbVars, BuildsInv, TypeOK
<1>2. OwnOK(r)
  BY PlainFacts
<1>3. \A q \in Requests : Count(q)' = Count(q)
  BY <1>1, CountKept
<1>4. \A q \in Requests \ {r} : (Beaten(q)' <=> Beaten(q)) /\ (Handling(q)' <=> Handling(q))
  BY <1>1 DEF Beaten, CommitOf, Taken, BuildOf, Handling
<1>5. CountsOK'
  BY <1>1, <1>2, <1>3 DEF LostInv, CountsOK, OwnOK
<1>6. HooksOK'
  <2>1. ASSUME NEW q \in Requests, req[q].kind \in HookKind, req[q].branch
        PROVE  /\ Count(q)' + nFaults' >= built'[q] + attempt'[q] - 1
               /\ Beaten(q)' => Count(q)' + nFaults' >= built'[q] + attempt'[q]
               /\ pc'[q] = "lost" => Count(q)' + nFaults' >= built'[q] + HookAttempts
    <3>1. /\ Count(q) + nFaults >= built[q] + attempt[q] - 1
          /\ Beaten(q) => Count(q) + nFaults >= built[q] + attempt[q]
          /\ pc[q] = "lost" => Count(q) + nFaults >= built[q] + HookAttempts
      BY <2>1 DEF LostInv, HooksOK
    <3>2. CASE q = r
      <4>1. ~Beaten(q)' /\ pc'[q] # "lost"
        BY <1>2, <2>1, <3>2 DEF OwnOK, HookKind, Event
      <4> QED
        BY <1>1, <1>3, <3>1, <4>1, Counters
    <3>3. CASE q # r
      BY <1>1, <1>3, <1>4, <3>1, <3>3, Counters DEF HookAttempts
    <3> QED
      BY <3>2, <3>3
  <2> QED
    BY <1>1, <2>1 DEF HooksOK
<1>7. EventsOK'
  <2>1. \A q1, q2 \in Requests : Handling(q1)' /\ Handling(q2)' => q1 = q2
    BY <1>2, <1>4 DEF LostInv, EventsOK, OwnOK
  <2>2. ASSUME NEW q \in Requests, Event(q)
        PROVE  /\ attempt'[q] <= EventAttempts /\ attempt'[q] <= nFaults' + 1
               /\ Beaten(q)' \/ ~listening' => Beaten(q) \/ ~listening
               /\ pc'[q] = "lost" => Count(q) > built[q] \/ nFaults' >= EventAttempts
    <3>1. CASE q = r
      <4>1. ~Beaten(q)' /\ (pc'[q] = "lost" => ~listening)
        BY <1>2, <2>2, <3>1 DEF OwnOK, Event
      <4> QED
        BY <1>1, <2>2, <4>1, Counters DEF LostInv, EventsOK
    <3>2. CASE q # r
      BY <1>1, <1>4, <2>2, <3>2, Counters DEF LostInv, EventsOK, EventAttempts
    <3> QED
      BY <3>1, <3>2
  <2>3. \A q \in Requests : Event(q)' <=> Event(q)
    BY <1>1 DEF Event
  <2> QED
    BY <1>1, <1>3, <2>1, <2>2, <2>3 DEF LostInv, EventsOK
<1> QED
  BY <1>5, <1>6, <1>7 DEF LostInv

\* Who rolls back has been beaten, or lost the connection.
LEMMA Cause ==
    ASSUME BuildsInv, NEW r \in Requests, Rolled(r)
    PROVE  /\ Beaten(r) \/ nFaults' = nFaults + 1 \/ ~req[r].branch
           /\ Event(r) => /\ Beaten(r) \/ (nFaults' = nFaults + 1 /\ listening' = listening)
                          /\ attempt' = attempt \/ nFaults' = nFaults + 1
<1>1. Event(r) => req[r].branch /\ req[r].kind \notin HookKind
  BY RequestType DEF Event, Expected, BuildsInv, HookKind
<1>2. CASE InsertCommit(r) /\ (CommitOf(r) \in commits \/ ~req[r].branch)
  BY <1>1, <1>2 DEF InsertCommit, Beaten, Violation, Event, ListenerDies
<1>3. CASE InsertBuild(r) /\ Taken(r)
  BY <1>1, <1>3 DEF InsertBuild, Beaten, Violation, Event, ListenerDies
<1>4. CASE ConnectionLost(r)
  BY <1>1, <1>4 DEF ConnectionLost, Disconnected, Event, EventRepeats
<1> QED
  BY <1>2, <1>3, <1>4 DEF Rolled

LEMMA LostRolled ==
    ASSUME BuildsInv, LostInv, NEW r \in Requests, Rolled(r)
    PROVE  LostInv'
<1>1. Left(r) /\ UNCHANGED <<builds, commits, built, unheard, req>> /\ Setback(r)
  <2>1. Violation(r) \/ Disconnected(r)
    BY DEF Rolled, InsertCommit, InsertBuild, ConnectionLost
  <2> QED
    BY <2>1, LeftFacts, Failing DEF BuildsInv, dbVars, Left
<1>2. nFaults' >= nFaults /\ nFaults' \in Nat /\ pc[r] # "ok" /\ pc'[r] # "ok"
  <2>1. pc[r] \in {"commit", "insert", "number", "build", "job", "end"}
    BY DEF Rolled, InsertCommit, InsertBuild, ConnectionLost
  <2> QED
    BY <1>1, <2>1, BuildsAssumption DEF Left, Setback
<1>3. \A q \in Requests : Count(q)' = Count(q)
  BY <1>1, CountKept
<1>4. ASSUME NEW q \in Requests, q # r
      PROVE  /\ pc'[q] = pc[q] \/ (pc[q] = "buffered" /\ pc'[q] = "lost" /\ ~listening' /\ Event(r))
             /\ Beaten(q)' => Beaten(q)
             /\ Handling(q)' => Handling(q)
             /\ attempt'[q] = attempt[q]
  <2>1. /\ pc'[q] = pc[q] \/ (pc[q] = "buffered" /\ pc'[q] = "lost" /\ ~listening' /\ Event(r))
        /\ key'[q] = key[q] /\ attempt'[q] = attempt[q]
    BY <1>1, <1>4 DEF Setback, Left, Same
  <2> QED
    BY <1>1, <2>1 DEF Beaten, CommitOf, Taken, BuildOf, Handling, Outcome
<1>5. ~Beaten(r)' /\ ~Handling(r)'
  BY <1>1 DEF Left, Beaten, Handling, Outcome
<1>6. CountsOK'
  <2>1. \A q \in Requests : pc'[q] = "ok" <=> pc[q] = "ok"
    BY <1>2, <1>4
  <2> QED
    BY <1>1, <1>3, <2>1 DEF LostInv, CountsOK
<1>7. HooksOK'
  <2>1. ASSUME NEW q \in Requests, req[q].kind \in HookKind, req[q].branch
        PROVE  /\ Count(q) + nFaults' >= built[q] + attempt'[q] - 1
               /\ Beaten(q)' => Count(q) + nFaults' >= built[q] + attempt'[q]
               /\ pc'[q] = "lost" => Count(q) + nFaults' >= built[q] + HookAttempts
    <3>1. /\ Count(q) + nFaults >= built[q] + attempt[q] - 1
          /\ Beaten(q) => Count(q) + nFaults >= built[q] + attempt[q]
          /\ pc[q] = "lost" => Count(q) + nFaults >= built[q] + HookAttempts
      BY <2>1 DEF LostInv, HooksOK
    <3>2. CASE q = r
      <4>1. \/ pc'[r] = "new" /\ attempt'[r] = attempt[r] + 1
            \/ pc'[r] = "lost" /\ attempt[r] = HookAttempts /\ attempt'[r] = attempt[r]
        <5>1. req[r].kind \in HookKind /\ ~Event(r)
          BY <2>1, <3>2 DEF Event, HookKind
        <5> QED
          BY <1>1, <5>1 DEF Setback
      <4>2. Count(r) + nFaults' >= built[r] + attempt[r]
        BY <1>2, <2>1, <3>1, <3>2, Cause, Counters
      <4> QED
        BY <1>2, <1>5, <3>2, <4>1, <4>2, Counters DEF HookAttempts
    <3>3. CASE q # r
      <4>1. pc'[q] = pc[q]
        <5>1. pc[q] # "buffered"
          BY <2>1 DEF BuildsInv, RequestsOK, PlaceOK, HookKind
        <5> QED
          BY <1>4, <3>3, <5>1
      <4> QED
        BY <1>2, <1>4, <3>1, <3>3, <4>1, Counters DEF HookAttempts
    <3> QED
      BY <3>2, <3>3
  <2> QED
    BY <1>1, <1>3, <2>1 DEF HooksOK
<1>8. EventsOK'
  <2>1. \A q1, q2 \in Requests : Handling(q1)' /\ Handling(q2)' => q1 = q2
    BY <1>4, <1>5 DEF LostInv, EventsOK
  <2>2. listening' = listening \/ (Event(r) /\ Beaten(r))
    BY <1>1, Cause DEF Setback, HookKind, Event
  <2>3. ~listening' => ~listening \/ (Event(r) /\ Beaten(r))
    BY <2>2
  <2>4. ASSUME NEW q \in Requests, Event(q)
        PROVE  /\ attempt'[q] <= EventAttempts /\ attempt'[q] <= nFaults' + 1
               /\ Beaten(q)' \/ ~listening' => Beaten(q) \/ ~listening \/ (Event(r) /\ Beaten(r))
               /\ pc'[q] = "lost" => Count(q) > built[q] \/ nFaults' >= EventAttempts
    <3>1. /\ attempt[q] <= EventAttempts /\ attempt[q] <= nFaults + 1
          /\ pc[q] = "lost" => Count(q) > built[q] \/ nFaults >= EventAttempts
          /\ ~listening \/ (Event(r) /\ Beaten(r)) => Count(q) > built[q]
      BY <2>4 DEF LostInv, EventsOK
    <3>2. CASE q = r
      <4>1. Count(r) > built[r] \/ (nFaults' = nFaults + 1 /\ listening' = listening /\ listening)
        BY <2>4, <3>1, <3>2, Cause DEF BuildsInv, TypeOK
      <4>2. \/ attempt' = attempt /\ pc'[r] = "lost" /\ ~listening'
            \/ pc'[r] = "buffered" /\ attempt[r] = 1 /\ attempt'[r] = 2
            \/ pc'[r] = "lost" /\ attempt[r] >= EventAttempts /\ attempt'[r] = attempt[r]
        <5>1. req[r].kind \notin HookKind /\ Event(r)
          BY <2>4, <3>2 DEF Event, HookKind
        <5> QED
          BY <1>1, <5>1 DEF Setback
      <4>3. attempt' = attempt \/ nFaults' = nFaults + 1
        BY <2>4, <3>2, Cause
      <4> QED
        BY <1>2, <1>5, <2>3, <3>1, <3>2, <4>1, <4>2, <4>3, Counters DEF EventAttempts
    <3>3. CASE q # r
      BY <1>2, <1>4, <2>3, <3>1, <3>3, Counters DEF EventAttempts
    <3> QED
      BY <3>2, <3>3
  <2>5. \A q \in Requests : Event(q)' <=> Event(q)
    BY <1>1 DEF Event
  <2> QED
    BY <1>1, <1>3, <2>1, <2>4, <2>5 DEF LostInv, EventsOK
<1> QED
  BY <1>6, <1>7, <1>8 DEF LostInv

LEMMA LostApplied ==
    ASSUME BuildsInv, LostInv, NEW r \in Requests, Applied(r)
    PROVE  LostInv'
<1>1. Left(r) /\ Apply(r) /\ pc[r] = "end" /\ req' = req
  BY LeftFacts DEF Left
<1>2. /\ nFaults' >= nFaults /\ nFaults' \in Nat /\ listening' = listening
      /\ built'[r] = built[r] + 1 /\ \A q \in Requests \ {r} : built'[q] = built[q]
  <2>1. listening' = listening
    BY RequestType DEF Applied, Commit, CommitUnheard, Disconnected, HookFails, EventRepeats, ApiFails,
                       BuildsInv
  <2> QED
    BY <1>1, <2>1, BuildsAssumption DEF Left, Apply, BuildsInv, TypeOK
<1>3. \A q \in Requests : /\ Count(q)' \in Nat /\ Count(q)' >= Count(q)
                          /\ Against(q, r) => Count(q)' = Count(q) + 1
  BY CountGrows
<1>0. Count(r)' = Count(r) + 1
  BY <1>3 DEF Against
<1>4. \/ Commit(r) /\ pc'[r] = "ok" /\ attempt' = attempt /\ unheard' = unheard
      \/ CommitUnheard(r) /\ Setback(r) /\ pc'[r] # "ok" /\ nFaults' = nFaults + 1
         /\ unheard' = [unheard EXCEPT ![r] = @ + 1]
  <2>1. CASE Commit(r)
    BY <2>1 DEF Commit, Goto, BuildsInv, TypeOK
  <2>2. CASE CommitUnheard(r)
    <3>1. Setback(r)
      BY <2>2, Failing DEF CommitUnheard, BuildsInv
    <3> QED
      BY <2>2, <3>1 DEF CommitUnheard, Setback
  <2> QED
    BY <2>1, <2>2 DEF Applied
<1>5. ASSUME NEW q \in Requests, q # r
      PROVE  /\ pc'[q] = pc[q] \/ (pc[q] = "buffered" /\ pc'[q] = "lost" /\ ~listening' /\ Event(r))
             /\ key'[q] = key[q] /\ attempt'[q] = attempt[q]
             /\ Handling(q)' => Handling(q)
  <2>1. /\ pc'[q] = pc[q] \/ (pc[q] = "buffered" /\ pc'[q] = "lost" /\ ~listening' /\ Event(r))
        /\ key'[q] = key[q] /\ attempt'[q] = attempt[q]
    <3>1. CASE Commit(r)
      BY <1>5, <3>1 DEF Commit, Goto, BuildsInv, TypeOK
    <3>2. CASE Setback(r)
      BY <1>1, <1>5, <3>2 DEF Setback, Left
    <3> QED
      BY <1>4, <3>1, <3>2
  <2>2. key'[q] = key[q]
    BY <1>1 DEF Left
  <2> QED
    BY <1>1, <1>5, <2>1, <2>2, <1>4 DEF Handling, Outcome, Commit, Goto, BuildsInv, TypeOK, Setback
<1>6. ~Beaten(r)' /\ ~Handling(r)'
  BY <1>1 DEF Left, Beaten, Handling, Outcome
\* Who is beaten by this build has it among the builds of its type.
<1>7. ASSUME NEW q \in Requests, q # r, Beaten(q)', ~Beaten(q)
      PROVE  req[q].project = req[r].project /\ pc[q] \in {"insert", "build"}
  <2>1. PICK b : b = BuildOf(r)
    OBVIOUS
  <2>2. b.project = req[r].project
    BY <2>1 DEF BuildOf
  <2>3. builds' = builds \cup {b} /\ commits' \subseteq commits \cup {CommitOf(r)}
    BY <1>1, <2>1 DEF Apply
  <2>4. pc'[q] = pc[q] /\ CommitOf(q)' = CommitOf(q) /\ BuildOf(q)' = BuildOf(q)
    BY <1>1, <1>5, <1>7 DEF Beaten, CommitOf, BuildOf
  <2>5. BuildOf(q).project = req[q].project
    BY DEF BuildOf
  <2>6. CASE pc[q] = "insert"
    <3>1. CommitOf(q) = CommitOf(r)
      BY <1>7, <2>3, <2>4, <2>6 DEF Beaten
    <3> QED
      BY <2>6, <3>1 DEF CommitOf
  <2>7. CASE pc[q] = "build"
    <3>1. SameKey(b, BuildOf(q))
      BY <1>7, <2>3, <2>4, <2>7 DEF Beaten, Taken
    <3> QED
      BY <2>2, <2>5, <2>7, <3>1 DEF SameKey
  <2> QED
    BY <1>7, <2>4, <2>6, <2>7 DEF Beaten
<1>8. CountsOK'
  <2>1. ASSUME NEW q \in Requests
        PROVE  /\ built'[q] = unheard'[q] + (IF pc'[q] = "ok" THEN 1 ELSE 0)
               /\ Count(q)' >= built'[q]
    <3>1. CASE q = r
      BY <1>0, <1>1, <1>2, <1>4, <3>1, Counters DEF BuildsInv, TypeOK
    <3>2. CASE q # r
      <4>1. (pc'[q] = "ok" <=> pc[q] = "ok") /\ unheard'[q] = unheard[q]
        BY <1>4, <1>5, <3>2 DEF BuildsInv, TypeOK
      <4> QED
        BY <1>2, <1>3, <3>2, <4>1, Counters
    <3> QED
      BY <3>1, <3>2
  <2> QED
    BY <2>1 DEF CountsOK
<1>9. HooksOK'
  <2>1. ASSUME NEW q \in Requests, req[q].kind \in HookKind, req[q].branch
        PROVE  /\ Count(q)' + nFaults' >= built'[q] + attempt'[q] - 1
               /\ Beaten(q)' => Count(q)' + nFaults' >= built'[q] + attempt'[q]
               /\ pc'[q] = "lost" => Count(q)' + nFaults' >= built'[q] + HookAttempts
    <3>1. /\ Count(q) + nFaults >= built[q] + attempt[q] - 1
          /\ Beaten(q) => Count(q) + nFaults >= built[q] + attempt[q]
          /\ pc[q] = "lost" => Count(q) + nFaults >= built[q] + HookAttempts
      BY <2>1 DEF LostInv, HooksOK
    <3>2. CASE q = r
      <4>1. Count(r)' = Count(r) + 1
        BY <1>0
      <4>2. CASE Commit(r)
        BY <1>2, <1>4, <1>6, <3>1, <3>2, <4>1, <4>2, Counters DEF Setback, Commit, Goto, BuildsInv,
           TypeOK
      <4>3. CASE Setback(r) /\ nFaults' = nFaults + 1
        <5>1. req[r].kind \in HookKind /\ ~Event(r)
          BY <2>1, <3>2 DEF Event, HookKind
        <5>2. \/ pc'[r] = "new" /\ attempt'[r] = attempt[r] + 1
              \/ pc'[r] = "lost" /\ attempt[r] = HookAttempts /\ attempt'[r] = attempt[r]
          BY <4>3, <5>1 DEF Setback
        <5> QED
          BY <1>2, <1>6, <3>1, <3>2, <4>1, <4>3, <5>2, Counters DEF HookAttempts
      <4> QED
        BY <1>4, <4>2, <4>3
    <3>3. CASE q # r
      <4>1. pc'[q] = pc[q]
        <5>1. pc[q] # "buffered"
          BY <2>1 DEF BuildsInv, RequestsOK, PlaceOK, HookKind
        <5> QED
          BY <1>5, <3>3, <5>1
      <4>2. Beaten(q)' /\ ~Beaten(q) => Count(q)' = Count(q) + 1
        BY <1>3, <1>7, <3>3 DEF Against
      <4> QED
        BY <1>2, <1>3, <1>5, <3>1, <3>3, <4>1, <4>2, Counters DEF HookAttempts
    <3> QED
      BY <3>2, <3>3
  <2> QED
    BY <1>1, <2>1 DEF HooksOK
<1>10. EventsOK'
  <2>1. \A q1, q2 \in Requests : Handling(q1)' /\ Handling(q2)' => q1 = q2
    BY <1>5, <1>6 DEF LostInv, EventsOK
  <2>2. \A q \in Requests : Count(q) > built[q] => Count(q)' > built'[q]
    BY <1>0, <1>2, <1>3, Counters
  <2>3. ASSUME NEW q \in Requests, Event(q), Beaten(q)', NEW x \in Requests, Event(x)
        PROVE  Count(x)' > built'[x]
    <3>1. q # r
      BY <1>6, <2>3
    <3>2. CASE Beaten(q)
      BY <2>2, <2>3, <3>2 DEF LostInv, EventsOK
    <3>3. CASE ~Beaten(q)
      <4>1. req[q].project = req[r].project /\ pc[q] \in {"insert", "build"}
        BY <1>7, <2>3, <3>1, <3>3
      <4>2. Handling(q)
        BY <2>3, <4>1 DEF Handling, Outcome, Event
      <4>3. ~Event(r)
        <5>1. Event(r) => Handling(r)
          BY <1>1 DEF Handling, Outcome, Event
        <5> QED
          BY <3>1, <4>2, <5>1 DEF LostInv, EventsOK
      <4>4. x # r
        BY <2>3, <4>3
      <4>5. TypeOf[req[x].project] = "gerrit" /\ TypeOf[req[q].project] = "gerrit"
        BY <2>3, RequestType DEF Event, Expected, BuildsInv
      <4>6. Count(x)' = Count(x) + 1
        BY <1>3, <2>3, <4>1, <4>5 DEF Against
      <4> QED
        BY <1>2, <4>4, <4>6, Counters
    <3> QED
      BY <3>2, <3>3
  <2>4. ASSUME NEW q \in Requests, Event(q)
        PROVE  /\ attempt'[q] <= EventAttempts /\ attempt'[q] <= nFaults' + 1
               /\ ~listening' => Count(q)' > built'[q]
               /\ pc'[q] = "lost" => Count(q)' > built'[q] \/ nFaults' >= EventAttempts
    <3>1. /\ attempt[q] <= EventAttempts /\ attempt[q] <= nFaults + 1
          /\ pc[q] = "lost" => Count(q) > built[q] \/ nFaults >= EventAttempts
          /\ ~listening => Count(q) > built[q]
      BY <2>4 DEF LostInv, EventsOK
    <3>2. CASE q = r
      <4>1. CASE Commit(r)
        BY <1>2, <1>4, <2>2, <3>1, <3>2, <4>1, Counters DEF Commit, Goto, BuildsInv, TypeOK
      <4>2. CASE Setback(r) /\ nFaults' = nFaults + 1
        <5>1. req[r].kind \notin HookKind /\ Event(r)
          BY <2>4, <3>2 DEF Event, HookKind
        <5>2. \/ attempt' = attempt /\ pc'[r] = "lost" /\ ~listening'
              \/ pc'[r] = "buffered" /\ attempt[r] = 1 /\ attempt'[r] = 2
              \/ pc'[r] = "lost" /\ attempt[r] >= EventAttempts /\ attempt'[r] = attempt[r]
          BY <4>2, <5>1 DEF Setback
        <5> QED
          BY <1>2, <2>2, <3>1, <3>2, <4>2, <5>2, Counters DEF EventAttempts
      <4> QED
        BY <1>4, <4>1, <4>2
    <3>3. CASE q # r
      BY <1>2, <1>5, <2>2, <3>1, <3>3, Counters DEF EventAttempts
    <3> QED
      BY <3>2, <3>3
  <2>5. \A q \in Requests : Event(q)' <=> Event(q)
    BY <1>1 DEF Event
  <2> QED
    BY <2>1, <2>3, <2>4, <2>5 DEF EventsOK
<1> QED
  BY <1>8, <1>9, <1>10 DEF LostInv

LEMMA LostInit == Init => LostInv
<1> SUFFICES ASSUME Init PROVE LostInv
  OBVIOUS
<1>1. \A r \in Requests : Count(r) = 0
  BY FS_EmptySet DEF Init, Count, Rivals
<1>2. \A r \in Requests : ~Beaten(r) /\ ~Handling(r) /\ pc[r] = "new"
  BY DEF Init, Beaten, Handling
<1>3. CountsOK /\ HooksOK
  BY <1>1, <1>2 DEF Init, CountsOK, HooksOK
<1>4. EventsOK
  BY <1>2 DEF Init, EventsOK, EventAttempts
<1> QED
  BY <1>3, <1>4 DEF LostInv

LEMMA LostStep == BuildsInv /\ LostInv /\ [Next]_vars => LostInv'
<1> SUFFICES ASSUME BuildsInv, LostInv, [Next]_vars PROVE LostInv'
  OBVIOUS
<1>1. CASE ListenAgain \/ UNCHANGED vars
  <2>1. /\ UNCHANGED <<builds, commits, req, pc, attempt, key, built, unheard, nFaults>>
        /\ listening' = listening \/ listening'
    BY <1>1 DEF ListenAgain, vars, dbVars, historyVars
  <2>2. \A q \in Requests : Count(q)' = Count(q)
    BY <2>1, CountKept
  <2>3. \A q \in Requests : /\ Beaten(q)' <=> Beaten(q)
                            /\ Handling(q)' <=> Handling(q)
                            /\ Event(q)' <=> Event(q)
    BY <2>1 DEF Beaten, CommitOf, Taken, BuildOf, Handling, Event
  <2>4. CountsOK' /\ HooksOK'
    BY <2>1, <2>2, <2>3 DEF LostInv, CountsOK, HooksOK
  <2>5. EventsOK'
    BY <2>1, <2>2, <2>3 DEF LostInv, EventsOK
  <2> QED
    BY <2>4, <2>5 DEF LostInv
<1>2. CASE Next
  BY <1>1, <1>2, Steps, LostPlain, LostRolled, LostApplied
<1> QED
  BY <1>1, <1>2

LEMMA LostInvariant == Spec => [](BuildsInv /\ LostInv)
<1>1. Init => BuildsInv /\ LostInv
  BY BuildsInit, LostInit
<1>2. BuildsInv /\ LostInv /\ [Next]_vars => (BuildsInv /\ LostInv)'
  BY BuildsStep, LostStep
<1> QED
  BY <1>1, <1>2, PTL DEF Spec

(***************************************************************************)
(* The theorems.                                                           *)
(***************************************************************************)

\* Types: what is committed is a build of a request's project, with a number
\* and a source.
THEOREM TypeCorrect == Spec => []TypeOK
<1>1. BuildsInv => TypeOK
  BY DEF BuildsInv
<1> QED
  BY <1>1, BuildsInvariant, PTL

\* Builds and their restarts are numbered without a gap, although a number is
\* read in one statement and used in a later one: trigger, upload, hooks, the
\* listener of Gerrit and restarts, for any number of them.
THEOREM NumbersAreRight == Spec => []NumbersIdentify
<1>1. ASSUME BuildsInv PROVE NumbersIdentify
  <2>1. ASSUME NEW p \in Projects
        PROVE  /\ Numbers(p) = 1..Cardinality(Numbers(p))
               /\ \A n \in Numbers(p) : Restarts(p, n) = 1..Cardinality(Restarts(p, n))
    <3>1. PICK k \in Nat : Numbers(p) = 1..k
      BY <1>1 DEF BuildsInv, NumbersOK
    <3>2. ASSUME NEW n \in Numbers(p) PROVE Restarts(p, n) = 1..Cardinality(Restarts(p, n))
      <4>1. PICK m \in Nat : Restarts(p, n) = 1..m
        BY <1>1 DEF BuildsInv, NumbersOK
      <4> QED
        BY <4>1, GreatestOf
    <3> QED
      BY <3>1, <3>2, GreatestOf
  <2> QED
    BY <1>1, <2>1 DEF BuildsInv, NumbersOK, NumbersIdentify
<1> QED
  BY <1>1, BuildsInvariant, PTL

\* A commit that is in the table is built, also while the transactions of
\* other hooks are under way.
THEOREM EveryCommitIsBuilt == Spec => []CommitsAreBuilt
<1>1. BuildsInv => CommitsAreBuilt
  BY DEF BuildsInv
<1> QED
  BY <1>1, BuildsInvariant, PTL

\* What a build is made from can be fetched from every cluster that was active
\* when it arrived, and its first job is there.
THEOREM SourcesAreThere == Spec => []BuildsHaveSource
<1>1. BuildsInv => BuildsHaveSource
  BY DEF BuildsInv, BuiltOK, BuildsHaveSource
<1> QED
  BY <1>1, BuildsInvariant, PTL

\* A hook or an event is lost only to builds of others and lost connections,
\* as many as it has attempts, for any number of requests.
THEOREM LossesHaveCauses == Spec => []LostToOthers
<1>1. ASSUME BuildsInv, LostInv PROVE LostToOthers
  <2> SUFFICES ASSUME NEW r \in Requests
               PROVE  /\ pc[r] = "lost" =>
                            \/ ~req[r].branch
                            \/ req[r].kind \in HookKind /\ OtherBuilds(r) + nFaults >= HookAttempts
                            \/ req[r].kind = "event" /\ (OtherBuilds(r) > 0 \/ nFaults >= EventAttempts)
                      /\ built[r] <= 1 + unheard[r]
                      /\ pc[r] = "ok" => built[r] > 0
    BY DEF LostToOthers
  <2>1. OtherBuilds(r) = Count(r) - built[r]
    BY DEF OtherBuilds, Count, Rivals
  <2>2. built[r] <= 1 + unheard[r] /\ (pc[r] = "ok" => built[r] > 0)
    BY <1>1, Counters
  <2>3. CASE pc[r] = "lost" /\ req[r].branch
    <3>1. CASE req[r].kind \in HookKind
      <4>1. Count(r) + nFaults >= built[r] + HookAttempts
        BY <1>1, <2>3, <3>1 DEF LostInv, HooksOK
      <4>2. OtherBuilds(r) + nFaults >= HookAttempts
        BY <1>1, <2>1, <4>1, Counters DEF HookAttempts
      <4> QED
        BY <2>2, <3>1, <4>2
    <3>2. CASE req[r].kind = "event"
      <4>1. Count(r) > built[r] \/ nFaults >= EventAttempts
        BY <1>1, <2>3, <3>2 DEF LostInv, EventsOK, Event
      <4>2. OtherBuilds(r) > 0 \/ nFaults >= EventAttempts
        BY <1>1, <2>1, <4>1, Counters DEF EventAttempts
      <4> QED
        BY <2>2, <3>2, <4>2
    <3> QED
      BY <1>1, <2>3, <3>1, <3>2 DEF BuildsInv, RequestsOK, PlaceOK
  <2> QED
    BY <2>2, <2>3
<1> QED
  BY <1>1, LostInvariant, PTL

=============================================================================
