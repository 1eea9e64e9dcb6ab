------------------------- MODULE NotificationsProofs -------------------------
(* A service that is notified, the rooms of its clients, and what becomes of *)
(* an event, for any jobs, builds, clients and bounds. First the types; then *)
(* what the listeners owe to reviews and clients: the event of the last       *)
(* change is in the queue, or in a thread, or has been lost, or what was      *)
(* posted is true. A review leaves no old state and no build without its      *)
(* vote; no client is left with an old state of a job, or without a piece of  *)
(* output.                                                                   *)
EXTENDS Notifications, FiniteSetTheorems, TLAPS

(***************************************************************************)
(* Rooms. Their members have been checked, and are loaded or gone; each has *)
(* entered at least once, so that no exit brings the count below theirs.    *)
(***************************************************************************)

MaySee(c) == IF room = "build" THEN HasProjectToken(c)
             ELSE Public \/ HasProjectToken(c) \/ IsCollaborator(c)

RoomsInv ==
    /\ RoomsTypeOK
    /\ IsFiniteSet(members) /\ Cardinality(members) \in Nat /\ Cardinality(members) <= entries
    /\ entries <= nEntries
    /\ \A c \in members : client[c] \in {"loaded", "checked", "away"}
    /\ \A c \in Clients : c \in members \/ client[c] \in {"checked", "gone"} => MaySee(c)

LEMMA RoomsInitInv ==
  ASSUME NEW kind \in Room, NEW present \in SUBSET Clients, RoomsInit(kind, present)
  PROVE  RoomsInv
<1>1. RoomsTypeOK
  BY RoomsAssumption DEF RoomsInit, RoomsTypeOK, RoomsAssumption
<1>2. IsFiniteSet(members) /\ Cardinality(members) = 0
  BY FS_EmptySet DEF RoomsInit
<1>3. \A c \in Clients : c \notin members /\ client[c] \notin {"checked", "gone"}
  BY DEF RoomsInit
<1> QED
  BY <1>1, <1>2, <1>3 DEF RoomsInit, RoomsInv

LEMMA DisconnectInv ==
  ASSUME RoomsInv, NEW c \in Clients, Disconnect(c)
  PROVE  RoomsInv'
<1>0. RoomsTypeOK /\ MaxEntries \in Nat
  BY RoomsAssumption DEF RoomsInv, RoomsAssumption
<1>1. /\ client' = [client EXCEPT ![c] = IF client[c] = "checked" THEN "gone" ELSE "away"]
      /\ UNCHANGED <<room, nEntries>>
      /\ c \notin members'
      /\ members' \subseteq members
  BY DEF Disconnect, leave_room
<1>2. /\ IsFiniteSet(members') /\ Cardinality(members') \in Nat /\ Cardinality(members') <= entries'
      /\ entries' \in 0..MaxEntries /\ entries' <= nEntries
  <2>1. CASE c \in members
    <3>1. members' = members \ {c} /\ entries' = entries - 1
      BY <2>1 DEF Disconnect, leave_room
    <3>2. IsFiniteSet(members \ {c}) /\ Cardinality(members \ {c}) = Cardinality(members) - 1
      BY <2>1, FS_RemoveElement DEF RoomsInv
    <3>3. Cardinality(members \ {c}) \in Nat
      BY <3>2, FS_CardinalityType
    <3> QED
      BY <1>0, <3>1, <3>2, <3>3 DEF RoomsInv, RoomsTypeOK
  <2>2. CASE c \notin members
    BY <1>0, <2>2 DEF Disconnect, leave_room, RoomsInv, RoomsTypeOK
  <2> QED
    BY <2>1, <2>2
<1>3. RoomsTypeOK'
  BY <1>0, <1>1, <1>2 DEF RoomsTypeOK
<1>4. \A d \in members' : client'[d] \in {"loaded", "checked", "away"}
  BY <1>0, <1>1 DEF RoomsInv, RoomsTypeOK
<1>5. \A d \in Clients : d \in members' \/ client'[d] \in {"checked", "gone"} => MaySee(d)'
  BY <1>0, <1>1 DEF RoomsInv, RoomsTypeOK, MaySee, HasProjectToken, IsCollaborator
<1> QED
  BY <1>1, <1>2, <1>3, <1>4, <1>5 DEF RoomsInv

LEMMA RoomsStepInv ==
  ASSUME RoomsInv, NEW c \in Clients, RoomsStep(c)
  PROVE  RoomsInv'
<1>0. RoomsTypeOK /\ MaxEntries \in Nat
  BY RoomsAssumption DEF RoomsInv, RoomsAssumption
<1>1. ASSUME NEW may, Admit(c, may), may => MaySee(c)
      PROVE  RoomsInv'
  <2>1. CASE may
    <3>1. client' = [client EXCEPT ![c] = "checked"] /\ UNCHANGED <<room, members, entries, nEntries>>
      BY <1>1, <2>1 DEF Admit
    <3>2. RoomsTypeOK'
      BY <1>0, <3>1 DEF RoomsTypeOK
    <3>3. \A d \in members' : client'[d] \in {"loaded", "checked", "away"}
      BY <1>0, <3>1 DEF RoomsInv, RoomsTypeOK
    <3>4. \A d \in Clients : d \in members' \/ client'[d] \in {"checked", "gone"} => MaySee(d)'
      BY <1>0, <1>1, <2>1, <3>1 DEF RoomsInv, RoomsTypeOK, MaySee, HasProjectToken, IsCollaborator
    <3> QED
      BY <3>1, <3>2, <3>3, <3>4 DEF RoomsInv
  <2>2. CASE ~may
    BY <1>1, <2>2, DisconnectInv DEF Admit
  <2> QED
    BY <2>1, <2>2
<1>2. ASSUME EnterRoom(c) PROVE RoomsInv'
  <2>1. /\ client[c] \in {"checked", "gone"} /\ nEntries < MaxEntries
        /\ client' = [client EXCEPT ![c] = IF client[c] = "checked" THEN "loaded" ELSE "away"]
        /\ members' = members \cup {c}
        /\ entries' = entries + 1 /\ nEntries' = nEntries + 1 /\ room' = room
    BY <1>2 DEF EnterRoom
  <2>2. IsFiniteSet(members') /\ Cardinality(members') \in Nat /\ Cardinality(members') <= entries'
    <3>1. /\ IsFiniteSet(members \cup {c})
          /\ Cardinality(members \cup {c})
               = IF c \in members THEN Cardinality(members) ELSE Cardinality(members) + 1
      BY FS_AddElement DEF RoomsInv
    <3> QED
      BY <1>0, <2>1, <3>1 DEF RoomsInv, RoomsTypeOK
  <2>3. RoomsTypeOK' /\ entries' <= nEntries'
    BY <1>0, <2>1 DEF RoomsInv, RoomsTypeOK
  <2>4. \A d \in members' : client'[d] \in {"loaded", "checked", "away"}
    BY <1>0, <2>1 DEF RoomsInv, RoomsTypeOK
  <2>5. \A d \in Clients : d \in members' \/ client'[d] \in {"checked", "gone"} => MaySee(d)'
    BY <1>0, <2>1 DEF RoomsInv, RoomsTypeOK, MaySee, HasProjectToken, IsCollaborator
  <2> QED
    BY <2>2, <2>3, <2>4, <2>5 DEF RoomsInv
<1>3. ASSUME ListenJobs(c) PROVE RoomsInv'
  BY <1>1, <1>3 DEF ListenJobs, MaySee
<1>4. ASSUME ListenBuild(c) PROVE RoomsInv'
  BY <1>1, <1>4 DEF ListenBuild, MaySee
<1>5. ASSUME ListenConsole(c) PROVE RoomsInv'
  BY <1>1, <1>5 DEF ListenConsole, MaySee
<1>6. ASSUME ListenDashboardConsole(c) PROVE RoomsInv'
  BY <1>1, <1>6 DEF ListenDashboardConsole, MaySee
<1> QED
  BY <1>2, <1>3, <1>4, <1>5, <1>6 DEF RoomsStep

LEMMA RoomsSame == RoomsInv /\ UNCHANGED roomVars => RoomsInv'
BY DEF RoomsInv, RoomsTypeOK, MaySee, HasProjectToken, IsCollaborator, roomVars

\* As long as anybody is in the room, it has clients.
LEMMA MembersSeen == RoomsInv /\ members # {} => has_clients
<1> SUFFICES ASSUME RoomsInv, members # {} PROVE has_clients
  OBVIOUS
<1>1. Cardinality(members) # 0
  BY FS_EmptySet DEF RoomsInv
<1> QED
  BY <1>1 DEF RoomsInv, RoomsTypeOK, has_clients

(***************************************************************************)
(* Types.                                                                  *)
(***************************************************************************)

\* A review handles one event at a time; what is posted is a state or a vote.
GitHubStates == {"pending", "failure", "error", "success"}
Votes == {"0", "-1", "+1"}
TaskInv ==
    /\ service \in Review => \A t, u \in tasks : t = u
    /\ \A t \in tasks : /\ t.at \in {"owner", "status"} => t.value \in GitHubStates
                        /\ t.at = "vote" => t.value \in Votes
\* The listeners of the API do not query on the connection that listens.
SocketInv == service \notin Review => collected = 0 /\ loop = "check"
TypeInv == DatabaseTypeOK /\ ServiceTypeOK /\ OutsideTypeOK /\ RoomsInv /\ TaskInv /\ SocketInv

\* The steps of a task, and what it keeps in mind.
Ats == {"job", "console", "emit", "owner", "status", "count", "vote"}
Values == {"", "pending", "failure", "error", "success", "0", "-1", "+1"}
LEMMA TaskIs == Task = [event : Event, at : Ats, change : 0..MaxChanges[service], value : Values]
BY DEF Task, Ats, Values

LEMMA EventsSame == service' = service => Event' = Event /\ Task' = Task
BY DEF Event, Task

LEMMA ChangesNat == service \in Service => MaxChanges[service] \in Nat
BY NotificationsAssumption DEF NotificationsAssumption

\* A task of a review is the only one.
LEMMA OneTaskCounted ==
  ASSUME TaskInv
  PROVE  service \in Review => Cardinality(tasks) <= 1
<1> SUFFICES ASSUME service \in Review PROVE Cardinality(tasks) <= 1
  OBVIOUS
<1>1. CASE tasks = {}
  BY <1>1, FS_EmptySet
<1>2. CASE tasks # {}
  <2>1. PICK t \in tasks : tasks = {t}
    BY <1>2 DEF TaskInv
  <2>2. Cardinality({t}) = 1
    BY FS_Singleton
  <2> QED
    BY <2>1, <2>2
<1> QED
  BY <1>1, <1>2

LEMMA TypeInit == Init => TypeInv
<1> SUFFICES ASSUME Init PROVE TypeInv
  OBVIOUS
<1>1. PICK s \in Setups : service = s.service /\ type = s.type /\ RoomsInit(s.room, s.clients)
  BY DEF Init
<1>2. /\ service \in Service /\ type \in [Projects -> Type]
      /\ s.room \in Room /\ s.clients \in SUBSET Clients
  BY <1>1, NotificationsAssumption DEF NotificationsAssumption, RoomsInit
<1>3. MaxChanges[service] \in Nat
  BY <1>2, ChangesNat
<1>4. RoomsInv
  BY <1>1, <1>2, RoomsInitInv
<1>5. row \in [Jobs -> State \cup {"none"}]
  BY DEF Init, State, Active
<1>6. nFaults \in 0..MaxFaults
  BY NotificationsAssumption DEF Init, NotificationsAssumption
<1>7. inbox \in Seq(Event) /\ inbox = <<>> /\ tasks = {}
  BY DEF Init
<1>8. collected \in 0..Len(inbox) /\ loop = "check"
  BY <1>7 DEF Init
<1> QED
  BY <1>2, <1>3, <1>4, <1>5, <1>6, <1>7, <1>8
     DEF Init, TypeInv, DatabaseTypeOK, ServiceTypeOK, OutsideTypeOK, TaskInv, SocketInv

\* What NotifyJob and InsertConsole do to the queue and the history.
LEMMA NotifyTypes ==
  ASSUME TypeInv, NEW op \in {"INSERT", "UPDATE"}, NEW j \in Jobs, Notify(op, j),
         nChanges < MaxChanges[service], UNCHANGED <<service, conn>>, UNCHANGED members
  PROVE  /\ nChanges' = nChanges + 1
         /\ nChanges' \in 1..MaxChanges[service]
         /\ inbox' \in Seq(Event) /\ (inbox' # <<>> => conn = "listening")
         /\ Len(inbox) <= Len(inbox')
         /\ due' \in [Clients -> SUBSET (1..MaxChanges[service])]
         /\ missed' \subseteq 0..MaxChanges[service]
<1>1. MaxChanges[service] \in Nat /\ nChanges \in Nat
  BY ChangesNat DEF TypeInv, DatabaseTypeOK, ServiceTypeOK
<1>2. nChanges' = nChanges + 1 /\ nChanges' \in 1..MaxChanges[service]
  BY <1>1 DEF Notify
<1>3. [type |-> op, job |-> j, n |-> nChanges + 1] \in Event
  BY <1>2 DEF Event
<1>4. inbox' \in Seq(Event) /\ (inbox' # <<>> => conn = "listening") /\ Len(inbox) <= Len(inbox')
  <2>1. inbox \in Seq(Event) /\ (inbox # <<>> => conn = "listening")
    BY DEF TypeInv, DatabaseTypeOK, ServiceTypeOK, OutsideTypeOK
  <2>2. \/ conn = "listening" /\ inbox' = Append(inbox, [type |-> op, job |-> j, n |-> nChanges + 1])
        \/ inbox' = inbox
    BY DEF Notify
  <2> QED
    BY <1>3, <2>1, <2>2
<1>5. due' \in [Clients -> SUBSET (1..MaxChanges[service])]
  BY <1>1, <1>2 DEF Notify, TypeInv, DatabaseTypeOK, ServiceTypeOK, OutsideTypeOK
<1>6. missed' \subseteq 0..MaxChanges[service]
  <2>1. missed \subseteq 0..MaxChanges[service]
    BY DEF TypeInv, DatabaseTypeOK, ServiceTypeOK, OutsideTypeOK
  <2>2. missed' \subseteq missed \cup {nChanges'}
    BY <1>2 DEF Notify
  <2> QED
    BY <1>1, <1>2, <2>1, <2>2
<1> QED
  BY <1>2, <1>4, <1>5, <1>6

LEMMA ChangeTypes == TypeInv /\ Change => TypeInv'
<1> SUFFICES ASSUME TypeInv, Change PROVE TypeInv'
  OBVIOUS
<1>0. MaxChanges[service] \in Nat /\ nChanges \in Nat
  BY ChangesNat DEF TypeInv, DatabaseTypeOK, ServiceTypeOK
<1>1. ASSUME NEW op \in {"INSERT", "UPDATE"}, NEW j \in Jobs, NotifyJob(op, j),
             nChanges < MaxChanges[service],
             row' \in [Jobs -> State \cup {"none"}]
      PROVE  TypeInv'
  <2>1. Notify(op, j) /\ UNCHANGED <<service, conn>> /\ UNCHANGED members
    BY <1>1 DEF NotifyJob, roomVars
  <2>2. /\ nChanges' = nChanges + 1
        /\ nChanges' \in 1..MaxChanges[service]
        /\ inbox' \in Seq(Event) /\ (inbox' # <<>> => conn = "listening")
        /\ Len(inbox) <= Len(inbox')
        /\ due' \in [Clients -> SUBSET (1..MaxChanges[service])]
        /\ missed' \subseteq 0..MaxChanges[service]
    BY <1>1, <2>1, NotifyTypes
  <2>3. changed' \in [Jobs -> 0..MaxChanges[service]]
    <3>1. changed' = [changed EXCEPT ![j] = nChanges + 1]
      BY <1>1 DEF NotifyJob
    <3>2. changed \in [Jobs -> 0..MaxChanges[service]]
      BY DEF TypeInv, DatabaseTypeOK, ServiceTypeOK, OutsideTypeOK
    <3>3. nChanges + 1 \in 0..MaxChanges[service]
      BY <1>0, <2>2
    <3> QED
      BY <3>1, <3>2, <3>3
  <2>4. /\ Event' = Event /\ Task' = Task
    BY <2>1 DEF Event, Task
  <2>5. collected' \in 0..Len(inbox') /\ loop' = loop /\ SocketInv'
    BY <1>1, <2>2 DEF NotifyJob, wake, TypeInv, ServiceTypeOK, SocketInv
  <2> QED
    <3>1. DatabaseTypeOK'
      BY <1>0, <1>1, <2>1, <2>2, <2>3 DEF NotifyJob, TypeInv, DatabaseTypeOK
    <3>2. ServiceTypeOK' /\ TaskInv'
      BY <1>1, <2>1, <2>2, <2>4, <2>5 DEF NotifyJob, TypeInv, ServiceTypeOK, TaskInv
    <3>3. OutsideTypeOK' /\ RoomsInv'
      BY <1>1, <2>1, <2>2, RoomsSame DEF NotifyJob, TypeInv, OutsideTypeOK
    <3> QED
      BY <2>5, <3>1, <3>2, <3>3 DEF TypeInv
<1>2. ASSUME NEW j \in Jobs, InsertJob(j) PROVE TypeInv'
  <2>1. row' \in [Jobs -> State \cup {"none"}]
    BY <1>2 DEF InsertJob, TypeInv, DatabaseTypeOK, State, Active
  <2> QED
    BY <1>1, <1>2, <2>1 DEF InsertJob
<1>3. ASSUME NEW j \in Jobs, InsertConsole(j) PROVE TypeInv'
  <2>1. Notify("INSERT", j) /\ UNCHANGED <<service, conn>> /\ UNCHANGED members
    BY <1>3 DEF InsertConsole, roomVars
  <2>2. /\ nChanges' = nChanges + 1
        /\ nChanges' \in 1..MaxChanges[service]
        /\ inbox' \in Seq(Event) /\ (inbox' # <<>> => conn = "listening")
        /\ Len(inbox) <= Len(inbox')
        /\ due' \in [Clients -> SUBSET (1..MaxChanges[service])]
        /\ missed' \subseteq 0..MaxChanges[service]
    BY <1>3, <2>1, NotifyTypes DEF InsertConsole
  <2>3. Event' = Event /\ Task' = Task
    BY <2>1 DEF Event, Task
  <2>4. collected' \in 0..Len(inbox') /\ loop' = loop /\ SocketInv'
    BY <1>3, <2>2 DEF InsertConsole, wake, TypeInv, ServiceTypeOK, SocketInv
  <2> QED
    <3>1. DatabaseTypeOK'
      <4>1. output' = output \cup {nChanges'} /\ UNCHANGED <<row, type, projects, changed, removed>>
        BY <1>3, <2>2 DEF InsertConsole
      <4> QED
        BY <1>0, <2>1, <2>2, <4>1 DEF TypeInv, DatabaseTypeOK
    <3>2. ServiceTypeOK' /\ TaskInv'
      BY <1>3, <2>1, <2>2, <2>3, <2>4 DEF InsertConsole, TypeInv, ServiceTypeOK, TaskInv
    <3>3. OutsideTypeOK' /\ RoomsInv'
      BY <1>3, <2>1, <2>2, RoomsSame DEF InsertConsole, TypeInv, OutsideTypeOK
    <3> QED
      BY <2>4, <3>1, <3>2, <3>3 DEF TypeInv
<1>4. ASSUME NEW j \in Jobs, NEW s \in State, UpdateJob(j, s) PROVE TypeInv'
  <2>1. row' \in [Jobs -> State \cup {"none"}]
    BY <1>4 DEF UpdateJob, TypeInv, DatabaseTypeOK
  <2> QED
    BY <1>1, <1>4, <2>1 DEF UpdateJob
<1>5. ASSUME RemoveConsole PROVE TypeInv'
  <2>1. DatabaseTypeOK'
    <3>1. /\ output' = {} /\ removed' = removed \cup output
          /\ UNCHANGED <<row, type, projects, nChanges, changed, service>>
      BY <1>5 DEF RemoveConsole
    <3>2. removed' \subseteq 1..MaxChanges[service]
      BY <3>1 DEF TypeInv, DatabaseTypeOK
    <3> QED
      BY <3>1, <3>2 DEF TypeInv, DatabaseTypeOK
  <2>2. ServiceTypeOK' /\ TaskInv' /\ SocketInv'
    BY <1>5, EventsSame DEF RemoveConsole, wake, TypeInv, ServiceTypeOK, TaskInv, SocketInv
  <2>3. OutsideTypeOK' /\ RoomsInv'
    BY <1>5, RoomsSame DEF RemoveConsole, TypeInv, OutsideTypeOK, outside
  <2> QED
    BY <2>1, <2>2, <2>3 DEF TypeInv
<1>6. ASSUME NEW p \in Projects, DeleteProject(p) PROVE TypeInv'
  <2>1. DatabaseTypeOK'
    <3>1. /\ nChanges < MaxChanges[service] /\ nChanges' = nChanges + 1
          /\ projects' = projects \ {p}
          /\ UNCHANGED <<row, type, output, removed, changed, service>>
      BY <1>6 DEF DeleteProject
    <3>2. nChanges' \in 0..MaxChanges[service]
      BY <1>0, <3>1
    <3> QED
      BY <3>1, <3>2 DEF TypeInv, DatabaseTypeOK
  <2>2. ServiceTypeOK' /\ TaskInv' /\ SocketInv'
    BY <1>6, EventsSame DEF DeleteProject, wake, TypeInv, ServiceTypeOK, TaskInv, SocketInv
  <2>3. OutsideTypeOK' /\ RoomsInv'
    BY <1>6, RoomsSame DEF DeleteProject, TypeInv, OutsideTypeOK, outside
  <2> QED
    BY <2>1, <2>2, <2>3 DEF TypeInv
<1> QED
  BY <1>2, <1>3, <1>4, <1>5, <1>6 DEF Change

LEMMA ServiceTypes ==
  ASSUME TypeInv, UNCHANGED <<database, service, roomVars>>, OutsideTypeOK',
         conn' \in {"down", "leader", "listening"},
         inbox' \in Seq(Event), inbox' # <<>> => conn' = "listening",
         collected' \in 0..Len(inbox'), loop' \in {"check", "select", "drain"},
         tasks' \subseteq Task, nFaults' \in 0..MaxFaults, missed' \subseteq 0..MaxChanges[service],
         TaskInv', SocketInv'
  PROVE  TypeInv'
<1>1. DatabaseTypeOK'
  BY DEF TypeInv, DatabaseTypeOK, database
<1>2. ServiceTypeOK'
  BY EventsSame DEF TypeInv, ServiceTypeOK
<1>3. RoomsInv'
  BY RoomsSame DEF TypeInv
<1> QED
  BY <1>1, <1>2, <1>3 DEF TypeInv

LEMMA OutsideSame == TypeInv /\ UNCHANGED <<service, outside>> => OutsideTypeOK'
BY DEF TypeInv, OutsideTypeOK, outside

\* Taking an event from either end of the queue.
LEMMA TakeEvent ==
  ASSUME NEW S, NEW s \in Seq(S), s # <<>>
  PROVE  /\ Head(s) \in S /\ Tail(s) \in Seq(S)
         /\ s[Len(s)] \in S /\ SubSeq(s, 1, Len(s) - 1) \in Seq(S)
         /\ Len(Tail(s)) = Len(s) - 1 /\ Len(SubSeq(s, 1, Len(s) - 1)) = Len(s) - 1
         /\ Len(s) \in DOMAIN s /\ \E i \in DOMAIN s : s[i] = Head(s)
         /\ \A k \in DOMAIN Tail(s) : \E i \in DOMAIN s : s[i] = Tail(s)[k]
         /\ \A k \in DOMAIN SubSeq(s, 1, Len(s) - 1) : \E i \in DOMAIN s : s[i] = SubSeq(s, 1, Len(s) - 1)[k]
         /\ \A i \in DOMAIN s : \/ s[i] = Head(s)
                               \/ \E k \in DOMAIN Tail(s) : Tail(s)[k] = s[i]
         /\ \A i \in DOMAIN s :
               \/ s[i] = s[Len(s)]
               \/ \E k \in DOMAIN SubSeq(s, 1, Len(s) - 1) : SubSeq(s, 1, Len(s) - 1)[k] = s[i]
<1>1. Len(s) \in Nat \ {0} /\ DOMAIN s = 1..Len(s)
  OBVIOUS
<1>2. Head(s) \in S /\ Tail(s) \in Seq(S) /\ s[Len(s)] \in S
  BY <1>1
<1>3. /\ SubSeq(s, 1, Len(s) - 1) \in Seq(S)
      /\ Len(Tail(s)) = Len(s) - 1 /\ Len(SubSeq(s, 1, Len(s) - 1)) = Len(s) - 1
  BY <1>1
<1>4. ASSUME NEW i \in DOMAIN s
      PROVE  s[i] = Head(s) \/ \E k \in DOMAIN Tail(s) : Tail(s)[k] = s[i]
  <2>1. CASE i = 1
    BY <2>1
  <2>2. CASE i # 1
    <3>1. i - 1 \in DOMAIN Tail(s) /\ Tail(s)[i - 1] = s[i]
      BY <1>1, <2>2
    <3> QED
      BY <3>1
  <2> QED
    BY <2>1, <2>2
<1>5. ASSUME NEW i \in DOMAIN s
      PROVE  \/ s[i] = s[Len(s)]
             \/ \E k \in DOMAIN SubSeq(s, 1, Len(s) - 1) : SubSeq(s, 1, Len(s) - 1)[k] = s[i]
  <2>1. CASE i = Len(s)
    BY <2>1
  <2>2. CASE i # Len(s)
    <3>1. i \in DOMAIN SubSeq(s, 1, Len(s) - 1) /\ SubSeq(s, 1, Len(s) - 1)[i] = s[i]
      BY <1>1, <2>2
    <3> QED
      BY <3>1
  <2> QED
    BY <2>1, <2>2
<1>6. Len(s) \in DOMAIN s /\ \E i \in DOMAIN s : s[i] = Head(s)
  <2>1. 1 \in DOMAIN s /\ s[1] = Head(s)
    BY <1>1
  <2> QED
    BY <1>1, <2>1
<1>7. ASSUME NEW k \in DOMAIN Tail(s) PROVE \E i \in DOMAIN s : s[i] = Tail(s)[k]
  <2>1. k + 1 \in DOMAIN s /\ s[k + 1] = Tail(s)[k]
    BY <1>1
  <2> QED
    BY <2>1
<1>8. ASSUME NEW k \in DOMAIN SubSeq(s, 1, Len(s) - 1)
      PROVE  \E i \in DOMAIN s : s[i] = SubSeq(s, 1, Len(s) - 1)[k]
  <2>1. k \in DOMAIN s /\ s[k] = SubSeq(s, 1, Len(s) - 1)[k]
    BY <1>1
  <2> QED
    BY <2>1
<1> QED
  BY <1>2, <1>3, <1>4, <1>5, <1>6, <1>7, <1>8

LEMMA TaskFields ==
  ASSUME TypeInv, NEW t \in tasks
  PROVE  /\ t \in Task /\ t.event \in Event /\ t.event.job \in Jobs
         /\ t.event.n \in 1..MaxChanges[service] /\ t.change \in 0..MaxChanges[service]
         /\ t.at \in Ats
         /\ Commit(t.event.job) \in Commits /\ Context(t.event.job) \in Contexts
<1>1. t \in Task
  BY DEF TypeInv, ServiceTypeOK
<1>2. t.event \in Event /\ t.change \in 0..MaxChanges[service] /\ t.at \in Ats
  BY <1>1, TaskIs
<1>3. t.event.job \in Jobs /\ t.event.n \in 1..MaxChanges[service]
  BY <1>2 DEF Event
<1>4. Commit(t.event.job) \in Commits /\ Context(t.event.job) \in Contexts
  BY <1>3 DEF Commit, Commits, Context, Contexts, Builds
<1> QED
  BY <1>1, <1>2, <1>3, <1>4

LEMMA TaskExcept ==
  ASSUME NEW t \in Task
  PROVE  /\ \A at, n, v : LET u == [t EXCEPT !.at = at, !.change = n, !.value = v] IN
               u.event = t.event /\ u.at = at /\ u.change = n /\ u.value = v
         /\ \A at, n : LET u == [t EXCEPT !.at = at, !.change = n] IN
               u.event = t.event /\ u.at = at /\ u.change = n
         /\ \A at, v : LET u == [t EXCEPT !.at = at, !.value = v] IN
               u.event = t.event /\ u.at = at /\ u.value = v
         /\ \A at : LET u == [t EXCEPT !.at = at] IN
               u.event = t.event /\ u.at = at /\ u.value = t.value
<1>1. t \in [event : Event, at : Ats, change : 0..MaxChanges[service], value : Values]
  BY TaskIs
<1> QED
  BY <1>1

\* What a task becomes, by the names of its steps.
At(t, a) == [t EXCEPT !.at = a]
Found(t, a, n, v) == [t EXCEPT !.at = a, !.change = n, !.value = v]
Piece(t, n) == [t EXCEPT !.at = "emit", !.change = n]
Voting(t, v) == [t EXCEPT !.at = "vote", !.value = v]

LEMMA TaskMoves ==
  ASSUME NEW t \in Task, NEW a \in Ats, NEW n \in 0..MaxChanges[service], NEW v \in Values
  PROVE  At(t, a) \in Task /\ Found(t, a, n, v) \in Task /\ Piece(t, n) \in Task /\ Voting(t, v) \in Task
<1>1. At(t, a) \in Task
  BY DEF Task, Ats, At
<1>2. Found(t, a, n, v) \in Task
  BY DEF Task, Ats, Values, Found
<1>3. Piece(t, n) \in Task
  BY DEF Task, Piece
<1>4. Voting(t, v) \in Task
  BY DEF Task, Values, Voting
<1> QED
  BY <1>1, <1>2, <1>3, <1>4

LEMMA FirstTask ==
  ASSUME TypeInv, NEW e \in Event
  PROVE  TaskOf(e) \in Task /\ TaskOf(e).event = e /\ TaskOf(e).at \in {"job", "console"}
<1>1. 0 \in 0..MaxChanges[service]
  BY ChangesNat DEF TypeInv, ServiceTypeOK
<1>2. ASSUME NEW a \in {"job", "console"}
      PROVE  [event |-> e, at |-> a, change |-> 0, value |-> ""] \in Task
  BY <1>1 DEF Task
<1>3. TaskOf(e) \in Task
  <2>1. CASE service = "console-listener"
    <3>1. TaskOf(e) = [event |-> e, at |-> "console", change |-> 0, value |-> ""]
      BY <2>1 DEF TaskOf
    <3> QED
      BY <1>2, <3>1
  <2>2. CASE service # "console-listener"
    <3>1. TaskOf(e) = [event |-> e, at |-> "job", change |-> 0, value |-> ""]
      BY <2>2 DEF TaskOf
    <3> QED
      BY <1>2, <3>1
  <2> QED
    BY <2>1, <2>2
<1>4. TaskOf(e).event = e /\ TaskOf(e).at \in {"job", "console"}
  BY DEF TaskOf
<1> QED
  BY <1>3, <1>4

Advance ==
    \/ ElectLeader \/ Listen \/ CheckLeader \/ Select \/ StartTask \/ NextEvent \/ ServiceFails

LEMMA ServeTypes == TypeInv /\ Advance => TypeInv'
<1> SUFFICES ASSUME TypeInv, Advance PROVE TypeInv'
  OBVIOUS
<1>0. /\ MaxChanges[service] \in Nat /\ MaxFaults \in Nat
      /\ conn \in {"down", "leader", "listening"}
      /\ inbox \in Seq(Event) /\ (inbox # <<>> => conn = "listening")
      /\ collected \in 0..Len(inbox) /\ loop \in {"check", "select", "drain"}
      /\ tasks \subseteq Task /\ nFaults \in 0..MaxFaults /\ missed \subseteq 0..MaxChanges[service]
  BY ChangesNat, NotificationsAssumption DEF NotificationsAssumption, TypeInv, ServiceTypeOK
<1>1. ASSUME ElectLeader PROVE TypeInv'
  BY <1>0, <1>1, ServiceTypes, OutsideSame DEF ElectLeader, wake, TypeInv, TaskInv, SocketInv
<1>2. ASSUME Listen PROVE TypeInv'
  BY <1>0, <1>2, ServiceTypes, OutsideSame DEF Listen, wake, TypeInv, TaskInv, SocketInv
<1>3. ASSUME CheckLeader \/ Select PROVE TypeInv'
  <2>1. /\ UNCHANGED <<database, service, conn, inbox, tasks, nFaults, outside, missed, roomVars>>
        /\ collected' \in 0..Len(inbox) /\ loop' \in {"check", "select", "drain"}
    <3>1. Len(inbox) \in Nat
      BY <1>0
    <3> QED
      BY <1>0, <1>3, <3>1 DEF CheckLeader, Select
  <2>2. TaskInv' /\ SocketInv'
    <3>1. service \in Review
      BY <1>3 DEF CheckLeader, Select, TypeInv, SocketInv
    <3> QED
      BY <2>1, <3>1 DEF TypeInv, TaskInv, SocketInv
  <2> QED
    BY <1>0, <2>1, <2>2, ServiceTypes, OutsideSame
<1>4. ASSUME StartTask PROVE TypeInv'
  <2>1. /\ inbox # <<>> /\ service \notin Review
        /\ UNCHANGED <<database, service, conn, collected, loop, nFaults, outside, missed, roomVars>>
        /\ tasks' = tasks \cup {TaskOf(inbox[Len(inbox)])}
        /\ inbox' = SubSeq(inbox, 1, Len(inbox) - 1)
    BY <1>4 DEF StartTask, wake
  <2>2. inbox[Len(inbox)] \in Event /\ inbox' \in Seq(Event) /\ Len(inbox') = Len(inbox) - 1
    BY <1>0, <2>1, TakeEvent
  <2>3. TaskOf(inbox[Len(inbox)]) \in Task /\ TaskOf(inbox[Len(inbox)]).at \in {"job", "console"}
    BY <2>2, FirstTask
  <2>4. conn' = "listening" /\ collected = 0
    BY <1>0, <2>1 DEF TypeInv, SocketInv
  <2>5. tasks' \subseteq Task /\ nFaults' \in 0..MaxFaults /\ missed' \subseteq 0..MaxChanges[service]
    BY <1>0, <2>1, <2>3
  <2>6. TaskInv' /\ SocketInv'
    BY <2>1, <2>3, <2>4 DEF TypeInv, TaskInv, SocketInv
  <2>7. collected' \in 0..Len(inbox') /\ loop' \in {"check", "select", "drain"}
    BY <1>0, <2>1, <2>2, <2>4
  <2> QED
    BY <2>1, <2>2, <2>4, <2>5, <2>6, <2>7, ServiceTypes, OutsideSame
<1>5. ASSUME NextEvent PROVE TypeInv'
  <2>1. /\ service \in Review /\ collected > 0 /\ collected' = collected - 1
        /\ UNCHANGED <<database, service, conn, loop, nFaults, outside, missed, roomVars>>
        /\ tasks' = {TaskOf(Head(inbox))}
        /\ inbox' = Tail(inbox)
    BY <1>5 DEF NextEvent
  <2>2. inbox # <<>>
    BY <1>0, <2>1
  <2>3. Head(inbox) \in Event /\ inbox' \in Seq(Event) /\ Len(inbox') = Len(inbox) - 1
    BY <1>0, <2>1, <2>2, TakeEvent
  <2>4. TaskOf(Head(inbox)) \in Task /\ TaskOf(Head(inbox)).at \in {"job", "console"}
    BY <2>3, FirstTask
  <2>5. conn' = "listening"
    BY <1>0, <2>1, <2>2
  <2>6. tasks' \subseteq Task /\ nFaults' \in 0..MaxFaults /\ missed' \subseteq 0..MaxChanges[service]
    BY <1>0, <2>1, <2>4
  <2>7. TaskInv' /\ SocketInv'
    BY <2>1, <2>4 DEF TypeInv, TaskInv, SocketInv
  <2>8. collected' \in 0..Len(inbox') /\ loop' \in {"check", "select", "drain"}
    BY <1>0, <2>1, <2>3
  <2> QED
    BY <2>1, <2>3, <2>5, <2>6, <2>7, <2>8, ServiceTypes, OutsideSame
<1>6. ASSUME ServiceFails PROVE TypeInv'
  <2>1. /\ UNCHANGED <<database, service, outside, roomVars>> /\ conn' = "down" /\ inbox' = <<>>
        /\ collected' = 0 /\ loop' = "check"
    BY <1>6 DEF ServiceFails
  <2>2. inbox' \in Seq(Event) /\ collected' \in 0..Len(inbox')
    BY <2>1
  <2>3. tasks' \subseteq Task /\ TaskInv' /\ SocketInv'
    BY <1>0, <1>6 DEF ServiceFails, TypeInv, TaskInv, SocketInv
  <2>4. nFaults' \in 0..MaxFaults
    BY <1>0, <1>6 DEF ServiceFails
  <2>5. missed' \subseteq 0..MaxChanges[service]
    <3>1. \A i \in DOMAIN inbox : inbox[i].n \in 0..MaxChanges[service]
      <4>1. \A i \in DOMAIN inbox : inbox[i] \in Event
        BY <1>0
      <4> QED
        BY <1>0, <4>1 DEF Event
    <3>2. \A t \in tasks : t.event.n \in 0..MaxChanges[service]
      BY <1>0, TaskFields
    <3> QED
      BY <1>0, <1>6, <3>1, <3>2 DEF ServiceFails
  <2> QED
    BY <2>1, <2>2, <2>3, <2>4, <2>5, ServiceTypes, OutsideSame
<1> QED
  BY <1>1, <1>2, <1>3, <1>4, <1>5, <1>6 DEF Advance

LEMMA HandleTypes ==
  ASSUME TypeInv, NEW t \in tasks, Handle(t) \/ Refused(t)
  PROVE  TypeInv'
<1>0. /\ MaxChanges[service] \in Nat /\ MaxFaults \in Nat
      /\ inbox \in Seq(Event) /\ (inbox # <<>> => conn = "listening")
      /\ conn \in {"down", "leader", "listening"} /\ loop \in {"check", "select", "drain"}
      /\ collected \in 0..Len(inbox) /\ SocketInv
      /\ tasks \subseteq Task /\ nFaults \in 0..MaxFaults /\ missed \subseteq 0..MaxChanges[service]
  BY ChangesNat, NotificationsAssumption DEF NotificationsAssumption, TypeInv, ServiceTypeOK, SocketInv
<1>1. /\ t \in Task /\ t.event \in Event /\ t.event.job \in Jobs
      /\ t.event.n \in 1..MaxChanges[service] /\ t.change \in 0..MaxChanges[service]
      /\ Commit(t.event.job) \in Commits /\ Context(t.event.job) \in Contexts
  BY TaskFields
<1> DEFINE Handling ==
             /\ UNCHANGED <<database, service, conn, inbox, roomVars>>
             /\ Query \/ UNCHANGED wake
<1>a. ASSUME Handling, OutsideTypeOK', tasks' \subseteq Task, TaskInv',
             nFaults' \in 0..MaxFaults, missed' \subseteq 0..MaxChanges[service]
      PROVE  TypeInv'
  <2>1. collected' \in 0..Len(inbox') /\ loop' \in {"check", "select", "drain"}
    <3>1. Len(inbox) \in Nat
      BY <1>0
    <3> QED
      BY <1>0, <1>a, <3>1 DEF Query, wake
  <2>2. SocketInv'
    BY <1>0, <1>a DEF Query, wake, SocketInv
  <2> QED
    BY <1>0, <1>a, <2>1, <2>2, ServiceTypes
<1>c. ASSUME Handling, UNCHANGED outside, tasks' \subseteq Task, TaskInv',
             nFaults' \in 0..MaxFaults, missed' \subseteq 0..MaxChanges[service]
      PROVE  TypeInv'
  BY <1>a, <1>c, OutsideSame
<1>d. Handling => service' = service
  OBVIOUS
<1> HIDE DEF Handling
<1>2. ASSUME tasks' = tasks \ {t} PROVE tasks' \subseteq Task /\ (service' = service => TaskInv')
  BY <1>0, <1>2 DEF TypeInv, TaskInv
<1>3. ASSUME NEW u \in Task, tasks' = (tasks \ {t}) \cup {u}, service' = service,
             u.at \in {"owner", "status"} => u.value \in GitHubStates, u.at = "vote" => u.value \in Votes
      PROVE  tasks' \subseteq Task /\ TaskInv'
  BY <1>0, <1>3 DEF TypeInv, TaskInv
<1>4. ASSUME IgnoreJob(t) PROVE TypeInv'
  BY <1>0, <1>2, <1>4, <1>c, <1>d DEF IgnoreJob, Done, Handling
<1>5. ASSUME ReadJob(t) PROVE TypeInv'
  <2> DEFINE at == CASE service = "job-listener" -> "emit" [] service = "github-review" -> "owner"
                     [] OTHER -> "count"
             v == IF at = "owner" THEN GitHubState(row[t.event.job]) ELSE ""
             u == Found(t, at, changed[t.event.job], v)
  <2>1. /\ tasks' = (tasks \ {t}) \cup {u}
        /\ Handling /\ UNCHANGED <<nFaults, outside, missed>>
    BY <1>5 DEF ReadJob, Becomes, Handling, Found
  <2>2. changed[t.event.job] \in 0..MaxChanges[service]
    BY <1>1 DEF TypeInv, DatabaseTypeOK
  <2>3. GitHubState(row[t.event.job]) \in GitHubStates
    BY DEF GitHubState, GitHubStates
  <2>4. at = "emit" \/ at = "owner" \/ at = "count"
    OBVIOUS
  <2> HIDE DEF at
  <2>5. at \in Ats
    BY <2>4 DEF Ats
  <2>9. v \in Values /\ (at = "owner" => v \in GitHubStates)
    BY <2>3 DEF GitHubStates, Values
  <2> HIDE DEF v
  <2>10. u \in Task
    BY <1>1, <2>2, <2>5, <2>9, TaskMoves
  <2>6. u.at = at /\ u.value = v
    BY <1>1, TaskExcept DEF Found
  <2> HIDE DEF u
  <2>8. /\ u.at \in {"owner", "status"} => u.value \in GitHubStates
        /\ u.at = "vote" => u.value \in Votes
    BY <2>4, <2>6, <2>9
  <2>7. tasks' \subseteq Task /\ TaskInv'
    BY <1>3, <1>d, <2>1, <2>8, <2>10
  <2> QED
    BY <1>0, <1>c, <2>1, <2>7
<1>6. ASSUME ReadConsole(t) PROVE TypeInv'
  <2> DEFINE u == Piece(t, t.event.n)
  <2>1. /\ tasks' = (tasks \ {t}) \cup {u} \/ tasks' = tasks \ {t}
        /\ Handling /\ UNCHANGED <<nFaults, outside, missed>>
    BY <1>6 DEF ReadConsole, Becomes, Done, Handling, Piece
  <2>2. t.event.n \in 0..MaxChanges[service] /\ "emit" \in Ats /\ "" \in Values
    BY <1>0, <1>1 DEF Ats, Values
  <2>3. u \in Task
    BY <1>1, <2>2, TaskMoves
  <2>4. u.at = "emit"
    BY <1>1, TaskExcept DEF Piece
  <2> HIDE DEF u
  <2>5. tasks' \subseteq Task /\ TaskInv'
    BY <1>2, <1>3, <1>d, <2>1, <2>3, <2>4
  <2> QED
    BY <1>0, <1>c, <2>1, <2>5
<1>7. ASSUME Emit(t) PROVE TypeInv'
  <2>1. OutsideTypeOK'
    <3>1. /\ told' = [c \in Clients |-> IF c \in members THEN told[c] \cup {t.change} ELSE told[c]]
          /\ UNCHANGED <<service, status, vote, due>>
      BY <1>7 DEF Emit
    <3> QED
      BY <1>1, <3>1 DEF TypeInv, OutsideTypeOK
  <2> QED
    BY <1>0, <1>2, <1>7, <1>a, <1>d, <2>1 DEF Emit, Done, Handling
<1>8. ASSUME PostStatus(t) PROVE TypeInv'
  <2>1. OutsideTypeOK'
    BY <1>1, <1>8 DEF PostStatus, TypeInv, OutsideTypeOK, TaskInv, GitHubStates
  <2> QED
    BY <1>0, <1>2, <1>8, <1>a, <1>d, <2>1 DEF PostStatus, Done, Handling
<1>9. ASSUME CountStates(t) PROVE TypeInv'
  <2> DEFINE v == Vote(BuildOf[t.event.job])
             u == Voting(t, v)
  <2>1. /\ tasks' = (tasks \ {t}) \cup {u} \/ tasks' = tasks \ {t}
        /\ Handling /\ UNCHANGED <<nFaults, outside, missed>>
    BY <1>9 DEF CountStates, Becomes, Done, Handling, Voting
  <2>2. v \in Votes
    BY DEF Vote, Votes
  <2> HIDE DEF v
  <2>6. v \in Values /\ "vote" \in Ats
    BY <2>2 DEF Ats, Votes, Values
  <2>3. u \in Task
    BY <1>1, <2>6, TaskMoves
  <2>4. u.at = "vote" /\ u.value \in Votes
    BY <1>1, <2>2, TaskExcept DEF Voting
  <2> HIDE DEF u
  <2>5. tasks' \subseteq Task /\ TaskInv'
    BY <1>2, <1>3, <1>d, <2>1, <2>3, <2>4
  <2> QED
    BY <1>0, <1>c, <2>1, <2>5
<1>10. ASSUME SetReview(t) PROVE TypeInv'
  <2>1. OutsideTypeOK'
    <3>1. vote' = [vote EXCEPT ![Commit(t.event.job)] = t.value] /\ UNCHANGED <<service, status, told, due>>
      BY <1>10 DEF SetReview
    <3>2. t.value \in Votes
      BY <1>10 DEF SetReview, TypeInv, TaskInv
    <3>3. Votes \cup {"none"} = {"none", "0", "-1", "+1"}
      BY DEF Votes
    <3>4. vote \in [Commits -> Votes \cup {"none"}]
      BY <3>3 DEF TypeInv, OutsideTypeOK
    <3> DEFINE V == Votes \cup {"none"}
    <3>5. t.value \in V /\ Commit(t.event.job) \in Commits /\ vote \in [Commits -> V]
      BY <1>1, <3>2, <3>4
    <3> HIDE DEF V
    <3>6. vote' \in [Commits -> V]
      BY <3>1, <3>5
    <3>7. vote' \in [Commits -> {"none", "0", "-1", "+1"}]
      BY <3>3, <3>6 DEF V
    <3> QED
      BY <3>1, <3>7 DEF TypeInv, OutsideTypeOK
  <2>2. tasks' = tasks \ {t} /\ Handling /\ UNCHANGED <<nFaults, missed>>
    BY <1>10 DEF SetReview, Done, Handling
  <2> QED
    BY <1>0, <1>2, <1>a, <1>d, <2>1, <2>2
<1>11. ASSUME Refused(t) PROVE TypeInv'
  <2>1. nFaults' \in 0..MaxFaults /\ missed' \subseteq 0..MaxChanges[service]
    <3>1. nFaults < MaxFaults /\ nFaults' = nFaults + 1 /\ missed' = missed \cup {t.event.n}
      BY <1>11 DEF Refused
    <3>2. nFaults' \in 0..MaxFaults
      BY <1>0, <3>1
    <3>3. missed' \subseteq 0..MaxChanges[service]
      <4>1. t.event.n \in 0..MaxChanges[service]
        BY <1>0, <1>1
      <4> QED
        BY <1>0, <3>1, <4>1
    <3> QED
      BY <3>2, <3>3
  <2> QED
    BY <1>0, <1>2, <1>11, <1>c, <1>d, <2>1 DEF Refused, Done, Handling
<1>b. ASSUME ReadOwner(t) PROVE TypeInv'
  <2> DEFINE u == At(t, "status")
  <2>1. /\ t.at = "owner"
        /\ tasks' = (tasks \ {t}) \cup {u} \/ tasks' = tasks \ {t}
        /\ Handling /\ UNCHANGED <<nFaults, outside, missed>>
    BY <1>b DEF ReadOwner, Becomes, Done, Handling, At
  <2>2. t.value \in GitHubStates
    BY <2>1 DEF TypeInv, TaskInv
  <2>3. u \in Task
    <3>1. "status" \in Ats /\ "" \in Values
      BY DEF Ats, Values
    <3> QED
      BY <1>1, <3>1, TaskMoves
  <2>4. u.at = "status" /\ u.value = t.value
    BY <1>1, TaskExcept DEF At
  <2> HIDE DEF u
  <2>5. tasks' \subseteq Task /\ TaskInv'
    BY <1>2, <1>3, <1>d, <2>1, <2>2, <2>3, <2>4
  <2> QED
    BY <1>0, <1>c, <2>1, <2>5
<1>12. \/ IgnoreJob(t) \/ ReadJob(t) \/ ReadOwner(t) \/ ReadConsole(t) \/ Emit(t) \/ PostStatus(t) \/ CountStates(t)
       \/ SetReview(t) \/ Refused(t)
  BY DEF Handle
<1> QED
  BY <1>4, <1>5, <1>6, <1>7, <1>8, <1>9, <1>10, <1>11, <1>12, <1>b

LEMMA ClientTypes ==
  ASSUME TypeInv, NEW c \in Clients, Load(c) \/ Enter(c) \/ Leave(c)
  PROVE  TypeInv'
<1>1. UNCHANGED <<database, service, conn, inbox, collected, loop, tasks, nFaults, status, vote, missed>>
  BY DEF Load, Enter, Leave, outside, wake
<1>2. DatabaseTypeOK' /\ ServiceTypeOK' /\ TaskInv' /\ SocketInv'
  BY <1>1, EventsSame DEF TypeInv, DatabaseTypeOK, ServiceTypeOK, TaskInv, SocketInv, database
<1>3. OutsideTypeOK'
  <2>1. ASSUME Load(c) PROVE OutsideTypeOK'
    <3>1. output \subseteq 0..MaxChanges[service]
      BY ChangesNat DEF TypeInv, DatabaseTypeOK, ServiceTypeOK
    <3>2. {changed[j] : j \in Jobs} \subseteq 0..MaxChanges[service]
      BY DEF TypeInv, DatabaseTypeOK
    <3>3. told' = [told EXCEPT ![c] = IF room = "job" THEN output ELSE {changed[j] : j \in Jobs}]
          /\ UNCHANGED <<service, status, vote, due>>
      BY <2>1 DEF Load
    <3> QED
      BY <3>1, <3>2, <3>3 DEF TypeInv, OutsideTypeOK
  <2>2. ASSUME Enter(c) PROVE OutsideTypeOK'
    BY <2>2, OutsideSame DEF Enter
  <2>3. ASSUME Leave(c) PROVE OutsideTypeOK'
    <3>1. due' = [due EXCEPT ![c] = {}] /\ UNCHANGED <<service, status, vote, told>>
      BY <2>3 DEF Leave
    <3> QED
      BY <3>1 DEF TypeInv, OutsideTypeOK
  <2> QED
    BY <2>1, <2>2, <2>3
<1>4. RoomsInv'
  <2>1. ASSUME Load(c) PROVE RoomsInv'
    <3>1. /\ client[c] = "connected" /\ client' = [client EXCEPT ![c] = "loaded"]
          /\ UNCHANGED <<room, members, entries, nEntries>>
      BY <2>1 DEF Load
    <3>2. RoomsTypeOK /\ RoomsTypeOK'
      BY <3>1 DEF TypeInv, RoomsInv, RoomsTypeOK
    <3>3. \A d \in members' : client'[d] \in {"loaded", "checked", "away"}
      BY <3>1, <3>2 DEF TypeInv, RoomsInv, RoomsTypeOK
    <3>4. \A d \in Clients : d \in members' \/ client'[d] \in {"checked", "gone"} => MaySee(d)'
      BY <3>1, <3>2 DEF TypeInv, RoomsInv, RoomsTypeOK, MaySee, HasProjectToken, IsCollaborator
    <3> QED
      BY <3>1, <3>2, <3>3, <3>4 DEF TypeInv, RoomsInv
  <2>2. ASSUME Enter(c) PROVE RoomsInv'
    BY <2>2, RoomsStepInv DEF Enter, TypeInv
  <2>3. ASSUME Leave(c) PROVE RoomsInv'
    BY <2>3, DisconnectInv DEF Leave, TypeInv
  <2> QED
    BY <2>1, <2>2, <2>3
<1> QED
  BY <1>2, <1>3, <1>4 DEF TypeInv

LEMMA TypeNext == TypeInv /\ [Next]_vars => TypeInv'
<1> SUFFICES ASSUME TypeInv, [Next]_vars PROVE TypeInv'
  OBVIOUS
<1>1. ASSUME Advance PROVE TypeInv'
  BY <1>1, ServeTypes
<1>2. ASSUME NEW t \in tasks, Handle(t) \/ Refused(t) PROVE TypeInv'
  BY <1>2, HandleTypes
<1>3. ASSUME Change PROVE TypeInv'
  BY <1>3, ChangeTypes
<1>4. ASSUME NEW c \in Clients, Load(c) \/ Enter(c) \/ Leave(c) PROVE TypeInv'
  BY <1>4, ClientTypes
<1>5. ASSUME UNCHANGED vars PROVE TypeInv'
  <2>1. UNCHANGED <<database, service, conn, inbox, collected, loop, tasks, nFaults, outside, missed, roomVars>>
    BY <1>5 DEF vars, wake
  <2>2. /\ conn \in {"down", "leader", "listening"}
        /\ inbox \in Seq(Event) /\ (inbox # <<>> => conn = "listening")
        /\ collected \in 0..Len(inbox) /\ loop \in {"check", "select", "drain"}
        /\ tasks \subseteq Task /\ nFaults \in 0..MaxFaults /\ missed \subseteq 0..MaxChanges[service]
        /\ TaskInv' /\ SocketInv'
    BY <2>1 DEF TypeInv, ServiceTypeOK, TaskInv, SocketInv
  <2> QED
    BY <2>1, <2>2, ServiceTypes, OutsideSame
<1> QED
  BY <1>1, <1>2, <1>3, <1>4, <1>5 DEF Next, Serve, Advance

\* Every state of the service, of its clients and of those it reports to is of
\* the types it was declared with, and a review has one event in hand, for any
\* jobs, builds, clients and bounds.
THEOREM TypeCorrect == Spec => []TypeOK
<1>1. Init => TypeInv
  BY TypeInit
<1>2. TypeInv /\ [Next]_vars => TypeInv'
  BY TypeNext
<1>3. TypeInv => TypeOK
  BY OneTaskCounted DEF TypeInv, TypeOK, RoomsInv
<1> QED
  BY <1>1, <1>2, <1>3, PTL DEF Spec

\* Output is never thrown away while somebody listens to it, and nobody is in a
\* room who may not see what is sent there, however many clients come and go.
THEOREM RoomsCounted == Spec => []MembersCounted
<1>1. Init => TypeInv
  BY TypeInit
<1>2. TypeInv /\ [Next]_vars => TypeInv'
  BY TypeNext
<1>3. TypeInv => MembersCounted
  BY DEF TypeInv, RoomsInv, RoomsTypeOK, MembersCounted, MaySee
<1> QED
  BY <1>1, <1>2, <1>3, PTL DEF Spec

(***************************************************************************)
(* What becomes of the events.                                             *)
(***************************************************************************)

\* The queue keeps what it has.
Kept == \A i \in DOMAIN inbox : \E k \in DOMAIN inbox' : inbox'[k] = inbox[i]

LEMMA KeptSame == UNCHANGED inbox => Kept
BY DEF Kept

LEMMA Notified ==
  ASSUME TypeInv, NEW op \in {"INSERT", "UPDATE"}, NEW j \in Jobs, Notify(op, j)
  PROVE  /\ Kept
         /\ missed \subseteq missed'
         /\ \/ nChanges' \in missed'
            \/ \E k \in DOMAIN inbox' : inbox'[k] = [type |-> op, job |-> j, n |-> nChanges']
         /\ \A k \in DOMAIN inbox' : inbox'[k].job = j \/ \E i \in DOMAIN inbox : inbox[i] = inbox'[k]
<1> DEFINE e == [type |-> op, job |-> j, n |-> nChanges + 1]
<1>1. CASE conn = "listening"
  <2>1. inbox' = Append(inbox, e) /\ missed' = missed /\ nChanges' = nChanges + 1
    BY <1>1 DEF Notify
  <2>2. inbox \in Seq(Event)
    BY DEF TypeInv, ServiceTypeOK
  <2> HIDE DEF e
  <2>3. /\ \A i \in DOMAIN inbox : i \in DOMAIN inbox' /\ inbox'[i] = inbox[i]
        /\ Len(inbox) + 1 \in DOMAIN inbox' /\ inbox'[Len(inbox) + 1] = e
        /\ \A k \in DOMAIN inbox' : inbox'[k] = e \/ k \in DOMAIN inbox
    BY <2>1, <2>2
  <2> QED
    BY <2>1, <2>3 DEF Kept, e
<1>2. CASE conn # "listening"
  <2>1. inbox' = inbox /\ missed' = missed \cup {nChanges + 1} /\ nChanges' = nChanges + 1
    BY <1>2 DEF Notify
  <2> QED
    BY <2>1, KeptSame
<1> QED
  BY <1>1, <1>2

LEMMA Taken ==
  ASSUME TypeInv, StartTask \/ NextEvent
  PROVE  /\ UNCHANGED <<database, service, conn, nFaults, outside, missed, roomVars>>
         /\ \E e \in Event :
               /\ tasks' = tasks \cup {TaskOf(e)}
               /\ \A i \in DOMAIN inbox :
                     inbox[i] = e \/ \E k \in DOMAIN inbox' : inbox'[k] = inbox[i]
               /\ e \in {inbox[i] : i \in DOMAIN inbox}
               /\ \A k \in DOMAIN inbox' : \E i \in DOMAIN inbox : inbox[i] = inbox'[k]
<1>1. inbox \in Seq(Event)
  BY DEF TypeInv, ServiceTypeOK
<1>2. UNCHANGED <<database, service, conn, nFaults, outside, missed, roomVars>> /\ inbox # <<>>
  <2>1. NextEvent => collected \in 0..Len(inbox) /\ collected > 0
    BY DEF NextEvent, TypeInv, ServiceTypeOK
  <2> QED
    BY <1>1, <2>1 DEF StartTask, NextEvent
<1>3. ASSUME NEW e \in Event, NEW rest, tasks' = tasks \cup {TaskOf(e)}, inbox' = rest,
             \A i \in DOMAIN inbox : inbox[i] = e \/ \E k \in DOMAIN rest : rest[k] = inbox[i],
             \E i \in DOMAIN inbox : inbox[i] = e,
             \A k \in DOMAIN rest : \E i \in DOMAIN inbox : inbox[i] = rest[k]
      PROVE  \E d \in Event :
               /\ tasks' = tasks \cup {TaskOf(d)}
               /\ \A i \in DOMAIN inbox :
                     inbox[i] = d \/ \E k \in DOMAIN inbox' : inbox'[k] = inbox[i]
               /\ d \in {inbox[i] : i \in DOMAIN inbox}
               /\ \A k \in DOMAIN inbox' : \E i \in DOMAIN inbox : inbox[i] = inbox'[k]
  BY <1>3, Zenon
<1>4. CASE StartTask
  <2>1. /\ tasks' = tasks \cup {TaskOf(inbox[Len(inbox)])}
        /\ inbox' = SubSeq(inbox, 1, Len(inbox) - 1)
    BY <1>4 DEF StartTask
  <2> DEFINE rest == SubSeq(inbox, 1, Len(inbox) - 1)
  <2>2. /\ inbox[Len(inbox)] \in Event
        /\ \A i \in DOMAIN inbox :
               inbox[i] = inbox[Len(inbox)] \/ \E k \in DOMAIN rest : rest[k] = inbox[i]
        /\ Len(inbox) \in DOMAIN inbox
        /\ \A k \in DOMAIN rest : \E i \in DOMAIN inbox : inbox[i] = rest[k]
    BY <1>1, <1>2, TakeEvent
  <2> QED
    BY <1>2, <1>3, <2>1, <2>2
<1>5. CASE NextEvent
  <2>1. tasks = {} /\ tasks' = {TaskOf(Head(inbox))} /\ inbox' = Tail(inbox)
    BY <1>5 DEF NextEvent
  <2>2. /\ Head(inbox) \in Event
        /\ \A i \in DOMAIN inbox :
               inbox[i] = Head(inbox) \/ \E k \in DOMAIN Tail(inbox) : Tail(inbox)[k] = inbox[i]
        /\ \E i \in DOMAIN inbox : inbox[i] = Head(inbox)
        /\ \A k \in DOMAIN Tail(inbox) : \E i \in DOMAIN inbox : inbox[i] = Tail(inbox)[k]
    BY <1>1, <1>2, TakeEvent
  <2>3. tasks' = tasks \cup {TaskOf(Head(inbox))}
    BY <2>1
  <2> QED
    BY <1>2, <1>3, <2>1, <2>2, <2>3
<1> QED
  BY <1>4, <1>5

LEMMA Lost ==
  ASSUME ServiceFails
  PROVE  /\ missed \subseteq missed'
         /\ \A i \in DOMAIN inbox : inbox[i].n \in missed'
         /\ service \in Review => tasks' = {} /\ \A t \in tasks : t.event.n \in missed'
         /\ service \notin Review => tasks' = tasks
         /\ UNCHANGED <<database, service, outside, roomVars>>
BY DEF ServiceFails

\* A behaviour follows one service, and what it has missed it never gets.
LEMMA Steady ==
  ASSUME TypeInv, [Next]_vars
  PROVE  service' = service /\ missed \subseteq missed'
<1>1. ASSUME Serve PROVE service' = service /\ missed' = missed
  BY <1>1 DEF Serve, ElectLeader, Listen, CheckLeader, Select, StartTask, NextEvent, Handle, IgnoreJob,
              ReadJob, ReadOwner, ReadConsole, Emit, PostStatus, CountStates, SetReview
<1>2. ASSUME Change PROVE service' = service /\ missed \subseteq missed'
  <2>1. ASSUME NEW op \in {"INSERT", "UPDATE"}, NEW j \in Jobs, Notify(op, j)
        PROVE  missed \subseteq missed'
    BY <2>1, Notified
  <2>2. ASSUME NEW j \in Jobs, InsertJob(j) \/ InsertConsole(j) \/ \E s \in State : UpdateJob(j, s)
        PROVE  service' = service /\ missed \subseteq missed'
    BY <2>1, <2>2 DEF InsertJob, InsertConsole, UpdateJob, NotifyJob
  <2>3. ASSUME RemoveConsole \/ \E p \in Projects : DeleteProject(p)
        PROVE  service' = service /\ missed' = missed
    BY <2>3 DEF RemoveConsole, DeleteProject
  <2> QED
    BY <1>2, <2>2, <2>3 DEF Change
<1>3. ASSUME ServiceFails \/ \E t \in tasks : Refused(t)
      PROVE  service' = service /\ missed \subseteq missed'
  BY <1>3 DEF ServiceFails, Refused
<1>4. ASSUME \/ \E c \in Clients : Load(c) \/ Enter(c) \/ Leave(c)
             \/ UNCHANGED vars
      PROVE  service' = service /\ missed' = missed
  BY <1>4 DEF Load, Enter, Leave, vars
<1> QED
  BY <1>1, <1>2, <1>3, <1>4 DEF Next

\* The numbers of the changes grow.
LEMMA ChangesGrow ==
  ASSUME TypeInv, \A j \in Jobs : changed[j] <= nChanges, [Next]_vars
  PROVE  \A j \in Jobs : changed'[j] <= nChanges'
<1>0. nChanges \in Nat /\ \A j \in Jobs : changed[j] \in Nat
  BY ChangesNat DEF TypeInv, DatabaseTypeOK, ServiceTypeOK
<1>1. \/ UNCHANGED <<changed, nChanges>>
      \/ nChanges' = nChanges + 1 /\ changed' = changed
      \/ nChanges' = nChanges + 1 /\ \E i \in Jobs : changed' = [changed EXCEPT ![i] = nChanges + 1]
  <2>1. ASSUME Change
        PROVE  \/ UNCHANGED <<changed, nChanges>>
               \/ nChanges' = nChanges + 1 /\ changed' = changed
               \/ nChanges' = nChanges + 1 /\ \E i \in Jobs : changed' = [changed EXCEPT ![i] = nChanges + 1]
    <3>1. ASSUME NEW i \in Jobs, InsertJob(i) \/ \E s \in State : UpdateJob(i, s)
          PROVE  nChanges' = nChanges + 1 /\ changed' = [changed EXCEPT ![i] = nChanges + 1]
      BY <3>1 DEF InsertJob, UpdateJob, NotifyJob, Notify
    <3>2. ASSUME NEW i \in Jobs, InsertConsole(i)
          PROVE  nChanges' = nChanges + 1 /\ changed' = changed
      BY <3>2 DEF InsertConsole, Notify
    <3>3. ASSUME NEW p \in Projects, DeleteProject(p)
          PROVE  nChanges' = nChanges + 1 /\ changed' = changed
      BY <3>3 DEF DeleteProject
    <3>4. ASSUME RemoveConsole PROVE UNCHANGED <<changed, nChanges>>
      BY <3>4 DEF RemoveConsole
    <3> QED
      BY <2>1, <3>1, <3>2, <3>3, <3>4 DEF Change
  <2>2. ASSUME Serve \/ ServiceFails \/ \E t \in tasks : Refused(t)
        PROVE  UNCHANGED <<changed, nChanges>>
    BY <2>2 DEF Serve, ElectLeader, Listen, CheckLeader, Select, StartTask, NextEvent, Handle, IgnoreJob,
                ReadJob, ReadOwner, ReadConsole, Emit, PostStatus, CountStates, SetReview, ServiceFails,
                Refused, database
  <2>3. ASSUME (\E c \in Clients : Load(c) \/ Enter(c) \/ Leave(c)) \/ UNCHANGED vars
        PROVE  UNCHANGED <<changed, nChanges>>
    BY <2>3 DEF Load, Enter, Leave, vars, database
  <2> QED
    BY <2>1, <2>2, <2>3 DEF Next
<1>2. \E V : changed \in [Jobs -> V]
  BY DEF TypeInv, DatabaseTypeOK
<1> QED
  BY <1>0, <1>1, <1>2

\* The event of the last change of j is in hand, or in the queue.
Latest(t, j) == t.event.job = j /\ t.event.n = changed[j]
Queued(j) == \E i \in DOMAIN inbox : inbox[i].job = j /\ inbox[i].n = changed[j]

(***************************************************************************)
(* The order of the events of a review. The first that was sent is the     *)
(* first that is handled: when the event of the last change of some jobs   *)
(* is in hand, there is none of theirs behind it.                          *)
(***************************************************************************)

OrderInv ==
    /\ 0 \in missed
    /\ \A j \in Jobs : changed[j] <= nChanges
    /\ service \in Review =>
          /\ \A i, k \in DOMAIN inbox : i < k => inbox[i].n < inbox[k].n
          /\ \A t \in tasks, i \in DOMAIN inbox : t.event.n < inbox[i].n
          /\ \A i \in DOMAIN inbox : inbox[i].n <= changed[inbox[i].job]
          /\ \A t \in tasks : t.event.n <= changed[t.event.job]

\* None of the events is about a job of S.
NoneQueued(S) == \A i \in DOMAIN inbox : inbox[i].job \notin S
NoneWaits(S) == NoneQueued(S) /\ \A t \in tasks : t.event.job \notin S

LEMMA NoneBehind ==
  ASSUME TypeInv, OrderInv, service \in Review, NEW t \in tasks, NEW j \in Jobs, Latest(t, j),
         NEW S, LastIn(j, S)
  PROVE  NoneQueued(S)
<1> SUFFICES ASSUME NEW i \in DOMAIN inbox, inbox[i].job \in S PROVE FALSE
  BY DEF NoneQueued
<1>1. inbox[i] \in Event
  BY DEF TypeInv, ServiceTypeOK
<1>2. inbox[i].job \in Jobs /\ inbox[i].n \in Nat
  BY <1>1, ChangesNat DEF Event, TypeInv, ServiceTypeOK
<1>3. changed[inbox[i].job] \in Nat /\ changed[j] \in Nat
  BY <1>2, ChangesNat DEF TypeInv, DatabaseTypeOK, ServiceTypeOK
<1>4. inbox[i].n <= changed[inbox[i].job] /\ changed[inbox[i].job] <= changed[j]
  BY DEF OrderInv, LastIn
<1>5. changed[j] < inbox[i].n
  BY DEF OrderInv, Latest
<1> QED
  BY <1>2, <1>3, <1>4, <1>5

\* The events of the tasks are those that were there before, and the queue is
\* as it was.
LEMMA HandledEvents ==
  ASSUME TypeInv, NEW t \in tasks, Handle(t) \/ Refused(t)
  PROVE  /\ UNCHANGED <<database, service, inbox, roomVars>> /\ missed \subseteq missed'
         /\ \A u \in tasks' : \E w \in tasks : w.event = u.event
<1>1. t \in Task
  BY TaskFields
<1>2. UNCHANGED <<database, service, inbox, roomVars>> /\ missed \subseteq missed'
  BY DEF Handle, IgnoreJob, ReadJob, ReadOwner, ReadConsole, Emit, PostStatus, CountStates, SetReview, Refused
<1>3. ASSUME NEW u, tasks' \subseteq tasks \cup {u}, u.event = t.event
      PROVE  \A v \in tasks' : \E w \in tasks : w.event = v.event
  BY <1>3
<1>4. \/ tasks' \subseteq tasks
      \/ \E a, n, v : tasks' = (tasks \ {t}) \cup {Found(t, a, n, v)}
      \/ \E n : tasks' = (tasks \ {t}) \cup {Piece(t, n)}
      \/ \E v : tasks' = (tasks \ {t}) \cup {Voting(t, v)}
      \/ \E a : tasks' = (tasks \ {t}) \cup {At(t, a)}
  <2>1. ASSUME ReadJob(t)
        PROVE  \E a, n, v : tasks' = (tasks \ {t}) \cup {Found(t, a, n, v)}
    BY <2>1 DEF ReadJob, Becomes, Found
  <2>2. ASSUME ReadConsole(t)
        PROVE  tasks' \subseteq tasks \/ \E n : tasks' = (tasks \ {t}) \cup {Piece(t, n)}
    BY <2>2 DEF ReadConsole, Becomes, Done, Piece
  <2>3. ASSUME CountStates(t)
        PROVE  tasks' \subseteq tasks \/ \E v : tasks' = (tasks \ {t}) \cup {Voting(t, v)}
    BY <2>3 DEF CountStates, Becomes, Done, Voting
  <2>4. ASSUME ReadOwner(t)
        PROVE  tasks' \subseteq tasks \/ \E a : tasks' = (tasks \ {t}) \cup {At(t, a)}
    BY <2>4 DEF ReadOwner, Becomes, Done, At
  <2>5. ASSUME IgnoreJob(t) \/ Emit(t) \/ PostStatus(t) \/ SetReview(t) \/ Refused(t)
        PROVE  tasks' \subseteq tasks
    BY <2>5 DEF IgnoreJob, Emit, PostStatus, SetReview, Refused, Done
  <2> QED
    BY <2>1, <2>2, <2>3, <2>4, <2>5 DEF Handle
<1>5. \A a, n, v : /\ Found(t, a, n, v).event = t.event /\ Piece(t, n).event = t.event
                   /\ Voting(t, v).event = t.event /\ At(t, a).event = t.event
  BY <1>1, TaskExcept DEF Found, Piece, Voting, At
<1>6. \A v \in tasks' : \E w \in tasks : w.event = v.event
  BY <1>3, <1>4, <1>5
<1> QED
  BY <1>2, <1>6

LEMMA OrderNext == TypeInv /\ OrderInv /\ [Next]_vars => OrderInv'
<1> SUFFICES ASSUME TypeInv, OrderInv, [Next]_vars PROVE OrderInv'
  OBVIOUS
<1>0. /\ nChanges \in Nat /\ changed \in [Jobs -> 0..MaxChanges[service]] /\ MaxChanges[service] \in Nat
      /\ inbox \in Seq(Event) /\ inbox' \in Seq(Event)'
  BY ChangesNat, TypeNext DEF TypeInv, DatabaseTypeOK, ServiceTypeOK
<1>1. service' = service /\ 0 \in missed' /\ \A j \in Jobs : changed'[j] <= nChanges'
  BY Steady, ChangesGrow DEF OrderInv
<1>2. ASSUME service \in Review
      PROVE  /\ \A i, k \in DOMAIN inbox' : i < k => inbox'[i].n < inbox'[k].n
             /\ \A t \in tasks', i \in DOMAIN inbox' : t.event.n < inbox'[i].n
             /\ \A i \in DOMAIN inbox' : inbox'[i].n <= changed'[inbox'[i].job]
             /\ \A t \in tasks' : t.event.n <= changed'[t.event.job]
  <2>0. /\ \A i \in DOMAIN inbox : inbox[i].job \in Jobs /\ inbox[i].n \in Nat
        /\ \A t \in tasks : t.event.job \in Jobs /\ t.event.n \in Nat
    <3>1. \A i \in DOMAIN inbox : inbox[i] \in Event
      BY <1>0
    <3> QED
      BY <1>0, <3>1, TaskFields DEF Event
  <2>1. ASSUME UNCHANGED <<inbox, changed>>, \A u \in tasks' : \E w \in tasks : w.event = u.event
        PROVE  /\ \A i, k \in DOMAIN inbox' : i < k => inbox'[i].n < inbox'[k].n
               /\ \A t \in tasks', i \in DOMAIN inbox' : t.event.n < inbox'[i].n
               /\ \A i \in DOMAIN inbox' : inbox'[i].n <= changed'[inbox'[i].job]
               /\ \A t \in tasks' : t.event.n <= changed'[t.event.job]
    BY <1>2, <2>1 DEF OrderInv
  <2>2. ASSUME NEW op \in {"INSERT", "UPDATE"}, NEW j \in Jobs, NotifyJob(op, j)
        PROVE  /\ \A i, k \in DOMAIN inbox' : i < k => inbox'[i].n < inbox'[k].n
               /\ \A t \in tasks', i \in DOMAIN inbox' : t.event.n < inbox'[i].n
               /\ \A i \in DOMAIN inbox' : inbox'[i].n <= changed'[inbox'[i].job]
               /\ \A t \in tasks' : t.event.n <= changed'[t.event.job]
    <3> DEFINE e == [type |-> op, job |-> j, n |-> nChanges + 1]
    <3>1. /\ changed' = [changed EXCEPT ![j] = nChanges + 1] /\ tasks' = tasks
          /\ inbox' = inbox \/ inbox' = Append(inbox, e)
      BY <2>2 DEF NotifyJob, Notify
    <3>2. e.n = nChanges + 1 /\ e.job = j
      OBVIOUS
    <3> HIDE DEF e
    <3>3. \A i \in Jobs : changed[i] \in Nat /\ changed[i] <= nChanges /\ changed[i] <= changed'[i]
      BY <1>0, <3>1 DEF OrderInv
    <3>4. /\ \A i \in DOMAIN inbox : inbox[i].n <= nChanges
          /\ \A t \in tasks : t.event.n <= nChanges
      <4>1. nChanges \in Nat
        BY <1>0
      <4>2. ASSUME NEW n \in Nat, NEW i \in Jobs, n <= changed[i] PROVE n <= nChanges
        BY <3>3, <4>1, <4>2
      <4>3. /\ \A i \in DOMAIN inbox : inbox[i].n <= changed[inbox[i].job]
            /\ \A t \in tasks : t.event.n <= changed[t.event.job]
        BY <1>2 DEF OrderInv
      <4> QED
        BY <2>0, <4>2, <4>3
    <3>5. \A k \in DOMAIN inbox' : \/ k \in DOMAIN inbox /\ inbox'[k] = inbox[k]
                                   \/ /\ k = Len(inbox) + 1 /\ inbox'[k] = e
                                      /\ \A i \in DOMAIN inbox' : i < k => i \in DOMAIN inbox
      BY <1>0, <3>1
    <3>6. changed'[j] = nChanges + 1
      BY <1>0, <3>1
    <3>7. \A i, k \in DOMAIN inbox' : i < k => inbox'[i].n < inbox'[k].n
      BY <1>0, <1>2, <2>0, <3>2, <3>4, <3>5 DEF OrderInv
    <3>8. \A t \in tasks', i \in DOMAIN inbox' : t.event.n < inbox'[i].n
      BY <1>0, <1>2, <2>0, <3>1, <3>2, <3>4, <3>5 DEF OrderInv
    <3>9. \A i \in DOMAIN inbox' : inbox'[i].n <= changed'[inbox'[i].job]
      <4> SUFFICES ASSUME NEW i \in DOMAIN inbox' PROVE inbox'[i].n <= changed'[inbox'[i].job]
        OBVIOUS
      <4>1. CASE inbox'[i] = e
        BY <1>0, <3>2, <3>6, <4>1
      <4>2. CASE i \in DOMAIN inbox /\ inbox'[i] = inbox[i]
        <5>1. inbox[i].n <= changed[inbox[i].job]
          BY <1>2, <4>2 DEF OrderInv
        <5>2. inbox[i].job \in Jobs /\ inbox[i].n \in Nat /\ changed'[inbox[i].job] \in Nat
          BY <1>0, <2>0, <3>1, <4>2
        <5> QED
          BY <2>0, <3>3, <4>2, <5>1, <5>2
      <4> QED
        BY <3>5, <4>1, <4>2
    <3>10. \A t \in tasks' : t.event.n <= changed'[t.event.job]
      <4> SUFFICES ASSUME NEW t \in tasks PROVE t.event.n <= changed'[t.event.job]
        BY <3>1
      <4>1. t.event.n <= changed[t.event.job] /\ t.event.job \in Jobs /\ t.event.n \in Nat
        BY <1>2, <2>0 DEF OrderInv
      <4>2. changed'[t.event.job] \in Nat
        BY <1>0, <3>1, <4>1
      <4> QED
        BY <3>3, <4>1, <4>2
    <3> QED
      BY <3>7, <3>8, <3>9, <3>10
  <2>3. ASSUME Change
        PROVE  \/ \E op \in {"INSERT", "UPDATE"}, j \in Jobs : NotifyJob(op, j)
               \/ UNCHANGED <<inbox, changed, tasks>>
    BY <1>2, <2>3 DEF Change, InsertJob, InsertConsole, UpdateJob, RemoveConsole, DeleteProject, Review
  <2>4. ASSUME NEW t \in tasks, Handle(t) \/ Refused(t)
        PROVE  UNCHANGED <<inbox, changed>> /\ \A u \in tasks' : \E w \in tasks : w.event = u.event
    BY <2>4, HandledEvents DEF database
  <2>5. ASSUME NextEvent
        PROVE  /\ \A i, k \in DOMAIN inbox' : i < k => inbox'[i].n < inbox'[k].n
               /\ \A t \in tasks', i \in DOMAIN inbox' : t.event.n < inbox'[i].n
               /\ \A i \in DOMAIN inbox' : inbox'[i].n <= changed'[inbox'[i].job]
               /\ \A t \in tasks' : t.event.n <= changed'[t.event.job]
    <3>1. /\ collected \in 0..Len(inbox) /\ collected > 0
          /\ inbox' = Tail(inbox) /\ tasks' = {TaskOf(Head(inbox))} /\ changed' = changed
      BY <2>5 DEF NextEvent, TypeInv, ServiceTypeOK, database
    <3>2. /\ 1 \in DOMAIN inbox /\ Head(inbox) = inbox[1]
          /\ \A k \in DOMAIN inbox' : k + 1 \in DOMAIN inbox /\ inbox'[k] = inbox[k + 1] /\ 1 < k + 1
          /\ \A i, k \in DOMAIN inbox' : i < k => i + 1 < k + 1
      BY <1>0, <3>1
    <3>3. \A t \in tasks' : t.event = inbox[1]
      <4>1. TaskOf(Head(inbox)).event = Head(inbox)
        BY DEF TaskOf
      <4> QED
        BY <3>1, <3>2, <4>1
    <3> QED
      BY <1>2, <3>1, <3>2, <3>3 DEF OrderInv
  <2>6. ASSUME ServiceFails PROVE inbox' = <<>> /\ tasks' = {}
    BY <1>2, <2>6 DEF ServiceFails
  <2>7. ASSUME StartTask PROVE FALSE
    BY <1>2, <2>7 DEF StartTask
  <2>8. ASSUME \/ ElectLeader \/ Listen \/ CheckLeader \/ Select \/ UNCHANGED vars
               \/ \E c \in Clients : Load(c) \/ Enter(c) \/ Leave(c)
        PROVE  UNCHANGED <<inbox, changed, tasks>>
    BY <2>8 DEF ElectLeader, Listen, CheckLeader, Select, Load, Enter, Leave, vars, database
  <2> QED
    BY <2>1, <2>2, <2>3, <2>4, <2>5, <2>6, <2>7, <2>8 DEF Next, Serve
<1> QED
  BY <1>1, <1>2 DEF OrderInv

(***************************************************************************)
(* The status of a commit.                                                 *)
(***************************************************************************)

Peers(j) == {i \in Jobs : Context(i) = Context(j)}

Reportable(j) ==
    /\ Project(j) \in projects /\ type[Project(j)] = "github" /\ Commit(j) \notin Unreportable
    /\ LastIn(j, Peers(j)) /\ changed[j] \notin missed

Reported(j) ==
    \/ Queued(j)
    \/ \E t \in tasks : Latest(t, j) /\ t.at = "job"
    \/ \E t \in tasks : Latest(t, j) /\ t.at \in {"owner", "status"} /\ t.value = GitHubState(row[j])
    \/ status[Context(j)] = GitHubState(row[j]) /\ NoneWaits(Peers(j))

StatusInv == service = "github-review" => \A j \in Jobs : Reportable(j) => Reported(j)

LEMMA ReportedSame ==
  ASSUME NEW j \in Jobs, Reported(j), Kept, UNCHANGED <<tasks, status>>,
         changed'[j] = changed[j], row'[j] = row[j], NoneQueued(Peers(j)) => NoneQueued(Peers(j))'
  PROVE  Reported(j)'
<1>1. Queued(j) => Queued(j)'
  BY DEF Queued, Kept
<1>2. NoneWaits(Peers(j)) => NoneWaits(Peers(j))'
  BY DEF NoneWaits
<1> QED
  BY <1>1, <1>2 DEF Reported, Latest

\* Jobs change: there is an event, or it is missed.
LEMMA ReportedChange ==
  ASSUME TypeInv, OrderInv, StatusInv, service = "github-review", Change, NEW j \in Jobs, Reportable(j)'
  PROVE  Reported(j)'
<1>0. /\ row \in [Jobs -> State \cup {"none"}] /\ nChanges \in Nat
      /\ changed \in [Jobs -> 0..MaxChanges[service]] /\ MaxChanges[service] \in Nat
  BY ChangesNat DEF TypeInv, DatabaseTypeOK, ServiceTypeOK
<1>1. ASSUME NEW op \in {"INSERT", "UPDATE"}, NEW i \in Jobs, NotifyJob(op, i),
             i # j => row'[j] = row[j]
      PROVE  Reported(j)'
  <2>1. /\ Notify(op, i) /\ changed' = [changed EXCEPT ![i] = nChanges + 1]
        /\ UNCHANGED <<type, projects, tasks, status>>
    BY <1>1 DEF NotifyJob
  <2>2. /\ Kept /\ missed \subseteq missed'
        /\ \/ nChanges' \in missed'
           \/ \E k \in DOMAIN inbox' : inbox'[k] = [type |-> op, job |-> i, n |-> nChanges']
        /\ \A k \in DOMAIN inbox' : inbox'[k].job = i \/ \E m \in DOMAIN inbox : inbox[m] = inbox'[k]
    BY <2>1, Notified
  <2>3. nChanges' = nChanges + 1
    BY <2>1 DEF Notify
  <2>4. CASE i = j
    <3>1. changed'[j] = nChanges'
      BY <1>0, <2>1, <2>3, <2>4
    <3>2. nChanges' \notin missed'
      BY <3>1 DEF Reportable
    <3>3. Queued(j)'
      BY <2>2, <2>4, <3>1, <3>2 DEF Queued
    <3> QED
      BY <3>3 DEF Reported
  <2>5. CASE i # j
    <3>1. changed'[j] = changed[j] /\ changed'[i] = nChanges + 1
      BY <1>0, <2>1, <2>5
    <3>2. i \notin Peers(j)
      <4>1. changed[j] \in Nat /\ changed[j] <= nChanges
        BY <1>0 DEF OrderInv
      <4> QED
        BY <1>0, <3>1, <4>1 DEF Reportable, LastIn, Peers
    <3>3. \A k \in Peers(j) : changed'[k] = changed[k]
      BY <1>0, <2>1, <3>2 DEF Peers
    <3>4. Reportable(j)
      BY <2>1, <2>2, <3>1, <3>3 DEF Reportable, LastIn, Peers
    <3>5. NoneQueued(Peers(j)) => NoneQueued(Peers(j))'
      BY <2>2, <3>2 DEF NoneQueued, Peers
    <3> QED
      BY <1>1, <2>1, <2>2, <2>5, <3>1, <3>4, <3>5, ReportedSame DEF StatusInv
  <2> QED
    BY <2>4, <2>5
<1>3. ASSUME NEW i \in Jobs, InsertJob(i) PROVE Reported(j)'
  <2>1. row' = [row EXCEPT ![i] = "queued"] /\ NotifyJob("INSERT", i)
    BY <1>3 DEF InsertJob
  <2> QED
    BY <1>0, <1>1, <2>1
<1>4. ASSUME NEW i \in Jobs, NEW s \in State, UpdateJob(i, s) PROVE Reported(j)'
  <2>1. row' = [row EXCEPT ![i] = s] /\ NotifyJob("UPDATE", i)
    BY <1>4 DEF UpdateJob
  <2> QED
    BY <1>0, <1>1, <2>1
<1>5. ASSUME NEW i \in Jobs, InsertConsole(i) PROVE FALSE
  BY <1>5 DEF InsertConsole
<1>6. ASSUME RemoveConsole \/ \E p \in Projects : DeleteProject(p) PROVE Reported(j)'
  <2>1. UNCHANGED <<row, type, changed, inbox, tasks, status, missed>> /\ projects' \subseteq projects
    BY <1>6 DEF RemoveConsole, DeleteProject, outside
  <2>2. Reportable(j)
    BY <2>1 DEF Reportable, LastIn
  <2> QED
    BY <2>1, <2>2, KeptSame, ReportedSame DEF StatusInv, NoneQueued
<1> QED
  BY <1>3, <1>4, <1>5, <1>6 DEF Change

\* An event is taken, or lost.
LEMMA ReportedTaken ==
  ASSUME TypeInv, StatusInv, service = "github-review", StartTask \/ NextEvent \/ ServiceFails,
         NEW j \in Jobs, Reportable(j)'
  PROVE  Reported(j)'
<1>1. ASSUME StartTask \/ NextEvent PROVE Reported(j)'
  <2>1. UNCHANGED <<row, type, projects, changed, service, status, missed>>
    BY <1>1, Taken DEF database, outside
  <2>2. PICK e \in Event :
          /\ tasks' = tasks \cup {TaskOf(e)}
          /\ \A i \in DOMAIN inbox : inbox[i] = e \/ \E k \in DOMAIN inbox' : inbox'[k] = inbox[i]
          /\ e \in {inbox[i] : i \in DOMAIN inbox}
          /\ \A k \in DOMAIN inbox' : \E i \in DOMAIN inbox : inbox[i] = inbox'[k]
    BY <1>1, Taken
  <2>3. TaskOf(e).event = e /\ TaskOf(e).at = "job"
    BY DEF TaskOf
  <2>4. Reported(j)
    BY <2>1 DEF StatusInv, Reportable, LastIn
  <2>5. CASE Queued(j)
    <3>1. PICK i \in DOMAIN inbox : inbox[i].job = j /\ inbox[i].n = changed[j]
      BY <2>5 DEF Queued
    <3>2. CASE inbox[i] = e
      BY <2>1, <2>2, <2>3, <3>1, <3>2 DEF Reported, Latest
    <3>3. CASE inbox[i] # e
      BY <2>1, <2>2, <3>1, <3>3 DEF Reported, Queued
    <3> QED
      BY <3>2, <3>3
  <2>6. CASE \E t \in tasks : /\ Latest(t, j)
                              /\ \/ t.at = "job"
                                 \/ t.at \in {"owner", "status"} /\ t.value = GitHubState(row[j])
    BY <2>1, <2>2, <2>6 DEF Reported, Latest
  <2>7. CASE status[Context(j)] = GitHubState(row[j]) /\ NoneWaits(Peers(j))
    <3>1. NoneWaits(Peers(j))'
      BY <2>2, <2>3, <2>7 DEF NoneWaits, NoneQueued
    <3> QED
      BY <2>1, <2>7, <3>1 DEF Reported
  <2> QED
    BY <2>4, <2>5, <2>6, <2>7 DEF Reported
<1>2. ASSUME ServiceFails PROVE Reported(j)'
  <2>1. /\ missed \subseteq missed' /\ tasks' = {} /\ inbox' = <<>>
        /\ \A i \in DOMAIN inbox : inbox[i].n \in missed'
        /\ \A t \in tasks : t.event.n \in missed'
        /\ UNCHANGED <<row, type, projects, changed, status>>
    BY <1>2, Lost DEF Review, database, outside, ServiceFails
  <2>2. changed[j] \notin missed' /\ Reported(j)
    BY <2>1 DEF StatusInv, Reportable, LastIn
  <2>3. ~Queued(j) /\ ~ \E t \in tasks : Latest(t, j)
    BY <2>1, <2>2 DEF Queued, Latest
  <2>4. NoneWaits(Peers(j))'
    BY <2>1 DEF NoneWaits, NoneQueued
  <2> QED
    BY <2>1, <2>2, <2>3, <2>4 DEF Reported
<1> QED
  BY <1>1, <1>2

\* An event is handled: the row is read after its last change, and posted.
LEMMA ReportedHandle ==
  ASSUME TypeInv, OrderInv, StatusInv, service = "github-review",
         NEW t \in tasks, Handle(t) \/ Refused(t), NEW j \in Jobs, Reportable(j)'
  PROVE  Reported(j)'
<1>1. /\ UNCHANGED <<row, type, projects, changed, inbox>> /\ missed \subseteq missed'
      /\ \A u \in tasks' : \E w \in tasks : w.event = u.event
  BY HandledEvents DEF database
<1>2. Reportable(j) /\ Reported(j) /\ changed[j] \notin missed'
  BY <1>1 DEF StatusInv, Reportable, LastIn
<1>3. tasks = {t}
  BY DEF TypeInv, TaskInv, Review
<1>4. t \in Task
  BY TaskFields
<1>5. CASE Queued(j)
  <2>1. Queued(j)'
    BY <1>1, <1>5 DEF Queued
  <2> QED
    BY <2>1 DEF Reported
\* What is not about the last change leaves the status as it is.
<1>6. ASSUME ~Queued(j), ~Latest(t, j) PROVE Reported(j)'
  <2>1. status[Context(j)] = GitHubState(row[j]) /\ NoneWaits(Peers(j))
    BY <1>2, <1>3, <1>6 DEF Reported
  <2>2. NoneWaits(Peers(j))'
    BY <1>1, <2>1 DEF NoneWaits, NoneQueued
  <2>3. Context(t.event.job) # Context(j)
    BY <2>1, TaskFields DEF NoneWaits, Peers
  <2>4. status' = status \/ status' = [status EXCEPT ![Context(t.event.job)] = t.value]
    BY DEF Handle, IgnoreJob, ReadJob, ReadOwner, ReadConsole, Emit, PostStatus, CountStates, SetReview,
           Refused, outside
  <2>5. Context(j) \in Contexts /\ \E V : status \in [Contexts -> V]
    BY DEF Contexts, TypeInv, OutsideTypeOK
  <2>6. status'[Context(j)] = status[Context(j)]
    BY <2>3, <2>4, <2>5
  <2> QED
    BY <1>1, <2>1, <2>2, <2>6 DEF Reported
<1>7. CASE Latest(t, j) /\ ~Queued(j)
  <2>1. NoneQueued(Peers(j)) /\ j \in Peers(j) /\ t.event.job = j
    BY <1>2, <1>7, NoneBehind DEF Review, Reportable, Peers, Latest
  <2>2. t.at = "job" \/ (t.at \in {"owner", "status"} /\ t.value = GitHubState(row[j]))
    BY <1>2, <1>3, <1>7, <2>1 DEF Reported, NoneWaits
  <2>3. ASSUME IgnoreJob(t) PROVE FALSE
    BY <1>2, <2>1, <2>3 DEF IgnoreJob, Ignored, Reportable
  <2>4. ASSUME ReadJob(t) PROVE Reported(j)'
    <3> DEFINE u == [t EXCEPT !.at = "owner", !.change = changed[t.event.job],
                              !.value = GitHubState(row[t.event.job])]
    <3>1. tasks' = {u}
      BY <1>3, <2>4 DEF ReadJob, Becomes
    <3>2. u.event = t.event /\ u.at = "owner" /\ u.value = GitHubState(row[j])
      BY <1>4, <2>1, TaskExcept
    <3> HIDE DEF u
    <3> QED
      BY <1>1, <1>7, <3>1, <3>2 DEF Reported, Latest
  <2>5. ASSUME ReadOwner(t) PROVE Reported(j)'
    <3> DEFINE u == [t EXCEPT !.at = "status"]
    <3>1. tasks' = {u} /\ t.at = "owner"
      BY <1>2, <1>3, <2>1, <2>5 DEF ReadOwner, Becomes, Reportable
    <3>2. u.event = t.event /\ u.at = "status" /\ u.value = t.value
      BY <1>4, TaskExcept
    <3> HIDE DEF u
    <3> QED
      BY <1>1, <1>7, <2>2, <3>1, <3>2 DEF Reported, Latest
  <2>6. ASSUME PostStatus(t) PROVE Reported(j)'
    <3>1. tasks' = {} /\ status' = [status EXCEPT ![Context(j)] = t.value] /\ t.at = "status"
      BY <1>3, <2>1, <2>6 DEF PostStatus, Done
    <3>2. Context(j) \in Contexts /\ \E V : status \in [Contexts -> V]
      BY DEF Contexts, TypeInv, OutsideTypeOK
    <3>3. status'[Context(j)] = GitHubState(row[j])
      BY <2>2, <3>1, <3>2
    <3>4. NoneWaits(Peers(j))'
      BY <1>1, <2>1, <3>1 DEF NoneWaits, NoneQueued
    <3> QED
      BY <1>1, <3>3, <3>4 DEF Reported
  <2>7. ASSUME Refused(t) PROVE FALSE
    BY <1>2, <1>7, <2>7 DEF Refused, Latest
  <2>8. ASSUME ReadConsole(t) \/ Emit(t) \/ CountStates(t) \/ SetReview(t) PROVE FALSE
    BY <2>2, <2>8 DEF ReadConsole, Emit, CountStates, SetReview
  <2> QED
    BY <2>3, <2>4, <2>5, <2>6, <2>7, <2>8 DEF Handle
<1> QED
  BY <1>5, <1>6, <1>7

LEMMA StatusNext == TypeInv /\ OrderInv /\ StatusInv /\ [Next]_vars => StatusInv'
<1> SUFFICES ASSUME TypeInv, OrderInv, StatusInv, [Next]_vars PROVE StatusInv'
  OBVIOUS
<1>1. service' = service
  BY Steady
<1>2. ASSUME service = "github-review", NEW j \in Jobs, Reportable(j)' PROVE Reported(j)'
  <2>1. ASSUME Change PROVE Reported(j)'
    BY <1>2, <2>1, ReportedChange
  <2>2. ASSUME StartTask \/ NextEvent \/ ServiceFails PROVE Reported(j)'
    BY <1>2, <2>2, ReportedTaken
  <2>3. ASSUME NEW t \in tasks, Handle(t) \/ Refused(t) PROVE Reported(j)'
    BY <1>2, <2>3, ReportedHandle
  <2>4. ASSUME \/ ElectLeader \/ Listen \/ CheckLeader \/ Select \/ UNCHANGED vars
               \/ \E c \in Clients : Load(c) \/ Enter(c) \/ Leave(c)
        PROVE  Reported(j)'
    <3>1. UNCHANGED <<row, type, projects, changed, inbox, tasks, status, missed>>
      BY <2>4 DEF ElectLeader, Listen, CheckLeader, Select, Load, Enter, Leave, vars, database, outside
    <3>2. Reportable(j)
      BY <1>2, <3>1 DEF Reportable, LastIn
    <3> QED
      BY <1>2, <3>1, <3>2, KeptSame, ReportedSame DEF StatusInv, NoneQueued
  <2> QED
    BY <2>1, <2>2, <2>3, <2>4 DEF Next, Serve
<1> QED
  BY <1>1, <1>2 DEF StatusInv

\* For any jobs, builds and commits and any number of changes: a status of a
\* commit is the current state of the job that has changed last, among those of
\* its name in all builds of the commit, as soon as the event of that change
\* has been handled; whatever was lost, or refused, before.
THEOREM CommitStatus == Spec => []StatusCurrent
<1>1. Init => TypeInv /\ OrderInv /\ StatusInv
  <2>1. ASSUME Init PROVE OrderInv /\ StatusInv
    <3>1. (\A j \in Jobs : changed[j] \in missed /\ changed[j] = nChanges) /\ nChanges = 0
      BY <2>1 DEF Init
    <3> QED
      BY <2>1, <3>1 DEF Init, OrderInv, StatusInv, Reportable
  <2> QED
    BY <2>1, TypeInit
<1>2. TypeInv /\ OrderInv /\ StatusInv /\ [Next]_vars => (TypeInv /\ OrderInv /\ StatusInv)'
  BY TypeNext, OrderNext, StatusNext
<1>3. TypeInv /\ StatusInv => StatusCurrent
  <2> SUFFICES ASSUME TypeInv, StatusInv, service = "github-review", NEW j \in Jobs, Reportable(j),
                      Handled(changed[j])
               PROVE  /\ status[Context(j)] = "pending" <=> row[j] \in Active
                      /\ status[Context(j)] = "failure" <=> row[j] \in Failing
                      /\ status[Context(j)] = "error" <=> row[j] = "error"
    BY DEF StatusCurrent, Reportable, Handled, Peers
  <2>1. ~Queued(j) /\ \A t \in tasks : ~Latest(t, j)
    BY DEF Handled, Waiting, Queued, Latest
  <2>2. status[Context(j)] = GitHubState(row[j])
    BY <2>1 DEF StatusInv, Reported
  <2>3. Active \cap Failing = {} /\ "error" \notin Active \cup Failing
    BY DEF Active, Failing
  <2>4. /\ GitHubState(row[j]) = "pending" <=> row[j] \in Active
        /\ GitHubState(row[j]) = "failure" <=> row[j] \in Failing
        /\ GitHubState(row[j]) = "error" <=> row[j] = "error"
    BY <2>3 DEF GitHubState, Failing
  <2> QED
    BY <2>2, <2>4
<1> QED
  BY <1>1, <1>2, <1>3, PTL DEF Spec

(***************************************************************************)
(* The vote on a commit.                                                   *)
(***************************************************************************)

\* A change of j that ends its build, the last of the commit's that has changed,
\* has an event that is not ignored.
Siblings(j) == {i \in Jobs : Commit(i) = Commit(j)}

Votable(j) ==
    /\ Project(j) \in projects /\ type[Project(j)] = "gerrit" /\ States(BuildOf[j]) \subseteq Ended
    /\ LastIn(j, Siblings(j)) /\ changed[j] \notin missed

QueuedUpdate(j) == \E i \in DOMAIN inbox : /\ inbox[i].job = j /\ inbox[i].n = changed[j]
                                           /\ inbox[i].type = "UPDATE"
LatestUpdate(t, j) == Latest(t, j) /\ t.event.type = "UPDATE"

Voted(j) ==
    \/ QueuedUpdate(j)
    \/ \E t \in tasks : LatestUpdate(t, j) /\ t.at \in {"job", "count"}
    \/ \E t \in tasks : LatestUpdate(t, j) /\ t.at = "vote" /\ t.value = Verdict(BuildOf[j])
    \/ vote[Commit(j)] = Verdict(BuildOf[j]) /\ NoneWaits(Siblings(j))

VoteInv == service = "gerrit-review" => \A j \in Jobs : Votable(j) => Voted(j)

LEMMA VotedSame ==
  ASSUME NEW j \in Jobs, Voted(j), Kept, UNCHANGED <<tasks, vote, Verdict(BuildOf[j])>>,
         changed'[j] = changed[j], NoneQueued(Siblings(j)) => NoneQueued(Siblings(j))'
  PROVE  Voted(j)'
<1>1. QueuedUpdate(j) => QueuedUpdate(j)'
  BY DEF QueuedUpdate, Kept
<1>2. NoneWaits(Siblings(j)) => NoneWaits(Siblings(j))'
  BY DEF NoneWaits
<1> QED
  BY <1>1, <1>2 DEF Voted, Latest, LatestUpdate

\* When a job of the commit changes, it is the last, and there is an event.
LEMMA VotedChange ==
  ASSUME TypeInv, OrderInv, VoteInv, service = "gerrit-review", Change, NEW j \in Jobs, Votable(j)'
  PROVE  Voted(j)'
<1>0. /\ row \in [Jobs -> State \cup {"none"}] /\ nChanges \in Nat
      /\ changed \in [Jobs -> 0..MaxChanges[service]] /\ MaxChanges[service] \in Nat
  BY ChangesNat DEF TypeInv, DatabaseTypeOK, ServiceTypeOK
<1>1. ASSUME NEW op \in {"INSERT", "UPDATE"}, NEW i \in Jobs, NEW s \in State, NotifyJob(op, i),
             row' = [row EXCEPT ![i] = s], op = "INSERT" => s = "queued"
      PROVE  Voted(j)'
  <2>1. /\ Notify(op, i) /\ changed' = [changed EXCEPT ![i] = nChanges + 1]
        /\ UNCHANGED <<type, projects, tasks, vote>>
    BY <1>1 DEF NotifyJob
  <2>2. /\ Kept /\ missed \subseteq missed'
        /\ \/ nChanges' \in missed'
           \/ \E k \in DOMAIN inbox' : inbox'[k] = [type |-> op, job |-> i, n |-> nChanges']
        /\ \A k \in DOMAIN inbox' : inbox'[k].job = i \/ \E m \in DOMAIN inbox : inbox[m] = inbox'[k]
    BY <2>1, Notified
  <2>3. nChanges' = nChanges + 1
    BY <2>1 DEF Notify
  <2>4. CASE i = j
    <3>1. changed'[j] = nChanges'
      BY <1>0, <2>1, <2>3, <2>4
    <3>2. nChanges' \notin missed' /\ States(BuildOf[j])' \subseteq Ended
      BY <3>1 DEF Votable
    <3>3. op = "UPDATE"
      <4>1. row'[j] = s
        BY <1>0, <1>1, <2>4
      <4>2. s \in States(BuildOf[j])'
        BY <4>1 DEF States, JobsOf, State, Active, Ended
      <4> QED
        BY <1>1, <3>2, <4>2 DEF Ended
    <3>4. QueuedUpdate(j)'
      BY <2>2, <2>4, <3>1, <3>2, <3>3 DEF QueuedUpdate
    <3> QED
      BY <3>4 DEF Voted
  <2>5. CASE i # j
    <3>1. changed'[j] = changed[j] /\ changed'[i] = nChanges + 1
      BY <1>0, <2>1, <2>5
    <3>2. i \notin Siblings(j)
      <4>1. changed[j] \in Nat /\ changed[j] <= nChanges
        BY <1>0 DEF OrderInv
      <4> QED
        BY <1>0, <3>1, <4>1 DEF Votable, LastIn, Siblings
    <3>3. \A k \in Siblings(j) : row'[k] = row[k] /\ changed'[k] = changed[k]
      BY <1>0, <1>1, <2>1, <3>2 DEF Siblings
    <3>4. States(BuildOf[j])' = States(BuildOf[j])
      BY <3>3 DEF States, JobsOf, Siblings, Commit
    <3>5. Votable(j)
      BY <2>1, <2>2, <3>1, <3>3, <3>4 DEF Votable, LastIn, Siblings
    <3>6. NoneQueued(Siblings(j)) => NoneQueued(Siblings(j))'
      BY <2>2, <3>2 DEF NoneQueued, Siblings
    <3> QED
      BY <2>1, <2>2, <3>1, <3>4, <3>5, <3>6, VotedSame DEF VoteInv, Verdict
  <2> QED
    BY <2>4, <2>5
<1>2. ASSUME NEW i \in Jobs, InsertJob(i) PROVE Voted(j)'
  BY <1>1, <1>2 DEF InsertJob, State, Active
<1>3. ASSUME NEW i \in Jobs, NEW s \in State, UpdateJob(i, s) PROVE Voted(j)'
  BY <1>1, <1>3 DEF UpdateJob
<1>4. ASSUME NEW i \in Jobs, InsertConsole(i) PROVE FALSE
  BY <1>4 DEF InsertConsole
<1>5. ASSUME RemoveConsole \/ \E p \in Projects : DeleteProject(p) PROVE Voted(j)'
  <2>1. UNCHANGED <<row, type, changed, inbox, tasks, vote, missed>> /\ projects' \subseteq projects
    BY <1>5 DEF RemoveConsole, DeleteProject, outside
  <2>2. States(BuildOf[j])' = States(BuildOf[j]) /\ Verdict(BuildOf[j])' = Verdict(BuildOf[j])
    BY <2>1 DEF States, Verdict
  <2>3. Votable(j)
    BY <2>1, <2>2 DEF Votable, LastIn
  <2> QED
    BY <2>1, <2>2, <2>3, KeptSame, VotedSame DEF VoteInv, NoneQueued
<1> QED
  BY <1>2, <1>3, <1>4, <1>5 DEF Change

LEMMA VotedTaken ==
  ASSUME TypeInv, VoteInv, service = "gerrit-review", StartTask \/ NextEvent \/ ServiceFails,
         NEW j \in Jobs, Votable(j)'
  PROVE  Voted(j)'
<1>1. ASSUME StartTask \/ NextEvent PROVE Voted(j)'
  <2>1. UNCHANGED <<row, type, projects, changed, service, vote, missed>>
    BY <1>1, Taken DEF database, outside
  <2>2. PICK e \in Event :
          /\ tasks' = tasks \cup {TaskOf(e)}
          /\ \A i \in DOMAIN inbox : inbox[i] = e \/ \E k \in DOMAIN inbox' : inbox'[k] = inbox[i]
          /\ e \in {inbox[i] : i \in DOMAIN inbox}
          /\ \A k \in DOMAIN inbox' : \E i \in DOMAIN inbox : inbox[i] = inbox'[k]
    BY <1>1, Taken
  <2>3. TaskOf(e).event = e /\ TaskOf(e).at = "job"
    BY DEF TaskOf
  <2>4. States(BuildOf[j])' = States(BuildOf[j]) /\ Verdict(BuildOf[j])' = Verdict(BuildOf[j])
    BY <2>1 DEF States, Verdict
  <2>5. Voted(j)
    BY <2>1, <2>4 DEF VoteInv, Votable, LastIn
  <2>6. CASE QueuedUpdate(j)
    <3>1. PICK i \in DOMAIN inbox : inbox[i].job = j /\ inbox[i].n = changed[j] /\ inbox[i].type = "UPDATE"
      BY <2>6 DEF QueuedUpdate
    <3>2. CASE inbox[i] = e
      BY <2>1, <2>2, <2>3, <3>1, <3>2 DEF Voted, Latest, LatestUpdate
    <3>3. CASE inbox[i] # e
      BY <2>1, <2>2, <3>1, <3>3 DEF Voted, QueuedUpdate
    <3> QED
      BY <3>2, <3>3
  <2>7. CASE \E t \in tasks : /\ LatestUpdate(t, j)
                              /\ t.at \in {"job", "count"} \/ (t.at = "vote" /\ t.value = Verdict(BuildOf[j]))
    BY <2>1, <2>2, <2>4, <2>7 DEF Voted, Latest, LatestUpdate
  <2>8. CASE vote[Commit(j)] = Verdict(BuildOf[j]) /\ NoneWaits(Siblings(j))
    <3>1. NoneWaits(Siblings(j))'
      BY <2>2, <2>3, <2>8 DEF NoneWaits, NoneQueued
    <3> QED
      BY <2>1, <2>4, <2>8, <3>1 DEF Voted
  <2> QED
    BY <2>5, <2>6, <2>7, <2>8 DEF Voted
<1>2. ASSUME ServiceFails PROVE Voted(j)'
  <2>1. /\ missed \subseteq missed' /\ tasks' = {} /\ inbox' = <<>>
        /\ \A i \in DOMAIN inbox : inbox[i].n \in missed'
        /\ \A t \in tasks : t.event.n \in missed'
        /\ UNCHANGED <<row, type, projects, changed, vote>>
    BY <1>2, Lost DEF Review, database, outside, ServiceFails
  <2>2. States(BuildOf[j])' = States(BuildOf[j]) /\ Verdict(BuildOf[j])' = Verdict(BuildOf[j])
    BY <2>1 DEF States, Verdict
  <2>3. changed[j] \notin missed' /\ Voted(j)
    BY <2>1, <2>2 DEF VoteInv, Votable, LastIn
  <2>4. ~QueuedUpdate(j) /\ ~ \E t \in tasks : Latest(t, j)
    BY <2>1, <2>3 DEF QueuedUpdate, Latest
  <2>5. NoneWaits(Siblings(j))'
    BY <2>1 DEF NoneWaits, NoneQueued
  <2> QED
    BY <2>1, <2>2, <2>3, <2>4, <2>5 DEF Voted, LatestUpdate
<1> QED
  BY <1>1, <1>2

\* A build that has ended is not ignored, and its states are counted after its
\* last change.
LEMMA VotedHandle ==
  ASSUME TypeInv, OrderInv, VoteInv, service = "gerrit-review",
         NEW t \in tasks, Handle(t) \/ Refused(t), NEW j \in Jobs, Votable(j)'
  PROVE  Voted(j)'
<1>1. /\ UNCHANGED <<row, type, projects, changed, inbox>> /\ missed \subseteq missed'
      /\ \A u \in tasks' : \E w \in tasks : w.event = u.event
  BY HandledEvents DEF database
<1>2. States(BuildOf[j])' = States(BuildOf[j]) /\ Verdict(BuildOf[j])' = Verdict(BuildOf[j])
  BY <1>1 DEF States, Verdict
<1>3. Votable(j) /\ Voted(j) /\ changed[j] \notin missed'
  BY <1>1, <1>2 DEF VoteInv, Votable, LastIn
<1>4. tasks = {t} /\ t \in Task
  BY TaskFields DEF TypeInv, TaskInv, Review
<1>5. CASE QueuedUpdate(j)
  <2>1. QueuedUpdate(j)'
    BY <1>1, <1>5 DEF QueuedUpdate
  <2> QED
    BY <2>1 DEF Voted
\* What is not about the last change leaves the vote as it is.
<1>6. ASSUME ~QueuedUpdate(j), ~LatestUpdate(t, j) PROVE Voted(j)'
  <2>1. vote[Commit(j)] = Verdict(BuildOf[j]) /\ NoneWaits(Siblings(j))
    BY <1>3, <1>4, <1>6 DEF Voted
  <2>2. NoneWaits(Siblings(j))'
    BY <1>1, <2>1 DEF NoneWaits, NoneQueued
  <2>3. Commit(t.event.job) # Commit(j)
    BY <2>1, TaskFields DEF NoneWaits, Siblings
  <2>4. vote' = vote \/ vote' = [vote EXCEPT ![Commit(t.event.job)] = t.value]
    BY DEF Handle, IgnoreJob, ReadJob, ReadOwner, ReadConsole, Emit, PostStatus, CountStates, SetReview,
           Refused, outside
  <2>5. Commit(j) \in Commits /\ \E V : vote \in [Commits -> V]
    BY DEF Commit, Commits, Builds, TypeInv, OutsideTypeOK
  <2>6. vote'[Commit(j)] = vote[Commit(j)]
    BY <2>3, <2>4, <2>5
  <2> QED
    BY <1>2, <2>1, <2>2, <2>6 DEF Voted
<1>7. CASE LatestUpdate(t, j) /\ ~QueuedUpdate(j)
  <2>1. NoneQueued(Siblings(j)) /\ j \in Siblings(j) /\ t.event.job = j /\ t.event.type = "UPDATE"
    BY <1>3, <1>7, NoneBehind DEF Review, Votable, Siblings, Latest, LatestUpdate
  <2>2. t.at \in {"job", "count"} \/ (t.at = "vote" /\ t.value = Verdict(BuildOf[j]))
    BY <1>3, <1>4, <1>7, <2>1 DEF Voted, NoneWaits
  <2>3. ASSUME IgnoreJob(t) PROVE FALSE
    <3>1. row[j] \in Active
      BY <1>3, <2>1, <2>3 DEF IgnoreJob, Ignored, Votable
    <3>2. row[j] \in States(BuildOf[j])
      BY <3>1 DEF States, JobsOf, Active
    <3> QED
      BY <1>3, <3>1, <3>2 DEF Votable, Active, Ended
  <2>4. ASSUME ReadJob(t) PROVE Voted(j)'
    <3> DEFINE u == [t EXCEPT !.at = "count", !.change = changed[t.event.job], !.value = ""]
    <3>1. tasks' = {u}
      BY <1>4, <2>4 DEF ReadJob, Becomes
    <3>2. u.event = t.event /\ u.at = "count"
      BY <1>4, TaskExcept
    <3> HIDE DEF u
    <3> QED
      BY <1>1, <1>7, <3>1, <3>2 DEF Voted, Latest, LatestUpdate
  <2>5. ASSUME CountStates(t) PROVE Voted(j)'
    <3> DEFINE u == [t EXCEPT !.at = "vote", !.value = Vote(BuildOf[t.event.job])]
    <3>1. Vote(BuildOf[j]) = Verdict(BuildOf[j]) /\ Verdict(BuildOf[j]) \in {"-1", "+1"}
      BY <1>3 DEF Vote, Verdict, Votable, Active, Ended
    <3>2. tasks' = {u}
      BY <1>4, <2>1, <2>5, <3>1 DEF CountStates, Becomes
    <3>3. u.event = t.event /\ u.at = "vote" /\ u.value = Verdict(BuildOf[j])
      BY <1>4, <2>1, <3>1, TaskExcept
    <3> HIDE DEF u
    <3> QED
      BY <1>1, <1>2, <1>7, <3>2, <3>3 DEF Voted, Latest, LatestUpdate
  <2>6. ASSUME SetReview(t) PROVE Voted(j)'
    <3>1. tasks' = {} /\ vote' = [vote EXCEPT ![Commit(j)] = t.value] /\ t.at = "vote"
      BY <1>4, <2>1, <2>6 DEF SetReview, Done
    <3>2. Commit(j) \in Commits /\ \E V : vote \in [Commits -> V]
      BY DEF Commit, Commits, Builds, TypeInv, OutsideTypeOK
    <3>3. vote'[Commit(j)] = Verdict(BuildOf[j])
      BY <2>2, <3>1, <3>2
    <3>4. NoneWaits(Siblings(j))'
      BY <1>1, <2>1, <3>1 DEF NoneWaits, NoneQueued
    <3> QED
      BY <1>2, <3>3, <3>4 DEF Voted
  <2>7. ASSUME Refused(t) PROVE FALSE
    BY <1>3, <1>7, <2>7 DEF Refused, Latest, LatestUpdate
  <2>8. ASSUME ReadOwner(t) \/ ReadConsole(t) \/ Emit(t) \/ PostStatus(t) PROVE FALSE
    BY <2>2, <2>8 DEF ReadOwner, ReadConsole, Emit, PostStatus
  <2> QED
    BY <2>3, <2>4, <2>5, <2>6, <2>7, <2>8 DEF Handle
<1> QED
  BY <1>5, <1>6, <1>7

LEMMA VoteNext == TypeInv /\ OrderInv /\ VoteInv /\ [Next]_vars => VoteInv'
<1> SUFFICES ASSUME TypeInv, OrderInv, VoteInv, [Next]_vars PROVE VoteInv'
  OBVIOUS
<1>1. service' = service
  BY Steady
<1>2. ASSUME service = "gerrit-review", NEW j \in Jobs, Votable(j)' PROVE Voted(j)'
  <2>1. ASSUME Change PROVE Voted(j)'
    BY <1>2, <2>1, VotedChange
  <2>2. ASSUME StartTask \/ NextEvent \/ ServiceFails PROVE Voted(j)'
    BY <1>2, <2>2, VotedTaken
  <2>3. ASSUME NEW t \in tasks, Handle(t) \/ Refused(t) PROVE Voted(j)'
    BY <1>2, <2>3, VotedHandle
  <2>4. ASSUME \/ ElectLeader \/ Listen \/ CheckLeader \/ Select \/ UNCHANGED vars
               \/ \E c \in Clients : Load(c) \/ Enter(c) \/ Leave(c)
        PROVE  Voted(j)'
    <3>1. UNCHANGED <<row, type, projects, changed, inbox, tasks, vote, missed>>
      BY <2>4 DEF ElectLeader, Listen, CheckLeader, Select, Load, Enter, Leave, vars, database, outside
    <3>2. States(BuildOf[j])' = States(BuildOf[j]) /\ Verdict(BuildOf[j])' = Verdict(BuildOf[j])
      BY <3>1 DEF States, Verdict
    <3>3. Votable(j)
      BY <1>2, <3>1, <3>2 DEF Votable, LastIn
    <3> QED
      BY <1>2, <3>1, <3>2, <3>3, KeptSame, VotedSame DEF VoteInv, NoneQueued
  <2> QED
    BY <2>1, <2>2, <2>3, <2>4 DEF Next, Serve
<1> QED
  BY <1>1, <1>2 DEF VoteInv

\* For any jobs, builds and commits and any number of changes: the vote on a
\* commit is that of the build that has changed last, if its jobs have ended.
\* It takes only the event of that change to be handled, and its vote not to be
\* refused, whatever was lost before.
THEOREM ChangeVoted == Spec => []VoteFinal
<1>1. Init => TypeInv /\ OrderInv /\ VoteInv
  <2>1. ASSUME Init PROVE OrderInv /\ VoteInv
    <3>1. (\A j \in Jobs : changed[j] \in missed /\ changed[j] = nChanges) /\ nChanges = 0
      BY <2>1 DEF Init
    <3> QED
      BY <2>1, <3>1 DEF Init, OrderInv, VoteInv, Votable
  <2> QED
    BY <2>1, TypeInit
<1>2. TypeInv /\ OrderInv /\ VoteInv /\ [Next]_vars => (TypeInv /\ OrderInv /\ VoteInv)'
  BY TypeNext, OrderNext, VoteNext
<1>3. TypeInv /\ VoteInv => VoteFinal
  <2> SUFFICES ASSUME TypeInv, VoteInv, service = "gerrit-review", NEW j \in Jobs, Votable(j),
                      Handled(changed[j])
               PROVE  vote[Commit(j)] = Verdict(BuildOf[j])
    BY DEF VoteFinal, Votable, Handled, Siblings
  <2>1. ~QueuedUpdate(j) /\ \A t \in tasks : ~LatestUpdate(t, j)
    BY DEF Handled, Waiting, QueuedUpdate, Latest, LatestUpdate
  <2> QED
    BY <2>1 DEF VoteInv, Voted
<1> QED
  BY <1>1, <1>2, <1>3, PTL DEF Spec

-----------------------------------------------------------------------------

(***************************************************************************)
(* The inductive invariant. Its first part is about clients that are not   *)
(* in the room: only one that has been refused, and does not come back,    *)
(* still has something due.                                                *)
(***************************************************************************)

JobDue(c, j) == Project(j) \in projects /\ changed[j] \in due[c]

JobTold(c, j) ==
    \/ changed[j] \in told[c] \cup missed
    \/ Queued(j)
    \/ \E t \in tasks : Latest(t, j) /\ t.at = "job"
    \/ \E t \in tasks : t.at = "emit" /\ t.change = changed[j]

OutputTold(c, n) ==
    \/ n \in told[c] \cup missed \cup removed
    \/ n \in output /\ \E i \in DOMAIN inbox : inbox[i].n = n
    \/ n \in output /\ \E t \in tasks : t.at = "console" /\ t.event.n = n
    \/ n \in output /\ \E t \in tasks : t.at = "emit" /\ t.change = n

JobsInv ==
    service = "job-listener" =>
        \A c \in Clients, j \in Jobs : c \in members /\ JobDue(c, j) => JobTold(c, j)
OutputInv ==
    service = "console-listener" => \A c \in Clients : \A n : c \in members /\ n \in due[c] => OutputTold(c, n)

\* The threads of a listener do what it is for.
ListenerTasks ==
    /\ service = "console-listener" => \A t \in tasks : t.at \in {"console", "emit"}
    /\ service = "job-listener" => \A t \in tasks : t.at \in {"job", "emit"}

ListenerInv ==
    /\ \A c \in Clients : c \notin members => due[c] = {} \/ client[c] = "away"
    /\ \A j \in Jobs : changed[j] <= nChanges
    /\ ListenerTasks
    /\ JobsInv
    /\ OutputInv

(***************************************************************************)
(* Jobs and output change.                                                 *)
(***************************************************************************)

LEMMA DueChange ==
  ASSUME TypeInv, ListenerInv, Change
  PROVE  /\ UNCHANGED <<members, client, told, tasks>>
         /\ \A c \in Clients : /\ due'[c] \subseteq due[c] \cup {nChanges'}
                               /\ c \notin members => due'[c] = due[c]
<1>2. ASSUME NEW op \in {"INSERT", "UPDATE"}, NEW j \in Jobs, Notify(op, j)
      PROVE  \A c \in Clients : /\ due'[c] \subseteq due[c] \cup {nChanges'}
                                /\ c \notin members => due'[c] = due[c]
  BY <1>2 DEF Notify
<1>3. ASSUME NEW j \in Jobs, InsertJob(j) \/ InsertConsole(j) \/ \E s \in State : UpdateJob(j, s)
      PROVE  /\ UNCHANGED <<members, client, told, tasks>>
             /\ \A c \in Clients : /\ due'[c] \subseteq due[c] \cup {nChanges'}
                                   /\ c \notin members => due'[c] = due[c]
  BY <1>2, <1>3 DEF InsertJob, UpdateJob, InsertConsole, NotifyJob, roomVars
<1>4. ASSUME RemoveConsole \/ \E p \in Projects : DeleteProject(p)
      PROVE  UNCHANGED <<members, client, told, tasks, due>>
  BY <1>4 DEF RemoveConsole, DeleteProject, outside, roomVars
<1>5. CASE RemoveConsole \/ \E p \in Projects : DeleteProject(p)
  BY <1>4, <1>5
<1>6. CASE \E j \in Jobs : InsertJob(j) \/ InsertConsole(j) \/ \E s \in State : UpdateJob(j, s)
  BY <1>3, <1>6
<1> QED
  BY <1>5, <1>6 DEF Change

LEMMA JobToldChange ==
  ASSUME TypeInv, ListenerInv, Change, service = "job-listener",
         NEW c \in Clients, c \in members, NEW j \in Jobs, JobDue(c, j)'
  PROVE  JobTold(c, j)'
<1>0. /\ nChanges \in Nat /\ changed \in [Jobs -> 0..MaxChanges[service]]
      /\ MaxChanges[service] \in Nat
  BY ChangesNat DEF TypeInv, DatabaseTypeOK, ServiceTypeOK
<1>1. ASSUME NEW op \in {"INSERT", "UPDATE"}, NEW i \in Jobs, NotifyJob(op, i)
      PROVE  JobTold(c, j)'
  <2>1. /\ Notify(op, i) /\ changed' = [changed EXCEPT ![i] = nChanges + 1]
        /\ UNCHANGED <<projects, tasks, told>>
    BY <1>1 DEF NotifyJob
  <2>2. /\ Kept /\ missed \subseteq missed'
        /\ \/ nChanges' \in missed'
           \/ \E k \in DOMAIN inbox' : inbox'[k] = [type |-> op, job |-> i, n |-> nChanges']
    BY <2>1, Notified
  <2>3. nChanges' = nChanges + 1
    BY <2>1 DEF Notify
  <2>4. CASE i = j
    <3>1. changed'[j] = nChanges'
      BY <1>0, <2>1, <2>3, <2>4
    <3>2. CASE nChanges' \in missed'
      BY <3>1, <3>2 DEF JobTold
    <3>3. CASE nChanges' \notin missed'
      <4>1. Queued(j)'
        BY <2>2, <2>4, <3>1, <3>3 DEF Queued
      <4> QED
        BY <4>1 DEF JobTold
    <3> QED
      BY <3>2, <3>3
  <2>5. CASE i # j
    <3>1. changed'[j] = changed[j]
      BY <1>0, <2>1, <2>5
    <3>2. changed[j] # nChanges'
      <4>1. changed[j] \in Nat /\ changed[j] <= nChanges
        BY <1>0 DEF ListenerInv
      <4> QED
        BY <1>0, <2>3, <4>1
    <3>3. changed[j] \in due[c]
      BY <3>1, <3>2, DueChange DEF JobDue
    <3>4. JobTold(c, j)
      BY <2>1, <3>3 DEF ListenerInv, JobsInv, JobDue
    <3>5. Queued(j) => Queued(j)'
      BY <2>2, <3>1 DEF Queued, Kept
    <3> QED
      BY <2>1, <2>2, <3>1, <3>4, <3>5 DEF JobTold, Latest
  <2> QED
    BY <2>4, <2>5
<1>2. ASSUME RemoveConsole \/ \E p \in Projects : DeleteProject(p) PROVE JobTold(c, j)'
  <2>1. UNCHANGED <<changed, inbox, tasks, missed, told, due>> /\ projects' \subseteq projects
    BY <1>2 DEF RemoveConsole, DeleteProject, outside
  <2>2. JobTold(c, j)
    BY <2>1 DEF ListenerInv, JobsInv, JobDue
  <2> QED
    BY <2>1, <2>2 DEF JobTold, Latest, Queued
<1>3. ASSUME NEW i \in Jobs, InsertConsole(i) PROVE FALSE
  BY <1>3 DEF InsertConsole
<1> QED
  BY <1>1, <1>2, <1>3 DEF Change, InsertJob, UpdateJob

LEMMA OutputToldChange ==
  ASSUME TypeInv, ListenerInv, Change, service = "console-listener",
         NEW c \in Clients, c \in members, NEW n, n \in due'[c]
  PROVE  OutputTold(c, n)'
<1>1. ASSUME NEW i \in Jobs, InsertConsole(i) PROVE OutputTold(c, n)'
  <2>1. /\ Notify("INSERT", i) /\ output' = output \cup {nChanges + 1}
        /\ UNCHANGED <<removed, tasks, told>>
    BY <1>1 DEF InsertConsole
  <2>2. /\ Kept /\ missed \subseteq missed'
        /\ \/ nChanges' \in missed'
           \/ \E k \in DOMAIN inbox' : inbox'[k] = [type |-> "INSERT", job |-> i, n |-> nChanges']
    BY <2>1, Notified
  <2>3. nChanges' = nChanges + 1
    BY <2>1 DEF Notify
  <2>4. CASE n = nChanges'
    <3>1. n \in output'
      BY <2>1, <2>3, <2>4
    <3>2. CASE nChanges' \in missed'
      BY <2>4, <3>2 DEF OutputTold
    <3>3. CASE nChanges' \notin missed'
      <4>1. \E k \in DOMAIN inbox' : inbox'[k].n = nChanges'
        BY <2>2, <3>3
      <4> QED
        BY <2>4, <3>1, <4>1 DEF OutputTold
    <3> QED
      BY <3>2, <3>3
  <2>5. CASE n # nChanges'
    <3>1. OutputTold(c, n)
      BY <2>5, DueChange DEF ListenerInv, OutputInv
    <3> QED
      BY <2>1, <2>2, <3>1 DEF OutputTold, Kept
  <2> QED
    BY <2>4, <2>5
<1>2. ASSUME RemoveConsole PROVE OutputTold(c, n)'
  <2>1. output' = {} /\ removed' = removed \cup output /\ UNCHANGED <<missed, told, due>>
    BY <1>2 DEF RemoveConsole, outside
  <2>2. OutputTold(c, n)
    BY <2>1 DEF ListenerInv, OutputInv
  <2> QED
    BY <2>1, <2>2 DEF OutputTold
<1>3. ASSUME NEW i \in Jobs, InsertJob(i) \/ \E s \in State : UpdateJob(i, s) PROVE FALSE
  BY <1>3 DEF InsertJob, UpdateJob, NotifyJob
<1>4. ASSUME NEW p \in Projects, DeleteProject(p) PROVE FALSE
  BY <1>4 DEF DeleteProject
<1> QED
  BY <1>1, <1>2, <1>3, <1>4 DEF Change

(***************************************************************************)
(* Events are taken, lost and handled.                                     *)
(***************************************************************************)

LEMMA ListenerTaken == TypeInv /\ ListenerInv /\ (StartTask \/ NextEvent) => ListenerInv'
<1> SUFFICES ASSUME TypeInv, ListenerInv, StartTask \/ NextEvent PROVE ListenerInv'
  OBVIOUS
<1>1. UNCHANGED <<projects, output, removed, nChanges, changed, service, told, due, missed, members, client>>
  BY Taken DEF database, outside, roomVars
<1>2. PICK e \in Event :
        /\ tasks' = tasks \cup {TaskOf(e)}
        /\ \A i \in DOMAIN inbox : inbox[i] = e \/ \E k \in DOMAIN inbox' : inbox'[k] = inbox[i]
  BY Taken
<1>3. TaskOf(e).event = e /\ TaskOf(e).at = IF service = "console-listener" THEN "console" ELSE "job"
  BY DEF TaskOf
<1>4. ListenerTasks'
  BY <1>1, <1>2, <1>3 DEF ListenerInv, ListenerTasks
<1>5. ASSUME service = "job-listener", NEW c \in Clients, NEW j \in Jobs, JobTold(c, j)
      PROVE  JobTold(c, j)'
  <2>1. CASE Queued(j)
    <3>1. PICK i \in DOMAIN inbox : inbox[i].job = j /\ inbox[i].n = changed[j]
      BY <2>1 DEF Queued
    <3>2. CASE inbox[i] = e
      BY <1>1, <1>2, <1>3, <1>5, <3>1, <3>2 DEF JobTold, Latest
    <3>3. CASE inbox[i] # e
      BY <1>1, <1>2, <3>1, <3>3 DEF JobTold, Queued
    <3> QED
      BY <3>2, <3>3
  <2>2. CASE ~Queued(j)
    BY <1>1, <1>2, <1>5, <2>2 DEF JobTold, Latest
  <2> QED
    BY <2>1, <2>2
<1>6. ASSUME service = "console-listener", NEW c \in Clients, NEW n, OutputTold(c, n)
      PROVE  OutputTold(c, n)'
  <2>1. CASE n \in output /\ \E i \in DOMAIN inbox : inbox[i].n = n
    <3>1. PICK i \in DOMAIN inbox : inbox[i].n = n
      BY <2>1
    <3>2. CASE inbox[i] = e
      BY <1>1, <1>2, <1>3, <1>6, <2>1, <3>1, <3>2 DEF OutputTold
    <3>3. CASE inbox[i] # e
      BY <1>1, <1>2, <2>1, <3>1, <3>3 DEF OutputTold
    <3> QED
      BY <3>2, <3>3
  <2>2. CASE ~(n \in output /\ \E i \in DOMAIN inbox : inbox[i].n = n)
    BY <1>1, <1>2, <1>6, <2>2 DEF OutputTold
  <2> QED
    BY <2>1, <2>2
<1> QED
  BY <1>1, <1>4, <1>5, <1>6 DEF ListenerInv, JobsInv, JobDue, OutputInv

LEMMA ListenerLost == TypeInv /\ ListenerInv /\ ServiceFails => ListenerInv'
<1> SUFFICES ASSUME TypeInv, ListenerInv, ServiceFails PROVE ListenerInv'
  OBVIOUS
<1>1. /\ UNCHANGED <<projects, output, removed, nChanges, changed, service, told, due, members, client>>
      /\ missed \subseteq missed'
      /\ \A i \in DOMAIN inbox : inbox[i].n \in missed'
      /\ service \notin Review => tasks' = tasks
      /\ service \in Review => tasks' = {}
  BY Lost DEF database, outside, roomVars
<1>2. "job-listener" \notin Review /\ "console-listener" \notin Review
  BY DEF Review
<1>3. ListenerTasks'
  BY <1>1, <1>2 DEF ListenerInv, ListenerTasks
<1>4. ASSUME service = "job-listener", NEW c \in Clients, NEW j \in Jobs, JobTold(c, j)
      PROVE  JobTold(c, j)'
  <2>1. tasks' = tasks
    BY <1>1, <1>2, <1>4
  <2>2. Queued(j) => changed[j] \in missed'
    BY <1>1 DEF Queued
  <2> QED
    BY <1>1, <1>4, <2>1, <2>2 DEF JobTold, Latest
<1>5. ASSUME service = "console-listener", NEW c \in Clients, NEW n, OutputTold(c, n)
      PROVE  OutputTold(c, n)'
  <2>1. tasks' = tasks
    BY <1>1, <1>2, <1>5
  <2> QED
    BY <1>1, <1>5, <2>1 DEF OutputTold
<1> QED
  BY <1>1, <1>3, <1>4, <1>5 DEF ListenerInv, JobsInv, JobDue, OutputInv

LEMMA ListenerHandle ==
  ASSUME TypeInv, ListenerInv, NEW t \in tasks, Handle(t) \/ Refused(t)
  PROVE  ListenerInv'
<1>1. /\ UNCHANGED <<projects, output, removed, nChanges, changed, inbox, service, due, members, client>>
      /\ missed \subseteq missed'
      /\ \A c \in Clients : told[c] \subseteq told'[c]
  <2>1. /\ UNCHANGED <<projects, output, removed, nChanges, changed, inbox, service, due, members, client>>
        /\ missed \subseteq missed'
    BY DEF Handle, IgnoreJob, ReadJob, ReadOwner, ReadConsole, Emit, PostStatus, CountStates, SetReview,
           Refused, database, outside, roomVars
  <2>2. ASSUME Emit(t) PROVE \A c \in Clients : told[c] \subseteq told'[c]
    BY <2>2 DEF Emit
  <2>3. ASSUME ~Emit(t) PROVE told' = told
    BY <2>3 DEF Handle, IgnoreJob, ReadJob, ReadOwner, ReadConsole, PostStatus, CountStates, SetReview,
                Refused, outside
  <2> QED
    BY <2>1, <2>2, <2>3
<1>2. t \in Task
  BY TaskFields
<1>3. ASSUME service \notin Review
      PROVE  \/ IgnoreJob(t) /\ t.at = "job" /\ tasks' = tasks \ {t} /\ Project(t.event.job) \notin projects
             \/ ReadJob(t) /\ t.at = "job"
             \/ ReadConsole(t) /\ t.at = "console"
             \/ Emit(t) /\ t.at = "emit" /\ tasks' = tasks \ {t}
             \/ t.at \in {"owner", "status", "count", "vote"}
  BY <1>3 DEF Handle, IgnoreJob, ReadJob, ReadOwner, ReadConsole, Emit, PostStatus, CountStates, SetReview, Refused,
              Ignored, Done, Review
<1>4. CASE service = "job-listener"
  <2> DEFINE u == [t EXCEPT !.at = "emit", !.change = changed[t.event.job], !.value = ""]
  <2>1. u.at = "emit" /\ u.change = changed[t.event.job]
    BY <1>2, TaskExcept
  <2>2. t.at \in {"job", "emit"} /\ service \notin Review /\ service # "console-listener"
    BY <1>4 DEF ListenerInv, ListenerTasks, Review
  <2>3. \/ t.at = "job" /\ tasks' = tasks \ {t} /\ Project(t.event.job) \notin projects
        \/ t.at = "job" /\ tasks' = (tasks \ {t}) \cup {u}
        \/ Emit(t) /\ t.at = "emit" /\ tasks' = tasks \ {t}
    BY <1>3, <1>4, <2>2 DEF ReadJob, Becomes
  <2> HIDE DEF u
  <2>4. ListenerTasks'
    BY <1>1, <1>4, <2>1, <2>2, <2>3 DEF ListenerInv, ListenerTasks
  <2>5. ASSUME NEW c \in Clients, c \in members, NEW j \in Jobs, JobDue(c, j) PROVE JobTold(c, j)'
    <3>1. JobTold(c, j)
      BY <1>4, <2>5 DEF ListenerInv, JobsInv
    <3>2. CASE changed[j] \in told[c] \cup missed \/ Queued(j)
      BY <1>1, <3>2 DEF JobTold, Queued
    <3>3. ASSUME NEW w \in tasks, Latest(w, j) /\ w.at = "job" PROVE JobTold(c, j)'
      <4>1. CASE w # t
        BY <1>1, <2>3, <3>3, <4>1 DEF JobTold, Latest
      <4>2. CASE w = t
        <5>1. Project(t.event.job) \in projects /\ t.event.job = j
          BY <2>5, <3>3, <4>2 DEF JobDue, Latest
        <5>2. tasks' = (tasks \ {t}) \cup {u}
          BY <2>3, <3>3, <4>2, <5>1
        <5> QED
          BY <1>1, <2>1, <5>1, <5>2 DEF JobTold
      <4> QED
        BY <4>1, <4>2
    <3>4. ASSUME NEW w \in tasks, w.at = "emit" /\ w.change = changed[j] PROVE JobTold(c, j)'
      <4>1. CASE w # t
        BY <1>1, <2>3, <3>4, <4>1 DEF JobTold
      <4>2. CASE w = t
        <5>1. changed[j] \in told'[c]
          BY <2>3, <2>5, <3>4, <4>2 DEF Emit
        <5> QED
          BY <1>1, <5>1 DEF JobTold
      <4> QED
        BY <4>1, <4>2
    <3> QED
      BY <3>1, <3>2, <3>3, <3>4 DEF JobTold
  <2>6. \A c \in Clients, j \in Jobs : JobDue(c, j)' => JobDue(c, j)
    BY <1>1 DEF JobDue
  <2>7. JobsInv'
    BY <1>1, <2>5, <2>6 DEF JobsInv
  <2>8. OutputInv'
    BY <1>1, <2>2 DEF OutputInv
  <2> QED
    BY <1>1, <2>4, <2>7, <2>8 DEF ListenerInv
<1>5. CASE service = "console-listener"
  <2> DEFINE u == [t EXCEPT !.at = "emit", !.change = t.event.n]
  <2>1. u.at = "emit" /\ u.change = t.event.n
    BY <1>2, TaskExcept
  <2>2. t.at \in {"console", "emit"} /\ service \notin Review /\ service # "job-listener"
    BY <1>5 DEF ListenerInv, ListenerTasks, Review
  <2>3. \/ t.at = "console" /\ tasks' = (tasks \ {t}) \cup {u}
        \/ t.at = "console" /\ tasks' = tasks \ {t} /\ ~(has_clients /\ t.event.n \in output)
        \/ Emit(t) /\ t.at = "emit" /\ tasks' = tasks \ {t}
    BY <1>3, <2>2 DEF ReadConsole, Becomes, Done
  <2> HIDE DEF u
  <2>4. ListenerTasks'
    BY <1>1, <1>5, <2>1, <2>2, <2>3 DEF ListenerInv, ListenerTasks
  <2>5. ASSUME NEW c \in Clients, c \in members, NEW n, n \in due[c] PROVE OutputTold(c, n)'
    <3>1. OutputTold(c, n)
      BY <1>5, <2>5 DEF ListenerInv, OutputInv
    <3>2. CASE n \in told[c] \cup missed \cup removed \/ (n \in output /\ \E i \in DOMAIN inbox : inbox[i].n = n)
      BY <1>1, <3>2 DEF OutputTold
    <3>3. ASSUME NEW w \in tasks, n \in output /\ w.at = "console" /\ w.event.n = n PROVE OutputTold(c, n)'
      <4>1. CASE w # t
        BY <1>1, <2>3, <3>3, <4>1 DEF OutputTold
      <4>2. CASE w = t
        <5>1. has_clients
          BY <2>5, MembersSeen DEF TypeInv
        <5>2. tasks' = (tasks \ {t}) \cup {u}
          BY <2>3, <3>3, <4>2, <5>1
        <5> QED
          BY <1>1, <2>1, <3>3, <4>2, <5>2 DEF OutputTold
      <4> QED
        BY <4>1, <4>2
    <3>4. ASSUME NEW w \in tasks, n \in output /\ w.at = "emit" /\ w.change = n PROVE OutputTold(c, n)'
      <4>1. CASE w # t
        BY <1>1, <2>3, <3>4, <4>1 DEF OutputTold
      <4>2. CASE w = t
        <5>1. n \in told'[c]
          BY <2>3, <2>5, <3>4, <4>2 DEF Emit
        <5> QED
          BY <5>1 DEF OutputTold
      <4> QED
        BY <4>1, <4>2
    <3> QED
      BY <3>1, <3>2, <3>3, <3>4 DEF OutputTold
  <2>6. OutputInv'
    BY <1>1, <2>5 DEF OutputInv
  <2>7. JobsInv'
    BY <1>1, <2>2 DEF JobsInv
  <2> QED
    BY <1>1, <2>4, <2>6, <2>7 DEF ListenerInv
<1>6. CASE service \notin {"job-listener", "console-listener"}
  BY <1>1, <1>6 DEF ListenerInv, ListenerTasks, JobsInv, OutputInv
<1> QED
  BY <1>4, <1>5, <1>6

(***************************************************************************)
(* Clients come and go.                                                    *)
(***************************************************************************)

\* Who is in the room has nothing due, or what it had before.
DueKept ==
    /\ \A d \in Clients : d \notin members' => due'[d] = {} \/ client'[d] = "away"
    /\ \A d \in Clients : d \in members' =>
          due'[d] = {} \/ (d \in members /\ due'[d] = due[d] /\ told'[d] = told[d])

LEMMA ListenerClients ==
  ASSUME TypeInv, ListenerInv, NEW c \in Clients, Load(c) \/ Enter(c) \/ Leave(c)
  PROVE  ListenerInv'
<1>1. UNCHANGED <<projects, output, removed, nChanges, changed, inbox, tasks, service, missed>>
  BY DEF Load, Enter, Leave, database, outside
<1>2. /\ \A d \in members : client[d] \in {"loaded", "checked", "away"}
      /\ \A d \in Clients : d \notin members => due[d] = {} \/ client[d] = "away"
      /\ \E V, W, X : due \in [Clients -> V] /\ told \in [Clients -> W] /\ client \in [Clients -> X]
  BY DEF TypeInv, RoomsInv, RoomsTypeOK, ListenerInv, OutsideTypeOK
<1>3. DueKept
  <2>1. ASSUME Load(c) PROVE DueKept
    <3>1. /\ client[c] = "connected" /\ client' = [client EXCEPT ![c] = "loaded"]
          /\ UNCHANGED <<members, due>>
          /\ \A d \in Clients : d # c => told'[d] = told[d]
      BY <1>2, <2>1 DEF Load
    <3> QED
      BY <1>2, <3>1 DEF DueKept
  <2>2. ASSUME Enter(c), EnterRoom(c) PROVE DueKept
    <3>1. /\ client[c] \in {"checked", "gone"} /\ members' = members \cup {c} /\ UNCHANGED <<due, told>>
          /\ client' = [client EXCEPT ![c] = IF client[c] = "checked" THEN "loaded" ELSE "away"]
      BY <2>2 DEF Enter, EnterRoom, outside
    <3> QED
      BY <1>2, <3>1 DEF DueKept
  <2>3. ASSUME Disconnect(c), (due' = due /\ client[c] = "loaded") \/ due' = [due EXCEPT ![c] = {}],
               told' = told
        PROVE  DueKept
    <3>1. /\ client' = [client EXCEPT ![c] = IF client[c] = "checked" THEN "gone" ELSE "away"]
          /\ members' = members \ {c}
      BY <2>3 DEF Disconnect, leave_room
    <3> QED
      BY <1>2, <2>3, <3>1 DEF DueKept
  <2>4. ASSUME Enter(c), ~EnterRoom(c), ~Disconnect(c) PROVE DueKept
    <3>1. /\ client[c] = "loaded" /\ client' = [client EXCEPT ![c] = "checked"]
          /\ UNCHANGED <<members, due, told>>
      BY <2>4 DEF Enter, RoomsStep, ListenJobs, ListenBuild, ListenConsole, ListenDashboardConsole,
                  Admit, outside
    <3> QED
      BY <1>2, <3>1 DEF DueKept
  <2>5. Leave(c) => Disconnect(c) /\ due' = [due EXCEPT ![c] = {}] /\ told' = told
    BY DEF Leave
  <2>6. Enter(c) => UNCHANGED <<due, told>> /\ (Disconnect(c) /\ ~EnterRoom(c) => client[c] = "loaded")
    BY DEF Enter, RoomsStep, ListenJobs, ListenBuild, ListenConsole, ListenDashboardConsole, Admit, outside
  <2> QED
    BY <2>1, <2>2, <2>3, <2>4, <2>5, <2>6
<1>4. ListenerTasks'
  BY <1>1 DEF ListenerInv, ListenerTasks
<1>5. JobsInv'
  <2>1. ASSUME service = "job-listener", NEW d \in Clients, NEW j \in Jobs, d \in members', JobDue(d, j)'
        PROVE  JobTold(d, j)'
    <3>1. d \in members /\ due'[d] = due[d] /\ told'[d] = told[d]
      BY <1>3, <2>1 DEF JobDue, DueKept
    <3>2. JobTold(d, j)
      BY <1>1, <2>1, <3>1 DEF ListenerInv, JobsInv, JobDue
    <3> QED
      BY <1>1, <3>1, <3>2 DEF JobTold, Latest, Queued
  <2> QED
    BY <1>1, <2>1 DEF JobsInv
<1>6. OutputInv'
  <2>1. ASSUME service = "console-listener", NEW d \in Clients, NEW n, d \in members', n \in due'[d]
        PROVE  OutputTold(d, n)'
    <3>1. d \in members /\ due'[d] = due[d] /\ told'[d] = told[d]
      BY <1>3, <2>1 DEF DueKept
    <3>2. OutputTold(d, n)
      BY <1>1, <2>1, <3>1 DEF ListenerInv, OutputInv
    <3> QED
      BY <1>1, <3>1, <3>2 DEF OutputTold
  <2> QED
    BY <1>1, <2>1 DEF OutputInv
<1> QED
  BY <1>1, <1>3, <1>4, <1>5, <1>6 DEF ListenerInv, DueKept

LEMMA ListenerNext == TypeInv /\ ListenerInv /\ [Next]_vars => ListenerInv'
<1> SUFFICES ASSUME TypeInv, ListenerInv, [Next]_vars PROVE ListenerInv'
  OBVIOUS
<1>1. ASSUME Change PROVE ListenerInv'
  <2>1. service' = service /\ UNCHANGED <<members, client, tasks>>
    BY <1>1, DueChange, Steady
  <2>2. \A c \in Clients : c \notin members' => due'[c] = {} \/ client'[c] = "away"
    BY <1>1, <2>1, DueChange DEF ListenerInv
  <2>3. ListenerTasks'
    BY <2>1 DEF ListenerInv, ListenerTasks
  <2>4. JobsInv'
    BY <1>1, <2>1, JobToldChange DEF JobsInv
  <2>5. OutputInv'
    BY <1>1, <2>1, OutputToldChange DEF OutputInv
  <2>6. \A j \in Jobs : changed'[j] <= nChanges'
    BY ChangesGrow DEF ListenerInv
  <2> QED
    BY <2>2, <2>3, <2>4, <2>5, <2>6 DEF ListenerInv
<1>2. ASSUME StartTask \/ NextEvent PROVE ListenerInv'
  BY <1>2, ListenerTaken
<1>3. ASSUME ServiceFails PROVE ListenerInv'
  BY <1>3, ListenerLost
<1>4. ASSUME NEW t \in tasks, Handle(t) \/ Refused(t) PROVE ListenerInv'
  BY <1>4, ListenerHandle
<1>5. ASSUME NEW c \in Clients, Load(c) \/ Enter(c) \/ Leave(c) PROVE ListenerInv'
  BY <1>5, ListenerClients
<1>6. ASSUME ElectLeader \/ Listen \/ CheckLeader \/ Select \/ UNCHANGED vars PROVE ListenerInv'
  <2>1. UNCHANGED <<database, service, inbox, tasks, outside, missed, roomVars>>
    BY <1>6 DEF ElectLeader, Listen, CheckLeader, Select, vars
  <2> QED
    BY <2>1 DEF ListenerInv, ListenerTasks, JobsInv, JobDue, JobTold, Latest, Queued, OutputInv, OutputTold,
                database, outside, roomVars
<1> QED
  BY <1>1, <1>2, <1>3, <1>4, <1>5, <1>6 DEF Next, Serve

\* Once all events have been handled, every client in the room has been sent
\* the last state of each job and each piece of output since it came, for any
\* number of clients, jobs, threads and changes, unless the event was lost with
\* a connection.
THEOREM RoomTold == Spec => []ClientsTold
<1>1. Init => TypeInv /\ ListenerInv
  <2>1. ASSUME Init PROVE ListenerInv
    BY <2>1 DEF Init, ListenerInv, ListenerTasks, JobsInv, JobDue, OutputInv
  <2> QED
    BY <2>1, TypeInit
<1>2. TypeInv /\ ListenerInv /\ [Next]_vars => (TypeInv /\ ListenerInv)'
  BY TypeNext, ListenerNext
<1>3. TypeInv /\ ListenerInv => ClientsTold
  <2> SUFFICES ASSUME TypeInv, ListenerInv, Quiet, NEW c \in members
               PROVE  /\ service = "job-listener" =>
                            \A j \in Jobs : Project(j) \in projects /\ changed[j] \in due[c] =>
                                changed[j] \in told[c] \cup missed
                      /\ service = "console-listener" => due[c] \subseteq told[c] \cup missed \cup removed
    BY DEF ClientsTold
  <2>1. c \in Clients
    BY DEF TypeInv, RoomsInv, RoomsTypeOK
  <2> QED
    BY <2>1 DEF ListenerInv, JobsInv, JobDue, JobTold, OutputInv, OutputTold, Quiet, Queued
<1> QED
  BY <1>1, <1>2, <1>3, PTL DEF Spec
=============================================================================
