-------------------------------- MODULE Rooms --------------------------------
(***************************************************************************)
(* The rooms of the API's socket server (src/api/server.py). A client      *)
(* loads what there is with a GET, asks to listen, is checked against the  *)
(* database, and enters the room of a project, a build or a job; its       *)
(* disconnection takes it out of all rooms. ClientManager counts how often *)
(* a room was entered and left; the rooms do not affect each other, so     *)
(* that a behaviour has one.                                               *)
(***************************************************************************)
EXTENDS Naturals, FiniteSets

CONSTANTS
    Clients,
    TokenOf,        \* the type of a client's token
    Collaborators,  \* clients whose user is a collaborator of the project
    Public,         \* project.public
    MaxEntries      \* bound: how often the room is entered

Room == {"project", "build", "job"}

ASSUME RoomsAssumption ==
    /\ TokenOf \in [Clients -> {"user", "project", "project-token", "none"}]
    /\ Collaborators \subseteq Clients /\ Public \in BOOLEAN /\ MaxEntries \in Nat

VARIABLES
    room,       \* which room this is
    client,     \* "away", "connected", "loaded", "checked" (about to enter),
                \* "gone" (about to enter, but disconnected)
    members,    \* the clients in the room
    entries,    \* ClientManager.__rooms[room]
    nEntries

roomVars == <<room, client, members, entries, nEntries>>

RoomsTypeOK ==
    /\ room \in Room
    /\ client \in [Clients -> {"away", "connected", "loaded", "checked", "gone"}]
    /\ members \subseteq Clients
    /\ entries \in 0..MaxEntries /\ nEntries \in 0..MaxEntries

RoomsInit(kind, present) ==
    /\ room = kind
    /\ client = [c \in Clients |-> IF c \in present THEN "connected" ELSE "away"]
    /\ members = {} /\ entries = 0 /\ nEntries = 0

has_clients == entries > 0

\* Mutant: the entry of the room is deleted, however many clients are left.
LeaveRoomForAll(c) ==
    IF c \in members THEN members' = members \ {c} /\ entries' = 0
    ELSE UNCHANGED <<members, entries>>

leave_room(c) ==
    IF c \in members THEN members' = members \ {c} /\ entries' = entries - 1
    ELSE UNCHANGED <<members, entries>>

\* A client that is refused is disconnected, whatever it listens to already. The
\* handler that has checked a client does not see that it disconnects.
Disconnect(c) ==
    /\ client[c] \in {"connected", "loaded", "checked"}
    /\ client' = [client EXCEPT ![c] = IF client[c] = "checked" THEN "gone" ELSE "away"]
    /\ leave_room(c)
    /\ UNCHANGED <<room, nEntries>>

\* The connection to the database is given back before the room is entered.
Admit(c, may) ==
    /\ client[c] = "loaded"
    /\ IF may
       THEN /\ client' = [client EXCEPT ![c] = "checked"]
            /\ UNCHANGED <<room, members, entries, nEntries>>
       ELSE Disconnect(c)

IsCollaborator(c) == TokenOf[c] = "user" /\ c \in Collaborators
HasProjectToken(c) == TokenOf[c] \in {"project", "project-token"}

ListenJobs(c) == room = "project" /\ Admit(c, Public \/ IsCollaborator(c))
ListenBuild(c) == room = "build" /\ Admit(c, HasProjectToken(c))
ListenConsole(c) == room = "job" /\ TokenOf[c] # "user" /\ Admit(c, HasProjectToken(c))
ListenDashboardConsole(c) == room = "job" /\ TokenOf[c] = "user" /\ Admit(c, Public \/ IsCollaborator(c))

\* enter_room: a client that listens twice is one member, but two entries; one
\* that has gone in between stays a member, which nobody takes out any more.
EnterRoom(c) ==
    /\ client[c] \in {"checked", "gone"} /\ nEntries < MaxEntries
    /\ client' = [client EXCEPT ![c] = IF client[c] = "checked" THEN "loaded" ELSE "away"]
    /\ members' = members \cup {c}
    /\ entries' = entries + 1 /\ nEntries' = nEntries + 1
    /\ UNCHANGED room

RoomsStep(c) ==
    ListenJobs(c) \/ ListenBuild(c) \/ ListenConsole(c) \/ ListenDashboardConsole(c) \/ EnterRoom(c)

-----------------------------------------------------------------------------
\* The console listener throws away what nobody listens to: has_clients holds
\* as long as anybody is in the room, however often the clients have entered
\* and left it, or disconnected while they were let in; and nobody is in it who may not see the job.
MembersCounted ==
    /\ Cardinality(members) <= entries
    /\ \A c \in members : IF room = "build" THEN HasProjectToken(c)
                          ELSE Public \/ HasProjectToken(c) \/ IsCollaborator(c)
=============================================================================
