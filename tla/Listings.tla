------------------------------- MODULE Listings -------------------------------
(***************************************************************************)
(* The listings of the first API: composites, rooms, groups and users      *)
(* (the GET handlers of api/api_v1.go).                                    *)
(*                                                                         *)
(* A listing loads its tables eagerly: one query for the rows it starts    *)
(* from and one for each relation, outside of any transaction, and then    *)
(* looks gateways and rooms up in the caches.  Composites are replaced,    *)
(* rooms disabled and sessions moved between its queries.                  *)
(*                                                                         *)
(* A user has at most one active session and is where it is; module        *)
(* Sessions says when.  Rows of users, rooms and gateways are marked and   *)
(* never deleted, so that loading the one a foreign key names finds it.    *)
(***************************************************************************)
EXTENDS Composites, FiniteSets

CONSTANTS
    Readers,    \* requests to list something
    Users,      \* users
    MaxRequests \* bound: how many requests, puts and listings, are made

ASSUME ListingsConstantsOK == MaxRequests \in Nat

\* hosted: the rooms whose default gateway is in the cache of gateways, which is
\* filled when the service starts and lacks gateways that were disabled before.
Query == [op : {"qids", "qid", "rooms", "room", "groups", "users", "user"},
          key : Composites \cup Rooms \cup Users \cup {None},
          hosted : SUBSET Rooms]

VARIABLES
    where,  \* the room of a user's active session
    at,     \* the query each listing makes next
    ask,    \* what it lists
    got,    \* the rows of composites_rooms it has loaded
    found,  \* the rooms it has loaded
    met,    \* the sessions it has loaded: a user in a room
    reply   \* what it was answered

readVars == <<at, ask, got, found, met, reply>>
listVars == <<vars, where, readVars>>

ListInit ==
    /\ Init
    /\ where = [u \in Users |-> None]
    /\ at = [r \in Readers |-> "idle"]
    /\ ask = [r \in Readers |-> None]
    /\ got = [r \in Readers |-> {}]
    /\ found = [r \in Readers |-> {}]
    /\ met = [r \in Readers |-> {}]
    /\ reply = [r \in Readers |-> None]

Requests == {p \in Puts : pc[p] # "new"} \cup {r \in Readers : at[r] # "idle"}
OfComposites == {"qids", "qid"}

\* Bound: a listing that has nothing to do with composites runs by itself.
MayAsk ==
    /\ Cardinality(Requests) < MaxRequests
    /\ \A r \in Readers : at[r] # "idle" => ask[r].op \in OfComposites

-----------------------------------------------------------------------------
(* A request comes in *)

End(r, a) ==
    /\ at' = [at EXCEPT ![r] = "done"]
    /\ reply' = [reply EXCEPT ![r] = a]

GoTo(r, step) == at' = [at EXCEPT ![r] = step] /\ UNCHANGED reply

NotFound(r) == End(r, "404")

Asks(r, op, key, hosted) ==
    /\ at[r] = "idle" /\ MayAsk
    /\ op \in OfComposites \/ Requests = {}
    /\ ask' = [ask EXCEPT ![r] = [op |-> op, key |-> key, hosted |-> hosted]]
    /\ UNCHANGED <<vars, where, got, found, met>>

V1ListComposites(r) == Asks(r, "qids", None, Rooms) /\ GoTo(r, "quads")

V1GetComposite(r) == \E c \in Composites : Asks(r, "qid", c, Rooms) /\ GoTo(r, "quads")

V1ListRooms(r) == \E h \in SUBSET Rooms : Asks(r, "rooms", None, h) /\ GoTo(r, "rooms")

\* The room is looked up in the cache first.
V1GetRoom(r) ==
    \E h \in SUBSET Rooms, room \in Rooms :
        /\ Asks(r, "room", room, h)
        /\ IF room \in known THEN GoTo(r, "rooms") ELSE NotFound(r)

V1ListGroups(r) == \E h \in SUBSET Rooms : Asks(r, "groups", None, h) /\ GoTo(r, "sessions")

V1ListUsers(r) == Asks(r, "users", None, Rooms) /\ GoTo(r, "sessions")

\* The user is looked for first: it may be unknown, disabled or removed.
V1GetUser(r) ==
    \E u \in Users :
        Asks(r, "user", u, Rooms) /\ (NotFound(r) \/ GoTo(r, "sessions"))

-----------------------------------------------------------------------------
(* Its queries *)

Wanted(q) == IF q.op = "qid" THEN {q.key} ELSE Composites

\* Composites(...).One and All with their relation: no rows, nothing more to load.
LoadCompositesRooms(r) ==
    /\ at[r] = "quads"
    /\ got' = [got EXCEPT ![r] = UNION {CompositesRooms(c) : c \in Wanted(ask[r])}]
    /\ IF got'[r] = {} THEN GoTo(r, "answer") ELSE GoTo(r, "rooms")
    /\ UNCHANGED <<vars, where, ask, found, met>>

\* mutant: the rooms are those of the composites as they are by now
LoadRoomsOfNow(r) ==
    {RoomOf(row) : row \in UNION {CompositesRooms(c) : c \in Wanted(ask[r])}} \cap live

\* The rooms that the rows name, without those that are disabled or removed.
LoadRoom(r) == {RoomOf(row) : row \in got[r]} \cap live

LoadRooms(r) ==
    /\ at[r] = "rooms"
    /\ found' = [found EXCEPT ![r] =
                    IF ask[r].op \in OfComposites THEN LoadRoom(r)
                    ELSE IF ask[r].op = "room" THEN {ask[r].key} \cap live ELSE live]
    /\ IF ask[r].op = "room" /\ found'[r] = {} THEN NotFound(r)
       ELSE IF found'[r] = {} THEN GoTo(r, "answer") ELSE GoTo(r, "sessions")
    /\ UNCHANGED <<vars, where, ask, got, met>>

\* The active sessions of rooms.
SessionsIn(rooms) == {<<u, where[u]>> : u \in {v \in Users : where[v] \in rooms}}

\* The active sessions, for whichever room.
SessionsAll == {<<u, where[u]>> : u \in {v \in Users : where[v] # None}}

\* mutant: the sessions are loaded room by room
LoadSessionsByRoom(r) ==
    /\ at[r] = "sessions" /\ ask[r].op \in OfComposites \cup {"rooms", "room"}
    /\ \E room \in found[r] :
          met' = [met EXCEPT ![r] = @ \cup SessionsIn({room})]
    /\ GoTo(r, "sessions") \/ GoTo(r, "answer")
    /\ UNCHANGED <<vars, where, ask, got, found>>

LoadSessions(r) ==
    /\ at[r] = "sessions" /\ ask[r].op \in OfComposites \cup {"rooms", "room"}
    /\ met' = [met EXCEPT ![r] = SessionsIn(found[r])]
    /\ GoTo(r, "answer")
    /\ UNCHANGED <<vars, where, ask, got, found>>

\* The users and the rooms that sessions name, disabled and removed ones too.
LoadUser(sessions) == {s[1] : s \in sessions}
LoadRoomOf(sessions) == {s[2] : s \in sessions}

\* The query starts from the sessions: with their rooms, or counted by room.
FetchSessions(r) ==
    /\ at[r] = "sessions" /\ ask[r].op \in {"users", "user", "groups"}
    /\ met' = [met EXCEPT ![r] =
                  {s \in SessionsAll : ask[r].op = "user" => s[1] = ask[r].key}]
    /\ IF ask[r].op = "user" /\ met'[r] = {} THEN NotFound(r) ELSE GoTo(r, "answer")
    /\ UNCHANGED <<vars, where, ask, got, found>>

\* A query fails.
LoadFails(r) ==
    /\ at[r] \in {"quads", "rooms", "sessions"} /\ Fault("db")
    /\ End(r, "500")
    /\ UNCHANGED <<putVars, roomVars, where, ask, got, found, met>>

-----------------------------------------------------------------------------
(* Its answer *)

\* makeV1Room dereferences the gateway, and the room: a composite hands it the
\* gateway of the row, other listings leave it to the room's default gateway.
makeV1Room(q, room) == room \in q.hosted

\* makeV1User dereferences the session's user and the room that was loaded.
makeV1User(s, users, rooms) == s[1] \in users /\ s[2] \in rooms

makeV1Composite(q, rows, rooms) ==
    \A row \in rows : RoomOf(row) \in rooms /\ makeV1Room(q, RoomOf(row))

\* Rooms nobody is in are left out of the list before they are made.
makeV1Rooms(q, rooms, sessions) ==
    \A room \in rooms :
        LET inside == {s \in sessions : s[2] = room} IN
        q.op = "room" \/ inside # {} =>
            makeV1Room(q, room) /\ \A s \in inside : makeV1User(s, LoadUser(sessions), rooms)

\* The entry of a group without a gateway stays nil, which the sorting finds.
SortGroups(q) == Cardinality(known) > 1 => known \subseteq q.hosted

Makes(r) ==
    LET q == ask[r] IN
    CASE q.op \in OfComposites -> makeV1Composite(q, got[r], found[r])
      [] q.op \in {"rooms", "room"} -> makeV1Rooms(q, found[r], met[r])
      [] q.op = "groups" -> SortGroups(q)
      [] OTHER -> \A s \in met[r] :
                      makeV1User(s, LoadUser(met[r]), LoadRoomOf(met[r]))

\* What was loaded is let go of, but for the rows of composites.
Answer(r) ==
    /\ at[r] = "answer"
    /\ End(r, IF Makes(r) THEN "ok" ELSE "panic")
    /\ found' = [found EXCEPT ![r] = {}]
    /\ met' = [met EXCEPT ![r] = {}]
    /\ UNCHANGED <<vars, where, ask, got>>

-----------------------------------------------------------------------------
(* The sessions, as module Sessions has them change: a user enters, moves or    *)
(* leaves in one transaction.  Bound: while a listing is about to look.         *)

Move(u) ==
    /\ \E r \in Readers : at[r] = "sessions"
    /\ where' \in {[where EXCEPT ![u] = room] : room \in Rooms \cup {None}}
    /\ UNCHANGED <<vars, readVars>>

Read(r) ==
    \/ V1ListComposites(r) \/ V1GetComposite(r) \/ V1ListRooms(r) \/ V1GetRoom(r)
    \/ V1ListGroups(r) \/ V1ListUsers(r) \/ V1GetUser(r)
    \/ LoadCompositesRooms(r) \/ LoadRooms(r) \/ LoadSessions(r) \/ FetchSessions(r)
    \/ LoadFails(r) \/ Answer(r)

ListNext ==
    \/ Next /\ (MayAsk \/ \A p \in Puts : pc[p] = "new" => pc'[p] = "new")
            /\ UNCHANGED <<where, readVars>>
    \/ \E r \in Readers : Read(r)
    \/ \E u \in Users : Move(u)

ListSpec == ListInit /\ [][ListNext]_listVars

-----------------------------------------------------------------------------
(* Properties *)

\* A listing of composites breaks down only on a room that was disabled or
\* removed, whatever was replaced between its queries; the others, only on a
\* room whose default gateway is not cached; and a listing of users never does
\* (LoadCompositesRooms, LoadRoom and the three functions that make the answer).
BreaksOnlyOnMissing ==
    \A r \in Readers : reply[r] = "panic" =>
        /\ ask[r].op \notin {"users", "user"}
        /\ ask[r].op \in OfComposites => \E row \in got[r] : RoomOf(row) \in gone
        /\ ask[r].op \notin OfComposites => ask[r].hosted # Rooms

\* A user who moves while a list is loaded is in one room of it at most (the
\* sessions of all rooms are loaded by one query).
NobodyTwice ==
    \A r \in Readers : \A s, t \in met[r] : s[1] = t[1] => s[2] = t[2]

==============================================================================
