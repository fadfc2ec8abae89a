-------------------------------- MODULE Rooms --------------------------------
(***************************************************************************)
(* The rooms: the administrator's operations on them (AdminCreateRoom,     *)
(* AdminUpdateRoom and AdminDeleteRoom in api/api_admin.go), those of the  *)
(* first API (V1CreateGroup and V1UpdateRoom in api/api_v1.go), the table  *)
(* (models/rooms.go), the cache that requests look rooms up in (RoomCache  *)
(* in api/cache.go) and the janus-config command (cmd/janus_config.go).    *)
(*                                                                         *)
(* A room lives in three places: a row, a cache entry, and a videoroom on  *)
(* every gateway.  An administrator's request changes the gateways one by  *)
(* one inside its transaction, so that an error in between rolls the row   *)
(* back and leaves the gateways it has reached as they are.                *)
(*                                                                         *)
(* A worker is one HTTP request; requests that are refused before they     *)
(* change anything are left out.  Transactions are PostgreSQL's at the     *)
(* default isolation level: a row written, and a value put in a unique     *)
(* index, make others wait until their transaction ends.                   *)
(***************************************************************************)
EXTENDS Naturals

CONSTANTS
    Workers,    \* requests that may be in flight at the same time
    Gateways,   \* cached gateways of type rooms, neither disabled nor removed
    Names,      \* names a room may have
    MaxUid,     \* bound: the largest gateway_uid
    None,       \* no row, no entry, no room, no request
    Faults,     \* what may go wrong, and what an operator may do
    MaxFaults   \* bound: how often

Uids == 1..MaxUid

\* The id, the default gateway, the region, the extra data and the times are
\* left out.  A removed row keeps its disabled flag, which nothing looks at again.
Row == [name : Names, status : {"live", "disabled", "removed"}]

\* target is the gateway_uid of the body, by which an update addresses the
\* gateways; tell says that the gateways are to be told.  The body's "disabled"
\* is looked at by the statement only, and chosen there.
Request == [op : {"create", "update", "delete", "group", "extra"},
            uid : Uids, target : Uids, name : Names \cup {None}, tell : BOOLEAN]

ASSUME ConstantsOK ==
    /\ MaxUid \in Nat
    /\ MaxFaults \in Nat
    /\ None \notin Names \cup Row \cup Request
    /\ Faults \subseteq {"db", "gateway", "crash", "operator"}

VARIABLES
    rows,       \* the committed table rooms, by gateway_uid
    videorooms, \* on each gateway, the description of the room of a uid
    cache,      \* RoomCache: the name of the room cached for a gateway_uid
    pc,         \* where each request is
    req,        \* what it asks for
    pend,       \* the row version it has written and not committed
    todo,       \* the gateways it has yet to tell
    torn,       \* history: uids whose gateways and row a request has left apart
    stale,      \* history: uids whose entry a request left behind
    faults      \* history: how many faults so far

workVars == <<pc, req, pend, todo>>
vars == <<rows, videorooms, cache, workVars, torn, stale, faults>>

TypeOK ==
    /\ rows \in [Uids -> Row \cup {None}]
    /\ videorooms \in [Gateways -> [Uids -> Names \cup {None}]]
    /\ cache \in [Uids -> Names \cup {None}]
    /\ pc \in [Workers -> {"idle", "write", "gateways", "commit", "reload"}]
    /\ req \in [Workers -> Request \cup {None}]
    /\ pend \in [Workers -> Row \cup {None}]
    /\ todo \in [Workers -> SUBSET Gateways]
    /\ torn \in SUBSET Uids
    /\ stale \in SUBSET Uids
    /\ faults \in 0..MaxFaults
    /\ \A w \in Workers :
          /\ pc[w] = "idle" <=> req[w] = None
          /\ pend[w] # None => pc[w] \in {"gateways", "commit"}
          /\ todo[w] # {} => pc[w] = "gateways"

-----------------------------------------------------------------------------
(* The table and the cache *)

\* Rooms(name = n, gateway_uid # u).Exists
NameExists(n, u) == \E v \in Uids \ {u} : rows[v] # None /\ rows[v].name = n

\* "select coalesce(max(gateway_uid), 0) + 1": rows that are removed count.
NextUid ==
    CHOOSE u \in 1..(MaxUid + 1) :
        /\ \A v \in Uids : rows[v] # None => v < u
        /\ u = 1 \/ rows[u - 1] # None

\* FindRoom: by its id, which a room has as long as its uid.
FindRoom(u) == rows[u] # None

\* Rooms(disabled = false, removed_at IS NULL).All
AllLive == {u \in Uids : rows[u] # None /\ rows[u].status = "live"}

\* RoomCache.Reload
Loaded(u) == IF u \in AllLive THEN rows[u].name ELSE None

ByGatewayUID(u) == cache[u] # None

\* What the gateways should have for a version of a row.
Wanted(row) == IF row # None /\ row.status # "removed" THEN row.name ELSE None

Fault(kind) == kind \in Faults /\ faults < MaxFaults /\ faults' = faults + 1

Init ==
    /\ rows = [u \in Uids |-> None]
    /\ videorooms = [g \in Gateways |-> [u \in Uids |-> None]]
    /\ cache = [u \in Uids |-> None]
    /\ pc = [w \in Workers |-> "idle"]
    /\ req = [w \in Workers |-> None]
    /\ pend = [w \in Workers |-> None]
    /\ todo = [w \in Workers |-> {}]
    /\ torn = {} /\ stale = {} /\ faults = 0

-----------------------------------------------------------------------------
(* Requests come in: what each checks before its transaction *)

Begin(w, r) ==
    /\ pc[w] = "idle"
    /\ pc' = [pc EXCEPT ![w] = "write"]
    /\ req' = [req EXCEPT ![w] = r]
    /\ UNCHANGED <<rows, videorooms, cache, pend, todo, torn, stale>>

\* "exists, _ := ...": when the query fails the check is passed.
Check(passed) == (passed /\ UNCHANGED faults) \/ Fault("db")

\* A uid of "0" asks for the next one; another must not be in the cache.
AdminCreateRoom(w) ==
    \E n \in Names, u \in Uids :
        /\ u = NextUid \/ ~ByGatewayUID(u)
        /\ Check(\A v \in Uids : rows[v] # None => rows[v].name # n)
        /\ Begin(w, [op |-> "create", uid |-> u, target |-> u, name |-> n, tell |-> TRUE])

\* shouldUpdateGateways is computed from the row as it was found here.
AdminUpdateRoom(w) ==
    \E u \in Uids, t \in Uids, n \in Names :
        /\ FindRoom(u)
        /\ Check((t = u \/ rows[t] = None) /\ ~NameExists(n, u))
        /\ Begin(w, [op |-> "update", uid |-> u, target |-> t, name |-> n,
                     tell |-> rows[u].name # n /\ rows[u].status # "removed"])

\* A room that was removed already is not looked for.
AdminDeleteRoom(w) ==
    \E u \in Uids :
        /\ FindRoom(u)
        /\ Begin(w, [op |-> "delete", uid |-> u, target |-> u, name |-> None, tell |-> TRUE])
        /\ UNCHANGED faults

V1CreateGroup(w) ==
    \E u \in Uids, n \in Names :
        /\ Begin(w, [op |-> "group", uid |-> u, target |-> u, name |-> n, tell |-> FALSE])
        /\ UNCHANGED faults

\* The cached room is held by its pointer.  Its new Extra is assigned there,
\* without a lock and before the transaction; nothing reads it from there.
V1UpdateRoom(w) ==
    \E u \in Uids :
        /\ ByGatewayUID(u)
        /\ Begin(w, [op |-> "extra", uid |-> u, target |-> u, name |-> None, tell |-> FALSE])
        /\ UNCHANGED faults

-----------------------------------------------------------------------------
(* The transaction's statement *)

\* Another transaction has the row, or an uncommitted claim on the name.
Waits(w) ==
    \E v \in Workers \ {w} :
        /\ pend[v] # None
        /\ \/ req[v].uid = req[w].uid
           \/ pend[v].name = req[w].name
           \/ rows[req[v].uid] # None /\ rows[req[v].uid].name = req[w].name

\* A unique index refuses the statement.
Conflict(w) ==
    \/ req[w].op = "create" /\ rows[req[w].uid] # None
    \/ req[w].op \in {"create", "update", "group"} /\ NameExists(req[w].name, req[w].uid)

\* cache.gateways.Values(), but for those that are skipped.
GatewaysToTell(w) == IF req[w].tell THEN Gateways ELSE {}

Write(w, row) ==
    /\ pc[w] = "write" /\ ~Waits(w) /\ ~Conflict(w)
    /\ pend' = [pend EXCEPT ![w] = row]
    /\ pc' = [pc EXCEPT ![w] =
                 IF GatewaysToTell(w) # {} THEN "gateways" ELSE "commit"]
    /\ todo' = [todo EXCEPT ![w] = GatewaysToTell(w)]
    /\ UNCHANGED <<rows, videorooms, req, torn, stale, faults>>

Statuses == {"live", "disabled"}     \* of rooms that are not removed

\* data.Insert, columns name, default_gateway_id, gateway_uid, disabled, region
InsertRoom(w) ==
    /\ pc[w] = "write" /\ req[w].op = "create"
    /\ \E s \in Statuses : Write(w, [name |-> req[w].name, status |-> s])
    /\ UNCHANGED cache

\* room.Update, columns name, default_gateway_id, disabled, region, updated_at
UpdateRoom(w) ==
    /\ pc[w] = "write" /\ req[w].op = "update"
    /\ \E s \in IF rows[req[w].uid].status = "removed" THEN {"removed"} ELSE Statuses :
           Write(w, [name |-> req[w].name, status |-> s])
    /\ UNCHANGED cache

\* room.Update, column removed_at
RemoveRoom(w) ==
    /\ pc[w] = "write" /\ req[w].op = "delete"
    /\ Write(w, [name |-> rows[req[w].uid].name, status |-> "removed"])
    /\ UNCHANGED cache

\* room.Upsert on gateway_uid: every column but the id is set, those the
\* request has no value for to their defaults.  Then cache.rooms.Set.
UpsertRoom(w) ==
    /\ pc[w] = "write" /\ req[w].op = "group"
    /\ Write(w, [name |-> req[w].name, status |-> "live"])
    /\ cache' = [cache EXCEPT ![req[w].uid] = req[w].name]

\* room.Update, column extra, by the id of the cached room: none has it when
\* that room is a group whose transaction was rolled back.
UpdateExtra(w) ==
    /\ pc[w] = "write" /\ req[w].op = "extra"
    /\ \E row \in {rows[req[w].uid], None} : Write(w, row)
    /\ UNCHANGED cache

-----------------------------------------------------------------------------
(* The end of a transaction *)

\* mutant: the transaction is not ended.
ClearKeepsLocks(w) ==
    /\ pc' = [pc EXCEPT ![w] = "idle"]
    /\ req' = [req EXCEPT ![w] = None]
    /\ todo' = [todo EXCEPT ![w] = {}]
    /\ UNCHANGED pend

Clear(w) ==
    /\ pc' = [pc EXCEPT ![w] = "idle"]
    /\ req' = [req EXCEPT ![w] = None]
    /\ pend' = [pend EXCEPT ![w] = None]
    /\ todo' = [todo EXCEPT ![w] = {}]

Concerned(w) == {req[w].uid, req[w].target}

InFlight(u) == \E w \in Workers : req[w] # None /\ u \in Concerned(w)

\* It has told a gateway, and not committed.
HasTold(w) == pc[w] \in {"gateways", "commit"} /\ req[w].tell /\ todo[w] # Gateways

Agree(u) == \A g \in Gateways : videorooms[g][u] = Wanted(rows[u])

\* The history: a room that is as it should be again is no longer torn.
Tear(us) == torn' = {u \in torn \cup us : InFlight(u)' \/ ~Agree(u)'}
Leave(us) == stale' = {u \in stale \cup us : InFlight(u)' \/ (cache[u] # Loaded(u))'}

\* Nothing is undone but the row: not what the gateways did that were told,
\* and not the cache entry of a group.
Rollback(w, told) ==
    /\ Clear(w)
    /\ UNCHANGED <<rows, cache>>
    /\ Tear(IF told THEN Concerned(w) ELSE {})
    /\ Leave(IF req[w].op = "group" /\ pend[w] # None THEN {req[w].uid} ELSE {})

RefuseWrite(w) ==
    /\ pc[w] = "write" /\ ~Waits(w) /\ Conflict(w)
    /\ UNCHANGED <<videorooms, faults>>
    /\ Rollback(w, FALSE)

WriteFails(w) ==
    /\ pc[w] = "write" /\ Fault("db")
    /\ UNCHANGED videorooms
    /\ Rollback(w, FALSE)

\* Janus refuses to create a room that exists, and to edit or destroy one
\* that does not.
Accepts(w, g) ==
    IF req[w].op = "create" THEN videorooms[g][req[w].target] = None
                            ELSE videorooms[g][req[w].target] # None

\* A deletion names no name.
DoAsTold(w, g) == videorooms' = [videorooms EXCEPT ![g][req[w].target] = req[w].name]

NextGateway(w, g) ==
    /\ todo' = [todo EXCEPT ![w] = @ \ {g}]
    /\ pc' = [pc EXCEPT ![w] = IF todo[w] = {g} THEN "commit" ELSE @]
    /\ UNCHANGED <<rows, cache, req, pend, torn, stale>>

MessagePlugin(w, g) ==
    /\ pc[w] = "gateways" /\ g \in todo[w]
    /\ Accepts(w, g) /\ DoAsTold(w, g)
    /\ NextGateway(w, g)
    /\ UNCHANGED faults

GatewayRefuses(w, g) ==
    /\ pc[w] = "gateways" /\ g \in todo[w] /\ ~Accepts(w, g)
    /\ UNCHANGED <<videorooms, faults>>
    /\ Rollback(w, HasTold(w))

\* mutant: an error of MessagePlugin is logged and the next gateway is told.
CallFailsGoesOn(w, g) ==
    /\ pc[w] = "gateways" /\ g \in todo[w] /\ Fault("gateway")
    /\ NextGateway(w, g)
    /\ UNCHANGED videorooms

\* The call does not reach the gateway, or its answer does not come back.
CallFails(w, g) ==
    /\ pc[w] = "gateways" /\ g \in todo[w] /\ Fault("gateway")
    /\ (Accepts(w, g) /\ DoAsTold(w, g)) \/ UNCHANGED videorooms
    /\ Rollback(w, TRUE)

Stored(w) == IF pend[w] = None THEN rows ELSE [rows EXCEPT ![req[w].uid] = pend[w]]

\* What a commit leaves apart: it told the gateways of another room, or told
\* them nothing of a change.
Untold(w) ==
    IF req[w].tell /\ req[w].target = req[w].uid THEN {}
    ELSE IF req[w].tell \/ Wanted(rows[req[w].uid]) # Wanted(Stored(w)[req[w].uid])
         THEN Concerned(w) ELSE {}

AdminOps == {"create", "update", "delete"}

\* mutant: the administrator's operations do not reload the cache.
CommitNoReload(w) ==
    /\ pc[w] = "commit"
    /\ rows' = Stored(w)
    /\ Clear(w)
    /\ UNCHANGED <<videorooms, cache, faults>>
    /\ Tear(Untold(w)) /\ Leave({})

Commit(w) ==
    /\ pc[w] = "commit"
    /\ rows' = Stored(w)
    /\ IF req[w].op \in AdminOps
       THEN /\ pc' = [pc EXCEPT ![w] = "reload"]
            /\ pend' = [pend EXCEPT ![w] = None]
            /\ UNCHANGED <<req, todo>>
       ELSE Clear(w)
    /\ UNCHANGED <<videorooms, cache, faults>>
    /\ Tear(Untold(w))
    /\ Leave(IF req[w].op = "group" THEN {req[w].uid} ELSE {})

\* COMMIT fails, before or after the server has done it.
CommitFails(w) ==
    /\ pc[w] = "commit" /\ Fault("db")
    /\ Clear(w)
    /\ rows' \in {rows, Stored(w)}
    /\ UNCHANGED <<videorooms, cache>>
    /\ Tear(Concerned(w)) /\ Leave({req[w].uid})

\* cache.rooms.Reload, with the cache's lock held over the query.
Reload(w) ==
    /\ pc[w] = "reload"
    /\ cache' = [u \in Uids |-> Loaded(u)]
    /\ Clear(w)
    /\ UNCHANGED <<rows, videorooms, faults>>
    /\ Tear({}) /\ Leave({})

\* The error is logged, and the request answered as done.
ReloadFails(w) ==
    /\ pc[w] = "reload" /\ Fault("db")
    /\ Clear(w)
    /\ UNCHANGED <<rows, videorooms, cache>>
    /\ Tear({}) /\ Leave({req[w].uid})

-----------------------------------------------------------------------------
(* The process and the operator *)

\* The process ends, its transactions with it, and is started again.
Restart ==
    /\ Fault("crash")
    /\ cache' = [u \in Uids |-> Loaded(u)]
    /\ pc' = [w \in Workers |-> "idle"]
    /\ req' = [w \in Workers |-> None]
    /\ pend' = [w \in Workers |-> None]
    /\ todo' = [w \in Workers |-> {}]
    /\ UNCHANGED <<rows, videorooms>>
    /\ Tear(UNION {Concerned(w) : w \in {v \in Workers : pc[v] # "idle" /\ HasTold(v)}})
    /\ Leave({})

\* mutant: janus-config leaves disabled rooms out.
RegenerateEnabled(g) ==
    /\ \A w \in Workers : pc[w] = "idle"
    /\ Fault("operator")
    /\ videorooms' = [videorooms EXCEPT ![g] = [u \in Uids |->
                         Loaded(u)]]
    /\ UNCHANGED <<rows, cache, workVars, stale>>
    /\ Tear({})

\* janus-config writes a gateway's rooms anew from the rows that are not
\* removed, and the gateway is restarted on them, in a quiet hour.
Regenerate(g) ==
    /\ \A w \in Workers : pc[w] = "idle"
    /\ Fault("operator")
    /\ videorooms' = [videorooms EXCEPT ![g] = [u \in Uids |-> Wanted(rows[u])]]
    /\ UNCHANGED <<rows, cache, workVars, stale>>
    /\ Tear({})

-----------------------------------------------------------------------------

Arrive(w) ==
    \/ AdminCreateRoom(w) \/ AdminUpdateRoom(w) \/ AdminDeleteRoom(w)
    \/ V1CreateGroup(w) \/ V1UpdateRoom(w)

Statement(w) ==
    \/ InsertRoom(w) \/ UpdateRoom(w) \/ RemoveRoom(w)
    \/ UpsertRoom(w) \/ UpdateExtra(w) \/ RefuseWrite(w) \/ WriteFails(w)

Tell(w) ==
    \E g \in Gateways : MessagePlugin(w, g) \/ GatewayRefuses(w, g) \/ CallFails(w, g)

Finish(w) == Commit(w) \/ CommitFails(w) \/ Reload(w) \/ ReloadFails(w)

Next ==
    \/ \E w \in Workers : Arrive(w) \/ Statement(w) \/ Tell(w) \/ Finish(w)
    \/ Restart
    \/ \E g \in Gateways : Regenerate(g)

Spec == Init /\ [][Next]_vars

-----------------------------------------------------------------------------
(* Properties *)

\* The table and the gateways agree on which rooms there are and what they
\* are called, but for the rooms that a request has left apart: one that failed
\* half way, one that told the gateways nothing, one whose commit failed.
GatewaysAgree == \A u \in Uids : u \in torn \/ InFlight(u) \/ Agree(u)

\* Requests find a room exactly when its row is live, by its id and name,
\* but for what the failures that leave an entry behind explain: a reload that
\* failed, a group whose commit failed, a group entered between another
\* request's commit and reload.
CacheFollows ==
    \A u \in Uids : u \in stale \/ InFlight(u) \/ cache[u] = Loaded(u)

\* A creation is answered as done only when the room is on every gateway, and
\* a deletion only when it is on none, whoever else was at work on it.
AnsweredEverywhere ==
    [][\A w \in Workers :
          pc[w] = "commit" /\ pc'[w] = "reload" =>
             \A g \in Gateways :
                /\ req[w].op = "create" => videorooms[g][req[w].uid] # None
                /\ req[w].op = "delete" => videorooms[g][req[w].uid] = None]_vars
==============================================================================
