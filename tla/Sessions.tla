------------------------------ MODULE Sessions ------------------------------
(***************************************************************************)
(* The session registry of gxydb-api: V1SessionManager with the periodic   *)
(* session cleaner (api/session.go), the transaction wrapper they run      *)
(* under (pkg/sqlutil/tx.go), the user cache (api/cache.go) and the tables *)
(* users and sessions.                                                     *)
(*                                                                         *)
(* A worker is one HTTP request being handled; the cleaner is the one      *)
(* goroutine behind its ticker.  Each runs one PostgreSQL transaction at   *)
(* the default isolation level, READ COMMITTED: a statement reads what is  *)
(* committed when it starts, a row it writes stays locked until the        *)
(* transaction ends, and an UPDATE that had to wait for a row re-evaluates *)
(* its WHERE clause on the version it then finds.                          *)
(***************************************************************************)
EXTENDS Naturals, FiniteSets

CONSTANTS
    Workers,    \* requests that may be in flight at the same time
    Cleaner,    \* the cleaner's goroutine
    Users,      \* users, named by accounts_id
    Handles,    \* the (gateway_id, gateway_session) pairs a client connects by
    Ids,        \* users.id, a serial: an id is never given out twice
    None,       \* SQL NULL, a cache miss, no request
    CleanerOn,  \* CleanSessionsInterval > 0
    Faults      \* what may go wrong or change outside this code

Keys == Users \X Handles          \* UNIQUE (user_id, gateway_id, gateway_session)
Txs == Workers \cup {Cleaner}

(***************************************************************************)
(* A row of sessions: "absent", not inserted yet; removed_at IS NULL is    *)
(* "dead" when updated_at is older than DeadSessionPeriod and "active"     *)
(* when it is not; otherwise "removed".  The marks that close and clean    *)
(* leave in properties are read by the cleaner's log report only, and are  *)
(* left out with the columns that describe the client.                     *)
(***************************************************************************)
RowState == {"absent", "active", "dead", "removed"}

Open == {"active", "dead"}        \* removed_at IS NULL

User == [id : Ids \cup {None}, disabled : BOOLEAN]   \* no id: no row of users

\* handle is None for a "leave": the event names the user only.  known says
\* that the room and the gateway of the message are in the caches.
Request == [op : {"enter", "update", "leave"}, user : Users,
            handle : Handles \cup {None}, known : BOOLEAN]

ASSUME ConstantsOK ==
    /\ Cleaner \notin Workers
    /\ None \notin Ids \cup RowState \cup Request \cup Handles
    /\ CleanerOn \in BOOLEAN
    /\ Faults \subseteq {"db", "crash", "evict", "disable"}

VARIABLES
    rows,       \* the committed table sessions, by key
    users,      \* the committed table users, by accounts_id
    cache,      \* UserCache: the id cached for an accounts_id
    barred,     \* history: users that were disabled when the process started
    pc,         \* where each transaction is
    req,        \* the request a worker handles
    uid,        \* the user id getInternalUserID returned
    inserted,   \* the id of the users row the transaction has inserted
    todo,       \* rows the current UPDATE statement has yet to reach
    pend,       \* row versions written and not committed: the row locks
    alone       \* history: no other request of the user overlapped this one

dbVars == <<rows, users>>
wVars  == <<req, uid, inserted, alone>>
txVars == <<pc, todo, pend>>
vars   == <<rows, users, cache, barred, pc, req, uid, inserted, todo, pend, alone>>

Locations == {"idle", "lookup", "insert", "close", "closing", "upsert", "commit"}

TypeOK ==
    /\ rows \in [Keys -> RowState]
    /\ users \in [Users -> User]
    /\ cache \in [Users -> Ids \cup {None}]
    /\ barred \in SUBSET Users
    /\ pc \in [Txs -> Locations]
    /\ req \in [Workers -> Request \cup {None}]
    /\ uid \in [Workers -> Ids \cup {None}]
    /\ inserted \in [Workers -> Ids \cup {None}]
    /\ todo \in [Txs -> SUBSET Keys]
    /\ pend \in [Txs -> [Keys -> {"active", "removed", None}]]
    /\ alone \in [Workers -> BOOLEAN]
    /\ \A w \in Workers : pc[w] = "idle" <=> req[w] = None

-----------------------------------------------------------------------------

NoWrites == [k \in Keys |-> None]

Registered(u) == users[u].id # None

Enabled(u) == Registered(u) /\ ~users[u].disabled

LoadedUsersUnfiltered ==             \* mutant: Reload forgets disabled = false
    [u \in Users |-> users[u].id]

\* UserCache.Reload: enabled users only; that it stops at 500 is an eviction.
LoadedUsers == [u \in Users |-> IF Enabled(u) THEN users[u].id ELSE None]

Init ==
    /\ rows = [k \in Keys |-> "absent"]
    /\ users \in [Users -> User]
    /\ \A u \in Users : users[u].disabled => Registered(u)
    /\ \A u, v \in Users : u # v /\ Registered(u) => users[u].id # users[v].id
    /\ cache = LoadedUsers
    /\ barred = {u \in Users : Registered(u) /\ ~Enabled(u)}
    /\ pc = [t \in Txs |-> "idle"]
    /\ req = [w \in Workers |-> None]
    /\ uid = [w \in Workers |-> None]
    /\ inserted = [w \in Workers |-> None]
    /\ todo = [t \in Txs |-> {}]
    /\ pend = [t \in Txs |-> NoWrites]
    /\ alone = [w \in Workers |-> FALSE]

Serves(w, u) == pc[w] # "idle" /\ req[w].user = u

\* No other transaction holds the row lock of k.
Free(t, k) == \A x \in Txs \ {t} : pend[x][k] = None

EndTx(w) ==
    /\ pc' = [pc EXCEPT ![w] = "idle"]
    /\ todo' = [todo EXCEPT ![w] = {}]
    /\ pend' = [pend EXCEPT ![w] = NoWrites]
    /\ req' = [req EXCEPT ![w] = None]
    /\ uid' = [uid EXCEPT ![w] = None]
    /\ inserted' = [inserted EXCEPT ![w] = None]
    /\ alone' = [alone EXCEPT ![w] = FALSE]

RollbackKeepsRequest(w) ==           \* mutant: the request outlives its transaction
    /\ pc' = [pc EXCEPT ![w] = "idle"]
    /\ todo' = [todo EXCEPT ![w] = {}]
    /\ pend' = [pend EXCEPT ![w] = NoWrites]
    /\ uid' = [uid EXCEPT ![w] = None]
    /\ inserted' = [inserted EXCEPT ![w] = None]
    /\ alone' = [alone EXCEPT ![w] = FALSE]
    /\ UNCHANGED <<dbVars, req>>

\* InTx on an error of its function.  What the function put in the cache stays.
Rollback(w) == EndTx(w) /\ UNCHANGED dbVars

-----------------------------------------------------------------------------
(* Requests come in *)

Begin(w, r) ==
    /\ pc[w] = "idle"
    /\ pc' = [pc EXCEPT ![w] = "lookup"]
    /\ req' = [req EXCEPT ![w] = r]
    /\ alone' = [v \in Workers |->
                    IF v = w THEN \A x \in Workers : ~Serves(x, r.user)
                             ELSE alone[v] /\ ~Serves(v, r.user)]
    /\ UNCHANGED <<dbVars, cache, barred, uid, inserted, todo, pend>>

\* A gateway reports "leaving", "kicked" or "unpublished".
HandleEvent(w) ==
    \E u \in Users :
        Begin(w, [op |-> "leave", user |-> u, handle |-> None, known |-> TRUE])

\* A protocol message of type "enter"; or "question", "camera", "sound-test".
HandleProtocol(w) ==
    \E type \in {"enter", "update"}, u \in Users, h \in Handles, b \in BOOLEAN :
        Begin(w, [op |-> type, user |-> u, handle |-> h, known |-> b])

\* PUT /users/{id}: the client reports its state.
UpdateSession(w) ==
    \E u \in Users, h \in Handles, b \in BOOLEAN :
        Begin(w, [op |-> "update", user |-> u, handle |-> h, known |-> b])

-----------------------------------------------------------------------------
(* getInternalUserID *)

AfterLookupNoClose(w) ==             \* mutant: enter does not close what exists
    IF req[w].op = "leave" THEN "close" ELSE "upsert"

AfterLookupCloses(w) == "close"      \* mutant: every request closes what exists

AfterLookup(w) == IF req[w].op = "update" THEN "upsert" ELSE "close"

CacheHit(w) ==
    LET u == req[w].user IN
    /\ pc[w] = "lookup" /\ cache[u] # None
    /\ uid' = [uid EXCEPT ![w] = cache[u]]
    /\ pc' = [pc EXCEPT ![w] = AfterLookup(w)]
    /\ UNCHANGED <<dbVars, cache, barred, req, inserted, todo, pend, alone>>

FetchUser(w) ==
    LET u == req[w].user IN
    /\ pc[w] = "lookup" /\ cache[u] = None /\ Enabled(u)
    /\ cache' = [cache EXCEPT ![u] = users[u].id]
    /\ uid' = [uid EXCEPT ![w] = users[u].id]
    /\ pc' = [pc EXCEPT ![w] = AfterLookup(w)]
    /\ UNCHANGED <<dbVars, barred, req, inserted, todo, pend, alone>>

LeaveOfDisabledFails(w) ==           \* mutant: leave does not ignore ProtocolError
    LET u == req[w].user IN
    /\ pc[w] = "lookup" /\ cache[u] = None /\ Registered(u) /\ users[u].disabled
    /\ req[w].op = "leave"
    /\ Rollback(w)
    /\ UNCHANGED <<cache, barred>>

\* A disabled user is a ProtocolError, but onVideoroomLeaving ignores it.
LeaveOfDisabled(w) ==
    LET u == req[w].user IN
    /\ pc[w] = "lookup" /\ cache[u] = None /\ Registered(u) /\ users[u].disabled
    /\ req[w].op = "leave"
    /\ uid' = [uid EXCEPT ![w] = users[u].id]
    /\ pc' = [pc EXCEPT ![w] = "close"]
    /\ UNCHANGED <<dbVars, cache, barred, req, inserted, todo, pend, alone>>

RejectDisabled(w) ==
    LET u == req[w].user IN
    /\ pc[w] = "lookup" /\ cache[u] = None /\ Registered(u) /\ users[u].disabled
    /\ req[w].op # "leave"
    /\ Rollback(w)
    /\ UNCHANGED <<cache, barred>>

MissUser(w) ==
    LET u == req[w].user IN
    /\ pc[w] = "lookup" /\ cache[u] = None /\ ~Registered(u)
    /\ pc' = [pc EXCEPT ![w] = "insert"]
    /\ UNCHANGED <<dbVars, cache, barred, wVars, todo, pend>>

\* An id nothing refers to any more may stand for the next value of the serial.
UsedIds == {users[u].id : u \in Users} \cup {cache[u] : u \in Users}
             \cup {uid[w] : w \in Workers} \cup {inserted[w] : w \in Workers}

\* The unique index on accounts_id makes an INSERT wait for another
\* transaction's uncommitted row of the same user.
InsertTurn(w) ==
    \A v \in Workers \ {w} : Serves(v, req[w].user) => inserted[v] = None

\* The new user is cached at once, before its transaction commits.
InsertUser(w) ==
    LET u == req[w].user IN
    /\ pc[w] = "insert" /\ InsertTurn(w) /\ ~Registered(u)
    /\ \E i \in Ids \ UsedIds :
           /\ inserted' = [inserted EXCEPT ![w] = i]
           /\ uid' = [uid EXCEPT ![w] = i]
           /\ cache' = [cache EXCEPT ![u] = i]
    /\ pc' = [pc EXCEPT ![w] = AfterLookup(w)]
    /\ UNCHANGED <<dbVars, barred, req, todo, pend, alone>>

InsertConflictCached(w) ==           \* mutant: Set comes before the error is seen
    LET u == req[w].user IN
    /\ pc[w] = "insert" /\ InsertTurn(w) /\ Registered(u)
    /\ \E i \in Ids \ UsedIds : cache' = [cache EXCEPT ![u] = i]
    /\ Rollback(w)
    /\ UNCHANGED barred

\* Another request registered the user first: the INSERT breaks UNIQUE.
InsertConflict(w) ==
    /\ pc[w] = "insert" /\ InsertTurn(w) /\ Registered(req[w].user)
    /\ Rollback(w)
    /\ UNCHANGED <<cache, barred>>

-----------------------------------------------------------------------------
(* closeSession: one UPDATE of every active session of the user id *)

AfterClose(w) == IF req[w].op = "enter" THEN "upsert" ELSE "commit"

\* The rows the UPDATE sees; an id no committed user has matches none.
SessionsToClose(w) ==
    {k \in Keys : /\ k[1] = req[w].user
                  /\ users[k[1]].id = uid[w]
                  /\ rows[k] \in Open}

CloseStart(w) ==
    /\ pc[w] = "close"
    /\ todo' = [todo EXCEPT ![w] = SessionsToClose(w)]
    /\ pc' = [pc EXCEPT ![w] = IF SessionsToClose(w) = {} THEN AfterClose(w)
                                                         ELSE "closing"]
    /\ UNCHANGED <<dbVars, cache, barred, wVars, pend>>

\* The UPDATE reaches a row, in any order: removed_at IS NULL is evaluated again.
CloseRow(w) ==
    /\ pc[w] = "closing"
    /\ \E k \in todo[w] :
           /\ Free(w, k)
           /\ pend' = [pend EXCEPT ![w][k] =
                          IF rows[k] \in Open THEN "removed" ELSE @]
           /\ todo' = [todo EXCEPT ![w] = @ \ {k}]
           /\ pc' = [pc EXCEPT ![w] = IF todo[w] = {k} THEN AfterClose(w) ELSE @]
    /\ UNCHANGED <<dbVars, cache, barred, wVars>>

-----------------------------------------------------------------------------
(* makeSession and the upsert *)

\* makeSession: the room or the gateway is not in the caches, a ProtocolError.
RejectUnknown(w) ==
    /\ pc[w] = "upsert" /\ ~req[w].known
    /\ Rollback(w)
    /\ UNCHANGED <<cache, barred>>

ForeignKeyUnchecked(w) == uid[w] # None     \* mutant: user_id is no foreign key

\* The id is that of a committed user, or of the row this transaction inserted.
ForeignKeyHolds(w) == uid[w] \in {users[req[w].user].id, inserted[w]}

BreakForeignKey(w) ==
    /\ pc[w] = "upsert" /\ req[w].known /\ ~ForeignKeyHolds(w)
    /\ Rollback(w)
    /\ UNCHANGED <<cache, barred>>

KeyOf(w) == <<req[w].user, req[w].handle>>

\* INSERT or, ON CONFLICT, UPDATE: either way the row ends up with the
\* updated_at of now and, an old row that was removed too, no removed_at.
UpsertSession(w) ==
    /\ pc[w] = "upsert" /\ req[w].known /\ ForeignKeyHolds(w) /\ Free(w, KeyOf(w))
    /\ pend' = [pend EXCEPT ![w][KeyOf(w)] = "active"]
    /\ pc' = [pc EXCEPT ![w] = "commit"]
    /\ UNCHANGED <<dbVars, cache, barred, wVars, todo>>

-----------------------------------------------------------------------------
(* The end of a transaction *)

Written(t) == [k \in Keys |-> IF pend[t][k] = None THEN rows[k] ELSE pend[t][k]]

Commit(w) ==
    /\ pc[w] = "commit"
    /\ rows' = Written(w)
    /\ users' = IF inserted[w] = None THEN users
                ELSE [users EXCEPT ![req[w].user] =
                          [id |-> inserted[w], disabled |-> FALSE]]
    /\ EndTx(w)
    /\ UNCHANGED <<cache, barred>>

\* Any statement, or the commit, may fail.
DbError(w) ==
    /\ "db" \in Faults /\ pc[w] # "idle"
    /\ Rollback(w)
    /\ UNCHANGED <<cache, barred>>

-----------------------------------------------------------------------------
(* PeriodicSessionCleaner.clean *)

DeadSessionsOfEnabled ==             \* mutant: disabled users are left out
    {k \in Keys : rows[k] = "dead" /\ Enabled(k[1])}

DeadSessions == {k \in Keys : rows[k] = "dead"}

\* The dead sessions are fetched outside the transaction that removes them.
CleanFetch ==
    /\ CleanerOn /\ pc[Cleaner] = "idle" /\ DeadSessions # {}
    /\ todo' = [todo EXCEPT ![Cleaner] = DeadSessions]
    /\ pc' = [pc EXCEPT ![Cleaner] = "closing"]
    /\ UNCHANGED <<dbVars, cache, barred, wVars, pend>>

\* WHERE id = ANY(ids): neither removed_at nor updated_at is looked at again.
CleanRow ==
    /\ pc[Cleaner] = "closing"
    /\ \E k \in todo[Cleaner] :
           /\ Free(Cleaner, k)
           /\ pend' = [pend EXCEPT ![Cleaner][k] = "removed"]
           /\ todo' = [todo EXCEPT ![Cleaner] = @ \ {k}]
           /\ pc' = [pc EXCEPT ![Cleaner] =
                        IF todo[Cleaner] = {k} THEN "commit" ELSE @]
    /\ UNCHANGED <<dbVars, cache, barred, wVars>>

EndCleanKeepsLocks ==                \* mutant: its transaction is never ended
    /\ pc' = [pc EXCEPT ![Cleaner] = "idle"]
    /\ todo' = [todo EXCEPT ![Cleaner] = {}]
    /\ UNCHANGED <<users, cache, barred, wVars, pend>>

EndClean ==
    /\ pc' = [pc EXCEPT ![Cleaner] = "idle"]
    /\ todo' = [todo EXCEPT ![Cleaner] = {}]
    /\ pend' = [pend EXCEPT ![Cleaner] = NoWrites]
    /\ UNCHANGED <<users, cache, barred, wVars>>

CleanCommit ==
    /\ pc[Cleaner] = "commit"
    /\ rows' = Written(Cleaner)
    /\ EndClean

CleanError ==
    /\ "db" \in Faults /\ pc[Cleaner] # "idle"
    /\ EndClean /\ UNCHANGED rows

-----------------------------------------------------------------------------
(* The world outside *)

\* The rows t cannot get on without.
Wanted(t) == IF pc[t] = "closing" THEN todo[t]
             ELSE IF pc[t] = "upsert" /\ req[t].known /\ ForeignKeyHolds(t)
                  THEN {KeyOf(t)} ELSE {}

WaitsFor(t) == IF \E k \in Wanted(t) : Free(t, k) THEN {}
               ELSE {x \in Txs \ {t} : \E k \in Wanted(t) : pend[x][k] # None}

InDeadlock(t) ==
    \E S \in SUBSET Txs :
        /\ t \in S
        /\ \A x \in S : WaitsFor(x) \cap S # {} /\ \E y \in S : x \in WaitsFor(y)

\* PostgreSQL aborts one transaction of a cycle of waits.
AbortWorker(w) ==
    /\ InDeadlock(w)
    /\ Rollback(w)
    /\ UNCHANGED <<cache, barred>>

AbortCleaner ==
    /\ InDeadlock(Cleaner)
    /\ EndClean /\ UNCHANGED rows

\* DeadSessionPeriod passes without an upsert of the session.
Age(k) ==
    /\ rows[k] = "active"
    /\ rows' = [rows EXCEPT ![k] = "dead"]
    /\ UNCHANGED <<users, cache, barred, wVars, txVars>>

\* The ARC cache drops an entry.
Evict(u) ==
    /\ "evict" \in Faults /\ cache[u] # None
    /\ cache' = [cache EXCEPT ![u] = None]
    /\ UNCHANGED <<dbVars, barred, wVars, txVars>>

\* An operator sets users.disabled by hand: the API has no operation for it.
DisableUser(u) ==
    /\ "disable" \in Faults /\ Enabled(u)
    /\ users' = [users EXCEPT ![u].disabled = TRUE]
    /\ UNCHANGED <<rows, cache, barred, wVars, txVars>>

\* The process dies and starts again: open transactions roll back and
\* AppCache.ReloadAll fills the cache.
Restart ==
    /\ "crash" \in Faults
    /\ cache' = LoadedUsers
    /\ barred' = {u \in Users : Registered(u) /\ ~Enabled(u)}
    /\ pc' = [t \in Txs |-> "idle"]
    /\ req' = [w \in Workers |-> None]
    /\ uid' = [w \in Workers |-> None]
    /\ inserted' = [w \in Workers |-> None]
    /\ todo' = [t \in Txs |-> {}]
    /\ pend' = [t \in Txs |-> NoWrites]
    /\ alone' = [w \in Workers |-> FALSE]
    /\ UNCHANGED dbVars

-----------------------------------------------------------------------------

Receive(w) == HandleEvent(w) \/ HandleProtocol(w) \/ UpdateSession(w)

\* The steps of a request that need no lock, and those that may wait for one.
Step(w) ==
    \/ CacheHit(w) \/ FetchUser(w) \/ LeaveOfDisabled(w) \/ RejectDisabled(w)
    \/ MissUser(w)
    \/ CloseStart(w) \/ RejectUnknown(w) \/ BreakForeignKey(w) \/ Commit(w)

LockStep(w) ==
    InsertUser(w) \/ InsertConflict(w) \/ CloseRow(w) \/ UpsertSession(w)

Clean == CleanFetch \/ CleanRow \/ CleanCommit \/ CleanError \/ AbortCleaner

Environment ==
    \/ \E k \in Keys : Age(k)
    \/ \E u \in Users : Evict(u) \/ DisableUser(u)
    \/ Restart

Next ==
    \/ \E w \in Workers :
           Receive(w) \/ Step(w) \/ LockStep(w) \/ DbError(w) \/ AbortWorker(w)
    \/ Clean
    \/ Environment

Spec == Init /\ [][Next]_vars

(***************************************************************************)
(* Goroutines are scheduled and the ticker keeps ticking (weak fairness of *)
(* the steps that wait for nothing).  PostgreSQL queues the transactions   *)
(* that wait for a row and hands it to each in turn, however often others  *)
(* take it in between (strong fairness), resolves deadlocks, and time      *)
(* passes.  Requests, faults and restarts are never forced to happen.      *)
(***************************************************************************)
Fairness ==
    /\ \A w \in Workers : /\ WF_vars(Step(w))
                          /\ SF_vars(LockStep(w))
                          /\ WF_vars(AbortWorker(w))
    /\ WF_vars(CleanFetch) /\ SF_vars(CleanRow) /\ WF_vars(CleanCommit)
    /\ \A k \in Keys : WF_vars(Age(k))

FairSpec == Spec /\ Fairness

-----------------------------------------------------------------------------
(* What the registry promises *)

\* The id cached for a user, if any, is the id of the user's committed row: a
\* request served from the cache never writes under another id, whatever
\* races, rollbacks and evictions came between (getInternalUserID).
CacheAgrees ==
    \A u \in Users : cache[u] # None /\ Registered(u) => cache[u] = users[u].id

OpenIn(table, u) == {k \in Keys : k[1] = u /\ table[k] \in Open}

\* When no other request of the user overlapped an "enter" that commits, its
\* session is the only open one of the user, however many there were
\* ("close existing sessions if any", onProtocolEnter).
SoleSessionAfterEnter ==
    [][\A w \in Workers :
           Commit(w) /\ alone[w] /\ req[w].op = "enter"
               => OpenIn(rows', req[w].user) = {KeyOf(w)}]_vars

\* A "leave" no other request of the user overlapped leaves no session of the
\* user open, a disabled user's neither ("we ignore ProtocolError here so
\* that we could close sessions for disabled users", onVideoroomLeaving).
\* Only a transaction that PostgreSQL kills, or that dies with the process, may
\* end without that.  For instances without "db".
NoSessionAfterLeave ==
    [][\A w \in Workers :
           /\ pc[w] # "idle" /\ pc'[w] = "idle" /\ ~Restart
           /\ alone[w] /\ req[w].op = "leave" /\ ~InDeadlock(w)
           => OpenIn(rows', req[w].user) = {}]_vars

\* An "enter" of an enabled user, for a known room and gateway, that no other
\* request of the user overlapped opens the session: no id that an earlier
\* request left in the cache, and no request that failed, can keep the user out
\* (getInternalUserID, InsertUser).  For instances without "db".
KnownUserEnters ==
    [][\A w \in Workers :
           /\ pc[w] # "idle" /\ pc'[w] = "idle" /\ ~Restart
           /\ alone[w] /\ req[w].op = "enter" /\ req[w].known
           /\ Enabled(req[w].user) /\ ~InDeadlock(w)
           => rows'[KeyOf(w)] = "active"]_vars

\* A user who was disabled when the process started gets no session: nothing
\* puts the user back in the cache, which is where the check is skipped.
DisabledStayOut ==
    [][\A w \in Workers :
           Commit(w) /\ req[w].op # "leave" => req[w].user \notin barred]_vars

\* PostgreSQL never kills a request that only reports a client's state, whatever
\* runs beside it; and one that closes sessions only together with the cleaner
\* or with another that closes sessions of the same user (closeSession and the
\* upsert, in one transaction and in this order).
DeadlocksOfClosers ==
    \A w \in Workers : InDeadlock(w) =>
        /\ req[w].op # "update"
        /\ \E t \in Txs \ {w} :
               t = Cleaner \/ (Serves(t, req[w].user) /\ req[t].op # "update")

StateShown == [k \in Keys |-> IF rows[k] \in Open THEN "open" ELSE rows[k]]

RegisteredUsers == {u \in Users : Registered(u)}

Registry == INSTANCE Registry
                WITH sessions <- StateShown, registered <- RegisteredUsers

\* Seen from the tables, every transaction is one atomic step of the abstract
\* registry: at most one session comes up and only those of its user go down.
ImplementsRegistry == Registry!Spec

\* Every session belongs to a committed user, also when its request took the
\* id from the cache and the request that cached it rolled back.
OwnersRegistered == Registry!OwnersRegistered

\* A session that is not upserted any more does not stay active for ever: the
\* cleaner gets it, whatever locks requests take and drop in between, unless
\* its own transactions are for ever refused or killed.
NoGhosts ==
    <>[][~CleanError /\ ~AbortCleaner]_vars =>
        \A k \in Keys : rows[k] = "dead" ~> rows[k] # "dead"

\* Every request is answered: row locks and the unique index of users never
\* leave a transaction waiting for ever.
HandlersFinish == \A w \in Workers : pc[w] # "idle" ~> pc[w] = "idle"

-----------------------------------------------------------------------------
(* What a test says and the code does not do *)

\* An "enter" of a user the tables do not know, for a known room and gateway,
\* opens a session (api/api_test.go:1305, TestHandleProtocolEnterUnknownUser).
\* Requests that overlap, faults and deadlocks are left out.
UnknownUserEnters ==
    [][\A w \in Workers :
           /\ pc[w] # "idle" /\ pc'[w] = "idle"
           /\ alone[w] /\ req[w].op = "enter" /\ req[w].known
           /\ ~Registered(req[w].user) /\ ~InDeadlock(w)
           => rows'[KeyOf(w)] \in Open]_vars

\* The cleaner removes dead sessions only: those that are still active and
\* stale when it removes them (api/session_test.go:49, TestSessions_Clean).
OnlyDeadCleaned ==
    [][CleanCommit => \A k \in Keys :
           rows[k] \in Open /\ rows'[k] = "removed" => k \in DeadSessions]_vars

=============================================================================
