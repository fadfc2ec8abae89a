---------------------------- MODULE DynamicConfig ----------------------------
(***************************************************************************)
(* The dynamic configuration: the table dynamic_config, the administrators *)
(* who change it (AdminCreate-, Update-, Set- and DeleteDynamicConfig in   *)
(* api/api_admin.go) and DynamicConfigCache in api/cache.go, from which    *)
(* everybody else reads.                                                   *)
(*                                                                         *)
(* Every change ends with a reload of the cache, and so does every minute. *)
(* A reload holds the cache's lock from before its query until after the   *)
(* assignment.  Set is special: it finds the entry in the cache and, with  *)
(* no lock, assigns to the very object that others read, before the row is *)
(* written; a reload in between leaves it with an object of its own.       *)
(***************************************************************************)
EXTENDS Naturals

CONSTANTS
    Keys, Values,
    Handlers,     \* requests of administrators served at a time
    Ticker,       \* the goroutine that reloads every minute
    None,
    Ops,          \* the operations administrators use
    MaxRequests,  \* bound: how many requests
    MaxFaults     \* bound: how many faults

Entry == [id : Nat, key : Keys, val : Values, at : Nat]  \* models.DynamicConfig

NoReq == [op |-> None]

\* A request and what it holds: the object it works on is the cached one if
\* cached, else entry; same are those with the very same object.
Req == [op : {"create", "update", "set", "delete"}, key : Keys, val : Values \cup {None},
        cached : BOOLEAN, entry : Entry \cup {None}, same : SUBSET Handlers,
        touched : SUBSET Keys]

Procs == Handlers \cup {Ticker}

ASSUME ConstantsOK ==
    /\ None \notin Keys \cup Values \cup Handlers \cup {Ticker}
    /\ None \notin Entry /\ None \notin {"create", "update", "set", "delete"}
    /\ Ticker \notin Handlers
    /\ Ops \subseteq {"create", "update", "set", "delete"}
    /\ MaxRequests \in Nat /\ MaxFaults \in Nat

VARIABLES
    rows,          \* dynamic_config, as committed
    cache,         \* DynamicConfigCache.m
    lastModified,  \* and its lastModified
    lock,          \* who holds its lock for writing
    snap,          \* the rows the holder's query returned
    pc, req,       \* the requests
    serial, now,   \* the sequence of ids, the clock
    begun, faults, \* history: requests and faults so far
    stale          \* history: keys that failed requests were at work on before
                   \* and since the last query of a reload

vars == <<rows, cache, lastModified, lock, snap, pc, req, serial, now, begun, faults, stale>>
cacheVars == <<cache, lastModified, lock, snap>>

NoneStale == [before |-> {}, since |-> {}]

TypeOK ==
    /\ rows \in SUBSET Entry
    /\ cache \in [Keys -> Entry \cup {None}]
    /\ lastModified \in Nat
    /\ lock \in Procs \cup {None}
    /\ snap \in SUBSET Entry
    /\ pc \in [Handlers -> {"idle", "check", "stamp", "assign", "write", "reload"}]
    /\ req \in [Handlers -> Req \cup {NoReq}]
    /\ \A h \in Handlers : pc[h] = "idle" <=> req[h] = NoReq
    /\ serial \in Nat /\ now \in Nat /\ begun \in 0..MaxRequests
    /\ faults \in 0..MaxFaults
    /\ stale \in [before : SUBSET Keys, since : SUBSET Keys]

KeysOf(table) == {r.key : r \in table}
Rows(table, k) == {r \in table : r.key = k}
\* The key is UNIQUE, so this is the row.
EntryOf(table, k) == IF Rows(table, k) = {} THEN None ELSE CHOOSE r \in Rows(table, k) : TRUE

\* Mistake: the map is filled and not made anew.
ReloadedInto(table) == [k \in Keys |-> IF Rows(table, k) = {} THEN cache[k] ELSE EntryOf(table, k)]

Reloaded(table) == [k \in Keys |-> EntryOf(table, k)]

\* Mistake: lastModified follows the last row of the query.
LatestAny(table, t) == IF table = {} THEN t ELSE (CHOOSE r \in table : TRUE).at

\* lastModified never falls.
Latest(table, t) ==
    CHOOSE u \in {r.at : r \in table} \cup {t} : \A r \in table : t <= u /\ r.at <= u

Init ==
    /\ \/ rows = {}
       \/ \E k \in Keys, v \in Values : rows = {[id |-> 1, key |-> k, val |-> v, at |-> 0]}
    /\ cache = [k \in Keys |-> EntryOf(rows, k)] /\ lastModified = 0
    /\ lock = None /\ snap = {}
    /\ pc = [h \in Handlers |-> "idle"] /\ req = [h \in Handlers |-> NoReq]
    /\ serial = 1 /\ now = 0
    /\ begun = 0 /\ faults = 0 /\ stale = NoneStale

Fault == faults < MaxFaults /\ faults' = faults + 1

(***************************************************************************)
(* Requests.  One that is refused before it changes anything - no such     *)
(* key, no such id, key already exists - is no step.                       *)
(***************************************************************************)
NewReq(op, k, v) == [op |-> op, key |-> k, val |-> v, cached |-> FALSE,
                     entry |-> None, same |-> {}, touched |-> {}]

Begin(h, r, step) ==
    /\ pc[h] = "idle" /\ r.op \in Ops /\ begun < MaxRequests
    /\ pc' = [pc EXCEPT ![h] = step]
    /\ req' = [req EXCEPT ![h] = r]
    /\ begun' = begun + 1

\* Mistake: an answered request is not let go of.
AnswerKeepsReq(h) == pc' = [pc EXCEPT ![h] = "idle"] /\ UNCHANGED req

Answer(h) ==
    /\ pc' = [pc EXCEPT ![h] = "idle"]
    /\ req' = [req EXCEPT ![h] = NoReq]

\* An error of the query for the key is taken for its absence.
KeyFree(k) == (k \notin KeysOf(rows) /\ UNCHANGED faults) \/ Fault

AdminCreate(h, k, v) ==
    /\ Begin(h, NewReq("create", k, v), "stamp")
    /\ KeyFree(k)
    /\ UNCHANGED <<rows, cacheVars, serial, now, stale>>

AdminUpdate(h, r, k, v) ==
    /\ r \in rows
    /\ Begin(h, [NewReq("update", k, v) EXCEPT !.entry = r], "check")
    /\ UNCHANGED <<rows, cacheVars, serial, now, faults, stale>>

CheckKey(h) ==
    /\ pc[h] = "check" /\ KeyFree(req[h].key)
    /\ pc' = [pc EXCEPT ![h] = "stamp"]
    /\ UNCHANGED <<rows, cacheVars, req, serial, now, begun, stale>>

KeyTaken(h) ==
    /\ pc[h] = "check" /\ req[h].key \in KeysOf(rows)
    /\ Answer(h)
    /\ UNCHANGED <<rows, cacheVars, serial, now, begun, faults, stale>>

\* The row to be written, in an object of the request's own.  A new one has
\* Go's zero for an id until it is inserted.
Stamp(h) ==
    /\ pc[h] = "stamp"
    /\ now' = now + 1
    /\ req' = [req EXCEPT ![h] = [@ EXCEPT !.entry =
                 [id |-> IF req[h].op = "create" THEN 0 ELSE req[h].entry.id,
                  key |-> req[h].key, val |-> req[h].val, at |-> now + 1]]]
    /\ pc' = [pc EXCEPT ![h] = "write"]
    /\ UNCHANGED <<rows, cacheVars, serial, begun, faults, stale>>

AdminSet(h, k, v) ==
    /\ lock = None /\ cache[k] # None
    /\ Begin(h, [NewReq("set", k, v) EXCEPT !.cached = TRUE], "assign")
    /\ UNCHANGED <<rows, cacheVars, serial, now, faults, stale>>

Object(h) == IF req[h].cached THEN cache[req[h].key] ELSE req[h].entry

\* Those that hold one object with h since it left the cache.
Sharing(h) == {q \in Handlers : /\ pc[q] \in {"assign", "write"}
                                /\ q \in req[h].same /\ h \in req[q].same}

\* The object changes for everybody who has it.
Assign(h) ==
    LET new == [Object(h) EXCEPT !.val = req[h].val, !.at = now + 1]
    IN  /\ pc[h] = "assign"
        /\ now' = now + 1
        /\ IF req[h].cached
           THEN /\ cache' = [cache EXCEPT ![req[h].key] = new]
                /\ req' = [req EXCEPT ![h] = [@ EXCEPT !.touched = {req[h].key}]]
           ELSE /\ req' = [q \in Handlers |-> IF q \in Sharing(h)
                                              THEN [req[q] EXCEPT !.entry = new]
                                              ELSE req[q]]
                /\ UNCHANGED cache
        /\ pc' = [pc EXCEPT ![h] = "write"]
        /\ UNCHANGED <<rows, lastModified, lock, snap, serial, begun, faults, stale>>

AdminDelete(h, r) ==
    /\ r \in rows
    /\ Begin(h, [NewReq("delete", r.key, None) EXCEPT !.entry = r], "write")
    /\ UNCHANGED <<rows, cacheVars, serial, now, faults, stale>>

\* The table with the statement executed.  An id that is gone is no error.
Written(h) ==
    LET o == Object(h)
    IN  CASE req[h].op = "create" -> rows \cup {[o EXCEPT !.id = serial + 1]}
          [] req[h].op = "update" -> {IF r.id = o.id THEN o ELSE r : r \in rows}
          [] req[h].op = "set" -> {IF r.id = o.id THEN [r EXCEPT !.val = o.val, !.at = o.at]
                                   ELSE r : r \in rows}
          [] req[h].op = "delete" -> {r \in rows : r.id # o.id}

UniqueKeys(table) == \A r, s \in table : r.key = s.key => r = s

NextId(h) == serial' = IF req[h].op = "create" THEN serial + 1 ELSE serial

\* Keys whose row the step has changed, beside those touched before.
Touched(h) == req[h].touched \cup KeysOf((rows \ rows') \cup (rows' \ rows))

\* The object has served its purpose.
LetGo(h) == [req[h] EXCEPT !.touched = Touched(h), !.cached = FALSE, !.entry = None, !.same = {}]

\* Mistake: Set has changed the cached entry and so needs no reload.
CommitTrustsEntry(h) ==
    /\ pc[h] = "write" /\ UniqueKeys(Written(h))
    /\ rows' = Written(h)
    /\ IF req[h].op = "set"
       THEN Answer(h)
       ELSE /\ pc' = [pc EXCEPT ![h] = "reload"]
            /\ req' = [req EXCEPT ![h] = LetGo(h)]
    /\ NextId(h)
    /\ UNCHANGED <<cacheVars, now, begun, faults, stale>>

\* The transaction has one statement, so it is one step, at the commit.
Commit(h) ==
    /\ pc[h] = "write" /\ UniqueKeys(Written(h))
    /\ rows' = Written(h)
    /\ pc' = [pc EXCEPT ![h] = "reload"]
    /\ req' = [req EXCEPT ![h] = LetGo(h)]
    /\ NextId(h)
    /\ UNCHANGED <<cacheVars, now, begun, faults, stale>>

\* The key is a duplicate, or the database fails, before the commit or after
\* it.  The request ends without a reload.
WriteFails(h) ==
    /\ pc[h] = "write"
    /\ \/ ~UniqueKeys(Written(h)) /\ UNCHANGED <<rows, faults>>
       \/ Fault /\ UNCHANGED rows
       \/ Fault /\ UniqueKeys(Written(h)) /\ rows' = Written(h)
    /\ stale' = [stale EXCEPT !.since = @ \cup Touched(h)]
    /\ Answer(h) /\ NextId(h)
    /\ UNCHANGED <<cacheVars, now, begun>>

(***************************************************************************)
(* The cache.                                                              *)
(***************************************************************************)
Reloads(p) == p = Ticker \/ (p \in Handlers /\ pc[p] = "reload")

\* Reload has the lock and its query's result.
ReloadQuery(p) ==
    /\ Reloads(p) /\ lock = None
    /\ lock' = p
    /\ snap' = rows
    /\ stale' = [before |-> stale.before \cup stale.since, since |-> {}]
    /\ UNCHANGED <<rows, cache, lastModified, pc, req, serial, now, begun, faults>>

\* Those who hold an object of the old map keep it for themselves.
Orphaned(h) == [req[h] EXCEPT !.cached = FALSE, !.entry = cache[req[h].key],
                              !.same = {q \in Handlers : /\ pc[q] \in {"assign", "write"}
                                                         /\ req[q].cached
                                                         /\ req[q].key = req[h].key}]

ReloadEnd(p) ==
    /\ lock = p
    /\ lock' = None /\ snap' = {}
    /\ cache' = Reloaded(snap)
    /\ lastModified' = Latest(snap, lastModified)
    /\ stale' = [stale EXCEPT !.before = {}]
    /\ pc' = [h \in Handlers |-> IF h = p THEN "idle" ELSE pc[h]]
    /\ req' = [h \in Handlers |-> IF h = p THEN NoReq
                                  ELSE IF pc[h] # "idle" /\ req[h].cached THEN Orphaned(h)
                                  ELSE req[h]]
    /\ UNCHANGED <<rows, serial, now, begun, faults>>

\* The query fails: logged, and the request is answered all the same.
ReloadFails(p) ==
    /\ Reloads(p) /\ lock = None /\ Fault
    /\ IF p = Ticker
       THEN UNCHANGED <<pc, req, stale>>
       ELSE Answer(p) /\ stale' = [stale EXCEPT !.since = @ \cup req[p].touched]
    /\ UNCHANGED <<rows, cacheVars, serial, now, begun>>

\* The process stops anywhere and starts again: ReloadAll.
Restart ==
    /\ Fault
    /\ cache' = Reloaded(rows) /\ lastModified' = Latest(rows, 0)
    /\ lock' = None /\ snap' = {}
    /\ pc' = [h \in Handlers |-> "idle"] /\ req' = [h \in Handlers |-> NoReq]
    /\ stale' = NoneStale
    /\ UNCHANGED <<rows, serial, now, begun>>

Work(h) ==
    \/ CheckKey(h) \/ KeyTaken(h)
    \/ Stamp(h) \/ Assign(h)
    \/ Commit(h) \/ WriteFails(h)

Reload(p) == ReloadQuery(p) \/ ReloadEnd(p) \/ ReloadFails(p)

Next ==
    \/ \E h \in Handlers, k \in Keys, v \in Values : AdminCreate(h, k, v) \/ AdminSet(h, k, v)
    \/ \E h \in Handlers, r \in rows, k \in Keys, v \in Values : AdminUpdate(h, r, k, v)
    \/ \E h \in Handlers, r \in rows : AdminDelete(h, r)
    \/ \E h \in Handlers : Work(h)
    \/ \E p \in Procs : Reload(p)
    \/ Restart

Spec == Init /\ [][Next]_vars

\* Requests go on, and so does the minute's reload.
FairSpec ==
    /\ Spec
    /\ \A h \in Handlers : WF_vars(Work(h)) /\ WF_vars(ReloadEnd(h))
    /\ WF_vars(Reload(Ticker))

(***************************************************************************)
(* Properties.                                                             *)
(***************************************************************************)
Stale(k) == k \in stale.before \cup stale.since

AtWork(k) == \E h \in Handlers : pc[h] # "idle" /\ k \in req[h].touched

\* The cache serves the row of every key that no request is at work on, and
\* none failed on since the last reload: an answered change is seen at once,
\* and no reload takes it back.
CacheCurrent == \A k \in Keys : AtWork(k) \/ Stale(k) \/ cache[k] = EntryOf(rows, k)

\* The time that clients compare is no earlier than that of any entry they are
\* served, requests at work and failed ones aside.
ModifiedCovers ==
    \A k \in Keys :
      AtWork(k) \/ Stale(k) \/ cache[k] = None \/ cache[k].at <= lastModified

\* When faults and requests end, what was rolled back, missed or removed has
\* left the cache.
Settles == []<>(\A k \in Keys : cache[k] = EntryOf(rows, k))

==============================================================================
