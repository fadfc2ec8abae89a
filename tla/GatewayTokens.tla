---------------------------- MODULE GatewayTokens ----------------------------
(***************************************************************************)
(* The access tokens of the Janus gateways: GatewayTokensManager           *)
(* (domain/gateways.go), the cache that hands the newest token to clients  *)
(* (GatewayTokenCache in api/cache.go, V2GetConfig in api/api_v2.go) and   *)
(* the notification that joins them (App.Notify in api/app.go).            *)
(*                                                                         *)
(* Every token lives twice: encrypted in gateways.properties, and in the   *)
(* token store of the gateway itself, which no transaction covers.  A      *)
(* goroutine reconciles the two every ten seconds, gateway by gateway and  *)
(* call by call; any call may fail, having taken effect or not, and the    *)
(* process may stop between any two.                                       *)
(*                                                                         *)
(* Time is counted in days.  A token is followed by one a day younger, and *)
(* a list keeps the order its tokens were made in: it is a set here, and   *)
(* its last token is the youngest one.                                     *)
(***************************************************************************)
EXTENDS Naturals

CONSTANTS
    Gateways,   \* gateways neither disabled nor removed
    Down,       \* those that answer no call at all
    Tokens,     \* names for the tokens of one gateway
    None,       \* no token
    MaxAge,     \* maxAge in days
    Faults,     \* what may go wrong or change outside this code
    MaxFaults   \* bound: how often it may

Stored == [tok : Tokens, age : 0..MaxAge]     \* GatewayToken

NoJob == [gw |-> None]

\* syncGatewayTokens at work on a gateway: nextDBTokens, addOnGateway,
\* removeOnGateway, changed; today says that no day ended since it began.
Job == [gw : Gateways, keep : SUBSET Stored, add : SUBSET Tokens,
        remove : SUBSET Tokens, changed : BOOLEAN, today : BOOLEAN]

ASSUME ConstantsOK ==
    /\ None \notin Gateways \cup Tokens
    /\ Down \subseteq Gateways
    /\ MaxAge \in Nat /\ MaxAge >= 2
    /\ MaxFaults \in Nat
    /\ Faults \subseteq {"db", "gateway", "crash", "forget", "support"}

VARIABLES
    db,         \* gateways.properties, its tokens
    onGateway,  \* the tokens a gateway stores
    supports,   \* gateways that run with stored-token authentication
    cache,      \* GatewayTokenCache
    pc,         \* where SyncAll is
    left,       \* gateways SyncAll has still to visit
    job,        \* the gateway it is at
    notify,     \* some gateway's tokens changed
    synced,     \* history: gateways reconciled since the day began
    client,     \* history: the token a client was last given, while owed
    faults      \* history: how many faults so far, and whether of the database

syncVars == <<pc, left, job, notify>>
vars == <<db, onGateway, supports, cache, pc, left, job, notify, synced, client, faults>>

NoClient == [tok |-> None, days |-> 0]
Client == [tok : Tokens, days : 0..(MaxAge - 2)] \cup {NoClient}

FaultsSoFar == [count : 0..MaxFaults, db : BOOLEAN]

TypeOK ==
    /\ db \in [Gateways -> SUBSET Stored]
    /\ onGateway \in [Gateways -> SUBSET Tokens]
    /\ supports \in SUBSET Gateways
    /\ cache \in [Gateways -> Tokens \cup {None}]
    /\ pc \in {"idle", "next", "create", "push", "notify"}
    /\ left \in SUBSET Gateways
    /\ job \in Job \cup {NoJob}
    /\ job = NoJob <=> pc \in {"idle", "next", "notify"}
    /\ notify \in BOOLEAN
    /\ synced \in SUBSET Gateways
    /\ client \in [Gateways -> Client]
    /\ faults \in FaultsSoFar

Toks(stored) == {t.tok : t \in stored}
\* Mistake: a token expires a day early.
ExpiredEarly(t) == t.age >= MaxAge - 1

Expired(t) == t.age >= MaxAge
LastOf(stored) == CHOOSE t \in stored : \A u \in stored : t.age <= u.age
ActiveToken(stored) == IF stored = {} THEN None ELSE LastOf(stored).tok
Reloaded == [g \in Gateways |-> ActiveToken(db[g])]

Init ==
    /\ db = [g \in Gateways |-> {}]
    /\ onGateway = [g \in Gateways |-> {}]
    /\ supports = Gateways
    /\ cache = Reloaded
    /\ pc = "idle" /\ left = {} /\ job = NoJob /\ notify = FALSE
    /\ synced = {} /\ client = [g \in Gateways |-> NoClient]
    /\ faults = [count |-> 0, db |-> FALSE]

Fault(kind) ==
    /\ kind \in Faults /\ faults.count < MaxFaults
    /\ faults' = [count |-> faults.count + 1, db |-> faults.db \/ kind = "db"]

(***************************************************************************)
(* The reconciliation.                                                     *)
(***************************************************************************)
\* A tick of the ticker.  The ticker's goroutine is the only caller, so wip
\* is never found set.  A failing fetch of the gateways leaves the tick
\* without effect.
SyncAll ==
    /\ pc = "idle"
    /\ pc' = "next" /\ left' = Gateways /\ notify' = FALSE
    /\ UNCHANGED <<db, onGateway, supports, cache, job, synced, client, faults>>

\* syncGatewayTokens returns and SyncAll goes on with the next gateway.
Return == pc' = "next" /\ job' = NoJob

\* Mistake: no new token while an old one is valid.
NeedsNewOnlyIfNone(stored, valid) == valid = {}

NeedsNew(stored, valid) == valid = {} \/ LastOf(stored).age >= 1

\* The gateway lists its tokens; what is to be done follows.
ListTokens(g) ==
    LET valid == {t \in db[g] : ~Expired(t)}
        expired == db[g] \ valid
    IN  /\ pc = "next" /\ g \in (left \ Down) \cap supports
        /\ left' = left \ {g}
        /\ job' = [gw |-> g, keep |-> valid,
                   add |-> Toks(valid) \ onGateway[g],
                   remove |-> (Toks(expired) \cap onGateway[g])
                                \cup (onGateway[g] \ Toks(db[g])),
                   changed |-> expired # {}, today |-> TRUE]
        /\ pc' = IF NeedsNew(db[g], valid) THEN "create" ELSE "push"
        /\ UNCHANGED <<db, onGateway, supports, cache, notify, synced, client, faults>>

\* It answers that it has no stored tokens: ours are dropped, if any.
ListUnsupported(g) ==
    /\ pc = "next" /\ g \in left \ (Down \cup supports)
    /\ left' = left \ {g}
    /\ IF db[g] = {}
       THEN synced' = synced \cup {g} /\ UNCHANGED <<pc, job>>
       ELSE /\ job' = [gw |-> g, keep |-> {}, add |-> {}, remove |-> {},
                       changed |-> TRUE, today |-> TRUE]
            /\ pc' = "push" /\ UNCHANGED synced
    /\ UNCHANGED <<db, onGateway, supports, cache, notify, client, faults>>

\* Mistake: SyncAll returns at the first gateway that fails.
ListFailsReturns(g) ==
    /\ pc = "next" /\ g \in left
    /\ (g \in Down /\ UNCHANGED faults) \/ Fault("gateway")
    /\ left' = {}
    /\ UNCHANGED <<db, onGateway, supports, cache, pc, job, notify, synced, client>>

\* Mistake: "notify = changed", which the next gateway's error takes back.
ListFailsSilences(g) ==
    /\ pc = "next" /\ g \in left
    /\ (g \in Down /\ UNCHANGED faults) \/ Fault("gateway")
    /\ left' = left \ {g}
    /\ notify' = FALSE
    /\ UNCHANGED <<db, onGateway, supports, cache, pc, job, synced, client>>

\* Any other error: the gateway is given up until the next tick.
ListFails(g) ==
    /\ pc = "next" /\ g \in left
    /\ (g \in Down /\ UNCHANGED faults) \/ Fault("gateway")
    /\ left' = left \ {g}
    /\ UNCHANGED <<db, onGateway, supports, cache, pc, job, notify, synced, client>>

\* A generated token is one in use nowhere; names out of use are used again.
Fresh == Tokens \ (Toks(db[job.gw]) \cup Toks(job.keep) \cup onGateway[job.gw]
                     \cup {cache[job.gw], client[job.gw].tok})

Add(t) == onGateway' = [onGateway EXCEPT ![job.gw] = @ \cup {t}]
Remove(t) == onGateway' = [onGateway EXCEPT ![job.gw] = @ \ {t}]

\* A call that fails may have taken effect all the same; one to a gateway
\* that has turned stored tokens off is refused.
CallFails(effect) ==
    \/ Fault("gateway") /\ (effect \/ UNCHANGED onGateway)
    \/ job.gw \notin supports /\ UNCHANGED <<onGateway, faults>>

CreateToken(t) ==
    /\ pc = "create" /\ t \in Fresh /\ job.gw \in supports
    /\ Add(t)
    /\ job' = [job EXCEPT !.keep = @ \cup {[tok |-> t, age |-> 0]}, !.changed = TRUE]
    /\ pc' = "push"
    /\ UNCHANGED <<db, supports, cache, left, notify, synced, client, faults>>

\* Mistake: the error of a new token's AddToken is only logged.
CreateFailsGoesOn(t) ==
    /\ pc = "create" /\ t \in Fresh /\ CallFails(Add(t))
    /\ job' = [job EXCEPT !.keep = @ \cup {[tok |-> t, age |-> 0]}, !.changed = TRUE]
    /\ pc' = "push"
    /\ UNCHANGED <<db, supports, cache, left, notify, synced, client>>

\* After a failed AddToken the gateway is given up until the next tick.
CreateFails(t) ==
    /\ pc = "create" /\ t \in Fresh /\ CallFails(Add(t))
    /\ Return
    /\ UNCHANGED <<db, supports, cache, left, notify, synced, client>>

AddToken(t) ==
    /\ pc = "push" /\ t \in job.add /\ job.gw \in supports
    /\ Add(t)
    /\ job' = [job EXCEPT !.add = @ \ {t}]
    /\ UNCHANGED <<db, supports, cache, pc, left, notify, synced, client, faults>>

AddFails(t) ==
    /\ pc = "push" /\ t \in job.add /\ CallFails(Add(t))
    /\ Return
    /\ UNCHANGED <<db, supports, cache, left, notify, synced, client>>

RemoveToken(t) ==
    /\ pc = "push" /\ job.add = {} /\ t \in job.remove /\ job.gw \in supports
    /\ Remove(t)
    /\ job' = [job EXCEPT !.remove = @ \ {t}]
    /\ UNCHANGED <<db, supports, cache, pc, left, notify, synced, client, faults>>

\* A failed removal is logged and the tokens are saved without the removed one.
RemoveFails(t) ==
    /\ pc = "push" /\ job.add = {} /\ t \in job.remove /\ CallFails(Remove(t))
    /\ job' = [job EXCEPT !.remove = @ \ {t}]
    /\ UNCHANGED <<db, supports, cache, pc, left, notify, synced, client>>

ReadyToSave == pc = "push" /\ job.add = {} /\ job.remove = {}

SaveTokens ==
    /\ ReadyToSave
    /\ db' = IF job.changed THEN [db EXCEPT ![job.gw] = job.keep] ELSE db
    /\ notify' = (notify \/ job.changed)
    /\ synced' = IF job.today THEN synced \cup {job.gw} ELSE synced
    /\ Return
    /\ UNCHANGED <<onGateway, supports, cache, left, client, faults>>

\* The UPDATE fails, or its answer is lost: either way "not changed".
SaveFails ==
    /\ ReadyToSave /\ job.changed /\ Fault("db")
    /\ db' = [db EXCEPT ![job.gw] = job.keep] \/ UNCHANGED db
    /\ Return
    /\ UNCHANGED <<onGateway, supports, cache, left, notify, synced, client>>

EndSync ==
    /\ pc = "next" /\ left = {}
    /\ pc' = IF notify THEN "notify" ELSE "idle"
    /\ UNCHANGED <<db, onGateway, supports, cache, left, job, notify, synced, client, faults>>

\* NotifyAll reaches App.Notify, which reloads the cache; an error is logged.
Notify ==
    /\ pc = "notify"
    /\ cache' = Reloaded
    /\ pc' = "idle"
    /\ UNCHANGED <<db, onGateway, supports, left, job, notify, synced, client, faults>>

NotifyFails ==
    /\ pc = "notify" /\ Fault("db")
    /\ pc' = "idle"
    /\ UNCHANGED <<db, onGateway, supports, cache, left, job, notify, synced, client>>

(***************************************************************************)
(* Around it.                                                              *)
(***************************************************************************)
\* AppCache reloads the tokens every hour.  The cache is locked from before
\* the query until after the assignment, so a reload is one step.
HourlyReload ==
    /\ cache' = Reloaded
    /\ UNCHANGED <<db, onGateway, supports, pc, left, job, notify, synced, client, faults>>

\* V2GetConfig gives a client the cached token.
ServeToken(g) ==
    /\ cache[g] # None
    /\ client' = [client EXCEPT ![g] = [tok |-> cache[g], days |-> 0]]
    /\ UNCHANGED <<db, onGateway, supports, cache, pc, left, job, notify, synced, faults>>

\* The process stops anywhere and starts again: ReloadAll.
Restart ==
    /\ Fault("crash")
    /\ cache' = Reloaded
    /\ pc' = "idle" /\ left' = {} /\ job' = NoJob /\ notify' = FALSE
    /\ UNCHANGED <<db, onGateway, supports, synced, client>>

\* A gateway restarts: it keeps tokens in memory only.
GatewayRestarts(g) ==
    /\ Fault("forget")
    /\ onGateway' = [onGateway EXCEPT ![g] = {}]
    /\ UNCHANGED <<db, supports, cache, syncVars, synced, client>>

\* It restarts with stored-token authentication turned on or off.
SwitchSupport(g) ==
    /\ Fault("support")
    /\ supports' = IF g \in supports THEN supports \ {g} ELSE supports \cup {g}
    /\ onGateway' = [onGateway EXCEPT ![g] = {}]
    /\ UNCHANGED <<db, cache, syncVars, synced, client>>

Older(stored) == {[tok |-> t.tok, age |-> IF t.age < MaxAge THEN t.age + 1 ELSE MaxAge]
                    : t \in stored}

\* A day has 8640 syncs and 24 reloads.  It ends only after every gateway
\* was reconciled and the cache caught up: outages of days are left out.  A
\* client is owed its token for MaxAge - 2 full days, see ClientKeepsToken.
DayEnds ==
    /\ synced = Gateways \ Down /\ cache = Reloaded
    /\ db' = [g \in Gateways |-> Older(db[g])]
    /\ job' = IF job = NoJob THEN NoJob
              ELSE [job EXCEPT !.keep = Older(@), !.today = FALSE]
    /\ synced' = {}
    /\ client' = [g \in Gateways |->
                    IF client[g] = NoClient \/ client[g].days = MaxAge - 2
                    THEN NoClient ELSE [client[g] EXCEPT !.days = @ + 1]]
    /\ UNCHANGED <<onGateway, supports, cache, pc, left, notify, faults>>

Sync ==
    \/ SyncAll
    \/ \E g \in Gateways : ListTokens(g) \/ ListUnsupported(g) \/ ListFails(g)
    \/ \E t \in Tokens : CreateToken(t) \/ AddToken(t) \/ RemoveToken(t)
    \/ \E t \in Tokens : CreateFails(t) \/ AddFails(t) \/ RemoveFails(t)
    \/ SaveTokens \/ SaveFails
    \/ EndSync
    \/ Notify \/ NotifyFails

Around ==
    \/ HourlyReload
    \/ Restart
    \/ DayEnds
    \/ \E g \in Gateways : ServeToken(g) \/ GatewayRestarts(g) \/ SwitchSupport(g)

Next == Sync \/ Around

Spec == Init /\ [][Next]_vars

\* The ticker and its goroutine go on, and so does the hourly reload.
FairSpec == Spec /\ WF_vars(Sync) /\ WF_vars(HourlyReload)

(***************************************************************************)
(* Properties.  The first three are about gateways that keep what they     *)
(* were given: neither "forget" nor "support" is among the Faults.         *)
(***************************************************************************)
\* A token in the database that has not expired is on its gateway: the
\* gateway has it before the row is saved, and loses it only once expired.
StoredOnGateway ==
    \A g \in Gateways : \A t \in db[g] : Expired(t) \/ t.tok \in onGateway[g]

\* The token V2GetConfig hands out is one the gateway accepts, whatever the
\* manager is in the middle of and however stale the cache is.
ServedTokenOnGateway ==
    \A g \in Gateways : cache[g] # None => cache[g] \in onGateway[g]

\* A client's token is good for MaxAge - 2 full days after it was given: the
\* rotation never takes away a token in use.
ClientKeepsToken ==
    \A g \in Gateways : client[g] # NoClient => client[g].tok \in onGateway[g]

\* As long as no call of the database has failed, the cache holds the newest
\* token whenever SyncAll is not at work: no change goes without its
\* notification, whichever gateways failed and wherever the process was
\* restarted.
CacheFollows == ~faults.db /\ pc = "idle" => cache = Reloaded

Settled(g) ==
    IF g \in supports
    THEN db[g] # {} /\ onGateway[g] = Toks(db[g]) /\ cache[g] = ActiveToken(db[g])
    ELSE db[g] = {} /\ cache[g] = None

\* When faults end, the database, the gateways and the cache agree again and
\* again, tokens lost or left behind included; a gateway that is down does not
\* keep the others from it.
Settles == []<>(\A g \in Gateways \ Down : Settled(g))

==============================================================================
