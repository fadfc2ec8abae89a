------------------------- MODULE GatewayTokensProofs -------------------------
(***************************************************************************)
(* Proofs about GatewayTokens: types, and what becomes of tokens while the *)
(* gateways keep what they are given, for every set of gateways, every     *)
(* maxAge of at least two days and any number of faults.                   *)
(***************************************************************************)
EXTENDS GatewayTokens, WellFoundedInduction, TLAPS

(***************************************************************************)
(* The inductive invariant, in parts.  One gateway at a time is worked on, *)
(* so most parts speak of the job as it will be saved.                     *)
(***************************************************************************)
\* A token is listed once.
Distinct(stored) == \A t, u \in stored : t.tok = u.tok => t = u

HasAge(stored, n) == \E t \in stored : t.age <= n

\* Stored, or about to be: the gateway has it, or will before the save.
JobOnGateway ==
    job # NoJob =>
      /\ Distinct(job.keep)
      /\ \A t \in job.keep : Expired(t) \/ t.tok \in onGateway[job.gw] \cup job.add
      /\ job.remove \subseteq onGateway[job.gw]
      /\ \A t \in db[job.gw] \cup job.keep : Expired(t) \/ t.tok \notin job.remove

\* What the job will save holds every valid token and a new one.
JobComplete ==
    job # NoJob =>
      /\ job.gw \notin Down
      /\ \A t \in db[job.gw] : Expired(t) \/ t \in job.keep
      /\ ~job.changed => job.keep \subseteq db[job.gw]
      /\ ~job.today => job.gw \notin synced
      /\ pc = "push" => /\ HasAge(job.keep, 1)
                        /\ job.today => HasAge(job.keep, 0)

\* No token of the database is too old for the days that have passed.
DbYoung ==
    \A g \in Gateways :
      /\ Distinct(db[g])
      /\ db[g] = {} \/ HasAge(db[g], 1)
      /\ g \in synced => HasAge(db[g], 0)
      /\ g \in Down => db[g] = {}

\* The cached token is in the database and at most a day old, a client's at
\* most a day older than the client's copy.
GivenOut ==
    \A g \in Gateways :
      /\ cache[g] # None => \E t \in db[g] : t.tok = cache[g] /\ t.age <= 1
      /\ client[g] # NoClient =>
           \E t \in db[g] : t.tok = client[g].tok /\ t.age <= client[g].days + 1

TokenInv ==
    /\ supports = Gateways
    /\ StoredOnGateway
    /\ JobOnGateway
    /\ JobComplete
    /\ DbYoung
    /\ GivenOut

(***************************************************************************)
(* Lists of tokens and their ages.                                         *)
(***************************************************************************)
\* A list a day later: the same tokens, each at most a day older, none of
\* them valid again.
LEMMA OlderFacts ==
    ASSUME NEW stored \in SUBSET Stored
    PROVE  /\ Older(stored) \in SUBSET Stored
           /\ \A v \in Older(stored) : \E t \in stored :
                v.tok = t.tok /\ (Expired(t) => Expired(v))
           /\ \A t \in stored : \E v \in Older(stored) :
                v.tok = t.tok /\ v.age <= t.age + 1
           /\ Distinct(stored) => Distinct(Older(stored))
  <1> DEFINE Aged(t) == [tok |-> t.tok, age |-> IF t.age < MaxAge THEN t.age + 1 ELSE MaxAge]
  <1>1. \A t \in stored : /\ Aged(t) \in Stored /\ Aged(t).tok = t.tok
                          /\ Expired(t) => Expired(Aged(t))
                          /\ Aged(t).age <= t.age + 1
    BY ConstantsOK DEF Stored, Expired
  <1>2. Older(stored) = {Aged(t) : t \in stored}
    BY DEF Older
  <1> HIDE DEF Aged
  <1> QED
    BY <1>1, <1>2 DEF Distinct

\* A list that is not empty has a youngest token.
LEMMA LastOfFacts ==
    ASSUME NEW stored \in SUBSET Stored, stored # {}
    PROVE  /\ LastOf(stored) \in stored
           /\ \A t \in stored : LastOf(stored).age <= t.age
  <1> DEFINE ages == {t.age : t \in stored}
             less == {p \in Nat \X Nat : p[1] < p[2]}
  <1>1. ages \subseteq Nat /\ ages # {}
    BY ConstantsOK DEF Stored
  <1>2. IsWellFoundedOn(less, Nat)
    BY NatLessThanWellFounded DEF OpToRel
  <1>3. \E a \in ages : \A b \in ages : <<b, a>> \notin less
    <2> HIDE DEF ages, less
    <2> QED
      BY <1>1, <1>2, WFMin
  <1>4. \A a, b \in Nat : b < a => <<b, a>> \in less
    OBVIOUS
  <1>5. \E a \in ages : \A b \in ages : a <= b
    <2>1. PICK a \in ages : \A b \in ages : <<b, a>> \notin less
      BY <1>3
    <2> HIDE DEF ages, less
    <2>2. ASSUME NEW b \in ages
          PROVE  a <= b
      <3>1. a \in Nat /\ b \in Nat /\ ~(b < a)
        BY <1>1, <1>4, <2>1
      <3> QED
        BY <3>1
    <2> QED
      BY <2>2
  <1> QED
    BY <1>5 DEF LastOf

\* The cache is always reloaded with tokens.
LEMMA ReloadedType ==
    ASSUME db \in [Gateways -> SUBSET Stored]
    PROVE  Reloaded \in [Gateways -> Tokens \cup {None}]
  <1>1. ASSUME NEW stored \in SUBSET Stored
        PROVE  ActiveToken(stored) \in Tokens \cup {None}
    BY LastOfFacts DEF ActiveToken, Stored
  <1> QED
    BY <1>1 DEF Reloaded

(***************************************************************************)
(* Types.                                                                  *)
(***************************************************************************)
\* A list stays one when a token is added to it or a day passes; the job that
\* is worked on is known by pc.
LEMMA JobKnown ==
    ASSUME TypeOK, pc \in {"create", "push"}
    PROVE  job \in Job /\ job.gw \in Gateways
  BY DEF TypeOK, Job

LEMMA FaultType ==
    ASSUME TypeOK, NEW kind, Fault(kind) \/ UNCHANGED faults
    PROVE  faults' \in FaultsSoFar
  <1>1. CASE Fault(kind)
    <2>1. faults.count + 1 \in 0..MaxFaults
      BY <1>1, ConstantsOK DEF TypeOK, Fault, FaultsSoFar
    <2>2. (faults.db \/ kind = "db") \in BOOLEAN
      BY ZenonT(20)
    <2> QED
      BY <1>1, <2>1, <2>2 DEF Fault, FaultsSoFar
  <1>2. CASE UNCHANGED faults
    BY <1>2 DEF TypeOK
  <1> QED
    BY <1>1, <1>2

\* A failing call leaves a well-typed gateway and count of faults.
LEMMA CallFailsType ==
    ASSUME TypeOK, pc \in {"create", "push"}, NEW t \in Tokens,
           CallFails(Add(t)) \/ CallFails(Remove(t))
    PROVE  /\ onGateway' \in [Gateways -> SUBSET Tokens]
           /\ faults' \in FaultsSoFar
  BY JobKnown, FaultType DEF TypeOK, CallFails, Add, Remove

LEMMA TypedInit == Init => TypeOK
  <1> SUFFICES ASSUME Init PROVE TypeOK
    OBVIOUS
  <1>1. Reloaded \in [Gateways -> Tokens \cup {None}]
    BY ReloadedType DEF Init
  <1>2. NoClient \in Client /\ [count |-> 0, db |-> FALSE] \in FaultsSoFar
    BY ConstantsOK DEF Client, FaultsSoFar
  <1> QED
    BY <1>1, <1>2 DEF Init, TypeOK

LEMMA TypedStep == TypeOK /\ [Next]_vars => TypeOK'
  <1> SUFFICES ASSUME TypeOK, [Next]_vars PROVE TypeOK'
    OBVIOUS
  <1> USE DEF TypeOK
  <1>1. CASE SyncAll
    BY <1>1 DEF SyncAll
  <1>2. ASSUME NEW g \in Gateways, ListTokens(g)
        PROVE  TypeOK'
    <2>1. job' \in Job
      BY <1>2 DEF ListTokens, Job, Stored, Toks
    <2> QED
      BY <1>2, <2>1, ConstantsOK DEF ListTokens, Job, NoJob
  <1>3. ASSUME NEW g \in Gateways, ListUnsupported(g)
        PROVE  TypeOK'
    <2>1. CASE db[g] = {}
      BY <1>3, <2>1 DEF ListUnsupported
    <2>2. CASE db[g] # {}
      <3>1. job' = [gw |-> g, keep |-> {}, add |-> {}, remove |-> {},
                    changed |-> TRUE, today |-> TRUE]
        BY <1>3, <2>2 DEF ListUnsupported
      <3>2. job' \in Job
        BY <3>1 DEF Job
      <3>3. job' # NoJob
        BY <3>1, ConstantsOK DEF NoJob
      <3> QED
        BY <1>3, <2>2, <3>2, <3>3 DEF ListUnsupported
    <2> QED
      BY <2>1, <2>2
  <1>4. ASSUME NEW g \in Gateways, ListFails(g)
        PROVE  TypeOK'
    BY <1>4, FaultType DEF ListFails
  <1>5. ASSUME NEW t \in Tokens, CreateToken(t)
        PROVE  TypeOK'
    <2>1. job \in Job /\ [tok |-> t, age |-> 0] \in Stored
      BY <1>5, JobKnown, ConstantsOK DEF CreateToken, Stored
    <2>2. job' \in Job
      BY <1>5, <2>1 DEF CreateToken, Job
    <2> QED
      BY <1>5, <2>1, <2>2, ConstantsOK DEF CreateToken, Add, Job, NoJob
  <1>6. ASSUME NEW t \in Tokens, AddToken(t)
        PROVE  TypeOK'
    <2>1. job \in Job
      BY <1>6, JobKnown DEF AddToken
    <2>2. job' \in Job
      BY <1>6, <2>1 DEF AddToken, Job
    <2> QED
      BY <1>6, <2>1, <2>2, ConstantsOK DEF AddToken, Add, Job, NoJob
  <1>7. ASSUME NEW t \in Tokens, RemoveToken(t)
        PROVE  TypeOK'
    <2>1. job \in Job
      BY <1>7, JobKnown DEF RemoveToken
    <2>2. job' \in Job
      BY <1>7, <2>1 DEF RemoveToken, Job
    <2> QED
      BY <1>7, <2>1, <2>2, ConstantsOK DEF RemoveToken, Remove, Job, NoJob
  <1>8. ASSUME NEW t \in Tokens, CreateFails(t) \/ AddFails(t)
        PROVE  TypeOK'
    BY <1>8, CallFailsType DEF CreateFails, AddFails, Return
  <1>9. ASSUME NEW t \in Tokens, RemoveFails(t)
        PROVE  TypeOK'
    <2>1. job \in Job
      BY <1>9, JobKnown DEF RemoveFails
    <2>2. job' \in Job
      BY <1>9, <2>1 DEF RemoveFails, Job
    <2>3. onGateway' \in [Gateways -> SUBSET Tokens] /\ faults' \in FaultsSoFar
      BY <1>9, CallFailsType DEF RemoveFails
    <2> QED
      BY <1>9, <2>2, <2>3, ConstantsOK DEF RemoveFails, Job, NoJob
  <1>10. CASE SaveTokens
    <2>1. job \in Job
      BY <1>10, JobKnown DEF SaveTokens, ReadyToSave
    <2> QED
      BY <1>10, <2>1 DEF SaveTokens, ReadyToSave, Return, Job
  <1>11. CASE SaveFails
    <2>1. job \in Job
      BY <1>11, JobKnown DEF SaveFails, ReadyToSave
    <2>2. faults' \in FaultsSoFar
      BY <1>11, FaultType DEF SaveFails
    <2> QED
      BY <1>11, <2>1, <2>2 DEF SaveFails, ReadyToSave, Return, Job
  <1>12. CASE EndSync
    BY <1>12 DEF EndSync
  <1>13. CASE Notify \/ HourlyReload
    BY <1>13, ReloadedType DEF Notify, HourlyReload
  <1>14. CASE NotifyFails
    BY <1>14, FaultType DEF NotifyFails
  <1>15. CASE Restart
    BY <1>15, ReloadedType, FaultType DEF Restart
  <1>16. CASE DayEnds
    <2>1. db' \in [Gateways -> SUBSET Stored]
      BY <1>16, OlderFacts DEF DayEnds
    <2>2. job' \in Job \cup {NoJob} /\ (job' = NoJob <=> job = NoJob)
      BY <1>16, OlderFacts, ConstantsOK DEF DayEnds, Job, NoJob
    <2>3. client' \in [Gateways -> Client]
      <3>1. ASSUME NEW g \in Gateways
            PROVE  client'[g] \in Client
        <4>1. client[g] \in Client
          OBVIOUS
        <4>2. CASE client[g] = NoClient \/ client[g].days = MaxAge - 2
          BY <1>16, <4>2 DEF DayEnds, Client
        <4>3. CASE client[g] # NoClient /\ client[g].days # MaxAge - 2
          <5>1. client'[g] = [client[g] EXCEPT !.days = client[g].days + 1]
            BY <1>16, <4>3 DEF DayEnds
          <5>2. client[g] \in [tok : Tokens, days : 0..(MaxAge - 2)]
            BY <4>1, <4>3 DEF Client
          <5>3. client[g].days + 1 \in 0..(MaxAge - 2)
            BY <4>3, <5>2, ConstantsOK
          <5> QED
            BY <5>1, <5>2, <5>3 DEF Client
        <4> QED
          BY <4>2, <4>3
      <3> QED
        BY <1>16, <3>1 DEF DayEnds
    <2> QED
      BY <1>16, <2>1, <2>2, <2>3 DEF DayEnds
  <1>17. ASSUME NEW g \in Gateways, ServeToken(g)
         PROVE  TypeOK'
    <2>1. [tok |-> cache[g], days |-> 0] \in Client
      BY <1>17, ConstantsOK DEF ServeToken, Client
    <2> QED
      BY <1>17, <2>1 DEF ServeToken
  <1>18. ASSUME NEW g \in Gateways, GatewayRestarts(g) \/ SwitchSupport(g)
         PROVE  TypeOK'
    BY <1>18, FaultType DEF GatewayRestarts, SwitchSupport, syncVars
  <1>19. CASE UNCHANGED vars
    BY <1>19 DEF vars
  <1> QED
    BY <1>1, <1>2, <1>3, <1>4, <1>5, <1>6, <1>7, <1>8, <1>9, <1>10, <1>11, <1>12,
       <1>13, <1>14, <1>15, <1>16, <1>17, <1>18, <1>19 DEF Next, Sync, Around

\* Every reachable state is well typed, whatever fails.
THEOREM TokensTyped == Spec => []TypeOK
  BY TypedInit, TypedStep, PTL DEF Spec

(***************************************************************************)
(* Tokens in use.                                                          *)
(***************************************************************************)
Keeping == Faults \cap {"forget", "support"} = {}

LEMMA TokenInit == Init => TokenInv
  <1> SUFFICES ASSUME Init PROVE TokenInv
    OBVIOUS
  <1>1. \A g \in Gateways : db[g] = {} /\ client[g] = NoClient /\ cache[g] = None
    BY DEF Init, Reloaded, ActiveToken
  <1>2. job = NoJob /\ synced = {} /\ supports = Gateways
    BY DEF Init
  <1> QED
    BY <1>1, <1>2 DEF TokenInv, StoredOnGateway, JobOnGateway, JobComplete,
                      DbYoung, GivenOut, Distinct

\* Steps that touch neither list nor gateway, and leave the job as it is, drop
\* it or have none, are harmless.
LEMMA TokenQuiet ==
    ASSUME TypeOK, TokenInv,
           UNCHANGED <<db, onGateway, supports, cache, client>>,
           synced' = synced,
           job' = NoJob \/ (job' = job /\ pc' = pc)
    PROVE  TokenInv'
  BY DEF TokenInv, StoredOnGateway, JobOnGateway, JobComplete, DbYoung, GivenOut,
         Distinct, HasAge, Expired

\* A gateway that gains a token keeps all others.
LEMMA TokenAdded ==
    ASSUME TypeOK, TokenInv, job' = NoJob,
           UNCHANGED <<db, supports, cache, client, synced>>,
           \A g \in Gateways : onGateway[g] \subseteq onGateway'[g]
    PROVE  TokenInv'
  BY DEF TokenInv, StoredOnGateway, JobOnGateway, JobComplete, DbYoung, GivenOut,
         Distinct, HasAge, Expired

\* A reload finds a token no more than a day old on every gateway that has any.
LEMMA TokenReload ==
    ASSUME TypeOK, TokenInv, cache' = Reloaded,
           UNCHANGED <<db, onGateway, supports, client, synced>>,
           job' = NoJob \/ (job' = job /\ pc' = pc)
    PROVE  TokenInv'
  <1>1. ASSUME NEW g \in Gateways, cache'[g] # None
        PROVE  \E t \in db[g] : t.tok = cache'[g] /\ t.age <= 1
    <2>1. db[g] # {} /\ cache'[g] = LastOf(db[g]).tok
      BY <1>1 DEF Reloaded, ActiveToken
    <2>2. HasAge(db[g], 1)
      BY <2>1 DEF TokenInv, DbYoung
    <2>3. db[g] \in SUBSET Stored
      BY DEF TypeOK
    <2>4. /\ LastOf(db[g]) \in db[g]
          /\ \A t \in db[g] : LastOf(db[g]).age <= t.age
      BY <2>1, <2>3, LastOfFacts
    <2>5. LastOf(db[g]).age <= 1
      BY <2>2, <2>3, <2>4, ConstantsOK DEF HasAge, Stored
    <2> QED
      BY <2>1, <2>4, <2>5
  <1>2. GivenOut'
    BY <1>1 DEF TokenInv, GivenOut
  <1> QED
    BY <1>2 DEF TokenInv, StoredOnGateway, JobOnGateway, JobComplete, DbYoung,
                Distinct, HasAge, Expired

\* The job as ListTokens makes it out: nothing valid is dropped or removed.
LEMMA TokenList ==
    ASSUME TypeOK, TokenInv, TypeOK', NEW g \in Gateways, ListTokens(g)
    PROVE  TokenInv'
  <1> DEFINE valid == {t \in db[g] : ~Expired(t)}
  <1>1. /\ job'.gw = g /\ job'.keep = valid /\ job'.today = TRUE
        /\ job'.add = Toks(valid) \ onGateway[g]
        /\ job'.remove = (Toks(db[g] \ valid) \cap onGateway[g])
                           \cup (onGateway[g] \ Toks(db[g]))
        /\ job'.changed = (db[g] \ valid # {})
        /\ pc' = IF NeedsNew(db[g], valid) THEN "create" ELSE "push"
        /\ g \notin Down
    BY DEF ListTokens
  <1>2. UNCHANGED <<db, onGateway, supports, cache, synced, client>>
    BY DEF ListTokens
  <1>3. db[g] \in SUBSET Stored /\ Distinct(db[g])
    BY DEF TypeOK, TokenInv, DbYoung
  <1>4. JobOnGateway'
    BY <1>1, <1>2, <1>3 DEF JobOnGateway, Distinct, Toks, Expired
  <1>5. JobComplete'
    <2>1. ASSUME pc' = "push"
          PROVE  HasAge(valid, 0)
      <3>1. valid # {} /\ ~(LastOf(db[g]).age >= 1)
        BY <1>1, <2>1 DEF NeedsNew
      <3>2. LastOf(db[g]) \in db[g]
        BY <1>3, <3>1, LastOfFacts
      <3>3. LastOf(db[g]).age = 0
        BY <1>3, <3>1, <3>2, ConstantsOK DEF Stored
      <3> QED
        BY <3>2, <3>3, ConstantsOK DEF HasAge, Expired
    <2>2. pc' = "push" => HasAge(valid, 1)
      BY <1>3, <2>1, ConstantsOK DEF HasAge, Stored
    <2> HIDE DEF valid
    <2>3. \A t \in db[g] : Expired(t) \/ t \in valid
      BY DEF valid
    <2>4. valid \subseteq db[g]
      BY DEF valid
    <2> QED
      BY <1>1, <1>2, <2>1, <2>2, <2>3, <2>4 DEF JobComplete, Expired
  <1> QED
    BY <1>2, <1>4, <1>5 DEF TokenInv, StoredOnGateway, DbYoung, GivenOut,
                            Distinct, HasAge, Expired

\* A new token is on the gateway before it is in the list.
LEMMA TokenCreate ==
    ASSUME TypeOK, TokenInv, TypeOK', NEW t \in Tokens, CreateToken(t)
    PROVE  TokenInv'
  <1>1. job \in Job /\ job # NoJob /\ job' # NoJob
    BY JobKnown DEF CreateToken, TypeOK
  <1> DEFINE new == [tok |-> t, age |-> 0]
  <1>2. /\ job'.keep = job.keep \cup {new} /\ job'.changed = TRUE
        /\ job'.gw = job.gw /\ job'.add = job.add
        /\ job'.remove = job.remove /\ job'.today = job.today
    BY <1>1 DEF CreateToken, Job
  <1>3. /\ t \notin Toks(db[job.gw]) /\ t \notin Toks(job.keep)
        /\ t \notin onGateway[job.gw]
    BY DEF CreateToken, Fresh
  <1>4. /\ onGateway'[job.gw] = onGateway[job.gw] \cup {t}
        /\ \A g \in Gateways : onGateway[g] \subseteq onGateway'[g]
    BY <1>1 DEF CreateToken, Add, TypeOK, Job
  <1>5. UNCHANGED <<db, supports, cache, synced, client>>
    BY DEF CreateToken
  <1>6. JobOnGateway'
    BY <1>1, <1>2, <1>3, <1>4, <1>5 DEF TokenInv, JobOnGateway, Distinct, Toks, Expired
  <1>7. HasAge(job.keep \cup {new}, 0) /\ HasAge(job.keep \cup {new}, 1)
    <2>1. new \in job.keep \cup {new} /\ new.age <= 0 /\ new.age <= 1
      OBVIOUS
    <2> QED
      BY <2>1 DEF HasAge
  <1>8. JobComplete'
    <2> HIDE DEF new
    <2> QED
      BY <1>1, <1>2, <1>5, <1>7 DEF TokenInv, JobComplete, Expired
  <1> QED
    BY <1>4, <1>5, <1>6, <1>8 DEF TokenInv, StoredOnGateway, DbYoung, GivenOut,
                                  Distinct, HasAge, Expired

\* A call made good on what the job lists brings the gateway nearer to it.
LEMMA TokenAdd ==
    ASSUME TypeOK, TokenInv, TypeOK', NEW t \in Tokens, AddToken(t)
    PROVE  TokenInv'
  <1>1. job \in Job /\ job # NoJob /\ job' # NoJob
    BY JobKnown DEF AddToken, TypeOK
  <1>2. /\ job'.keep = job.keep /\ job'.changed = job.changed
        /\ job'.gw = job.gw /\ job'.add = job.add \ {t}
        /\ job'.remove = job.remove /\ job'.today = job.today
    BY <1>1 DEF AddToken, Job
  <1>3. /\ onGateway'[job.gw] = onGateway[job.gw] \cup {t}
        /\ \A g \in Gateways : onGateway[g] \subseteq onGateway'[g]
    BY <1>1 DEF AddToken, Add, TypeOK, Job
  <1>4. UNCHANGED <<db, supports, cache, pc, synced, client>>
    BY DEF AddToken
  <1>5. JobOnGateway'
    BY <1>1, <1>2, <1>3, <1>4 DEF TokenInv, JobOnGateway, Distinct, Expired
  <1>6. JobComplete'
    BY <1>1, <1>2, <1>4 DEF TokenInv, JobComplete, Expired, HasAge
  <1> QED
    BY <1>3, <1>4, <1>5, <1>6 DEF TokenInv, StoredOnGateway, DbYoung, GivenOut,
                                  Distinct, HasAge, Expired

\* A removal, whether it is answered or not, takes no valid token.
LEMMA TokenRemove ==
    ASSUME TypeOK, TokenInv, TypeOK', NEW t \in Tokens,
           RemoveToken(t) \/ RemoveFails(t)
    PROVE  TokenInv'
  <1>1. job \in Job /\ job # NoJob /\ job' # NoJob /\ t \in job.remove
    BY JobKnown DEF RemoveToken, RemoveFails, TypeOK
  <1>2. /\ job'.keep = job.keep /\ job'.changed = job.changed
        /\ job'.gw = job.gw /\ job'.add = job.add
        /\ job'.remove = job.remove \ {t} /\ job'.today = job.today
    BY <1>1 DEF RemoveToken, RemoveFails, Job
  <1>3. /\ \A g \in Gateways \ {job.gw} : onGateway'[g] = onGateway[g]
        /\ onGateway[job.gw] \ {t} \subseteq onGateway'[job.gw]
        /\ onGateway'[job.gw] \subseteq onGateway[job.gw]
    BY <1>1 DEF RemoveToken, RemoveFails, CallFails, Remove, TypeOK, Job
  <1>4. UNCHANGED <<db, supports, cache, pc, synced, client>>
    BY DEF RemoveToken, RemoveFails
  <1>5. JobOnGateway'
    BY <1>1, <1>2, <1>3, <1>4 DEF TokenInv, JobOnGateway, Distinct, Expired
  <1>6. JobComplete'
    BY <1>1, <1>2, <1>4 DEF TokenInv, JobComplete, Expired, HasAge
  <1>7. StoredOnGateway'
    BY <1>1, <1>3, <1>4 DEF TokenInv, StoredOnGateway, JobOnGateway, Expired
  <1> QED
    BY <1>4, <1>5, <1>6, <1>7 DEF TokenInv, DbYoung, GivenOut, Distinct, HasAge, Expired

\* The list that is saved holds what the list it replaces had valid, so what
\* was given out of the old list is in the new one.
LEMMA TokenSave ==
    ASSUME TypeOK, TokenInv, TypeOK', ReadyToSave, job' = NoJob,
           db' = db \/ (job.changed /\ db' = [db EXCEPT ![job.gw] = job.keep]),
           synced' = synced
             \/ (/\ job.today /\ synced' = synced \cup {job.gw}
                 /\ ~job.changed \/ db' = [db EXCEPT ![job.gw] = job.keep]),
           UNCHANGED <<onGateway, supports, cache, client>>
    PROVE  TokenInv'
  <1>1. job \in Job /\ job # NoJob /\ pc = "push" /\ job.gw \in Gateways
    BY JobKnown DEF ReadyToSave, TypeOK
  <1>2. \A g \in Gateways : \/ db'[g] = db[g]
                            \/ g = job.gw /\ db'[g] = job.keep
    BY <1>1 DEF TypeOK
  <1>3. StoredOnGateway'
    BY <1>1, <1>2 DEF TokenInv, StoredOnGateway, JobOnGateway, ReadyToSave, Expired
  <1>4. ASSUME NEW g \in Gateways, NEW t \in db[g], ~Expired(t)
        PROVE  t \in db'[g]
    BY <1>1, <1>2, <1>4 DEF TokenInv, JobComplete
  <1>5. GivenOut'
    <2>1. ASSUME NEW g \in Gateways, NEW t \in db[g], t.age <= 1
          PROVE  ~Expired(t)
      BY <2>1, ConstantsOK DEF TypeOK, Stored, Expired
    <2>2. ASSUME NEW g \in Gateways, client[g] # NoClient,
                 NEW t \in db[g], t.age <= client[g].days + 1
          PROVE  ~Expired(t)
      <3>1. client[g].days \in 0..(MaxAge - 2) /\ t.age \in 0..MaxAge
        BY <2>2 DEF TypeOK, Client, Stored
      <3> QED
        BY <2>2, <3>1, ConstantsOK DEF Expired
    <2> QED
      BY <1>4, <2>1, <2>2 DEF TokenInv, GivenOut
  <1>6. DbYoung'
    <2>1. ASSUME NEW g \in Gateways
          PROVE  /\ Distinct(db'[g])
                 /\ db'[g] = {} \/ HasAge(db'[g], 1)
                 /\ g \in Down => db'[g] = {}
      BY <1>1, <1>2 DEF TokenInv, DbYoung, JobOnGateway, JobComplete
    <2>2. ASSUME NEW g \in Gateways, g \in synced'
          PROVE  HasAge(db'[g], 0)
      <3>1. CASE g \in synced
        <4>1. CASE db'[g] = db[g]
          BY <3>1, <4>1 DEF TokenInv, DbYoung
        <4>2. CASE g = job.gw /\ db'[g] = job.keep
          BY <1>1, <3>1, <4>2 DEF TokenInv, JobComplete, Job
        <4> QED
          BY <1>2, <4>1, <4>2
      <3>2. CASE g = job.gw /\ job.today /\ db'[g] = job.keep
        BY <1>1, <3>2 DEF TokenInv, JobComplete
      <3>3. CASE g = job.gw /\ job.today /\ ~job.changed /\ db'[g] = db[g]
        BY <1>1, <3>3 DEF TokenInv, JobComplete, HasAge
      <3> QED
        BY <1>1, <1>2, <2>2, <3>1, <3>2, <3>3 DEF TypeOK
    <2> QED
      BY <2>1, <2>2 DEF DbYoung, HasAge, Distinct
  <1>7. JobOnGateway' /\ JobComplete'
    BY DEF JobOnGateway, JobComplete
  <1> QED
    BY <1>3, <1>5, <1>6, <1>7 DEF TokenInv

\* A day later every token is a day older: those given out are still in the
\* lists, and of the old job, if any, nothing is too old yet.
LEMMA TokenDay ==
    ASSUME TypeOK, TokenInv, TypeOK', DayEnds
    PROVE  TokenInv'
  <1>1. \A g \in Gateways : db[g] \in SUBSET Stored /\ db'[g] = Older(db[g])
    BY DEF TypeOK, DayEnds
  <1>2. /\ UNCHANGED <<onGateway, supports, cache, pc>>
        /\ synced = Gateways \ Down /\ synced' = {}
    BY DEF DayEnds
  <1>3. \A stored \in SUBSET Stored : HasAge(stored, 0) => HasAge(Older(stored), 1)
    <2> SUFFICES ASSUME NEW stored \in SUBSET Stored, NEW t \in stored, t.age <= 0
                 PROVE  HasAge(Older(stored), 1)
      BY DEF HasAge
    <2>1. PICK v \in Older(stored) : v.age <= t.age + 1
      BY OlderFacts
    <2>2. v.age \in Nat /\ t.age \in Nat
      BY OlderFacts, ConstantsOK DEF Stored
    <2> QED
      BY <2>1, <2>2 DEF HasAge
  <1>4. \A g \in Gateways : db[g] = {} \/ HasAge(db[g], 0)
    BY <1>2 DEF TokenInv, DbYoung
  <1>5. StoredOnGateway'
    BY <1>1, <1>2, OlderFacts DEF TokenInv, StoredOnGateway, Expired
  <1>6. DbYoung'
    <2>1. \A g \in Gateways : db[g] = {} => db'[g] = {}
      BY <1>1 DEF Older
    <2>2. \A g \in Gateways : Distinct(db'[g])
      BY <1>1, OlderFacts DEF TokenInv, DbYoung
    <2>3. \A g \in Gateways : db'[g] = {} \/ HasAge(db'[g], 1)
      BY <1>1, <1>3, <1>4, <2>1
    <2> QED
      BY <1>2, <2>1, <2>2, <2>3 DEF TokenInv, DbYoung, HasAge, Distinct
  <1>7. GivenOut'
    <2>1. ASSUME NEW g \in Gateways, cache[g] # None
          PROVE  \E t \in db'[g] : t.tok = cache[g] /\ t.age <= 1
      <3>1. db[g] # {} /\ cache[g] = LastOf(db[g]).tok
        BY <2>1 DEF DayEnds, Reloaded, ActiveToken
      <3>2. LastOf(db[g]) \in db[g] /\ LastOf(db[g]).age <= 0
        BY <1>1, <1>4, <3>1, LastOfFacts, ConstantsOK DEF HasAge, Stored
      <3>3. PICK v \in db'[g] : v.tok = LastOf(db[g]).tok /\ v.age <= LastOf(db[g]).age + 1
        BY <1>1, <3>2, OlderFacts
      <3>4. v.age \in Nat /\ LastOf(db[g]).age \in Nat
        BY <1>1, <3>2, OlderFacts, ConstantsOK DEF Stored
      <3> QED
        BY <3>1, <3>2, <3>3, <3>4
    <2>2. ASSUME NEW g \in Gateways, client'[g] # NoClient
          PROVE  \E t \in db'[g] : t.tok = client'[g].tok /\ t.age <= client'[g].days + 1
      <3>1. /\ client[g] # NoClient /\ client'[g].tok = client[g].tok
            /\ client'[g].days = client[g].days + 1 /\ client[g].days \in Nat
        BY <2>2, ConstantsOK DEF DayEnds, TypeOK, Client, NoClient
      <3>2. PICK t \in db[g] : t.tok = client[g].tok /\ t.age <= client[g].days + 1
        BY <3>1 DEF TokenInv, GivenOut
      <3>3. PICK v \in db'[g] : v.tok = t.tok /\ v.age <= t.age + 1
        BY <1>1, OlderFacts
      <3>4. v.age \in Nat /\ t.age \in Nat
        BY <1>1, OlderFacts, ConstantsOK DEF Stored
      <3>5. v.age <= client'[g].days + 1
        BY <3>1, <3>2, <3>3, <3>4
      <3> QED
        BY <3>1, <3>2, <3>3, <3>5
    <2> QED
      BY <1>2, <2>1, <2>2 DEF GivenOut
  <1>8. CASE job = NoJob
    <2>1. job' = NoJob
      BY <1>8 DEF DayEnds
    <2> QED
      BY <1>2, <1>5, <1>6, <1>7, <2>1 DEF TokenInv, JobOnGateway, JobComplete
  <1>9. CASE job # NoJob
    <2>1. job \in Job /\ job.gw \in Gateways /\ job.keep \in SUBSET Stored
      BY <1>9 DEF TypeOK, Job
    <2>2. /\ job'.keep = Older(job.keep) /\ job'.changed = job.changed
          /\ job'.gw = job.gw /\ job'.add = job.add
          /\ job'.remove = job.remove /\ job'.today = FALSE
      BY <1>9, <2>1 DEF DayEnds, Job
    <2>3. JobOnGateway'
      <3>1. Distinct(Older(job.keep))
        BY <1>9, <2>1, OlderFacts DEF TokenInv, JobOnGateway
      <3>2. \A v \in Older(job.keep) : Expired(v) \/ v.tok \in onGateway[job.gw] \cup job.add
        BY <1>9, <2>1, OlderFacts DEF TokenInv, JobOnGateway
      <3>3. \A v \in Older(db[job.gw]) \cup Older(job.keep) :
               Expired(v) \/ v.tok \notin job.remove
        BY <1>1, <1>9, <2>1, OlderFacts DEF TokenInv, JobOnGateway
      <3> QED
        BY <1>1, <1>2, <1>9, <2>1, <2>2, <3>1, <3>2, <3>3
           DEF TokenInv, JobOnGateway, Distinct, Expired
    <2>4. JobComplete'
      <3>1. job.gw \notin Down /\ job.gw \in synced /\ job.today
        BY <1>2, <1>9, <2>1 DEF TokenInv, JobComplete
      <3>2. pc = "push" => HasAge(Older(job.keep), 1)
        BY <1>3, <1>9, <2>1, <3>1 DEF TokenInv, JobComplete
      <3>3. \A v \in Older(db[job.gw]) : Expired(v) \/ v \in Older(job.keep)
        <4> DEFINE Aged(t) ==
               [tok |-> t.tok, age |-> IF t.age < MaxAge THEN t.age + 1 ELSE MaxAge]
        <4>1. \A t \in db[job.gw] : Expired(t) => Expired(Aged(t))
          BY <1>1, <2>1, ConstantsOK DEF Stored, Expired
        <4>2. /\ Older(db[job.gw]) = {Aged(t) : t \in db[job.gw]}
              /\ Older(job.keep) = {Aged(t) : t \in job.keep}
          BY DEF Older
        <4> HIDE DEF Aged
        <4> QED
          BY <1>9, <4>1, <4>2 DEF TokenInv, JobComplete
      <3>4. ~job.changed => Older(job.keep) \subseteq Older(db[job.gw])
        BY <1>9, <2>1 DEF TokenInv, JobComplete, Older
      <3> QED
        BY <1>1, <1>2, <2>1, <2>2, <3>1, <3>2, <3>3, <3>4 DEF JobComplete, HasAge, Expired
    <2> QED
      BY <1>2, <1>5, <1>6, <1>7, <2>3, <2>4 DEF TokenInv
  <1> QED
    BY <1>8, <1>9

LEMMA TokenStep ==
    ASSUME Keeping, TypeOK, TokenInv, [Next]_vars
    PROVE  TokenInv'
  <1>1. TypeOK'
    BY TypedStep
  <1>2. CASE SyncAll \/ EndSync \/ NotifyFails
    BY <1>2, TokenQuiet DEF SyncAll, EndSync, NotifyFails, TypeOK
  <1>3. ASSUME NEW g \in Gateways, ListTokens(g)
        PROVE  TokenInv'
    BY <1>1, <1>3, TokenList
  <1>4. ASSUME NEW g \in Gateways, ListUnsupported(g)
        PROVE  FALSE
    BY <1>4 DEF ListUnsupported, TokenInv
  <1>5. ASSUME NEW g \in Gateways, ListFails(g)
        PROVE  TokenInv'
    BY <1>5, TokenQuiet DEF ListFails
  <1>6. ASSUME NEW t \in Tokens, CreateToken(t)
        PROVE  TokenInv'
    BY <1>1, <1>6, TokenCreate
  <1>7. ASSUME NEW t \in Tokens, AddToken(t)
        PROVE  TokenInv'
    BY <1>1, <1>7, TokenAdd
  <1>8. ASSUME NEW t \in Tokens, RemoveToken(t) \/ RemoveFails(t)
        PROVE  TokenInv'
    BY <1>1, <1>8, TokenRemove
  <1>9. ASSUME NEW t \in Tokens, CreateFails(t) \/ AddFails(t)
        PROVE  TokenInv'
    <2>1. \A g \in Gateways : onGateway[g] \subseteq onGateway'[g]
      BY <1>9 DEF CreateFails, AddFails, CallFails, Add, TypeOK
    <2> QED
      BY <1>9, <2>1, TokenAdded DEF CreateFails, AddFails, Return
  <1>10. CASE SaveTokens
    BY <1>1, <1>10, TokenSave DEF SaveTokens, Return
  <1>11. CASE SaveFails
    BY <1>1, <1>11, TokenSave DEF SaveFails, Return
  <1>12. CASE Notify \/ HourlyReload \/ Restart
    BY <1>12, TokenReload DEF Notify, HourlyReload, Restart, TypeOK
  <1>13. CASE DayEnds
    BY <1>1, <1>13, TokenDay
  <1>14. ASSUME NEW g \in Gateways, ServeToken(g)
         PROVE  TokenInv'
    <2>1. /\ client'[g] = [tok |-> cache[g], days |-> 0] /\ cache[g] # None
          /\ \A h \in Gateways \ {g} : client'[h] = client[h]
      BY <1>14 DEF ServeToken, TypeOK
    <2>2. UNCHANGED <<db, onGateway, supports, cache, pc, job, synced>>
      BY <1>14 DEF ServeToken
    <2>3. \E t \in db[g] : t.tok = client'[g].tok /\ t.age <= client'[g].days + 1
      BY <2>1 DEF TokenInv, GivenOut
    <2>4. GivenOut'
      BY <2>1, <2>2, <2>3 DEF TokenInv, GivenOut
    <2> QED
      BY <2>2, <2>4 DEF TokenInv, StoredOnGateway, JobOnGateway, JobComplete,
                        DbYoung, Distinct, HasAge, Expired
  <1>15. ASSUME NEW g \in Gateways, GatewayRestarts(g) \/ SwitchSupport(g)
         PROVE  FALSE
    BY <1>15 DEF GatewayRestarts, SwitchSupport, Fault, Keeping
  <1>16. CASE UNCHANGED vars
    BY <1>16, TokenQuiet DEF vars
  <1> QED
    BY <1>2, <1>3, <1>4, <1>5, <1>6, <1>7, <1>8, <1>9, <1>10, <1>11, <1>12, <1>13,
       <1>14, <1>15, <1>16 DEF Next, Sync, Around

LEMMA TokensKept == ASSUME Keeping PROVE Spec => [](TypeOK /\ TokenInv)
  <1>1. Init => TypeOK /\ TokenInv
    BY TypedInit, TokenInit
  <1>2. TypeOK /\ TokenInv /\ [Next]_vars => (TypeOK /\ TokenInv)'
    BY TypedStep, TokenStep
  <1> QED
    BY <1>1, <1>2, PTL DEF Spec

\* As long as gateways keep what they are given, whatever calls, writes and
\* restarts interrupt the reconciliation, a valid token in the database is on
\* its gateway.
THEOREM StoredTokensOnGateway == ASSUME Keeping PROVE Spec => []StoredOnGateway
  <1>1. TokenInv => StoredOnGateway
    BY DEF TokenInv
  <1> QED
    BY <1>1, TokensKept, PTL

\* Every token in the cache is accepted by its gateway.
THEOREM ServedTokensOnGateway == ASSUME Keeping PROVE Spec => []ServedTokenOnGateway
  <1>1. TypeOK /\ TokenInv => ServedTokenOnGateway
    BY ConstantsOK DEF TypeOK, TokenInv, GivenOut, StoredOnGateway,
                       ServedTokenOnGateway, Expired, Stored
  <1> QED
    BY <1>1, TokensKept, PTL

\* A client's token is accepted for MaxAge - 2 full days after it was given.
THEOREM ClientsKeepTokens == ASSUME Keeping PROVE Spec => []ClientKeepsToken
  <1>1. TypeOK /\ TokenInv => ClientKeepsToken
    <2> SUFFICES ASSUME TypeOK, TokenInv, NEW g \in Gateways, client[g] # NoClient
                 PROVE  client[g].tok \in onGateway[g]
      BY DEF ClientKeepsToken
    <2>1. client[g].days \in 0..(MaxAge - 2)
      BY DEF TypeOK, Client
    <2>2. PICK t \in db[g] : t.tok = client[g].tok /\ t.age <= client[g].days + 1
      BY DEF TokenInv, GivenOut
    <2>3. ~Expired(t)
      BY <2>1, <2>2, ConstantsOK DEF TypeOK, Stored, Expired
    <2> QED
      BY <2>2, <2>3 DEF TokenInv, StoredOnGateway
  <1> QED
    BY <1>1, TokensKept, PTL

(***************************************************************************)
(* The notification, whatever fails.  A day leaves the cache alone because *)
(* no two valid tokens have one age and every list that was reconciled     *)
(* today has a token of today, so the last token stays the last one.       *)
(***************************************************************************)
\* No two valid tokens were made on one day.
Spread(stored) ==
    \A t, u \in stored : t.age = u.age /\ t.age < MaxAge => t = u

\* A list reconciled today.
Todays(stored) == stored = {} \/ HasAge(stored, 0)

ListsSpread ==
    \A g \in Gateways :
      /\ Spread(db[g])
      /\ g \in synced => Todays(db[g])
      /\ g \in Down => db[g] = {}

JobSpread ==
    job # NoJob =>
      /\ job.gw \notin Down
      /\ Spread(job.keep)
      /\ ~job.changed => job.keep = db[job.gw]
      /\ ~job.today => job.gw \notin synced
      /\ pc = "create" => \A t \in job.keep : t.age >= 1
      /\ pc = "push" /\ job.today => Todays(job.keep)

\* A change the cache has not seen is still to be announced.
Announced == faults.db \/ cache = Reloaded \/ (notify /\ pc # "idle")

FollowInv == ListsSpread /\ JobSpread /\ Announced

\* A list a day later: its tokens are of different days still, and, if one of
\* them was of today, the last one is the one it was.
LEMMA OlderSpread ==
    ASSUME NEW stored \in SUBSET Stored, Spread(stored)
    PROVE  /\ Spread(Older(stored))
           /\ Todays(stored) => ActiveToken(Older(stored)) = ActiveToken(stored)
           /\ \A v \in Older(stored) : v.age >= 1
           /\ Older(stored) \in SUBSET Stored
  <1> DEFINE Aged(t) == [tok |-> t.tok, age |-> IF t.age < MaxAge THEN t.age + 1 ELSE MaxAge]
  <1>1. \A t \in stored : /\ t.age \in Nat /\ Aged(t).age \in Nat
                          /\ Aged(t).tok = t.tok /\ Aged(t).age >= 1
                          /\ Aged(t).age < MaxAge => t.age + 1 = Aged(t).age /\ t.age < MaxAge
                          /\ t.age = 0 => Aged(t).age = 1
    BY ConstantsOK DEF Stored
  <1>2. Older(stored) = {Aged(t) : t \in stored}
    BY DEF Older
  <1>3. Older(stored) \in SUBSET Stored
    BY OlderFacts
  <1> HIDE DEF Aged
  <1>4. Spread(Older(stored))
    <2> SUFFICES ASSUME NEW t \in stored, NEW u \in stored,
                        Aged(t).age = Aged(u).age, Aged(t).age < MaxAge
                 PROVE  Aged(t) = Aged(u)
      BY <1>2 DEF Spread
    <2>1. t.age = u.age /\ t.age < MaxAge
      BY <1>1
    <2> QED
      BY <2>1 DEF Spread
  <1>5. ASSUME Todays(stored), stored # {}
        PROVE  ActiveToken(Older(stored)) = ActiveToken(stored)
    <2>1. PICK t \in stored : t.age = 0
      BY <1>1, <1>5 DEF Todays, HasAge
    <2>2. /\ LastOf(stored) \in stored /\ LastOf(stored).age <= t.age
      BY <1>5, LastOfFacts
    <2>3. LastOf(stored) = t
      BY <1>1, <2>1, <2>2, ConstantsOK DEF Spread
    <2>4. Aged(t) \in Older(stored) /\ Aged(t).age = 1
      BY <1>1, <1>2, <2>1
    <2>5. LastOf(Older(stored)) \in Older(stored) /\ LastOf(Older(stored)).age <= 1
      BY <1>3, <2>4, LastOfFacts
    <2>6. PICK u \in stored : LastOf(Older(stored)) = Aged(u)
      BY <1>2, <2>5
    <2>7. u.age = 0
      BY <1>1, <2>5, <2>6, ConstantsOK
    <2>8. u = t
      BY <2>1, <2>7, ConstantsOK DEF Spread
    <2> QED
      BY <1>1, <1>5, <2>3, <2>4, <2>6, <2>8 DEF ActiveToken
  <1>6. stored = {} => Older(stored) = {}
    BY DEF Older
  <1> QED
    BY <1>1, <1>2, <1>3, <1>4, <1>5, <1>6

\* Faults are not forgotten.
LEMMA FaultsGrow ==
    ASSUME NEW kind
    PROVE  /\ Fault(kind) \/ UNCHANGED faults => (faults.db => faults'.db)
           /\ Fault("db") => faults'.db
  <1>1. Fault(kind) => faults'.db = (faults.db \/ kind = "db")
    BY DEF Fault
  <1>2. Fault("db") => faults'.db = (faults.db \/ "db" = "db")
    BY DEF Fault
  <1> QED
    BY <1>1, <1>2, ZenonT(20)

\* An announcement stands until the cache is reloaded or SyncAll ends.
LEMMA StillAnnounced ==
    ASSUME Announced, UNCHANGED <<db, cache, notify>>, faults.db => faults'.db,
           pc' # "idle" \/ pc' = pc
    PROVE  Announced'
  BY ZenonT(20) DEF Announced, Reloaded

\* Steps that write no row keep the lists; a job is dropped or as it was.
LEMMA FollowQuiet ==
    ASSUME TypeOK, FollowInv, UNCHANGED <<db, synced>>, Announced',
           job' = NoJob \/ (job' = job /\ pc' = pc)
    PROVE  FollowInv'
  BY DEF FollowInv, ListsSpread, JobSpread, Spread, Todays, HasAge

\* The calls to a gateway do not touch the tokens to be saved.
LEMMA FollowCall ==
    ASSUME TypeOK, FollowInv, UNCHANGED <<db, cache, notify, synced, pc>>,
           faults.db => faults'.db, job \in Job, pc = "push",
           \/ \E add : job' = [job EXCEPT !.add = add]
           \/ \E remove : job' = [job EXCEPT !.remove = remove]
    PROVE  FollowInv'
  <1>1. Announced'
    BY StillAnnounced DEF FollowInv
  <1>2. /\ job'.gw = job.gw /\ job'.keep = job.keep
        /\ job'.changed = job.changed /\ job'.today = job.today
    BY DEF Job
  <1>3. job # NoJob
    BY DEF TypeOK
  <1> QED
    BY <1>1, <1>2, <1>3 DEF FollowInv, ListsSpread, JobSpread, Spread, Todays, HasAge

LEMMA FollowList ==
    ASSUME TypeOK, FollowInv, NEW g \in Gateways, ListTokens(g)
    PROVE  FollowInv'
  <1> DEFINE valid == {t \in db[g] : ~Expired(t)}
  <1>1. /\ job'.gw = g /\ job'.keep = valid /\ job'.today = TRUE
        /\ job'.changed = (db[g] \ valid # {})
        /\ pc' = IF NeedsNew(db[g], valid) THEN "create" ELSE "push"
        /\ g \notin Down
    BY DEF ListTokens
  <1>2. UNCHANGED <<db, cache, notify, synced, faults>>
    BY DEF ListTokens
  <1>3. Announced'
    BY <1>1, <1>2, StillAnnounced, FaultsGrow DEF FollowInv
  <1>4. db[g] \in SUBSET Stored /\ valid \subseteq db[g]
    BY DEF TypeOK
  <1>5. pc' = "create" => \A t \in valid : t.age >= 1
    <2> SUFFICES ASSUME NeedsNew(db[g], valid), NEW t \in valid
                 PROVE  t.age >= 1
      BY <1>1
    <2>1. LastOf(db[g]).age >= 1 /\ LastOf(db[g]).age <= t.age /\ LastOf(db[g]) \in db[g]
      BY <1>4, LastOfFacts DEF NeedsNew
    <2> QED
      BY <1>4, <2>1, ConstantsOK DEF Stored
  <1>6. pc' = "push" => Todays(valid)
    <2> SUFFICES ASSUME ~NeedsNew(db[g], valid)
                 PROVE  HasAge(valid, 0)
      BY <1>1 DEF Todays
    <2>1. LastOf(db[g]) \in db[g] /\ ~(LastOf(db[g]).age >= 1)
      BY <1>4, LastOfFacts DEF NeedsNew
    <2>2. LastOf(db[g]).age = 0
      BY <1>4, <2>1, ConstantsOK DEF Stored
    <2>3. LastOf(db[g]) \in valid
      BY <2>1, <2>2, ConstantsOK DEF Expired
    <2> QED
      BY <2>2, <2>3 DEF HasAge
  <1>7. Spread(valid) /\ (~job'.changed => job'.keep = db[g])
    BY <1>1, <1>4 DEF FollowInv, ListsSpread, Spread
  <1> HIDE DEF valid
  <1>8. JobSpread'
    BY <1>1, <1>2, <1>5, <1>6, <1>7 DEF JobSpread, Spread, Todays, HasAge
  <1>9. ListsSpread'
    BY <1>2 DEF FollowInv, ListsSpread, Spread, Todays, HasAge
  <1> QED
    BY <1>3, <1>8, <1>9 DEF FollowInv

LEMMA FollowUnsupported ==
    ASSUME TypeOK, FollowInv, NEW g \in Gateways, ListUnsupported(g)
    PROVE  FollowInv'
  <1>1. UNCHANGED <<db, cache, notify, faults>> /\ g \notin Down /\ pc = "next"
    BY DEF ListUnsupported
  <1>2. CASE db[g] = {}
    <2>1. synced' = synced \cup {g} /\ UNCHANGED <<pc, job>>
      BY <1>2 DEF ListUnsupported
    <2>2. Announced'
      BY <1>1, <2>1, StillAnnounced DEF FollowInv
    <2>3. job = NoJob
      BY <1>1 DEF TypeOK
    <2> QED
      BY <1>1, <1>2, <2>1, <2>2, <2>3
         DEF FollowInv, ListsSpread, JobSpread, Spread, Todays, HasAge
  <1>3. CASE db[g] # {}
    <2>1. /\ job'.gw = g /\ job'.keep = {} /\ job'.changed = TRUE /\ job'.today = TRUE
          /\ pc' = "push" /\ UNCHANGED synced
      BY <1>3 DEF ListUnsupported
    <2>2. Announced'
      BY <1>1, <2>1, StillAnnounced DEF FollowInv
    <2> QED
      BY <1>1, <2>1, <2>2 DEF FollowInv, ListsSpread, JobSpread, Spread, Todays, HasAge
  <1> QED
    BY <1>2, <1>3

\* The tokens that were kept are of earlier days than the new one.
LEMMA FollowCreate ==
    ASSUME TypeOK, FollowInv, NEW t \in Tokens, CreateToken(t)
    PROVE  FollowInv'
  <1> DEFINE new == [tok |-> t, age |-> 0]
  <1>1. job \in Job /\ job # NoJob /\ pc = "create" /\ pc' = "push"
    BY JobKnown DEF CreateToken, TypeOK
  <1>2. /\ job'.gw = job.gw /\ job'.keep = job.keep \cup {new}
        /\ job'.changed = TRUE /\ job'.today = job.today
    BY <1>1 DEF CreateToken, Job
  <1>3. UNCHANGED <<db, cache, notify, synced, faults>>
    BY DEF CreateToken
  <1>4. Announced'
    BY <1>1, <1>3, StillAnnounced DEF FollowInv
  <1>5. new.age = 0 /\ \A u \in job.keep : u.age >= 1 /\ u.age \in Nat
    BY <1>1, ConstantsOK DEF FollowInv, JobSpread, Job, Stored
  <1> HIDE DEF new
  <1>6. Spread(job'.keep)
    BY <1>1, <1>2, <1>5 DEF FollowInv, JobSpread, Spread
  <1>7. Todays(job'.keep)
    BY <1>2, <1>5 DEF Todays, HasAge
  <1>8. JobSpread'
    BY <1>1, <1>2, <1>3, <1>6, <1>7 DEF FollowInv, JobSpread, Spread, Todays, HasAge
  <1>9. ListsSpread'
    BY <1>3 DEF FollowInv, ListsSpread, Spread, Todays, HasAge
  <1> QED
    BY <1>4, <1>8, <1>9 DEF FollowInv

\* A save announces what it changed; one that failed is a fault of the database.
LEMMA FollowSave ==
    ASSUME TypeOK, FollowInv, SaveTokens \/ SaveFails
    PROVE  FollowInv'
  <1>1. /\ job \in Job /\ job.gw \in Gateways /\ job # NoJob /\ pc = "push"
        /\ job' = NoJob /\ pc' = "next"
    BY JobKnown DEF SaveTokens, SaveFails, ReadyToSave, Return, TypeOK
  <1>2. db' = [db EXCEPT ![job.gw] = job.keep] \/ (db' = db /\ (SaveTokens => ~job.changed))
    BY DEF SaveTokens, SaveFails
  <1>3. synced' = synced \/ (job.today /\ synced' = synced \cup {job.gw})
    BY DEF SaveTokens, SaveFails
  <1>4. /\ job.gw \notin Down /\ Spread(job.keep) /\ (job.today => Todays(job.keep))
        /\ ~job.changed => job.keep = db[job.gw]
        /\ ~job.today => job.gw \notin synced
    BY <1>1 DEF FollowInv, JobSpread
  <1>5. ASSUME NEW g \in Gateways
        PROVE  /\ Spread(db'[g])
               /\ g \in synced' => Todays(db'[g])
               /\ g \in Down => db'[g] = {}
    <2>1. CASE g # job.gw
      <3>1. db'[g] = db[g] /\ (g \in synced' => g \in synced)
        BY <1>2, <1>3, <2>1 DEF TypeOK
      <3> QED
        BY <3>1 DEF FollowInv, ListsSpread
    <2>2. CASE g = job.gw /\ db'[g] = job.keep
      BY <1>1, <1>3, <1>4, <2>2
    <2>3. CASE g = job.gw /\ db' = db
      <3>1. CASE SaveTokens
        BY <1>1, <1>2, <1>3, <1>4, <2>3, <3>1 DEF FollowInv, ListsSpread, TypeOK
      <3>2. CASE SaveFails
        <4>1. synced' = synced
          BY <3>2 DEF SaveFails
        <4> QED
          BY <2>3, <4>1 DEF FollowInv, ListsSpread
      <3> QED
        BY <3>1, <3>2
    <2> QED
      BY <1>1, <1>2, <2>1, <2>2, <2>3 DEF TypeOK
  <1>6. ListsSpread'
    BY <1>5 DEF ListsSpread, Spread, Todays, HasAge
  <1>7. Announced'
    <2>1. CASE SaveTokens
      <3>1. CASE job.changed
        BY <1>1, <2>1, <3>1 DEF SaveTokens, Announced
      <3>2. CASE ~job.changed
        <4>1. UNCHANGED <<db, cache, faults>> /\ notify' = notify
          BY <2>1, <3>2 DEF SaveTokens, TypeOK
        <4> QED
          BY <1>1, <4>1, StillAnnounced DEF FollowInv
      <3> QED
        BY <3>1, <3>2
    <2>2. CASE SaveFails
      BY <2>2, FaultsGrow DEF SaveFails, Announced
    <2> QED
      BY <2>1, <2>2
  <1> QED
    BY <1>1, <1>6, <1>7 DEF FollowInv, JobSpread

\* A day ages the tokens and leaves the cache as good as it was.
LEMMA FollowDay ==
    ASSUME TypeOK, FollowInv, DayEnds
    PROVE  FollowInv'
  <1>1. /\ db' = [g \in Gateways |-> Older(db[g])]
        /\ synced = Gateways \ Down /\ synced' = {}
        /\ UNCHANGED <<cache, pc, notify, faults>> /\ cache = Reloaded
    BY DEF DayEnds
  <1>2. ASSUME NEW g \in Gateways
        PROVE  /\ Spread(db'[g]) /\ (db[g] = {} => db'[g] = {})
               /\ ActiveToken(db'[g]) = ActiveToken(db[g])
    <2>1. db[g] \in SUBSET Stored /\ Spread(db[g]) /\ Todays(db[g]) /\ db'[g] = Older(db[g])
      BY <1>1 DEF TypeOK, FollowInv, ListsSpread, Todays
    <2> QED
      BY <2>1, OlderSpread DEF Older
  <1>3. ListsSpread'
    BY <1>1, <1>2 DEF FollowInv, ListsSpread, Spread, Todays, HasAge
  <1>4. cache' = Reloaded'
    BY <1>1, <1>2 DEF Reloaded, ActiveToken, LastOf
  <1>5. JobSpread'
    <2>1. CASE job = NoJob
      BY <2>1 DEF DayEnds, JobSpread
    <2>2. CASE job # NoJob
      <3>1. job \in Job /\ job.gw \in Gateways /\ job.keep \in SUBSET Stored
        BY <2>2 DEF TypeOK, Job
      <3>2. /\ job'.keep = Older(job.keep) /\ job'.changed = job.changed
            /\ job'.gw = job.gw /\ job'.today = FALSE
        BY <2>2, <3>1 DEF DayEnds, Job
      <3>3. /\ Spread(job.keep) /\ job.gw \notin Down
            /\ ~job.changed => job.keep = db[job.gw]
        BY <2>2 DEF FollowInv, JobSpread
      <3>4. Spread(Older(job.keep)) /\ \A v \in Older(job.keep) : v.age >= 1
        BY <3>1, <3>3, OlderSpread
      <3>5. db'[job.gw] = Older(db[job.gw])
        BY <1>1, <3>1
      <3> QED
        BY <1>1, <3>2, <3>3, <3>4, <3>5 DEF JobSpread, Spread
    <2> QED
      BY <2>1, <2>2
  <1> QED
    BY <1>3, <1>4, <1>5 DEF FollowInv, Announced

LEMMA FollowInit == Init => FollowInv
  <1> SUFFICES ASSUME Init PROVE FollowInv
    OBVIOUS
  <1>1. /\ \A g \in Gateways : db[g] = {}
        /\ job = NoJob /\ synced = {} /\ cache = Reloaded
    BY DEF Init
  <1> QED
    BY <1>1 DEF FollowInv, ListsSpread, JobSpread, Announced, Spread

LEMMA FollowStep == TypeOK /\ FollowInv /\ [Next]_vars => FollowInv'
  <1> SUFFICES ASSUME TypeOK, FollowInv, [Next]_vars PROVE FollowInv'
    OBVIOUS
  <1>1. CASE SyncAll
    <2>1. Announced'
      BY <1>1 DEF SyncAll, FollowInv, Announced, Reloaded
    <2> QED
      BY <1>1, <2>1, FollowQuiet DEF SyncAll, TypeOK
  <1>2. ASSUME NEW g \in Gateways, ListTokens(g) \/ ListUnsupported(g)
        PROVE  FollowInv'
    BY <1>2, FollowList, FollowUnsupported
  <1>3. ASSUME NEW g \in Gateways, ListFails(g)
        PROVE  FollowInv'
    <2>1. Announced'
      BY <1>3, StillAnnounced, FaultsGrow DEF ListFails, FollowInv
    <2> QED
      BY <1>3, <2>1, FollowQuiet DEF ListFails
  <1>4. ASSUME NEW t \in Tokens, CreateToken(t)
        PROVE  FollowInv'
    BY <1>4, FollowCreate
  <1>5. ASSUME NEW t \in Tokens, CreateFails(t) \/ AddFails(t)
        PROVE  FollowInv'
    <2>1. UNCHANGED <<db, cache, notify, synced>> /\ job' = NoJob /\ pc' = "next"
      BY <1>5 DEF CreateFails, AddFails, Return
    <2>2. faults.db => faults'.db
      BY <1>5, FaultsGrow DEF CreateFails, AddFails, CallFails
    <2> QED
      BY <2>1, <2>2, StillAnnounced, FollowQuiet DEF FollowInv
  <1>6. ASSUME NEW t \in Tokens, AddToken(t)
        PROVE  FollowInv'
    BY <1>6, FollowCall, JobKnown DEF AddToken
  <1>7. ASSUME NEW t \in Tokens, RemoveToken(t) \/ RemoveFails(t)
        PROVE  FollowInv'
    <2>1. faults.db => faults'.db
      BY <1>7, FaultsGrow DEF RemoveToken, RemoveFails, CallFails
    <2>2. /\ UNCHANGED <<db, cache, notify, synced, pc>> /\ pc = "push" /\ job \in Job
          /\ job' = [job EXCEPT !.remove = job.remove \ {t}]
      BY <1>7, JobKnown DEF RemoveToken, RemoveFails
    <2> QED
      BY <2>1, <2>2, FollowCall
  <1>8. CASE SaveTokens \/ SaveFails
    BY <1>8, FollowSave
  <1>9. CASE EndSync
    <2>1. Announced'
      BY <1>9 DEF EndSync, FollowInv, Announced, Reloaded
    <2> QED
      BY <1>9, <2>1, FollowQuiet DEF EndSync, TypeOK
  <1>10. CASE Notify \/ HourlyReload \/ Restart
    <2>1. Announced'
      BY <1>10 DEF Notify, HourlyReload, Restart, Announced, Reloaded
    <2> QED
      BY <1>10, <2>1, FollowQuiet DEF Notify, HourlyReload, Restart, TypeOK
  <1>11. CASE NotifyFails
    <2>1. Announced'
      BY <1>11, FaultsGrow DEF NotifyFails, Announced
    <2> QED
      BY <1>11, <2>1, FollowQuiet DEF NotifyFails, TypeOK
  <1>12. CASE DayEnds
    BY <1>12, FollowDay
  <1>13. ASSUME NEW g \in Gateways,
                ServeToken(g) \/ GatewayRestarts(g) \/ SwitchSupport(g)
         PROVE  FollowInv'
    <2>1. UNCHANGED <<db, cache, pc, job, notify, synced>>
      BY <1>13 DEF ServeToken, GatewayRestarts, SwitchSupport, syncVars
    <2>2. faults.db => faults'.db
      BY <1>13, FaultsGrow DEF ServeToken, GatewayRestarts, SwitchSupport
    <2> QED
      BY <2>1, <2>2, StillAnnounced, FollowQuiet DEF FollowInv
  <1>14. CASE UNCHANGED vars
    <2>1. Announced'
      BY <1>14, StillAnnounced DEF vars, FollowInv
    <2> QED
      BY <1>14, <2>1, FollowQuiet DEF vars
  <1> QED
    BY <1>1, <1>2, <1>3, <1>4, <1>5, <1>6, <1>7, <1>8, <1>9, <1>10, <1>11, <1>12,
       <1>13, <1>14 DEF Next, Sync, Around

\* Whatever happens to gateways and to the process, no change of the tokens
\* goes without a reload of the cache while the database answers.
THEOREM CacheFollowsDatabase == Spec => []CacheFollows
  <1>1. Init => TypeOK /\ FollowInv
    BY TypedInit, FollowInit
  <1>2. TypeOK /\ FollowInv /\ [Next]_vars => (TypeOK /\ FollowInv)'
    BY TypedStep, FollowStep
  <1>3. FollowInv => CacheFollows
    BY DEF FollowInv, Announced, CacheFollows
  <1> QED
    BY <1>1, <1>2, <1>3, PTL DEF Spec

==============================================================================
