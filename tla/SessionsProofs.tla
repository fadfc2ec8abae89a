--------------------------- MODULE SessionsProofs ---------------------------
(***************************************************************************)
(* Proofs about Sessions, for every set of workers, users, handles and     *)
(* ids, and every choice of faults.                                        *)
(***************************************************************************)
EXTENDS Sessions, TLAPS

USE DEF User, Keys, Txs, RowState, Open, dbVars, wVars, txVars

\* The state every request starts its transaction from is well typed, and a
\* transaction that ends without a commit leaves the state well typed.
LEMMA RollbackType ==
    ASSUME TypeOK, NEW w \in Workers, pc[w] # "idle", Rollback(w),
           UNCHANGED <<cache, barred>>
    PROVE  TypeOK'
BY ConstantsOK DEF TypeOK, Rollback, EndTx, NoWrites, Locations

\* Every variable keeps its type: no operation of the session manager or the
\* cleaner, and no fault, takes the system out of the states described.
LEMMA TypeStep == TypeOK /\ [Next]_vars => TypeOK'
<1> SUFFICES ASSUME TypeOK, [Next]_vars PROVE TypeOK'
  OBVIOUS
<1>1. ASSUME NEW w \in Workers, Receive(w) PROVE TypeOK'
  <2>1. PICK r \in Request : Begin(w, r)
    BY <1>1, ConstantsOK
    DEF Receive, HandleEvent, HandleProtocol, UpdateSession, Request
  <2>2. alone' \in [Workers -> BOOLEAN]
    BY <2>1, Zenon DEF TypeOK, Begin, Serves
  <2> QED
    BY <2>1, <2>2, ConstantsOK DEF TypeOK, Begin, Locations
<1>2. ASSUME NEW w \in Workers, Step(w) PROVE TypeOK'
  <2>1. CASE CacheHit(w)
    BY <2>1, ConstantsOK DEF TypeOK, CacheHit, AfterLookup, Locations, Request
  <2>2. CASE FetchUser(w)
    BY <2>2, ConstantsOK
    DEF TypeOK, FetchUser, AfterLookup, Locations, Request, Enabled, Registered
  <2>3. CASE LeaveOfDisabled(w)
    BY <2>3, ConstantsOK
    DEF TypeOK, LeaveOfDisabled, Locations, Request, Registered
  <2>9. CASE RejectDisabled(w)
    BY <2>9, RollbackType DEF RejectDisabled
  <2>4. CASE MissUser(w)
    BY <2>4, ConstantsOK DEF TypeOK, MissUser, Locations
  <2>5. CASE CloseStart(w)
    BY <2>5, ConstantsOK
    DEF TypeOK, CloseStart, SessionsToClose, AfterClose, Locations
  <2>6. CASE RejectUnknown(w)
    BY <2>6, RollbackType DEF RejectUnknown
  <2>7. CASE BreakForeignKey(w)
    BY <2>7, RollbackType DEF BreakForeignKey
  <2>8. CASE Commit(w)
    <3>1. rows' \in [Keys -> RowState]
      BY <2>8 DEF TypeOK, Commit, Written
    <3>2. users' \in [Users -> User]
      BY <2>8 DEF TypeOK, Commit, Request
    <3> QED
      BY <2>8, <3>1, <3>2, ConstantsOK
      DEF TypeOK, Commit, EndTx, NoWrites, Locations
  <2> QED
    BY <1>2, <2>1, <2>2, <2>3, <2>4, <2>5, <2>6, <2>7, <2>8, <2>9 DEF Step
<1>3. ASSUME NEW w \in Workers, LockStep(w) PROVE TypeOK'
  <2>1. CASE InsertUser(w)
    BY <2>1, ConstantsOK
    DEF TypeOK, InsertUser, AfterLookup, Locations, Request, UsedIds
  <2>2. CASE InsertConflict(w)
    BY <2>2, RollbackType DEF InsertConflict
  <2>3. CASE CloseRow(w)
    BY <2>3, ConstantsOK DEF TypeOK, CloseRow, AfterClose, Locations
  <2>4. CASE UpsertSession(w)
    BY <2>4, ConstantsOK DEF TypeOK, UpsertSession, Locations
  <2> QED BY <1>3, <2>1, <2>2, <2>3, <2>4 DEF LockStep
<1>4. ASSUME NEW w \in Workers, DbError(w) \/ AbortWorker(w) PROVE TypeOK'
  <2>1. pc[w] # "idle"
    BY <1>4 DEF DbError, AbortWorker, InDeadlock, WaitsFor, Wanted
  <2> QED BY <1>4, <2>1, RollbackType DEF DbError, AbortWorker
<1>5. CASE Clean
  <2>1. CASE CleanFetch
    BY <2>1, ConstantsOK DEF TypeOK, CleanFetch, DeadSessions, Locations
  <2>2. CASE CleanRow
    BY <2>2, ConstantsOK DEF TypeOK, CleanRow, Locations
  <2>3. CASE CleanCommit
    <3>1. rows' \in [Keys -> RowState]
      BY <2>3 DEF TypeOK, CleanCommit, Written
    <3> QED
      BY <2>3, <3>1, ConstantsOK
      DEF TypeOK, CleanCommit, EndClean, NoWrites, Locations
  <2>4. CASE CleanError \/ AbortCleaner
    <3>1. EndClean /\ UNCHANGED rows
      BY <2>4 DEF CleanError, AbortCleaner
    <3> QED BY <3>1, ConstantsOK DEF TypeOK, EndClean, NoWrites, Locations
  <2> QED BY <1>5, <2>1, <2>2, <2>3, <2>4 DEF Clean
<1>6. CASE Environment
  <2>1. ASSUME NEW k \in Keys, Age(k) PROVE TypeOK'
    BY <2>1 DEF TypeOK, Age
  <2>2. ASSUME NEW u \in Users, Evict(u) PROVE TypeOK'
    BY <2>2 DEF TypeOK, Evict
  <2>3. ASSUME NEW u \in Users, DisableUser(u) PROVE TypeOK'
    BY <2>3 DEF TypeOK, DisableUser
  <2>4. CASE Restart
    BY <2>4, ConstantsOK
    DEF TypeOK, Restart, LoadedUsers, Enabled, Registered, NoWrites, Locations
  <2> QED BY <1>6, <2>1, <2>2, <2>3, <2>4 DEF Environment
<1>7. CASE UNCHANGED vars
  BY <1>7 DEF TypeOK, vars
<1> QED
  BY <1>1, <1>2, <1>3, <1>4, <1>5, <1>6, <1>7 DEF Next

\* Every reachable state is well typed.
THEOREM TypeCorrect == Spec => []TypeOK
<1>1. ASSUME Init PROVE TypeOK
  <2>1. users \in [Users -> User]
    BY <1>1 DEF Init
  <2>2. cache \in [Users -> Ids \cup {None}] /\ barred \in SUBSET Users
    BY <1>1, <2>1 DEF Init, LoadedUsers, Enabled, Registered
  <2> QED
    BY <1>1, <2>1, <2>2, ConstantsOK DEF Init, TypeOK, NoWrites, Locations
<1> QED BY <1>1, TypeStep, PTL DEF Spec

-----------------------------------------------------------------------------
(***************************************************************************)
(* The cache.  CacheAgrees is not inductive: the id a request caches for   *)
(* the user it has just inserted becomes the committed one only later.     *)
(* What carries it over that gap is that, until then, the user has no      *)
(* other inserter and the cache holds no other id.                         *)
(***************************************************************************)
Inserting(w) ==
    /\ pc[w] \in {"close", "closing", "upsert", "commit"}
    /\ ~Registered(req[w].user)
    /\ cache[req[w].user] \in {None, inserted[w]}

InsertInv ==
    /\ \A w \in Workers : inserted[w] # None => Inserting(w)
    /\ \A v, w \in Workers :
           inserted[v] # None /\ inserted[w] # None /\ req[v].user = req[w].user
               => v = w

CacheInv == TypeOK /\ InsertInv /\ CacheAgrees

\* A transaction that ends without a commit only forgets what it inserted.
LEMMA RollbackCache ==
    ASSUME CacheInv, NEW w \in Workers, pc[w] # "idle", Rollback(w),
           UNCHANGED cache
    PROVE  InsertInv' /\ CacheAgrees'
BY DEF CacheInv, TypeOK, InsertInv, Inserting, CacheAgrees, Registered,
       Rollback, EndTx

\* Steps that touch neither the users, nor the cache, nor what is inserted,
\* and keep each inserting transaction between its insert and its commit.
LEMMA QuietCache ==
    ASSUME CacheInv, UNCHANGED <<users, cache, inserted>>,
           \A w \in Workers : inserted[w] # None =>
               /\ req'[w] = req[w]
               /\ pc'[w] \in {"close", "closing", "upsert", "commit"}
    PROVE  InsertInv' /\ CacheAgrees'
BY DEF CacheInv, TypeOK, InsertInv, Inserting, CacheAgrees, Registered

\* The cache invariant is preserved by every step.
LEMMA CacheStep == CacheInv /\ [Next]_vars => InsertInv' /\ CacheAgrees'
<1> SUFFICES ASSUME CacheInv, [Next]_vars PROVE InsertInv' /\ CacheAgrees'
  OBVIOUS
<1>0. TypeOK /\ InsertInv /\ CacheAgrees
  BY DEF CacheInv
<1>1. ASSUME NEW w \in Workers, Receive(w) PROVE InsertInv' /\ CacheAgrees'
  <2>1. PICK r \in Request : Begin(w, r)
    BY <1>1, ConstantsOK
    DEF Receive, HandleEvent, HandleProtocol, UpdateSession, Request
  <2>2. inserted[w] = None
    BY <1>0, <2>1 DEF Begin, InsertInv, Inserting
  <2> QED
    BY <1>0, <2>1, <2>2, QuietCache DEF Begin, TypeOK, InsertInv, Inserting
<1>2. ASSUME NEW w \in Workers, Step(w) PROVE InsertInv' /\ CacheAgrees'
  <2>1. CASE CacheHit(w) \/ LeaveOfDisabled(w) \/ MissUser(w)
    <3>1. inserted[w] = None
      BY <1>0, <2>1 DEF CacheHit, LeaveOfDisabled, MissUser, InsertInv, Inserting
    <3> QED
      BY <1>0, <2>1, <3>1, QuietCache
      DEF CacheHit, LeaveOfDisabled, MissUser, TypeOK, InsertInv, Inserting,
          wVars
  <2>2. CASE FetchUser(w)
    BY <1>0, <2>2
    DEF FetchUser, TypeOK, InsertInv, Inserting, CacheAgrees, Enabled,
        Registered, AfterLookup, Request
  <2>3. CASE CloseStart(w)
    BY <1>0, <2>3, QuietCache
    DEF CloseStart, AfterClose, TypeOK, InsertInv, Inserting
  <2>4. CASE RejectDisabled(w) \/ RejectUnknown(w) \/ BreakForeignKey(w)
    BY <2>4, RollbackCache DEF RejectDisabled, RejectUnknown, BreakForeignKey
  <2>5. CASE Commit(w)
    BY <1>0, <2>5
    DEF Commit, EndTx, TypeOK, InsertInv, Inserting, CacheAgrees, Registered,
        Request
  <2> QED BY <1>2, <2>1, <2>2, <2>3, <2>4, <2>5 DEF Step
<1>3. ASSUME NEW w \in Workers, LockStep(w) PROVE InsertInv' /\ CacheAgrees'
  <2>1. CASE InsertUser(w)
    <3> DEFINE u == req[w].user
    <3>1. u \in Users /\ pc[w] = "insert" /\ users[u].id = None
      BY <1>0, <2>1 DEF InsertUser, TypeOK, Request, Registered
    <3>2. \A v \in Workers \ {w} : inserted[v] # None => req[v].user # u
      BY <1>0, <2>1 DEF InsertUser, InsertTurn, Serves, InsertInv, Inserting
    <3>3. PICK i \in Ids :
              /\ inserted' = [inserted EXCEPT ![w] = i]
              /\ cache' = [cache EXCEPT ![u] = i]
      BY <2>1 DEF InsertUser
    <3>4. /\ pc' = [pc EXCEPT ![w] = IF req[w].op = "update" THEN "upsert"
                                                            ELSE "close"]
          /\ UNCHANGED <<users, req>>
      BY <2>1 DEF InsertUser, AfterLookup
    <3>5. ASSUME NEW v \in Workers, inserted'[v] # None PROVE Inserting(v)'
      BY <1>0, <3>1, <3>2, <3>3, <3>4, <3>5
      DEF TypeOK, InsertInv, Inserting, Registered
    <3>6. CacheAgrees'
      BY <1>0, <3>1, <3>3, <3>4 DEF TypeOK, CacheAgrees, Registered
    <3>7. \A v, x \in Workers :
              inserted'[v] # None /\ inserted'[x] # None
                /\ req'[v].user = req'[x].user => v = x
      BY <1>0, <3>2, <3>3, <3>4 DEF TypeOK, InsertInv
    <3> QED BY <3>5, <3>6, <3>7 DEF InsertInv
  <2>2. CASE InsertConflict(w)
    BY <2>2, RollbackCache DEF InsertConflict
  <2>3. CASE CloseRow(w)
    BY <1>0, <2>3, QuietCache
    DEF CloseRow, AfterClose, TypeOK, InsertInv, Inserting
  <2>4. CASE UpsertSession(w)
    BY <1>0, <2>4, QuietCache DEF UpsertSession, TypeOK, InsertInv, Inserting
  <2> QED BY <1>3, <2>1, <2>2, <2>3, <2>4 DEF LockStep
<1>4. ASSUME NEW w \in Workers, DbError(w) \/ AbortWorker(w)
      PROVE  InsertInv' /\ CacheAgrees'
  <2>1. pc[w] # "idle"
    BY <1>4 DEF DbError, AbortWorker, InDeadlock, WaitsFor, Wanted
  <2> QED BY <1>4, <2>1, RollbackCache DEF DbError, AbortWorker
<1>5. CASE Clean
  <2>1. /\ UNCHANGED <<users, cache, inserted, req>>
        /\ \A w \in Workers : pc'[w] = pc[w]
    BY <1>0, <1>5, ConstantsOK
    DEF Clean, CleanFetch, CleanRow, CleanCommit, CleanError, AbortCleaner,
        EndClean, TypeOK
  <2> QED BY <1>0, <2>1, QuietCache DEF InsertInv, Inserting
<1>6. CASE Environment
  <2>1. ASSUME NEW k \in Keys, Age(k) PROVE InsertInv' /\ CacheAgrees'
    BY <1>0, <2>1, QuietCache DEF Age, InsertInv, Inserting
  <2>2. ASSUME NEW u \in Users, Evict(u) PROVE InsertInv' /\ CacheAgrees'
    BY <1>0, <2>2
    DEF Evict, TypeOK, InsertInv, Inserting, CacheAgrees, Registered, Request
  <2>3. ASSUME NEW u \in Users, DisableUser(u) PROVE InsertInv' /\ CacheAgrees'
    BY <1>0, <2>3
    DEF DisableUser, TypeOK, InsertInv, Inserting, CacheAgrees, Registered,
        Request
  <2>4. CASE Restart
    BY <1>0, <2>4
    DEF Restart, LoadedUsers, Enabled, TypeOK, InsertInv, Inserting,
        CacheAgrees, Registered
  <2> QED BY <1>6, <2>1, <2>2, <2>3, <2>4 DEF Environment
<1>7. CASE UNCHANGED vars
  BY <1>0, <1>7, QuietCache DEF vars, InsertInv, Inserting
<1> QED
  BY <1>1, <1>2, <1>3, <1>4, <1>5, <1>6, <1>7 DEF Next

\* The id cached for a user is always the id of the user's committed row.
THEOREM CacheCorrect == Spec => []CacheAgrees
<1>1. Init => InsertInv /\ CacheAgrees
  BY DEF Init, InsertInv, CacheAgrees, LoadedUsers, Enabled
<1>2. Init /\ TypeOK => CacheInv
  BY <1>1 DEF CacheInv
<1>3. CacheInv /\ [Next]_vars /\ TypeOK' => CacheInv'
  BY CacheStep DEF CacheInv
<1>4. CacheInv => CacheAgrees
  BY DEF CacheInv
<1> QED BY <1>2, <1>3, <1>4, TypeCorrect, PTL DEF Spec

-----------------------------------------------------------------------------
(***************************************************************************)
(* Disabled users.  The check is made on a cache miss only, so it is worth *)
(* what the cache is: a barred user must never get into it again.          *)
(***************************************************************************)
PastLookup == {"insert", "close", "closing", "upsert", "commit"}

BarredInv ==
    /\ \A u \in barred : /\ Registered(u) /\ users[u].disabled
                         /\ cache[u] = None
    /\ \A w \in Workers :
           pc[w] \in PastLookup /\ req[w].user \in barred => req[w].op = "leave"

\* Steps that leave the tables, the cache and all requests but w's alone, and
\* take w nowhere it was not.
LEMMA QuietBarred ==
    ASSUME TypeOK, BarredInv, NEW w \in Workers,
           UNCHANGED <<users, cache, barred>>,
           \A v \in Workers \ {w} : req'[v] = req[v] /\ pc'[v] = pc[v],
           \/ pc'[w] \notin PastLookup
           \/ req'[w] = req[w] /\ pc[w] \in PastLookup
           \/ req'[w] = req[w] /\ req[w].user \notin barred
           \/ req'[w] = req[w] /\ req[w].op = "leave"
    PROVE  BarredInv'
BY DEF BarredInv, PastLookup, Registered

\* No step brings a barred user back.
LEMMA BarredStep == CacheInv /\ BarredInv /\ [Next]_vars => BarredInv'
<1> SUFFICES ASSUME CacheInv, BarredInv, [Next]_vars PROVE BarredInv'
  OBVIOUS
<1>0. TypeOK /\ InsertInv
  BY DEF CacheInv
<1>a. ASSUME NEW w \in Workers, Rollback(w), UNCHANGED <<cache, barred>>
      PROVE  BarredInv'
  BY <1>0, <1>a, QuietBarred, ConstantsOK
  DEF Rollback, EndTx, PastLookup, TypeOK
<1>1. ASSUME NEW w \in Workers, Receive(w) PROVE BarredInv'
  <2>1. PICK r \in Request : Begin(w, r)
    BY <1>1, ConstantsOK
    DEF Receive, HandleEvent, HandleProtocol, UpdateSession, Request
  <2> QED
    BY <1>0, <2>1, QuietBarred, ConstantsOK DEF Begin, TypeOK, PastLookup
<1>2. ASSUME NEW w \in Workers, Step(w) PROVE BarredInv'
  <2>1. CASE CacheHit(w)
    <3>1. req[w].user \notin barred
      BY <2>1 DEF CacheHit, BarredInv
    <3> QED BY <1>0, <2>1, <3>1, QuietBarred, ConstantsOK DEF CacheHit, TypeOK
  <2>2. CASE FetchUser(w)
    <3>1. req[w].user \notin barred /\ req[w].user \in Users
      BY <1>0, <2>2 DEF FetchUser, BarredInv, Enabled, TypeOK, Request
    <3> QED
      BY <1>0, <2>2, <3>1, ConstantsOK
      DEF FetchUser, TypeOK, BarredInv, Registered
  <2>3. CASE LeaveOfDisabled(w)
    BY <1>0, <2>3, QuietBarred, ConstantsOK DEF LeaveOfDisabled, TypeOK
  <2>4. CASE MissUser(w)
    <3>1. req[w].user \notin barred
      BY <2>4 DEF MissUser, BarredInv
    <3> QED
      BY <1>0, <2>4, <3>1, QuietBarred, ConstantsOK DEF MissUser, TypeOK, wVars
  <2>5. CASE CloseStart(w)
    BY <1>0, <2>5, QuietBarred, ConstantsOK
    DEF CloseStart, TypeOK, wVars, PastLookup
  <2>6. CASE RejectDisabled(w) \/ RejectUnknown(w) \/ BreakForeignKey(w)
    BY <1>a, <2>6 DEF RejectDisabled, RejectUnknown, BreakForeignKey
  <2>7. CASE Commit(w)
    <3>1. \A u \in barred : users'[u] = users[u]
      BY <1>0, <2>7 DEF Commit, InsertInv, Inserting, BarredInv, TypeOK
    <3>2. /\ UNCHANGED <<cache, barred>>
          /\ pc' = [pc EXCEPT ![w] = "idle"]
          /\ req' = [req EXCEPT ![w] = None]
      BY <2>7 DEF Commit, EndTx
    <3> QED
      BY <1>0, <3>1, <3>2, ConstantsOK
      DEF BarredInv, PastLookup, TypeOK, Registered
  <2> QED
    BY <1>2, <2>1, <2>2, <2>3, <2>4, <2>5, <2>6, <2>7 DEF Step
<1>3. ASSUME NEW w \in Workers, LockStep(w) PROVE BarredInv'
  <2>1. CASE InsertUser(w)
    <3>1. req[w].user \notin barred /\ req[w].user \in Users
      BY <1>0, <2>1 DEF InsertUser, BarredInv, TypeOK, Request
    <3> QED
      BY <1>0, <2>1, <3>1, ConstantsOK
      DEF InsertUser, TypeOK, BarredInv, Registered
  <2>2. CASE InsertConflict(w)
    BY <1>a, <2>2 DEF InsertConflict
  <2>3. CASE CloseRow(w)
    BY <1>0, <2>3, QuietBarred, ConstantsOK
    DEF CloseRow, TypeOK, wVars, PastLookup
  <2>4. CASE UpsertSession(w)
    BY <1>0, <2>4, QuietBarred, ConstantsOK
    DEF UpsertSession, TypeOK, wVars, PastLookup
  <2> QED BY <1>3, <2>1, <2>2, <2>3, <2>4 DEF LockStep
<1>4. ASSUME NEW w \in Workers, DbError(w) \/ AbortWorker(w) PROVE BarredInv'
  BY <1>a, <1>4 DEF DbError, AbortWorker
<1>5. CASE Clean
  <2>1. /\ UNCHANGED <<users, cache, barred, req>>
        /\ \A w \in Workers : pc'[w] = pc[w]
    BY <1>0, <1>5, ConstantsOK
    DEF Clean, CleanFetch, CleanRow, CleanCommit, CleanError, AbortCleaner,
        EndClean, TypeOK
  <2> QED BY <2>1 DEF BarredInv, Registered
<1>6. CASE Environment
  <2>1. ASSUME NEW k \in Keys, Age(k) PROVE BarredInv'
    BY <2>1 DEF Age, BarredInv, Registered
  <2>2. ASSUME NEW u \in Users, Evict(u) PROVE BarredInv'
    BY <1>0, <2>2 DEF Evict, TypeOK, BarredInv, Registered
  <2>3. ASSUME NEW u \in Users, DisableUser(u) PROVE BarredInv'
    BY <1>0, <2>3 DEF DisableUser, TypeOK, BarredInv, Registered
  <2>4. CASE Restart
    BY <1>0, <2>4
    DEF Restart, LoadedUsers, Enabled, BarredInv, Registered, PastLookup
  <2> QED BY <1>6, <2>1, <2>2, <2>3, <2>4 DEF Environment
<1>7. CASE UNCHANGED vars
  BY <1>7 DEF vars, BarredInv, Registered
<1> QED
  BY <1>1, <1>2, <1>3, <1>4, <1>5, <1>6, <1>7 DEF Next

\* No request brings up a session of a user who was disabled when the process
\* started: none past the lookup serves such a user, except to close.
THEOREM DisabledKeptOut == Spec => DisabledStayOut
<1>1. Init => BarredInv
  BY DEF Init, BarredInv, LoadedUsers, Enabled, Registered, PastLookup
<1>2. Init /\ TypeOK => CacheInv
  BY DEF Init, InsertInv, CacheAgrees, LoadedUsers, Enabled, CacheInv
<1>3. CacheInv /\ [Next]_vars /\ TypeOK' => CacheInv'
  BY CacheStep DEF CacheInv
<1>4. BarredInv => \A w \in Workers :
          Commit(w) /\ req[w].op # "leave" => req[w].user \notin barred
  BY DEF BarredInv, Commit, PastLookup
<1> QED
  BY <1>1, <1>2, <1>3, <1>4, BarredStep, TypeCorrect, PTL
  DEF Spec, DisabledStayOut

=============================================================================
