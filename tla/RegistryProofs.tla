--------------------------- MODULE RegistryProofs ---------------------------
(***************************************************************************)
(* Sessions implements Registry: proof of the refinement, and of the       *)
(* foreign key of sessions carried over from the abstract specification.   *)
(* Then what a request promises that no other of its user overlaps: an     *)
(* "enter" leaves one session, a "leave" none.                             *)
(***************************************************************************)
EXTENDS SessionsProofs

USE DEF User, Keys, Txs, RowState, Open, dbVars, wVars, txVars

(***************************************************************************)
(* What a transaction may hold back until it commits.  A worker writes     *)
(* rows of one user only; it removes rows that are open, and they stay so  *)
(* while it holds their locks; the one row it activates is the one its     *)
(* request names.                                                          *)
(***************************************************************************)
Exclusive ==
    \A s, t \in Txs, k \in Keys : pend[s][k] # None /\ pend[t][k] # None => s = t

WorkerTx(w) ==
    /\ pc[w] \in {"idle", "lookup", "insert", "close"}
           => todo[w] = {} /\ \A k \in Keys : pend[w][k] = None
    /\ pc[w] \in {"close", "closing", "upsert", "commit"} => uid[w] # None
    /\ \A k \in todo[w] : k[1] = req[w].user /\ Registered(k[1])
    /\ \A k \in Keys : pend[w][k] # None =>
           k[1] = req[w].user /\ (Registered(k[1]) \/ inserted[w] # None)
    /\ \A k \in Keys : pend[w][k] = "removed" => rows[k] \in Open
    /\ \A k \in Keys : pend[w][k] = "active" => pc[w] = "commit" /\ k = KeyOf(w)

CleanerTx ==
    /\ \A k \in Keys : pend[Cleaner][k] # "active"
    /\ \A k \in Keys : pend[Cleaner][k] # None => rows[k] # "absent"
    /\ \A k \in todo[Cleaner] : rows[k] # "absent"

TxInv == Exclusive /\ CleanerTx /\ \A w \in Workers : WorkerTx(w)

\* A step that changes nothing of a worker's transaction, registers or keeps
\* the users and changes no row the worker holds, keeps what WorkerTx says.
LEMMA OtherWorker ==
    ASSUME TypeOK, NEW w \in Workers, WorkerTx(w),
           pc'[w] = pc[w], req'[w] = req[w], uid'[w] = uid[w],
           inserted'[w] = inserted[w], todo'[w] = todo[w], pend'[w] = pend[w],
           \A u \in Users : Registered(u) => Registered(u)',
           \A k \in Keys : pend[w][k] # None /\ rows[k] \in Open
                               => rows'[k] \in Open
    PROVE  WorkerTx(w)'
<1>1. \A k \in Keys : k[1] \in Users
  OBVIOUS
<1>2. todo[w] \subseteq Keys
  BY DEF TypeOK
<1> QED BY <1>1, <1>2, ConstantsOK DEF WorkerTx, KeyOf

\* Nothing of the cleaner's transaction changes, and no row disappears.
LEMMA OtherThanCleaner ==
    ASSUME TypeOK, CleanerTx,
           todo'[Cleaner] = todo[Cleaner], pend'[Cleaner] = pend[Cleaner],
           \A k \in Keys : rows[k] # "absent" => rows'[k] # "absent"
    PROVE  CleanerTx'
BY DEF CleanerTx, TypeOK

\* A worker's step that changes neither table keeps TxInv when it keeps the
\* worker's own part and takes no lock another transaction has.
LEMMA WorkerStep ==
    ASSUME TypeOK, TxInv, NEW w \in Workers,
           UNCHANGED <<rows, users>>,
           \A v \in Workers \ {w} :
               /\ pc'[v] = pc[v] /\ req'[v] = req[v] /\ uid'[v] = uid[v]
               /\ inserted'[v] = inserted[v],
           \A t \in Txs \ {w} : todo'[t] = todo[t] /\ pend'[t] = pend[t],
           \A k \in Keys : pend'[w][k] # None /\ pend[w][k] = None => Free(w, k),
           WorkerTx(w)'
    PROVE  TxInv'
<1>1. ASSUME NEW v \in Workers PROVE WorkerTx(v)'
  BY <1>1, OtherWorker DEF TxInv, Registered
<1>2. CleanerTx'
  BY OtherThanCleaner, ConstantsOK DEF TxInv
<1>3. Exclusive'
  BY DEF TxInv, Exclusive, Free
<1> QED BY <1>1, <1>2, <1>3 DEF TxInv

\* A transaction that has ended holds nothing.
LEMMA EndedTx ==
    ASSUME TypeOK, NEW w \in Workers, EndTx(w)
    PROVE  WorkerTx(w)'
BY ConstantsOK DEF TypeOK, EndTx, WorkerTx, NoWrites

LEMMA RollbackTx ==
    ASSUME TypeOK, TxInv, NEW w \in Workers, Rollback(w)
    PROVE  TxInv'
BY EndedTx, WorkerStep, ConstantsOK DEF Rollback, EndTx, TypeOK, NoWrites

\* Every step keeps TxInv.
LEMMA TxStep == TypeOK /\ TxInv /\ [Next]_vars => TxInv'
<1> SUFFICES ASSUME TypeOK, TxInv, [Next]_vars PROVE TxInv'
  OBVIOUS
<1>1. ASSUME NEW w \in Workers, Receive(w) PROVE TxInv'
  <2>1. PICK r \in Request : Begin(w, r)
    BY <1>1, ConstantsOK
    DEF Receive, HandleEvent, HandleProtocol, UpdateSession, Request
  <2>2. WorkerTx(w)'
    BY <2>1, ConstantsOK DEF Begin, TypeOK, TxInv, WorkerTx
  <2> QED BY <2>1, <2>2, WorkerStep DEF Begin, TypeOK
<1>2. ASSUME NEW w \in Workers, Step(w) PROVE TxInv'
  <2>1. CASE CacheHit(w) \/ FetchUser(w) \/ LeaveOfDisabled(w) \/ MissUser(w)
    <3>1. WorkerTx(w)'
      BY <2>1, ConstantsOK
      DEF CacheHit, FetchUser, LeaveOfDisabled, MissUser, AfterLookup, TypeOK,
          TxInv, WorkerTx, Registered, Enabled
    <3> QED
      BY <2>1, <3>1, WorkerStep, ConstantsOK
      DEF CacheHit, FetchUser, LeaveOfDisabled, MissUser, TypeOK
  <2>2. CASE CloseStart(w)
    <3>1. WorkerTx(w)'
      BY <2>2, ConstantsOK
      DEF CloseStart, SessionsToClose, AfterClose, TypeOK, TxInv, WorkerTx,
          Registered
    <3> QED BY <2>2, <3>1, WorkerStep, ConstantsOK DEF CloseStart, TypeOK
  <2>3. CASE RejectDisabled(w) \/ RejectUnknown(w) \/ BreakForeignKey(w)
    BY <2>3, RollbackTx DEF RejectDisabled, RejectUnknown, BreakForeignKey
  <2>4. CASE Commit(w)
    <3>1. /\ rows' = Written(w) /\ EndTx(w) /\ WorkerTx(w)'
      BY <2>4, EndedTx DEF Commit
    <3>2. \A u \in Users : Registered(u) => Registered(u)'
      BY <2>4, ConstantsOK DEF Commit, Registered, TypeOK
    <3>3. \A k \in Keys : rows[k] # "absent" => rows'[k] # "absent"
      BY <3>1, ConstantsOK DEF Written, TypeOK
    <3>4. \A t \in Txs \ {w}, k \in Keys : pend[t][k] # None => rows'[k] = rows[k]
      BY <3>1 DEF Written, TxInv, Exclusive
    <3>5. ASSUME NEW v \in Workers PROVE WorkerTx(v)'
      <4>1. CASE v = w
        BY <3>1, <4>1
      <4>2. CASE v # w
        <5>1. /\ pc'[v] = pc[v] /\ req'[v] = req[v] /\ uid'[v] = uid[v]
              /\ inserted'[v] = inserted[v]
              /\ todo'[v] = todo[v] /\ pend'[v] = pend[v]
          BY <3>1, <4>2 DEF EndTx, TypeOK
        <5>2. \A k \in Keys : pend[v][k] # None => rows'[k] = rows[k]
          BY <3>4, <4>2
        <5>3. WorkerTx(v)
          BY DEF TxInv
        <5> QED BY <5>1, <5>2, <5>3, <3>2, OtherWorker
      <4> QED BY <4>1, <4>2
    <3>6. CleanerTx'
      BY <3>1, <3>3, OtherThanCleaner, ConstantsOK DEF EndTx, TypeOK, TxInv
    <3>7. Exclusive'
      BY <3>1 DEF EndTx, NoWrites, TypeOK, TxInv, Exclusive
    <3> QED BY <3>5, <3>6, <3>7 DEF TxInv
  <2> QED BY <1>2, <2>1, <2>2, <2>3, <2>4 DEF Step
<1>3. ASSUME NEW w \in Workers, LockStep(w) PROVE TxInv'
  <2>1. CASE InsertUser(w)
    <3>1. WorkerTx(w)'
      BY <2>1, ConstantsOK
      DEF InsertUser, AfterLookup, TypeOK, TxInv, WorkerTx
    <3>2. /\ UNCHANGED <<rows, users, req, todo, pend>>
          /\ \A v \in Workers \ {w} :
                 pc'[v] = pc[v] /\ uid'[v] = uid[v] /\ inserted'[v] = inserted[v]
      BY <2>1 DEF InsertUser, TypeOK
    <3> QED BY <3>1, <3>2, WorkerStep
  <2>2. CASE InsertConflict(w)
    BY <2>2, RollbackTx DEF InsertConflict
  <2>3. CASE CloseRow(w)
    <3>1. WorkerTx(w)'
      BY <2>3, ConstantsOK
      DEF CloseRow, AfterClose, TypeOK, TxInv, WorkerTx, Registered
    <3>2. \A k \in Keys : pend'[w][k] # None /\ pend[w][k] = None => Free(w, k)
      BY <2>3, ConstantsOK DEF CloseRow, TypeOK
    <3>3. /\ UNCHANGED <<rows, users, req, uid, inserted>>
          /\ \A v \in Workers \ {w} : pc'[v] = pc[v]
          /\ \A t \in Txs \ {w} : todo'[t] = todo[t] /\ pend'[t] = pend[t]
      BY <2>3 DEF CloseRow, TypeOK
    <3> QED BY <3>1, <3>2, <3>3, WorkerStep
  <2>4. CASE UpsertSession(w)
    <3>1. WorkerTx(w)'
      BY <2>4, ConstantsOK
      DEF UpsertSession, ForeignKeyHolds, KeyOf, TypeOK, TxInv, WorkerTx,
          Registered
    <3>2. \A k \in Keys : pend'[w][k] # None /\ pend[w][k] = None => Free(w, k)
      BY <2>4, ConstantsOK DEF UpsertSession, TypeOK
    <3>3. /\ UNCHANGED <<rows, users, req, uid, inserted, todo>>
          /\ \A v \in Workers \ {w} : pc'[v] = pc[v]
          /\ \A t \in Txs \ {w} : pend'[t] = pend[t]
      BY <2>4 DEF UpsertSession, TypeOK
    <3> QED BY <3>1, <3>2, <3>3, WorkerStep
  <2> QED BY <1>3, <2>1, <2>2, <2>3, <2>4 DEF LockStep
<1>4. ASSUME NEW w \in Workers, DbError(w) \/ AbortWorker(w) PROVE TxInv'
  BY <1>4, RollbackTx DEF DbError, AbortWorker
<1>5. CASE Clean
  <2>1. /\ UNCHANGED <<users, req, uid, inserted>>
        /\ \A w \in Workers : /\ pc'[w] = pc[w] /\ todo'[w] = todo[w]
                              /\ pend'[w] = pend[w]
    BY <1>5, ConstantsOK
    DEF Clean, CleanFetch, CleanRow, CleanCommit, CleanError, AbortCleaner,
        EndClean, TypeOK
  <2>2. \A w \in Workers, k \in Keys : pend[w][k] # None => rows'[k] = rows[k]
    BY <1>5, ConstantsOK
    DEF Clean, CleanFetch, CleanRow, CleanCommit, CleanError, AbortCleaner,
        Written, TxInv, Exclusive
  <2>3. ASSUME NEW w \in Workers PROVE WorkerTx(w)'
    BY <2>1, <2>2, <2>3, OtherWorker DEF TxInv, Registered
  <2>4. Exclusive'
    BY <1>5, ConstantsOK
    DEF Clean, CleanFetch, CleanRow, CleanCommit, CleanError, AbortCleaner,
        EndClean, NoWrites, Free, TypeOK, TxInv, Exclusive
  <2>5. CleanerTx'
    <3>1. CASE CleanFetch
      BY <3>1, ConstantsOK DEF CleanFetch, DeadSessions, TypeOK, TxInv, CleanerTx
    <3>2. CASE CleanRow
      BY <3>2, ConstantsOK DEF CleanRow, TypeOK, TxInv, CleanerTx
    <3>3. CASE CleanCommit \/ CleanError \/ AbortCleaner
      <4>1. EndClean
        BY <3>3 DEF CleanCommit, CleanError, AbortCleaner
      <4> QED BY <4>1, ConstantsOK DEF EndClean, NoWrites, TypeOK, CleanerTx
    <3> QED BY <1>5, <3>1, <3>2, <3>3 DEF Clean
  <2> QED BY <2>3, <2>4, <2>5 DEF TxInv
<1>6. CASE Environment
  <2>1. ASSUME NEW j \in Keys, Age(j) PROVE TxInv'
    <3>1. ASSUME NEW w \in Workers PROVE WorkerTx(w)'
      BY <2>1, <3>1, OtherWorker
      DEF Age, TxInv, Registered, wVars, txVars, TypeOK
    <3>2. CleanerTx'
      BY <2>1, OtherThanCleaner DEF Age, TxInv, txVars, TypeOK
    <3> QED BY <2>1, <3>1, <3>2 DEF Age, TxInv, Exclusive, txVars
  <2>2. ASSUME NEW u \in Users, Evict(u) PROVE TxInv'
    BY <2>2
    DEF Evict, TxInv, Exclusive, CleanerTx, WorkerTx, KeyOf, Registered
  <2>3. ASSUME NEW u \in Users, DisableUser(u) PROVE TxInv'
    <3>1. ASSUME NEW w \in Workers PROVE WorkerTx(w)'
      <4>1. \A x \in Users : Registered(x) => Registered(x)'
        BY <2>3 DEF DisableUser, TypeOK, Registered
      <4> QED BY <2>3, <4>1, OtherWorker DEF DisableUser, TxInv
    <3> QED BY <2>3, <3>1 DEF DisableUser, TxInv, Exclusive, CleanerTx
  <2>4. CASE Restart
    <3>1. \A t \in Txs : todo'[t] = {} /\ \A k \in Keys : pend'[t][k] = None
      BY <2>4 DEF Restart, NoWrites
    <3>2. \A w \in Workers : pc'[w] = "idle"
      BY <2>4 DEF Restart
    <3> QED
      BY <3>1, <3>2, ConstantsOK DEF TxInv, Exclusive, CleanerTx, WorkerTx
  <2> QED BY <1>6, <2>1, <2>2, <2>3, <2>4 DEF Environment
<1>7. CASE UNCHANGED vars
  BY <1>7 DEF vars, TxInv, Exclusive, CleanerTx, WorkerTx, KeyOf, Registered
<1> QED
  BY <1>1, <1>2, <1>3, <1>4, <1>5, <1>6, <1>7 DEF Next

-----------------------------------------------------------------------------
(* The refinement *)

\* A committed "enter" or "update" opens its session and closes the rows it
\* had removed; a committed "leave" only closes.
LEMMA CommitSimulates ==
    ASSUME TypeOK, TxInv, NEW w \in Workers, Commit(w)
    PROVE  [Registry!Next]_<<StateShown, RegisteredUsers>>
<1> DEFINE C == {k \in Keys : pend[w][k] = "removed"}
           u == req[w].user
<1>1. WorkerTx(w) /\ pc[w] = "commit" /\ u \in Users
  BY DEF TxInv, Commit, TypeOK, Request
<1>2. rows' = [k \in Keys |-> IF pend[w][k] = None THEN rows[k] ELSE pend[w][k]]
  BY DEF Commit, Written
<1>3. C \subseteq Registry!Up(u)
  BY <1>1, ConstantsOK DEF Registry!Up, Registry!Keys, StateShown, WorkerTx
<1>4. CASE \E k \in Keys : pend[w][k] = "active"
  <2>1. PICK k \in Keys : pend[w][k] = "active"
    BY <1>4
  <2>2. k[1] = u /\ \A x \in Keys : pend[w][x] = "active" => x = k
    BY <1>1, <2>1, ConstantsOK DEF WorkerTx
  <2>3. StateShown' = [Registry!TakeDown(C) EXCEPT ![k] = "open"]
    <3>1. \A x \in Keys : rows'[x] = IF x = k THEN "active" ELSE
                                     IF x \in C THEN "removed" ELSE rows[x]
      BY <1>2, <2>1, <2>2, ConstantsOK DEF TypeOK
    <3> QED
      BY <3>1 DEF StateShown, Registry!TakeDown, Registry!Keys
  <2>4. RegisteredUsers' = RegisteredUsers \cup {u}
    <3>1. Registered(u) \/ inserted[w] # None
      BY <1>1, <2>1, <2>2, ConstantsOK DEF WorkerTx
    <3> QED
      BY <1>1, <3>1, ConstantsOK
      DEF Commit, RegisteredUsers, Registered, TypeOK
  <2>5. C \subseteq Registry!Up(u) \ {k}
    BY <1>3, <2>1
  <2>6. Registry!Open(k)
    BY <2>2, <2>3, <2>4, <2>5 DEF Registry!Open
  <2> QED BY <2>6 DEF Registry!Next, Registry!Keys
<1>5. CASE \A k \in Keys : pend[w][k] # "active"
  <2>1. StateShown' = Registry!TakeDown(C)
    <3>1. \A x \in Keys : rows'[x] = IF x \in C THEN "removed" ELSE rows[x]
      BY <1>2, <1>5, ConstantsOK DEF TypeOK
    <3> QED
      BY <3>1 DEF StateShown, Registry!TakeDown, Registry!Keys
  <2>2. CASE Registered(u) \/ inserted[w] # None
    <3>1. RegisteredUsers' = RegisteredUsers \cup {u}
      BY <1>1, <2>2, ConstantsOK
      DEF Commit, RegisteredUsers, Registered, TypeOK
    <3>2. Registry!Close(u)
      BY <1>3, <2>1, <3>1 DEF Registry!Close
    <3> QED BY <1>1, <3>2 DEF Registry!Next
  <2>3. CASE ~Registered(u) /\ inserted[w] = None
    <3>1. C = {}
      BY <1>1, <2>3, ConstantsOK DEF WorkerTx
    <3>2. StateShown' = StateShown
      BY <2>1, <3>1 DEF StateShown, Registry!TakeDown, Registry!Keys
    <3>3. RegisteredUsers' = RegisteredUsers
      BY <2>3 DEF Commit, RegisteredUsers, Registered
    <3> QED BY <3>2, <3>3
  <2> QED BY <2>2, <2>3
<1> QED BY <1>4, <1>5

\* A committed clean takes down the open ones among the rows it wrote.
LEMMA CleanSimulates ==
    ASSUME TypeOK, TxInv, CleanCommit
    PROVE  [Registry!Next]_<<StateShown, RegisteredUsers>>
<1> DEFINE C == {k \in Keys : pend[Cleaner][k] # None /\ rows[k] \in Open}
<1>1. \A k \in Keys : pend[Cleaner][k] \in {"removed", None}
  BY DEF TypeOK, TxInv, CleanerTx
<1>2. \A k \in Keys : pend[Cleaner][k] # None /\ rows[k] \notin Open
                          => rows[k] = "removed"
  BY DEF TypeOK, TxInv, CleanerTx
<1>3. \A k \in Keys : StateShown'[k] = IF k \in C THEN "removed" ELSE StateShown[k]
  <2> TAKE k \in Keys
  <2>1. rows'[k] = IF pend[Cleaner][k] = None THEN rows[k] ELSE "removed"
    BY <1>1 DEF CleanCommit, Written
  <2>2. StateShown'[k] = IF rows'[k] \in Open THEN "open" ELSE rows'[k]
    BY DEF StateShown
  <2>3. StateShown[k] = IF rows[k] \in Open THEN "open" ELSE rows[k]
    BY DEF StateShown
  <2> QED BY <1>2, <2>1, <2>2, <2>3
<1>4. StateShown' = Registry!TakeDown(C)
  BY <1>3 DEF StateShown, Registry!TakeDown, Registry!Keys
<1>5. C \subseteq {k \in Registry!Keys : StateShown[k] = "open"}
  BY DEF StateShown, Registry!Keys
<1>6. RegisteredUsers' = RegisteredUsers
  BY DEF CleanCommit, EndClean, RegisteredUsers, Registered
<1> QED BY <1>4, <1>5, <1>6 DEF Registry!Next, Registry!Clean

\* Every step of Sessions is a step of Registry or is not seen there.
LEMMA StepSimulates ==
    TypeOK /\ TxInv /\ [Next]_vars => [Registry!Next]_<<StateShown, RegisteredUsers>>
<1> SUFFICES ASSUME TypeOK, TxInv, [Next]_vars
             PROVE  [Registry!Next]_<<StateShown, RegisteredUsers>>
  OBVIOUS
<1>0. ASSUME UNCHANGED <<rows, users>>
      PROVE  UNCHANGED <<StateShown, RegisteredUsers>>
  BY <1>0 DEF StateShown, RegisteredUsers, Registered
<1>1. ASSUME NEW w \in Workers,
             Receive(w) \/ LockStep(w) \/ DbError(w) \/ AbortWorker(w)
      PROVE  UNCHANGED <<rows, users>>
  BY <1>1
  DEF Receive, HandleEvent, HandleProtocol, UpdateSession, Begin, LockStep,
      InsertUser, InsertConflict, CloseRow, UpsertSession, DbError,
      AbortWorker, Rollback
<1>2. ASSUME NEW w \in Workers, Step(w), ~Commit(w)
      PROVE  UNCHANGED <<rows, users>>
  BY <1>2
  DEF Step, CacheHit, FetchUser, LeaveOfDisabled, RejectDisabled, MissUser,
      CloseStart, RejectUnknown, BreakForeignKey, Rollback
<1>3. ASSUME Clean, ~CleanCommit PROVE UNCHANGED <<rows, users>>
  BY <1>3 DEF Clean, CleanFetch, CleanRow, CleanError, AbortCleaner, EndClean
<1>4. ASSUME Environment PROVE UNCHANGED <<StateShown, RegisteredUsers>>
  <2>1. ASSUME NEW j \in Keys, Age(j)
        PROVE  UNCHANGED <<StateShown, RegisteredUsers>>
    <3>1. \A k \in Keys : rows'[k] = IF k = j THEN "dead" ELSE rows[k]
      BY <2>1 DEF Age, TypeOK
    <3> QED
      BY <2>1, <3>1 DEF Age, StateShown, RegisteredUsers, Registered
  <2>2. ASSUME NEW u \in Users, DisableUser(u)
        PROVE  UNCHANGED <<StateShown, RegisteredUsers>>
    <3>1. \A x \in Users : users'[x].id = users[x].id
      BY <2>2 DEF DisableUser, TypeOK
    <3> QED
      BY <2>2, <3>1 DEF DisableUser, StateShown, RegisteredUsers, Registered
  <2>3. ASSUME NEW u \in Users, Evict(u) PROVE UNCHANGED <<rows, users>>
    BY <2>3 DEF Evict
  <2>4. ASSUME Restart PROVE UNCHANGED <<rows, users>>
    BY <2>4 DEF Restart
  <2> QED BY <1>0, <1>4, <2>1, <2>2, <2>3, <2>4 DEF Environment
<1> QED
  BY <1>0, <1>1, <1>2, <1>3, <1>4, CommitSimulates, CleanSimulates
  DEF Next, vars

\* Whatever happens, the tables behave as the abstract registry says.
THEOREM RegistryImplemented == Spec => ImplementsRegistry
<1>1. Init => Registry!Init
  BY DEF Init, StateShown, RegisteredUsers, Registry!Init, Registry!Keys
<1>2. Init => TxInv
  BY ConstantsOK
  DEF Init, NoWrites, TxInv, Exclusive, CleanerTx, WorkerTx
<1> QED
  BY <1>1, <1>2, TxStep, StepSimulates, TypeCorrect, PTL
  DEF Spec, ImplementsRegistry, Registry!Spec

\* Every session belongs to a registered user: shown for the abstract registry
\* and carried over by the refinement.
THEOREM SessionsOwned == Spec => []OwnersRegistered
<1>1. Registry!Init => Registry!OwnersRegistered
  BY DEF Registry!Init, Registry!OwnersRegistered, Registry!Keys
<1>2. Registry!OwnersRegistered
        /\ [Registry!Next]_<<StateShown, RegisteredUsers>>
      => Registry!OwnersRegistered'
  <2> SUFFICES ASSUME Registry!OwnersRegistered,
                      [Registry!Next]_<<StateShown, RegisteredUsers>>
               PROVE  Registry!OwnersRegistered'
    OBVIOUS
  <2>1. ASSUME NEW k \in Keys, Registry!Open(k) PROVE Registry!OwnersRegistered'
    BY <2>1
    DEF Registry!Open, Registry!OwnersRegistered, Registry!Keys,
        Registry!TakeDown, Registry!Up
  <2>2. ASSUME NEW u \in Users, Registry!Close(u)
        PROVE  Registry!OwnersRegistered'
    BY <2>2
    DEF Registry!Close, Registry!OwnersRegistered, Registry!Keys,
        Registry!TakeDown, Registry!Up
  <2>3. CASE Registry!Clean
    BY <2>3
    DEF Registry!Clean, Registry!OwnersRegistered, Registry!Keys,
        Registry!TakeDown
  <2>4. CASE UNCHANGED <<StateShown, RegisteredUsers>>
    BY <2>4 DEF Registry!OwnersRegistered
  <2> QED BY <2>1, <2>2, <2>3, <2>4 DEF Registry!Next, Registry!Keys
<1> QED
  BY <1>1, <1>2, RegistryImplemented, PTL
  DEF ImplementsRegistry, Registry!Spec, OwnersRegistered

-----------------------------------------------------------------------------
(* What a request that no other of its user overlaps achieves *)

\* As a set: alone is Boolean-valued, which the SMT solver does not read.
Lone == {w \in Workers : pc[w] # "idle" /\ alone[w]}

\* The UPDATE of a lone request reaches every open session of its user, and an
\* "enter" puts its own in their place.
Closes(w) ==
    /\ pc[w] = "insert" => ~Registered(req[w].user)
    /\ pc[w] \in {"close", "closing", "upsert", "commit"} /\ Registered(req[w].user)
           => uid[w] = users[req[w].user].id
    /\ \A k \in Keys : k[1] = req[w].user /\ rows[k] \in Open =>
           /\ pc[w] = "closing" => k \in todo[w] \/ pend[w][k] = "removed"
           /\ pc[w] \in {"upsert", "commit"} => pend[w][k] # None
    /\ pc[w] = "upsert" => req[w].op = "enter"
    /\ pc[w] = "commit" /\ req[w].op = "enter" => pend[w][KeyOf(w)] = "active"

LoneInv ==
    \A w \in Lone :
        /\ \A v \in Workers \ {w} : pc[v] # "idle" => req[v].user # req[w].user
        /\ req[w].op # "update" => Closes(w)

HandleInv ==
    \A w \in Workers : req[w] # None =>
        IF req[w].op = "leave" THEN req[w].handle = None ELSE req[w].handle \in Handles

SoleInv == TypeOK /\ CacheAgrees /\ TxInv /\ OwnersRegistered /\ HandleInv /\ LoneInv

LEMMA SoleParts ==
    ASSUME SoleInv
    PROVE  /\ TypeOK /\ CacheAgrees /\ TxInv /\ HandleInv /\ LoneInv
           /\ \A k \in Keys : rows[k] \in Open => Registered(k[1])
           /\ Exclusive /\ CleanerTx /\ \A w \in Workers : WorkerTx(w)
           /\ \A w \in Workers : pc[w] # "idle" => req[w] \in Request /\ req[w].user \in Users
<1>1. \A k \in Keys : rows[k] \in Open => Registered(k[1])
  BY DEF SoleInv, OwnersRegistered, Registry!OwnersRegistered, Registry!Keys,
         StateShown, RegisteredUsers
<1>2. \A w \in Workers : pc[w] # "idle" => req[w] \in Request /\ req[w].user \in Users
  BY DEF SoleInv, TypeOK, Request
<1> QED BY <1>1, <1>2 DEF SoleInv, TxInv

LEMMA LoneSame ==
    ASSUME NEW w \in Workers, pc'[w] = pc[w], alone'[w] = alone[w]
    PROVE  w \in Lone' <=> w \in Lone
BY Zenon DEF Lone

\* The step changes nothing of w, which is lone before if it is after; none
\* of its user comes in, the user's id stays, and no session comes up.
Untouched(w) ==
    /\ pc'[w] = pc[w] /\ req'[w] = req[w] /\ uid'[w] = uid[w]
    /\ todo'[w] = todo[w] /\ pend'[w] = pend[w]
    /\ w \in Lone' => w \in Lone
    /\ w \in Lone' =>
          /\ \A v \in Workers \ {w} : pc'[v] # "idle" => req'[v].user # req[w].user
          /\ users'[req[w].user].id = users[req[w].user].id
          /\ \A k \in Keys : k[1] = req[w].user /\ rows'[k] \in Open => rows[k] \in Open

LEMMA UntouchedLone ==
    ASSUME SoleInv, NEW w \in Workers, Untouched(w), w \in Lone'
    PROVE  /\ \A v \in Workers \ {w} : pc'[v] # "idle" => req'[v].user # req'[w].user
           /\ req'[w].op # "update" => Closes(w)'
<1>1. req[w].op # "update" => Closes(w)
  BY DEF Untouched, SoleInv, LoneInv
<1>2. KeyOf(w)' = KeyOf(w)
  BY DEF Untouched, KeyOf
<1>3. Registered(req[w].user)' <=> Registered(req[w].user)
  BY DEF Untouched, Registered
<1> QED
  BY <1>1, <1>2, <1>3 DEF Untouched, Closes, Registered

\* A step of one request that changes no table.
LEMMA OwnStep ==
    ASSUME SoleInv, NEW w \in Workers, UNCHANGED <<rows, users>>,
           \A v \in Workers \ {w} :
               /\ pc'[v] = pc[v] /\ req'[v] = req[v] /\ uid'[v] = uid[v]
               /\ todo'[v] = todo[v] /\ pend'[v] = pend[v] /\ alone'[v] = alone[v],
           \/ pc'[w] = "idle" /\ req'[w] = None
           \/ /\ pc[w] # "idle" /\ req'[w] = req[w] /\ alone'[w] = alone[w]
              /\ w \in Lone /\ req[w].op # "update" /\ Closes(w) => Closes(w)'
    PROVE  LoneInv' /\ HandleInv'
<1> USE SoleParts
<1>1. \A v \in Workers \ {w} : v \in Lone' <=> v \in Lone
  BY LoneSame
<1>2. \A v \in Workers : pc'[v] # "idle" => pc[v] # "idle" /\ req'[v] = req[v]
  BY DEF TypeOK
<1>3. \A v \in Lone : \A x \in Workers \ {v} : pc'[x] # "idle" => req'[x].user # req[v].user
  BY <1>2 DEF LoneInv
<1>4. ASSUME NEW v \in Workers \ {w} PROVE Untouched(v)
  BY <1>1, <1>3 DEF Untouched
<1>5. ASSUME w \in Lone'
      PROVE  /\ \A v \in Workers \ {w} : pc'[v] # "idle" => req'[v].user # req'[w].user
             /\ req'[w].op # "update" => Closes(w)'
  <2>1. pc'[w] # "idle"
    BY <1>5 DEF Lone
  <2>2. w \in Lone
    BY <1>5, <2>1, Zenon DEF Lone
  <2> QED
    BY <1>3, <2>1, <2>2 DEF LoneInv
<1>6. LoneInv'
  <2>1. \A v \in Workers \ {w} : v \in Lone' =>
           /\ \A x \in Workers \ {v} : pc'[x] # "idle" => req'[x].user # req'[v].user
           /\ req'[v].op # "update" => Closes(v)'
    BY <1>4, UntouchedLone
  <2>2. Lone' \subseteq Workers
    BY DEF Lone
  <2> QED
    BY <1>5, <2>1, <2>2 DEF LoneInv
<1>7. HandleInv'
  BY DEF HandleInv
<1> QED BY <1>6, <1>7

\* A request comes in: those of its user are lone no longer.
LEMMA BeginSole ==
    ASSUME SoleInv, NEW w \in Workers, NEW r \in Request, Begin(w, r),
           IF r.op = "leave" THEN r.handle = None ELSE r.handle \in Handles
    PROVE  LoneInv' /\ HandleInv'
<1> USE SoleParts
<1>1. /\ pc[w] = "idle" /\ pc' = [pc EXCEPT ![w] = "lookup"]
      /\ req' = [req EXCEPT ![w] = r] /\ UNCHANGED <<rows, users, uid, todo, pend>>
  BY DEF Begin
<1>2. /\ pc'[w] = "lookup" /\ req'[w] = r
      /\ \A v \in Workers \ {w} : pc'[v] = pc[v] /\ req'[v] = req[v]
  BY <1>1, ConstantsOK DEF TypeOK
<1>3. w \in Lone' => \A x \in Workers : pc[x] # "idle" => req[x].user # r.user
  <2>1. alone'[w] <=> \A x \in Workers : ~Serves(x, r.user)
    BY Zenon DEF Begin
  <2> QED BY <2>1, Zenon DEF Lone, Serves
<1>4. \A v \in Workers \ {w} : v \in Lone' => v \in Lone /\ req[v].user # r.user
  <2> TAKE v \in Workers \ {w}
  <2>1. alone'[v] <=> alone[v] /\ ~Serves(v, r.user)
    BY Zenon DEF Begin
  <2> QED BY <1>2, <2>1, Zenon DEF Lone, Serves
<1>5. ASSUME NEW v \in Workers \ {w} PROVE Untouched(v)
  <2>1. v \in Lone => \A x \in Workers \ {v} : pc[x] # "idle" => req[x].user # req[v].user
    BY DEF LoneInv
  <2>2. v \in Lone' => \A x \in Workers \ {v} : pc'[x] # "idle" => req'[x].user # req[v].user
    BY <1>2, <1>4, <2>1
  <2> QED
    BY <1>1, <1>2, <1>4, <2>2 DEF Untouched
<1>6. LoneInv'
  <2>1. \A v \in Workers \ {w} : v \in Lone' =>
           /\ \A x \in Workers \ {v} : pc'[x] # "idle" => req'[x].user # req'[v].user
           /\ req'[v].op # "update" => Closes(v)'
    BY <1>5, UntouchedLone
  <2>2. Closes(w)'
    BY <1>2 DEF Closes
  <2>3. Lone' \subseteq Workers
    BY DEF Lone
  <2> QED
    BY <1>2, <1>3, <2>1, <2>2, <2>3 DEF LoneInv
<1>7. HandleInv'
  BY <1>2 DEF HandleInv
<1> QED BY <1>6, <1>7

\* Each step of a lone request but the commit keeps Closes.
LEMMA StepCloses ==
    ASSUME SoleInv, NEW w \in Workers, w \in Lone, req[w].op # "update", Closes(w),
           \/ CacheHit(w) \/ FetchUser(w) \/ LeaveOfDisabled(w) \/ MissUser(w)
           \/ CloseStart(w) \/ InsertUser(w) \/ CloseRow(w) \/ UpsertSession(w)
    PROVE  Closes(w)'
<1> USE SoleParts
<1>1. req[w] \in Request /\ req[w].user \in Users /\ req[w].op \in {"enter", "leave"}
  BY DEF Lone, Request
<1>2. CASE CacheHit(w) \/ FetchUser(w) \/ LeaveOfDisabled(w)
  <2>1. pc' = [pc EXCEPT ![w] = "close"] /\ UNCHANGED <<rows, users, req>>
    BY <1>1, <1>2 DEF CacheHit, FetchUser, LeaveOfDisabled, AfterLookup
  <2>2. Registered(req[w].user) => uid'[w] = users[req[w].user].id
    BY <1>1, <1>2 DEF CacheHit, FetchUser, LeaveOfDisabled, CacheAgrees, TypeOK
  <2> QED BY <2>1, <2>2, ConstantsOK DEF Closes, Registered, TypeOK
<1>3. CASE MissUser(w)
  BY <1>3, ConstantsOK DEF MissUser, Closes, Registered, TypeOK
<1>4. CASE InsertUser(w)
  <2>1. pc' = [pc EXCEPT ![w] = "close"] /\ UNCHANGED <<users, req>> /\ ~Registered(req[w].user)
    BY <1>1, <1>4 DEF InsertUser, AfterLookup
  <2> QED BY <2>1, ConstantsOK DEF Closes, Registered, TypeOK
<1>5. CASE CloseStart(w)
  <2>1. /\ pc[w] = "close" /\ todo' = [todo EXCEPT ![w] = SessionsToClose(w)]
        /\ pc' = [pc EXCEPT ![w] = IF SessionsToClose(w) = {} THEN AfterClose(w)
                                                              ELSE "closing"]
        /\ UNCHANGED <<rows, users, req, uid, pend>>
    BY <1>5 DEF CloseStart
  <2>2. \A k \in Keys : k[1] = req[w].user /\ rows[k] \in Open => k \in SessionsToClose(w)
    BY <2>1 DEF Closes, SessionsToClose
  <2>3. /\ todo'[w] = SessionsToClose(w)
        /\ pc'[w] = IF SessionsToClose(w) = {} THEN AfterClose(w) ELSE "closing"
    BY <2>1, ConstantsOK DEF TypeOK
  <2>4. pc'[w] = "commit" => req[w].op # "enter"
    BY <2>3 DEF AfterClose
  <2>5. pc'[w] = "upsert" => req[w].op = "enter"
    BY <2>3 DEF AfterClose
  <2>6. pc'[w] # "insert"
    BY <2>3 DEF AfterClose
  <2> QED
    BY <2>1, <2>2, <2>3, <2>4, <2>5, <2>6 DEF Closes, Registered
<1>6. CASE CloseRow(w)
  <2>1. PICK k \in todo[w] :
            /\ pend' = [pend EXCEPT ![w][k] = IF rows[k] \in Open THEN "removed" ELSE @]
            /\ todo' = [todo EXCEPT ![w] = @ \ {k}]
            /\ pc' = [pc EXCEPT ![w] = IF todo[w] = {k} THEN AfterClose(w) ELSE @]
    BY <1>6 DEF CloseRow
  <2>2. pc[w] = "closing" /\ UNCHANGED <<rows, users, req, uid>>
    BY <1>6 DEF CloseRow
  <2>3. k \in Keys /\ todo'[w] = todo[w] \ {k}
    BY <2>1 DEF TypeOK
  <2>4. \A j \in Keys : rows[j] \in Open => pend'[w][j] = IF j = k THEN "removed" ELSE pend[w][j]
    BY <2>1, <2>3 DEF TypeOK
  <2>5. pc'[w] = IF todo[w] = {k} THEN AfterClose(w) ELSE "closing"
    BY <2>1, <2>2 DEF TypeOK
  <2>6. \A j \in Keys : j[1] = req[w].user /\ rows[j] \in Open =>
            /\ pc'[w] = "closing" => j \in todo'[w] \/ pend'[w][j] = "removed"
            /\ pc'[w] \in {"upsert", "commit"} => pend'[w][j] # None
    BY <2>2, <2>3, <2>4, <2>5, ConstantsOK DEF Closes, AfterClose
  <2>7. /\ pc'[w] = "upsert" => req[w].op = "enter"
        /\ pc'[w] = "commit" => req[w].op # "enter"
        /\ pc'[w] # "insert"
    BY <2>5 DEF AfterClose
  <2> QED
    BY <2>2, <2>6, <2>7 DEF Closes, Registered
<1>7. CASE UpsertSession(w)
  <2>1. /\ pend' = [pend EXCEPT ![w][KeyOf(w)] = "active"] /\ pc[w] = "upsert"
        /\ pc' = [pc EXCEPT ![w] = "commit"] /\ UNCHANGED <<rows, users, req, uid>>
    BY <1>7 DEF UpsertSession
  <2>2. req[w].op = "enter" /\ KeyOf(w) \in Keys
    BY <1>1, <2>1 DEF Closes, KeyOf, HandleInv, Lone, TypeOK
  <2>3. \A j \in Keys : pend'[w][j] = IF j = KeyOf(w) THEN "active" ELSE pend[w][j]
    BY <2>1, <2>2 DEF TypeOK
  <2>4. pc'[w] = "commit" /\ KeyOf(w)' = KeyOf(w)
    BY <2>1, ConstantsOK DEF TypeOK, KeyOf
  <2> QED
    BY <2>1, <2>2, <2>3, <2>4, ConstantsOK DEF Closes, Registered
<1> QED BY <1>2, <1>3, <1>4, <1>5, <1>6, <1>7

\* A request ends without a commit, or with one.
LEMMA RollbackSole ==
    ASSUME SoleInv, NEW w \in Workers, Rollback(w)
    PROVE  LoneInv' /\ HandleInv'
<1> USE SoleParts
<1>1. UNCHANGED <<rows, users>>
  BY DEF Rollback
<1>2. \A v \in Workers \ {w} :
          /\ pc'[v] = pc[v] /\ req'[v] = req[v] /\ uid'[v] = uid[v]
          /\ todo'[v] = todo[v] /\ pend'[v] = pend[v]
  BY DEF Rollback, EndTx, TypeOK
<1>3. \A v \in Workers \ {w} : alone'[v] = alone[v]
  BY DEF Rollback, EndTx, TypeOK
<1>4. pc'[w] = "idle" /\ req'[w] = None
  BY DEF Rollback, EndTx, TypeOK
<1> QED BY <1>1, <1>2, <1>3, <1>4, OwnStep

LEMMA CommitSole ==
    ASSUME SoleInv, NEW w \in Workers, Commit(w)
    PROVE  LoneInv' /\ HandleInv'
<1> USE SoleParts
<1>1. pc[w] = "commit" /\ EndTx(w) /\ rows' = Written(w)
  BY DEF Commit
<1>2. /\ \A v \in Workers \ {w} :
            /\ pc'[v] = pc[v] /\ req'[v] = req[v] /\ uid'[v] = uid[v]
            /\ todo'[v] = todo[v] /\ pend'[v] = pend[v] /\ alone'[v] = alone[v]
      /\ pc'[w] = "idle" /\ req'[w] = None
  BY <1>1 DEF EndTx, TypeOK
<1>3. \A v \in Workers \ {w} : v \in Lone' <=> v \in Lone
  BY <1>2, LoneSame
<1>4. \A v \in Workers \ {w} : v \in Lone =>
          /\ req[w].user # req[v].user
          /\ \A x \in Workers \ {v} : pc[x] # "idle" => req[x].user # req[v].user
  BY <1>1 DEF LoneInv
<1>5. \A k \in Keys : k[1] # req[w].user => rows'[k] = rows[k]
  BY <1>1 DEF Written, WorkerTx
<1>6. \A u \in Users : u # req[w].user => users'[u] = users[u]
  BY DEF Commit, TypeOK
<1>7. ASSUME NEW v \in Workers \ {w} PROVE Untouched(v)
  <2>1. v \in Lone => req[v].user \in Users
    BY DEF Lone
  <2>2. v \in Lone => \A x \in Workers \ {v} : pc'[x] # "idle" => req'[x].user # req[v].user
    BY <1>2, <1>4
  <2> QED
    BY <1>2, <1>3, <1>4, <1>5, <1>6, <2>1, <2>2 DEF Untouched
<1>8. LoneInv'
  <2>1. w \notin Lone' /\ Lone' \subseteq Workers
    BY <1>2 DEF Lone
  <2> QED
    BY <1>7, <2>1, UntouchedLone DEF LoneInv
<1>9. HandleInv'
  BY <1>2 DEF HandleInv
<1> QED BY <1>8, <1>9

\* A step of no request: ids stay and no session comes up.
LEMMA QuietSole ==
    ASSUME SoleInv,
           \A v \in Workers :
               /\ pc'[v] = pc[v] /\ req'[v] = req[v] /\ uid'[v] = uid[v]
               /\ todo'[v] = todo[v] /\ pend'[v] = pend[v] /\ alone'[v] = alone[v],
           \A u \in Users : users'[u].id = users[u].id,
           \A k \in Keys : rows'[k] \in Open => rows[k] \in Open
    PROVE  LoneInv' /\ HandleInv'
<1> USE SoleParts
<1>1. \A v \in Workers : v \in Lone' <=> v \in Lone
  BY LoneSame
<1>2. ASSUME NEW v \in Workers PROVE Untouched(v)
  <2>1. v \in Lone => req[v].user \in Users
    BY DEF Lone
  <2>2. v \in Lone => \A x \in Workers \ {v} : pc[x] # "idle" => req[x].user # req[v].user
    BY DEF LoneInv
  <2> QED
    BY <1>1, <2>1, <2>2 DEF Untouched
<1>3. Lone' \subseteq Workers
  BY DEF Lone
<1>4. LoneInv'
  BY <1>2, <1>3, UntouchedLone DEF LoneInv
<1>5. HandleInv'
  BY DEF HandleInv
<1> QED BY <1>4, <1>5

\* A "leave" names no handle, and the other requests do.
LEMMA ReceiveBegins ==
    ASSUME NEW w \in Workers, Receive(w)
    PROVE  \E r \in Request :
               /\ Begin(w, r)
               /\ IF r.op = "leave" THEN r.handle = None ELSE r.handle \in Handles
<1>1. ASSUME NEW type \in {"enter", "update"}, NEW u \in Users, NEW h \in Handles,
             NEW b \in BOOLEAN
      PROVE  [op |-> type, user |-> u, handle |-> h, known |-> b] \in Request
  BY DEF Request
<1>2. ASSUME NEW u \in Users
      PROVE  [op |-> "leave", user |-> u, handle |-> None, known |-> TRUE] \in Request
  BY DEF Request
<1>3. CASE HandleEvent(w)
  <2>1. PICK u \in Users :
            Begin(w, [op |-> "leave", user |-> u, handle |-> None, known |-> TRUE])
    BY <1>3, Zenon DEF HandleEvent
  <2> QED BY <1>2, <2>1
<1>4. CASE HandleProtocol(w) \/ UpdateSession(w)
  <2>1. PICK type \in {"enter", "update"}, u \in Users, h \in Handles, b \in BOOLEAN :
            Begin(w, [op |-> type, user |-> u, handle |-> h, known |-> b])
    BY <1>4, Zenon DEF HandleProtocol, UpdateSession
  <2>2. [op |-> type, user |-> u, handle |-> h, known |-> b] \in Request
    BY <1>1
  <2> DEFINE r == [op |-> type, user |-> u, handle |-> h, known |-> b]
  <2>3. r \in Request /\ Begin(w, r) /\ r.op = type /\ r.handle = h
    BY <2>1, <2>2
  <2> HIDE DEF r
  <2> QED BY <2>3
<1> QED BY <1>3, <1>4 DEF Receive

LEMMA SoleStep == SoleInv /\ [Next]_vars => LoneInv' /\ HandleInv'
<1> SUFFICES ASSUME SoleInv, [Next]_vars PROVE LoneInv' /\ HandleInv'
  OBVIOUS
<1> USE SoleParts
<1>1. ASSUME NEW w \in Workers, Receive(w) PROVE LoneInv' /\ HandleInv'
  BY <1>1, ReceiveBegins, BeginSole
<1>2. ASSUME NEW w \in Workers,
             \/ CacheHit(w) \/ FetchUser(w) \/ LeaveOfDisabled(w) \/ MissUser(w)
             \/ CloseStart(w) \/ InsertUser(w) \/ CloseRow(w) \/ UpsertSession(w)
      PROVE  LoneInv' /\ HandleInv'
  <2>1. UNCHANGED <<rows, users, req, alone>> /\ pc[w] # "idle"
    BY <1>2
    DEF CacheHit, FetchUser, LeaveOfDisabled, MissUser, CloseStart, InsertUser,
        CloseRow, UpsertSession
  <2>2. \A v \in Workers \ {w} :
            /\ pc'[v] = pc[v] /\ uid'[v] = uid[v]
            /\ todo'[v] = todo[v] /\ pend'[v] = pend[v]
    BY <1>2
    DEF CacheHit, FetchUser, LeaveOfDisabled, MissUser, CloseStart, InsertUser,
        CloseRow, UpsertSession, TypeOK
  <2>3. w \in Lone /\ req[w].op # "update" /\ Closes(w) => Closes(w)'
    BY <1>2, StepCloses
  <2> QED BY <2>1, <2>2, <2>3, OwnStep
<1>3. ASSUME NEW w \in Workers,
             \/ RejectDisabled(w) \/ RejectUnknown(w) \/ BreakForeignKey(w)
             \/ InsertConflict(w) \/ DbError(w) \/ AbortWorker(w)
      PROVE  LoneInv' /\ HandleInv'
  BY <1>3, RollbackSole
  DEF RejectDisabled, RejectUnknown, BreakForeignKey, InsertConflict, DbError,
      AbortWorker
<1>4. ASSUME NEW w \in Workers, Step(w) \/ LockStep(w) PROVE LoneInv' /\ HandleInv'
  BY <1>2, <1>3, <1>4, CommitSole DEF Step, LockStep
<1>5. CASE Clean
  <2>1. /\ UNCHANGED <<users, req, uid, alone>>
        /\ \A w \in Workers : /\ pc'[w] = pc[w] /\ todo'[w] = todo[w]
                              /\ pend'[w] = pend[w]
    BY <1>5, ConstantsOK
    DEF Clean, CleanFetch, CleanRow, CleanCommit, CleanError, AbortCleaner,
        EndClean, TypeOK
  <2>2. \A k \in Keys : rows'[k] \in Open => rows[k] \in Open
    BY <1>5
    DEF Clean, CleanFetch, CleanRow, CleanCommit, CleanError, AbortCleaner,
        Written, CleanerTx, TypeOK
  <2> QED BY <2>1, <2>2, QuietSole
<1>6. CASE Environment
  <2>1. ASSUME NEW j \in Keys, Age(j) PROVE LoneInv' /\ HandleInv'
    <3>1. \A k \in Keys : rows'[k] \in Open => rows[k] \in Open
      BY <2>1 DEF Age, TypeOK
    <3> QED BY <2>1, <3>1, QuietSole DEF Age
  <2>2. ASSUME NEW u \in Users, Evict(u) PROVE LoneInv' /\ HandleInv'
    BY <2>2, QuietSole DEF Evict
  <2>3. ASSUME NEW u \in Users, DisableUser(u) PROVE LoneInv' /\ HandleInv'
    <3>1. \A x \in Users : users'[x].id = users[x].id
      BY <2>3 DEF DisableUser, TypeOK
    <3> QED BY <2>3, <3>1, QuietSole DEF DisableUser
  <2>4. CASE Restart
    <3>1. \A w \in Workers : pc'[w] = "idle" /\ req'[w] = None
      BY <2>4 DEF Restart
    <3> QED BY <3>1 DEF LoneInv, Lone, HandleInv
  <2> QED BY <1>6, <2>1, <2>2, <2>3, <2>4 DEF Environment
<1>7. CASE UNCHANGED vars
  BY <1>7, QuietSole DEF vars
<1> QED
  BY <1>1, <1>3, <1>4, <1>5, <1>6, <1>7 DEF Next

LEMMA SoleAlways == Spec => []SoleInv
<1>1. Init => LoneInv /\ HandleInv /\ TxInv
  BY ConstantsOK
  DEF Init, Lone, LoneInv, HandleInv, NoWrites, TxInv, Exclusive, CleanerTx, WorkerTx
<1>2. TypeOK /\ CacheAgrees /\ TxInv /\ OwnersRegistered /\ LoneInv /\ HandleInv
          /\ [Next]_vars => LoneInv' /\ HandleInv'
  BY SoleStep DEF SoleInv
<1>3. (TypeOK /\ CacheAgrees /\ TxInv /\ OwnersRegistered /\ LoneInv /\ HandleInv)
          <=> SoleInv
  BY DEF SoleInv
<1> QED
  BY <1>1, <1>2, <1>3, TxStep, TypeCorrect, CacheCorrect, SessionsOwned, PTL DEF Spec

\* Of rows other than its request's a worker activates none.
LEMMA ActiveKey ==
    ASSUME SoleInv, NEW w \in Workers, NEW k \in Keys, k # KeyOf(w)
    PROVE  pend[w][k] \in {"removed", None}
<1>1. pend[w][k] = "active" => k = KeyOf(w)
  <2>1. WorkerTx(w)
    BY SoleParts
  <2> QED BY <2>1 DEF WorkerTx
<1>2. pend[w][k] \in {"active", "removed", None}
  BY SoleParts DEF TypeOK
<1> QED BY <1>1, <1>2

\* An "enter" that no other request of its user overlapped leaves its session
\* as the only one of the user that is open, however many there were, and
\* whatever the cleaner, evictions, failures and other users' requests do
\* meanwhile (onProtocolEnter: closeSession, then upsertSession).
THEOREM EnterLeavesOne == Spec => SoleSessionAfterEnter
<1>1. ASSUME SoleInv, NEW w \in Workers, Commit(w), w \in Lone, req[w].op = "enter"
      PROVE  OpenIn(rows', req[w].user) = {KeyOf(w)}
  <2> USE SoleParts
  <2>1. Closes(w) /\ pc[w] = "commit" /\ rows' = Written(w)
    BY <1>1 DEF LoneInv, Commit
  <2>2. KeyOf(w) \in Keys /\ KeyOf(w)[1] = req[w].user
    BY <1>1 DEF HandleInv, KeyOf, Lone, TypeOK
  <2>3. rows'[KeyOf(w)] = "active"
    BY <1>1, <2>1, <2>2, ConstantsOK DEF Closes, Written
  <2>4. ASSUME NEW k \in Keys, k[1] = req[w].user, k # KeyOf(w) PROVE rows'[k] \notin Open
    <3>1. pend[w][k] \in {"removed", None}
      BY <1>1, <2>4, ActiveKey
    <3> QED
      BY <2>1, <2>4, <3>1, ConstantsOK DEF Closes, Written
  <2> QED
    BY <2>2, <2>3, <2>4 DEF OpenIn
<1>2. ASSUME SoleInv, NEW w \in Workers, Commit(w), alone[w] PROVE w \in Lone
  BY <1>2, Zenon DEF Lone, Commit
<1>3. SoleInv => \A w \in Workers :
          Commit(w) /\ alone[w] /\ req[w].op = "enter"
              => OpenIn(rows', req[w].user) = {KeyOf(w)}
  BY <1>1, <1>2, Zenon
<1> QED BY <1>3, SoleAlways, PTL DEF SoleSessionAfterEnter

\* A "leave" that no other request of its user overlapped leaves no session of
\* the user open, unless the database fails it, kills it or dies with it
\* (onVideoroomLeaving: closeSession, for users who are disabled as well).
THEOREM LeaveLeavesNone == "db" \notin Faults => (Spec => NoSessionAfterLeave)
<1> SUFFICES ASSUME "db" \notin Faults PROVE Spec => NoSessionAfterLeave
  OBVIOUS
<1>1. ASSUME SoleInv, NEW w \in Workers, Commit(w), w \in Lone, req[w].op = "leave"
      PROVE  OpenIn(rows', req[w].user) = {}
  <2> USE SoleParts
  <2>1. Closes(w) /\ pc[w] = "commit" /\ rows' = Written(w)
    BY <1>1 DEF LoneInv, Commit
  <2>2. \A k \in Keys : k # KeyOf(w)
    BY <1>1, ConstantsOK DEF HandleInv, KeyOf, Lone, TypeOK
  <2>3. ASSUME NEW k \in Keys, k[1] = req[w].user PROVE rows'[k] \notin Open
    <3>1. pend[w][k] \in {"removed", None}
      BY <1>1, <2>2, ActiveKey
    <3> QED
      BY <2>1, <2>3, <3>1, ConstantsOK DEF Closes, Written
  <2> QED
    BY <2>3 DEF OpenIn
<1>2. ASSUME SoleInv, [Next]_vars, NEW w \in Workers, w \in Lone, req[w].op = "leave",
             pc'[w] = "idle", ~Restart, ~InDeadlock(w)
      PROVE  Commit(w)
  <2> USE SoleParts
  <2>1. Closes(w) /\ pc[w] # "idle" /\ w # Cleaner
    BY <1>2, ConstantsOK DEF LoneInv, Lone
  <2>2. ASSUME NEW v \in Workers,
               Receive(v) \/ Step(v) \/ LockStep(v) \/ DbError(v) \/ AbortWorker(v)
        PROVE  Commit(w)
    <3>1. v = w
      BY <1>2, <2>1, <2>2
      DEF Receive, HandleEvent, HandleProtocol, UpdateSession, Begin, Step, LockStep,
          CacheHit, FetchUser, LeaveOfDisabled, RejectDisabled, MissUser, CloseStart,
          RejectUnknown, BreakForeignKey, Commit, InsertUser, InsertConflict, CloseRow,
          UpsertSession, DbError, AbortWorker, Rollback, EndTx, TypeOK
    <3>2. ~Receive(w) /\ ~DbError(w) /\ ~AbortWorker(w)
      BY <1>2, <2>1
      DEF Receive, HandleEvent, HandleProtocol, UpdateSession, Begin, DbError, AbortWorker
    <3>3. /\ ~RejectDisabled(w) /\ ~RejectUnknown(w) /\ ~BreakForeignKey(w)
          /\ ~InsertConflict(w) /\ ~UpsertSession(w)
      BY <1>2, <2>1
      DEF RejectDisabled, RejectUnknown, BreakForeignKey, InsertConflict,
          UpsertSession, Closes
    <3>4. /\ ~CacheHit(w) /\ ~FetchUser(w) /\ ~LeaveOfDisabled(w) /\ ~MissUser(w)
          /\ ~CloseStart(w) /\ ~InsertUser(w) /\ ~CloseRow(w)
      BY <1>2, <2>1
      DEF CacheHit, FetchUser, LeaveOfDisabled, MissUser, CloseStart, InsertUser,
          CloseRow, AfterLookup, AfterClose, TypeOK
    <3> QED
      BY <2>2, <3>1, <3>2, <3>3, <3>4 DEF Step, LockStep
  <2>3. CASE Clean \/ Environment \/ UNCHANGED vars
    BY <1>2, <2>1, <2>3
    DEF Clean, CleanFetch, CleanRow, CleanCommit, CleanError, AbortCleaner, EndClean,
        Environment, Age, Evict, DisableUser, vars, TypeOK
  <2> QED BY <1>2, <2>2, <2>3 DEF Next
<1>3. ASSUME NEW w \in Workers, pc[w] # "idle", alone[w] PROVE w \in Lone
  BY <1>3, Zenon DEF Lone
<1>4. SoleInv /\ [Next]_vars => \A w \in Workers :
          /\ pc[w] # "idle" /\ pc'[w] = "idle" /\ ~Restart
          /\ alone[w] /\ req[w].op = "leave" /\ ~InDeadlock(w)
          => OpenIn(rows', req[w].user) = {}
  BY <1>1, <1>2, <1>3, Zenon
<1> QED BY <1>4, SoleAlways, PTL DEF Spec, NoSessionAfterLeave

\* An "enter" of an enabled user, for a known room and gateway, that no other
\* request of the user overlapped opens the session, unless the database fails
\* it, kills it or dies with it (getInternalUserID: the cache never holds an id
\* of a registered user but the one in the table).
THEOREM KnownUsersEnter == "db" \notin Faults => (Spec => KnownUserEnters)
<1> SUFFICES ASSUME "db" \notin Faults PROVE Spec => KnownUserEnters
  OBVIOUS
<1>1. ASSUME SoleInv, NEW w \in Workers, Commit(w), w \in Lone, req[w].op = "enter"
      PROVE  rows'[KeyOf(w)] = "active"
  <2> USE SoleParts
  <2>1. Closes(w) /\ pc[w] = "commit" /\ rows' = Written(w)
    BY <1>1 DEF LoneInv, Commit
  <2>2. KeyOf(w) \in Keys
    BY <1>1 DEF HandleInv, KeyOf, Lone, TypeOK
  <2> QED
    BY <1>1, <2>1, <2>2, ConstantsOK DEF Closes, Written
<1>2. ASSUME SoleInv, [Next]_vars, NEW w \in Workers, w \in Lone, req[w].op = "enter",
             req[w].known, Enabled(req[w].user), pc'[w] = "idle", ~Restart,
             ~InDeadlock(w)
      PROVE  Commit(w)
  <2> USE SoleParts
  <2>1. Closes(w) /\ pc[w] # "idle" /\ w # Cleaner
    BY <1>2, ConstantsOK DEF LoneInv, Lone
  <2>2. ASSUME NEW v \in Workers,
               Receive(v) \/ Step(v) \/ LockStep(v) \/ DbError(v) \/ AbortWorker(v)
        PROVE  Commit(w)
    <3>1. v = w
      BY <1>2, <2>1, <2>2
      DEF Receive, HandleEvent, HandleProtocol, UpdateSession, Begin, Step, LockStep,
          CacheHit, FetchUser, LeaveOfDisabled, RejectDisabled, MissUser, CloseStart,
          RejectUnknown, BreakForeignKey, Commit, InsertUser, InsertConflict, CloseRow,
          UpsertSession, DbError, AbortWorker, Rollback, EndTx, TypeOK
    <3>2. ~Receive(w) /\ ~DbError(w) /\ ~AbortWorker(w)
      BY <1>2, <2>1
      DEF Receive, HandleEvent, HandleProtocol, UpdateSession, Begin, DbError, AbortWorker
    <3>3. ~RejectDisabled(w) /\ ~RejectUnknown(w)
      BY <1>2 DEF RejectDisabled, RejectUnknown, Enabled
    <3>4. ~BreakForeignKey(w) /\ ~InsertConflict(w)
      BY <1>2, <2>1
      DEF BreakForeignKey, InsertConflict, ForeignKeyHolds, Closes, Enabled, Registered
    <3>5. /\ ~CacheHit(w) /\ ~FetchUser(w) /\ ~LeaveOfDisabled(w) /\ ~MissUser(w)
          /\ ~CloseStart(w) /\ ~InsertUser(w) /\ ~CloseRow(w) /\ ~UpsertSession(w)
      BY <1>2, <2>1
      DEF CacheHit, FetchUser, LeaveOfDisabled, MissUser, CloseStart, InsertUser,
          CloseRow, UpsertSession, AfterLookup, AfterClose, TypeOK
    <3> QED
      BY <2>2, <3>1, <3>2, <3>3, <3>4, <3>5 DEF Step, LockStep
  <2>3. CASE Clean \/ Environment \/ UNCHANGED vars
    BY <1>2, <2>1, <2>3
    DEF Clean, CleanFetch, CleanRow, CleanCommit, CleanError, AbortCleaner, EndClean,
        Environment, Age, Evict, DisableUser, vars, TypeOK
  <2> QED BY <1>2, <2>2, <2>3 DEF Next
<1>3. ASSUME NEW w \in Workers, pc[w] # "idle", alone[w] PROVE w \in Lone
  BY <1>3, Zenon DEF Lone
<1>4. SoleInv /\ [Next]_vars => \A w \in Workers :
          /\ pc[w] # "idle" /\ pc'[w] = "idle" /\ ~Restart
          /\ alone[w] /\ req[w].op = "enter" /\ req[w].known
          /\ Enabled(req[w].user) /\ ~InDeadlock(w)
          => rows'[KeyOf(w)] = "active"
  BY <1>1, <1>2, <1>3, Zenon
<1> QED BY <1>4, SoleAlways, PTL DEF Spec, KnownUserEnters

-----------------------------------------------------------------------------
(* Who can be in a deadlock *)

\* A request that does not close holds nothing while it waits; and one that
\* only closes does not get to the upsert, nor does the cleaner.
WaitsInOrder(w) ==
    pc[w] # "idle" =>
        /\ req[w].op = "update" => /\ pc[w] \notin {"close", "closing"}
                                   /\ pc[w] # "commit" => \A k \in Keys : pend[w][k] = None
        /\ req[w].op = "leave" => pc[w] # "upsert"

CleanerInOrder == pc[Cleaner] \in {"idle", "closing", "commit"}

LEMMA CleanerInOrderStep ==
    ASSUME TypeOK, CleanerInOrder, [Next]_vars PROVE CleanerInOrder'
<1>. USE ConstantsOK DEF CleanerInOrder, TypeOK
<1>1. ASSUME NEW w \in Workers, Receive(w) \/ Step(w) \/ LockStep(w) \/ DbError(w) \/ AbortWorker(w)
      PROVE  pc'[Cleaner] = pc[Cleaner]
  <2>1. CASE Receive(w)
    BY <2>1 DEF Receive, HandleEvent, HandleProtocol, UpdateSession, Begin
  <2>2. CASE Step(w)
    BY <2>2
    DEF Step, CacheHit, FetchUser, LeaveOfDisabled, RejectDisabled, MissUser, CloseStart,
        RejectUnknown, BreakForeignKey, Commit, Rollback, EndTx
  <2>3. CASE LockStep(w)
    BY <2>3
    DEF LockStep, InsertUser, InsertConflict, CloseRow, UpsertSession, Rollback, EndTx
  <2>4. CASE DbError(w) \/ AbortWorker(w)
    BY <2>4 DEF DbError, AbortWorker, Rollback, EndTx
  <2>. QED
    BY <1>1, <2>1, <2>2, <2>3, <2>4
<1>2. CASE Clean
  BY <1>2 DEF Clean, CleanFetch, CleanRow, CleanCommit, CleanError, AbortCleaner, EndClean
<1>3. CASE Environment
  BY <1>3 DEF Environment, Age, Evict, DisableUser, Restart
<1>4. CASE UNCHANGED vars
  BY <1>4 DEF vars
<1>. QED
  BY <1>1, <1>2, <1>3, <1>4 DEF Next

LEMMA WaitsInOrderStep ==
    ASSUME TypeOK, TxInv, \A w \in Workers : WaitsInOrder(w), [Next]_vars
    PROVE  \A w \in Workers : WaitsInOrder(w)'
<1>. SUFFICES ASSUME NEW v \in Workers PROVE WaitsInOrder(v)'
  OBVIOUS
<1>1. /\ WaitsInOrder(v) /\ WorkerTx(v)
      /\ v # Cleaner /\ v \in Txs
  BY ConstantsOK DEF TxInv
<1>2. CASE pc'[v] = pc[v] /\ req'[v] = req[v] /\ pend'[v] = pend[v]
  BY <1>1, <1>2 DEF WaitsInOrder
<1>3. ASSUME NEW w \in Workers, w # v, Receive(w) \/ Step(w) \/ LockStep(w) \/ DbError(w) \/ AbortWorker(w)
      PROVE  pc'[v] = pc[v] /\ req'[v] = req[v] /\ pend'[v] = pend[v]
  <2>1. CASE Receive(w)
    BY <1>3, <2>1 DEF Receive, HandleEvent, HandleProtocol, UpdateSession, Begin, TypeOK
  <2>2. CASE Step(w)
    BY <1>3, <2>2
    DEF Step, CacheHit, FetchUser, LeaveOfDisabled, RejectDisabled, MissUser, CloseStart,
        RejectUnknown, BreakForeignKey, Commit, Rollback, EndTx, TypeOK
  <2>3. CASE LockStep(w)
    BY <1>3, <2>3
    DEF LockStep, InsertUser, InsertConflict, CloseRow, UpsertSession, Rollback, EndTx, TypeOK
  <2>4. CASE DbError(w) \/ AbortWorker(w)
    BY <1>3, <2>4 DEF DbError, AbortWorker, Rollback, EndTx, TypeOK
  <2>. QED
    BY <1>3, <2>1, <2>2, <2>3, <2>4
<1>4. CASE Receive(v)
  <2>1. pc[v] = "idle" /\ pc'[v] = "lookup" /\ pend'[v] = pend[v]
    BY <1>4 DEF Receive, HandleEvent, HandleProtocol, UpdateSession, Begin, TypeOK
  <2>. QED
    BY <1>1, <2>1 DEF WaitsInOrder, WorkerTx
<1>5. CASE Step(v)
  <2>1. CASE CacheHit(v) \/ FetchUser(v) \/ LeaveOfDisabled(v) \/ MissUser(v)
    <3>1. /\ pc[v] = "lookup" /\ req'[v] = req[v] /\ pend'[v] = pend[v]
          /\ \/ pc'[v] = "insert"
             \/ req[v].op = "update" /\ pc'[v] = "upsert"
             \/ req[v].op # "update" /\ pc'[v] = "close"
      BY <1>1, <2>1
      DEF CacheHit, FetchUser, LeaveOfDisabled, MissUser, AfterLookup, TypeOK
    <3>. QED
      BY <1>1, <3>1 DEF WaitsInOrder, WorkerTx
  <2>2. CASE CloseStart(v)
    <3>1. /\ pc[v] = "close" /\ req'[v] = req[v] /\ pend'[v] = pend[v]
          /\ \/ pc'[v] = "closing"
             \/ req[v].op = "enter" /\ pc'[v] = "upsert"
             \/ req[v].op # "enter" /\ pc'[v] = "commit"
      BY <1>1, <2>2 DEF CloseStart, AfterClose, TypeOK
    <3>. QED
      BY <1>1, <3>1 DEF WaitsInOrder
  <2>3. CASE RejectDisabled(v) \/ RejectUnknown(v) \/ BreakForeignKey(v) \/ Commit(v)
    <3>1. pc'[v] = "idle"
      BY <1>1, <2>3
      DEF RejectDisabled, RejectUnknown, BreakForeignKey, Commit, Rollback, EndTx, TypeOK
    <3>. QED
      BY <3>1 DEF WaitsInOrder
  <2>. QED
    BY <1>5, <2>1, <2>2, <2>3 DEF Step
<1>6. CASE LockStep(v)
  <2>1. CASE InsertUser(v)
    <3>1. /\ pc[v] = "insert" /\ req'[v] = req[v] /\ pend'[v] = pend[v]
          /\ \/ req[v].op = "update" /\ pc'[v] = "upsert"
             \/ req[v].op # "update" /\ pc'[v] = "close"
      BY <1>1, <2>1 DEF InsertUser, AfterLookup, TypeOK
    <3>. QED
      BY <1>1, <3>1 DEF WaitsInOrder, WorkerTx
  <2>2. CASE CloseRow(v)
    <3>1. /\ pc[v] = "closing" /\ req'[v] = req[v]
          /\ \/ pc'[v] = "closing"
             \/ req[v].op = "enter" /\ pc'[v] = "upsert"
             \/ req[v].op # "enter" /\ pc'[v] = "commit"
      BY <1>1, <2>2 DEF CloseRow, AfterClose, TypeOK
    <3>. QED
      BY <1>1, <3>1 DEF WaitsInOrder
  <2>3. CASE UpsertSession(v)
    <3>1. pc[v] = "upsert" /\ pc'[v] = "commit" /\ req'[v] = req[v]
      BY <1>1, <2>3 DEF UpsertSession, TypeOK
    <3>. QED
      BY <1>1, <3>1 DEF WaitsInOrder
  <2>4. CASE InsertConflict(v)
    <3>1. pc'[v] = "idle"
      BY <1>1, <2>4 DEF InsertConflict, Rollback, EndTx, TypeOK
    <3>. QED
      BY <3>1 DEF WaitsInOrder
  <2>. QED
    BY <1>6, <2>1, <2>2, <2>3, <2>4 DEF LockStep
<1>7. CASE DbError(v) \/ AbortWorker(v)
  <2>1. pc'[v] = "idle"
    BY <1>1, <1>7 DEF DbError, AbortWorker, Rollback, EndTx, TypeOK
  <2>. QED
    BY <2>1 DEF WaitsInOrder
<1>8. CASE Clean
  BY <1>1, <1>2, <1>8
  DEF Clean, CleanFetch, CleanRow, CleanCommit, CleanError, AbortCleaner, EndClean, TypeOK
<1>9. CASE Environment
  <2>1. CASE Restart
    <3>1. pc'[v] = "idle"
      BY <1>1, <2>1 DEF Restart
    <3>. QED
      BY <3>1 DEF WaitsInOrder
  <2>. QED
    BY <1>2, <1>9, <2>1 DEF Environment, Age, Evict, DisableUser
<1>10. CASE UNCHANGED vars
  BY <1>2, <1>10 DEF vars
<1>. QED
  BY <1>2, <1>3, <1>4, <1>5, <1>6, <1>7, <1>8, <1>9, <1>10 DEF Next

\* Who waits for a transaction wants a row that it has written.
LEMMA WaitsForWriter ==
    ASSUME NEW t, NEW x \in WaitsFor(t)
    PROVE  \E k \in Wanted(t) : x \in Txs \ {t} /\ pend[x][k] # None
BY DEF WaitsFor

\* A worker wants rows of its user.
LEMMA WantsOwnRows ==
    ASSUME SoleInv, \A w \in Workers : WaitsInOrder(w),
           NEW w \in Workers, NEW k \in Wanted(w)
    PROVE  /\ pc[w] \in {"closing", "upsert"} /\ req[w] \in Request
           /\ k \in Keys /\ k[1] = req[w].user
<1>. USE SoleParts
<1>1. CASE pc[w] = "closing"
  <2>1. k \in todo[w] /\ w \in Txs
    BY <1>1 DEF Wanted
  <2>. QED
    BY <1>1, <2>1 DEF WorkerTx, TypeOK
<1>2. CASE pc[w] = "upsert"
  <2>1. k = KeyOf(w)
    BY <1>2 DEF Wanted
  <2>2. req[w] \in Request /\ req[w] # None /\ req[w].op # "leave"
    BY <1>2, ConstantsOK DEF WaitsInOrder
  <2>3. req[w].handle \in Handles
    BY <2>2 DEF HandleInv
  <2>. QED
    BY <1>2, <2>1, <2>2, <2>3 DEF KeyOf, Request
<1>. QED
  BY <1>1, <1>2 DEF Wanted

\* A request that only reports a client's state is in no deadlock, and one that
\* closes sessions is only in one with the cleaner or another of its user
\* (closeSession before the upsert), for any number of them.
THEOREM DeadlocksOnlyOfClosers == Spec => []DeadlocksOfClosers
<1>. DEFINE Ordered == CleanerInOrder /\ \A w \in Workers : WaitsInOrder(w)
<1>1. Init => Ordered
  BY DEF Init, WaitsInOrder, CleanerInOrder
<1>2. SoleInv /\ Ordered /\ [Next]_vars => Ordered'
  BY SoleParts, WaitsInOrderStep, CleanerInOrderStep
<1>3. ASSUME SoleInv, Ordered PROVE DeadlocksOfClosers
  <2>. USE SoleParts, <1>3
  <2>1. ASSUME NEW w \in Workers, InDeadlock(w)
        PROVE  /\ req[w].op # "update"
               /\ \E t \in Txs \ {w} :
                     t = Cleaner \/ (Serves(t, req[w].user) /\ req[t].op # "update")
    <3>1. PICK S \in SUBSET Txs :
             /\ w \in S
             /\ \A x \in S : WaitsFor(x) \cap S # {} /\ \E y \in S : x \in WaitsFor(y)
      BY <2>1 DEF InDeadlock
    <3>2. ASSUME NEW x \in S \cap Workers
          PROVE  pc[x] \in {"closing", "upsert"} /\ req[x].op # "update"
      <4>1. PICK y \in S : x \in WaitsFor(y)
        BY <3>1
      <4>2. PICK k \in Wanted(y) : pend[x][k] # None
        BY <4>1, WaitsForWriter
      <4>3. k \in Keys
        <5>1. CASE y \in Workers
          BY <4>2, <5>1, WantsOwnRows
        <5>2. CASE y = Cleaner
          BY <4>2, <5>2, ConstantsOK DEF Wanted, TypeOK, CleanerInOrder
        <5>. QED
          BY <5>1, <5>2
      <4>4. PICK z \in WaitsFor(x) : TRUE
        BY <3>1
      <4>5. PICK l \in Wanted(x) : TRUE
        BY <4>4, WaitsForWriter
      <4>6. pc[x] \in {"closing", "upsert"}
        BY <4>5, WantsOwnRows
      <4>. QED
        BY <4>2, <4>3, <4>6 DEF WaitsInOrder
    <3>3. PICK t \in S : t \in WaitsFor(w)
      BY <3>1
    <3>4. PICK k \in Wanted(w) : t \in Txs \ {w} /\ pend[t][k] # None
      BY <3>3, WaitsForWriter
    <3>5. k \in Keys /\ k[1] = req[w].user
      BY <3>4, WantsOwnRows
    <3>6. CASE t = Cleaner
      BY <3>1, <3>2, <3>4, <3>6
    <3>7. CASE t \in Workers
      <4>1. k[1] = req[t].user /\ pc[t] # "idle"
        BY <3>4, <3>5, <3>7 DEF WorkerTx
      <4>. QED
        BY <3>1, <3>2, <3>3, <3>4, <3>5, <3>7, <4>1 DEF Serves
    <3>. QED
      BY <3>4, <3>6, <3>7
  <2>. QED
    BY <2>1 DEF DeadlocksOfClosers
<1>. QED
  BY <1>1, <1>2, <1>3, SoleAlways, PTL DEF Spec

=============================================================================
