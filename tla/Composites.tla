------------------------------ MODULE Composites ------------------------------
(***************************************************************************)
(* The composites: pictures of several rooms that operators put together   *)
(* (V1UpdateComposite in api/api_v1.go, models/composites.go and           *)
(* models/composites_rooms.go).                                            *)
(*                                                                         *)
(* A replacement deletes the rooms of a composite and inserts others, in   *)
(* one transaction at PostgreSQL's default isolation level.  What it       *)
(* deletes is what its statement sees when it starts; rows that another    *)
(* transaction is deleting make it wait, rows that another one inserts in  *)
(* the meantime escape it.                                                 *)
(*                                                                         *)
(* A put is one HTTP request to replace the rooms of a composite.  A row   *)
(* is known by the put that inserted it and its position; its other        *)
(* columns are what the put asked for.  The gateway of an item is left     *)
(* out: it is looked up by name as the room is by its gateway_uid.         *)
(***************************************************************************)
EXTENDS Naturals, Sequences

CONSTANTS
    Puts,       \* requests to replace the rooms of a composite
    Composites, \* rows of the table composites, which the service never writes
    Rooms,      \* rooms
    MaxItems,   \* bound: how many items a request lists
    Nil,        \* a null item of a request
    None,       \* no request, no answer
    Faults,     \* what may go wrong, and what an operator may do
    MaxFaults   \* bound: how often

ASSUME ConstantsOK ==
    /\ MaxItems \in Nat
    /\ MaxFaults \in Nat
    /\ Nil \notin Rooms
    /\ None \notin Rooms /\ None \notin {"ok", "400", "500", "panic"}
    /\ Faults \subseteq {"db", "operator"}

Positions == 1..MaxItems
Item == Rooms \cup {Nil}
Request == [composite : Composites, vquad : UNION {[1..n -> Item] : n \in 0..MaxItems}]
Row == [put : Puts, position : Positions]

VARIABLES
    table,    \* the committed rows of composites_rooms
    req,      \* what each put asks for
    pc,       \* where each put is
    answer,   \* what each put was answered
    seen,     \* the rows its delete statement saw
    dels,     \* the rows it has deleted, and not committed
    ins,      \* how many rows it has inserted, and not committed
    passed,   \* history: puts that committed since its delete statement looked
    live,     \* rooms that are neither disabled nor removed
    known,    \* rooms in RoomCache
    gone,     \* history: rooms that were disabled or removed at some time
    faults    \* history: how many faults so far

txVars == <<seen, dels, ins>>
roomVars == <<live, known, gone>>
vars == <<table, req, pc, answer, txVars, passed, roomVars, faults>>

InTx(p) == pc[p] \in {"look", "delete", "insert"}

TypeOK ==
    /\ table \in SUBSET Row
    /\ req \in [Puts -> Request \cup {None}]
    /\ pc \in [Puts -> {"new", "look", "delete", "insert", "done"}]
    /\ answer \in [Puts -> {None, "ok", "400", "500", "panic"}]
    /\ seen \in [Puts -> SUBSET Row]
    /\ dels \in [Puts -> SUBSET Row]
    /\ ins \in [Puts -> 0..MaxItems]
    /\ passed \in [Puts -> SUBSET Puts]
    /\ live \in SUBSET Rooms /\ known \in SUBSET Rooms /\ gone \in SUBSET Rooms
    /\ faults \in 0..MaxFaults
    /\ \A p \in Puts : /\ pc[p] = "done" <=> answer[p] # None
                       /\ ~InTx(p) => seen[p] = {} /\ dels[p] = {} /\ ins[p] = 0

-----------------------------------------------------------------------------
(* The table *)

RowsOf(p) == {[put |-> p, position |-> i] : i \in 1..Len(req[p].vquad)}

RoomOf(row) == req[row.put].vquad[row.position]

\* mutant: the primary key of before the migration of 2020-04-23
KeyBeforeMigration(row) == <<req[row.put].composite, RoomOf(row)>>

\* The primary key (composite_id, room_id, gateway_id, position).
Key(row) == <<req[row.put].composite, RoomOf(row), row.position>>

\* Composite.CompositesRooms
CompositesRooms(c) == {row \in table : req[row.put].composite = c}

\* The row that a put inserts next.
NextRow(p) == [put |-> p, position |-> ins[p] + 1]

\* Composite.AddCompositesRooms goes on to its next room, which is not nil.
More(p) == pc[p] = "insert" /\ ins[p] < Len(req[p].vquad)
Adding(p) == More(p) /\ req[p].vquad[ins[p] + 1] # Nil

Pending(q) == dels[q] \cup {[put |-> q, position |-> i] : i \in 1..ins[q]}

\* Another transaction holds rows that the delete statement saw, or has written
\* the key that is to be inserted.
WaitsFor(p, q) ==
    /\ q # p
    /\ \/ pc[p] = "delete" /\ dels[q] \cap seen[p] # {}
       \/ Adding(p) /\ \E row \in Pending(q) : Key(row) = Key(NextRow(p))

Waits(p) == \E q \in Puts : WaitsFor(p, q)

\* Transactions that wait for one another in a circle.
Circle(D) ==
    D # {} /\ \A p \in D : /\ \E q \in D : WaitsFor(p, q)
                          /\ \E q \in D : WaitsFor(q, p)

Taken(p) == \E row \in table \ dels[p] : Key(row) = Key(NextRow(p))

Fault(kind) == kind \in Faults /\ faults < MaxFaults /\ faults' = faults + 1

Init ==
    /\ table = {}
    /\ req = [p \in Puts |-> None]
    /\ pc = [p \in Puts |-> "new"]
    /\ answer = [p \in Puts |-> None]
    /\ seen = [p \in Puts |-> {}]
    /\ dels = [p \in Puts |-> {}]
    /\ ins = [p \in Puts |-> 0]
    /\ passed = [p \in Puts |-> {}]
    /\ live = Rooms /\ known = Rooms /\ gone = {}
    /\ faults = 0

-----------------------------------------------------------------------------
(* A replacement *)

Finish(p, a) ==
    /\ pc' = [pc EXCEPT ![p] = "done"]
    /\ answer' = [answer EXCEPT ![p] = a]

\* An item that is null is passed over, and leaves a nil room in the slice.
AllKnown(r) == \A i \in DOMAIN r.vquad : r.vquad[i] \in known \cup {Nil}

\* The composite is found, and the items are looked up in the caches.
V1UpdateComposite(p) ==
    /\ pc[p] = "new"
    /\ \E r \in Request :
          /\ req' = [req EXCEPT ![p] = r]
          /\ IF AllKnown(r)
             THEN pc' = [pc EXCEPT ![p] = "look"] /\ UNCHANGED answer
             ELSE Finish(p, "400")
    /\ UNCHANGED <<table, txVars, passed, roomVars, faults>>

\* The delete statement starts: this is what it sees.
DeleteLooks(p) ==
    /\ pc[p] = "look"
    /\ pc' = [pc EXCEPT ![p] = "delete"]
    /\ seen' = [seen EXCEPT ![p] = CompositesRooms(req[p].composite)]
    /\ UNCHANGED <<table, req, answer, dels, ins, passed, roomVars, faults>>

\* It has the locks: rows that were deleted while it waited are passed over.
DeleteAll(p) ==
    /\ pc[p] = "delete" /\ ~Waits(p)
    /\ pc' = [pc EXCEPT ![p] = "insert"]
    /\ dels' = [dels EXCEPT ![p] = seen[p] \cap table]
    /\ UNCHANGED <<table, req, answer, seen, ins, passed, roomVars, faults>>

\* mutant: the rows are inserted by the connection pool, not by the transaction
InsertOutsideTx(p) ==
    /\ Adding(p) /\ ~Waits(p) /\ ~Taken(p)
    /\ ins' = [ins EXCEPT ![p] = @ + 1]
    /\ table' = table \cup {NextRow(p)}
    /\ UNCHANGED <<req, pc, answer, seen, dels, passed, roomVars, faults>>

\* CompositesRoom.Insert
Insert(p) ==
    /\ Adding(p) /\ ~Waits(p) /\ ~Taken(p)
    /\ ins' = [ins EXCEPT ![p] = @ + 1]
    /\ UNCHANGED <<table, req, pc, answer, seen, dels, passed, roomVars, faults>>

\* mutant: the locks of a transaction that is rolled back stay
RollbackKeepsLocks(p, a) ==
    /\ Finish(p, a)
    /\ UNCHANGED <<table, req, txVars, passed, roomVars>>

Rollback(p, a) ==
    /\ Finish(p, a)
    /\ seen' = [seen EXCEPT ![p] = {}]
    /\ dels' = [dels EXCEPT ![p] = {}]
    /\ ins' = [ins EXCEPT ![p] = 0]
    /\ UNCHANGED <<table, req, passed, roomVars>>

\* The primary key refuses the row.
Duplicate(p) ==
    /\ Adding(p) /\ ~Waits(p) /\ Taken(p)
    /\ Rollback(p, "500") /\ UNCHANGED faults

\* A nil room is dereferenced: InTx rolls back and panics again.
NilRoom(p) ==
    /\ More(p) /\ ~Adding(p)
    /\ Rollback(p, "panic") /\ UNCHANGED faults

\* PostgreSQL ends one of the transactions of a circle.
DeadlockDetected(p) ==
    /\ \E D \in SUBSET Puts : p \in D /\ Circle(D)
    /\ Rollback(p, "500") /\ UNCHANGED faults

\* A statement, or the commit, fails.
StatementFails(p) == InTx(p) /\ Fault("db") /\ Rollback(p, "500")

\* mutant: rooms that the replacement keeps the position of are deleted only
CommitKeepsOthers(p) ==
    /\ pc[p] = "insert" /\ ins[p] = Len(req[p].vquad)
    /\ Finish(p, "ok")
    /\ table' = {row \in table : row \in dels[p] => row.position > ins[p]} \cup RowsOf(p)
    /\ seen' = [seen EXCEPT ![p] = {}]
    /\ dels' = [dels EXCEPT ![p] = {}]
    /\ ins' = [ins EXCEPT ![p] = 0]
    /\ passed' = [q \in Puts |-> IF pc[q] \in {"delete", "insert"}
                                 THEN passed[q] \cup {p} ELSE passed[q]]
    /\ UNCHANGED <<req, roomVars, faults>>

Commit(p) ==
    /\ pc[p] = "insert" /\ ins[p] = Len(req[p].vquad)
    /\ Finish(p, "ok")
    /\ table' = (table \ dels[p]) \cup RowsOf(p)
    /\ seen' = [seen EXCEPT ![p] = {}]
    /\ dels' = [dels EXCEPT ![p] = {}]
    /\ ins' = [ins EXCEPT ![p] = 0]
    /\ passed' = [q \in Puts |-> IF pc[q] \in {"delete", "insert"}
                                 THEN passed[q] \cup {p} ELSE passed[q]]
    /\ UNCHANGED <<req, roomVars, faults>>

-----------------------------------------------------------------------------
(* The rooms, as module Rooms has them change *)

putVars == <<table, req, pc, answer, txVars, passed>>

\* A room is disabled or removed.  Nothing is done about the composites it is in.
TakeRoom(room) ==
    /\ room \in live /\ Fault("operator")
    /\ live' = live \ {room}
    /\ gone' = gone \cup {room}
    /\ UNCHANGED <<known, putVars>>

\* RoomCache.Reload
Reload ==
    /\ known' = live
    /\ UNCHANGED <<live, gone, faults, putVars>>

Put(p) ==
    \/ V1UpdateComposite(p) \/ DeleteLooks(p) \/ DeleteAll(p)
    \/ Insert(p) \/ Duplicate(p) \/ NilRoom(p)
    \/ DeadlockDetected(p) \/ StatementFails(p) \/ Commit(p)

Next ==
    \/ \E p \in Puts : Put(p)
    \/ \E room \in Rooms : TakeRoom(room)
    \/ Reload

Spec == Init /\ [][Next]_vars

-----------------------------------------------------------------------------
(* Properties *)

Shown(p) == {row \in table : row.put = p}

\* A composite never shows a part of a replacement, whatever ran beside it: the
\* rooms of a put are all there or all away, and they are there only if it was
\* answered "success" (the transaction of V1UpdateComposite).
Whole ==
    \A p \in Puts : Shown(p) # {} => Shown(p) = RowsOf(p) /\ answer[p] = "ok"

\* A replacement that is answered "success" has put all its rooms in, and what
\* is left beside them in the composite was put there by replacements that
\* committed after its delete statement looked; other composites stay as they
\* were (DeleteAll and AddCompositesRooms).
ReplacesWhatItSaw ==
    [][\A p \in Puts : answer[p] # "ok" /\ answer'[p] = "ok" =>
          /\ RowsOf(p) \subseteq table'
          /\ \A row \in table' :
                req[row.put].composite = req[p].composite =>
                    row.put = p \/ row.put \in passed[p]
          /\ \A row \in table :
                req[row.put].composite # req[p].composite => row \in table']_vars

\* Replacements wait for one another in a circle only when a third one has
\* committed under one of them: two that meet never do (the primary key has the
\* position, and the rooms are inserted in its order).
CircleNeedsThird ==
    \A D \in SUBSET Puts : Circle(D) => \E p \in D : passed[p] # {}

==============================================================================
