--------------------------- MODULE CompositesProofs ---------------------------
(***************************************************************************)
(* Replacements of the rooms of composites, and the listings beside them:  *)
(* a composite never shows a part of a replacement, a replacement leaves   *)
(* only its own rooms and those of replacements that committed under it,   *)
(* two do not wait for one another, and a listing breaks down only on what *)
(* is missing.  For every number of replacements and listings at once, of  *)
(* composites, rooms, items and users.                                     *)
(***************************************************************************)
EXTENDS Listings, WellFoundedInduction, TLAPS

(***************************************************************************)
(* Whole is about the table.  It stays so because what a replacement saw,  *)
(* and what it deletes, is whole as well: sets of rows that are whole are  *)
(* closed under the operations of the model.                               *)
(***************************************************************************)
Asked(r, p) == {[put |-> p, position |-> i] : i \in 1..Len(r.vquad)}

RowsIn(rows, p) == {row \in rows : row.put = p}

WholeIn(rows, requests, answers) ==
    \A p \in Puts : RowsIn(rows, p) # {} =>
        RowsIn(rows, p) = Asked(requests[p], p) /\ answers[p] = "ok"

AllWhole ==
    /\ WholeIn(table, req, answer)
    /\ \A p \in Puts : WholeIn(seen[p], req, answer) /\ WholeIn(dels[p], req, answer)

\* A put that is under way has a request that was read.
Requested == \A p \in Puts : pc[p] # "new" => req[p] \in Request

\* A replacement deletes rows of its composite only, and once it has the locks.
SameComposite ==
    \A p \in Puts :
        /\ pc[p] # "insert" => dels[p] = {}
        /\ \A row \in seen[p] : req[row.put].composite = req[p].composite
        /\ dels[p] \subseteq seen[p]

\* Of its composite it misses only rows that came after it had looked.
MissesNone ==
    \A p \in Puts : \A row \in table :
        req[row.put].composite = req[p].composite =>
            /\ pc[p] = "delete" => row \in seen[p] \/ row.put \in passed[p]
            /\ pc[p] = "insert" => row \in dels[p] \/ row.put \in passed[p]

Inv == TypeOK /\ Requested /\ AllWhole /\ SameComposite /\ MissesNone

-----------------------------------------------------------------------------
(* Requests and whole sets of rows *)

LEMMA RequestShape ==
    ASSUME NEW r \in Request
    PROVE  /\ Len(r.vquad) \in Nat /\ Len(r.vquad) <= MaxItems
           /\ r.composite \in Composites
<1>1. r.composite \in Composites /\ r.vquad \in UNION {[1..n -> Item] : n \in 0..MaxItems}
  BY DEF Request
<1>2. PICK n \in 0..MaxItems : r.vquad \in [1..n -> Item]
  BY <1>1
<1>3. n \in Nat /\ n <= MaxItems
  BY ConstantsOK
<1>4. Len(r.vquad) = n
  BY <1>2, <1>3
<1>. QED
  BY <1>1, <1>3, <1>4

LEMMA ItemOfRequest ==
    ASSUME NEW r \in Request, NEW i \in 1..Len(r.vquad), r.vquad[i] # Nil
    PROVE  r.vquad[i] \in Rooms
<1>1. PICK n \in 0..MaxItems : r.vquad \in [1..n -> Item]
  BY DEF Request
<1>2. n \in Nat
  BY ConstantsOK
<1>3. Len(r.vquad) = n
  BY <1>1, <1>2
<1>. QED
  BY <1>1, <1>3 DEF Item

LEMMA AskedRows ==
    ASSUME NEW p \in Puts, NEW r \in Request
    PROVE  /\ Asked(r, p) \in SUBSET Row
           /\ \A row \in Asked(r, p) : row.put = p
<1>1. Len(r.vquad) \in Nat /\ Len(r.vquad) <= MaxItems /\ MaxItems \in Nat
  BY RequestShape, ConstantsOK
<1>2. 1..Len(r.vquad) \subseteq Positions
  BY <1>1 DEF Positions
<1>. QED
  BY <1>2 DEF Asked, Row

\* What was answered "ok" keeps its request and its answer.
LEMMA WholeKeeps ==
    ASSUME NEW rows, NEW requests, NEW answers, NEW requests2, NEW answers2,
           WholeIn(rows, requests, answers),
           \A p \in Puts : answers[p] = "ok" =>
               requests2[p] = requests[p] /\ answers2[p] = "ok"
    PROVE  WholeIn(rows, requests2, answers2)
BY DEF WholeIn

LEMMA WholeEmpty ==
    ASSUME NEW requests, NEW answers
    PROVE  WholeIn({}, requests, answers)
BY DEF WholeIn, RowsIn

LEMMA WholeMeet ==
    ASSUME NEW A, NEW B, NEW requests, NEW answers,
           WholeIn(A, requests, answers), WholeIn(B, requests, answers)
    PROVE  WholeIn(A \cap B, requests, answers)
<1>1. \A p \in Puts : RowsIn(A \cap B, p) = RowsIn(A, p) \cap RowsIn(B, p)
  BY DEF RowsIn
<1>. QED
  BY <1>1 DEF WholeIn

LEMMA WholeMinus ==
    ASSUME NEW A, NEW B, NEW requests, NEW answers,
           WholeIn(A, requests, answers), WholeIn(B, requests, answers)
    PROVE  WholeIn(A \ B, requests, answers)
<1>1. \A p \in Puts : RowsIn(A \ B, p) = RowsIn(A, p) \ RowsIn(B, p)
  BY DEF RowsIn
<1>. QED
  BY <1>1 DEF WholeIn

LEMMA WholeJoin ==
    ASSUME NEW A, NEW requests, NEW answers, NEW p \in Puts,
           WholeIn(A, requests, answers), answers[p] = "ok", requests[p] \in Request
    PROVE  WholeIn(A \cup Asked(requests[p], p), requests, answers)
<1>. DEFINE B == Asked(requests[p], p)
<1>1. \A row \in B : row.put = p
  BY AskedRows
<1>. HIDE DEF B
<1>2. \A q \in Puts \ {p} : RowsIn(A \cup B, q) = RowsIn(A, q)
  BY <1>1 DEF RowsIn
<1>3. RowsIn(A \cup B, p) = RowsIn(A, p) \cup B
  BY <1>1 DEF RowsIn
<1>4. RowsIn(A, p) = {} \/ RowsIn(A, p) = B
  BY DEF WholeIn, B
<1>5. RowsIn(A \cup B, p) = B
  BY <1>3, <1>4
<1>. QED
  BY <1>2, <1>5 DEF WholeIn, B

LEMMA WholeOfComposite ==
    ASSUME NEW A, NEW B \in SUBSET A, NEW requests, NEW answers, NEW c,
           WholeIn(A, requests, answers),
           \A row \in A : row \in B <=> requests[row.put].composite = c
    PROVE  WholeIn(B, requests, answers)
<1>1. \A p \in Puts : RowsIn(B, p) = IF requests[p].composite = c THEN RowsIn(A, p) ELSE {}
  BY DEF RowsIn
<1>. QED
  BY <1>1 DEF WholeIn

-----------------------------------------------------------------------------
(* Types *)

LEMMA InitInv == Init => Inv
<1>. SUFFICES ASSUME Init PROVE Inv
  OBVIOUS
<1>. USE DEF Init
<1>1. TypeOK
  BY ConstantsOK DEF TypeOK, InTx
<1>2. AllWhole
  BY WholeEmpty DEF AllWhole
<1>3. Requested /\ SameComposite /\ MissesNone
  BY DEF Requested, SameComposite, MissesNone
<1>. QED
  BY <1>1, <1>2, <1>3 DEF Inv

\* A put that ends without a trace.
LEMMA RollbackTypes ==
    ASSUME TypeOK, NEW p \in Puts, NEW a \in {"500", "panic"}, Rollback(p, a),
           faults' \in 0..MaxFaults
    PROVE  TypeOK'
<1>. USE DEF Rollback, Finish, TypeOK, roomVars
<1>1. ins' \in [Puts -> 0..MaxItems]
  BY ConstantsOK
<1>2. a # None /\ answer' \in [Puts -> {None, "ok", "400", "500", "panic"}]
  BY ConstantsOK
<1>3. \A q \in Puts : /\ pc'[q] = "done" <=> answer'[q] # None
                      /\ pc'[q] \notin {"look", "delete", "insert"} =>
                             seen'[q] = {} /\ dels'[q] = {} /\ ins'[q] = 0
  BY <1>2 DEF InTx
<1>. QED
  BY <1>1, <1>2, <1>3 DEF InTx

\* The actions that end a put without a trace.
EndsBadly(p) == Duplicate(p) \/ NilRoom(p) \/ DeadlockDetected(p) \/ StatementFails(p)

LEMMA EndsInRollback ==
    ASSUME TypeOK, NEW p \in Puts, EndsBadly(p)
    PROVE  /\ \E a \in {"500", "panic"} : Rollback(p, a)
           /\ faults' \in 0..MaxFaults
           /\ InTx(p)
<1>1. CASE Duplicate(p)
  BY <1>1 DEF Duplicate, Adding, More, InTx, TypeOK
<1>2. CASE NilRoom(p)
  BY <1>2 DEF NilRoom, More, InTx, TypeOK
<1>3. CASE DeadlockDetected(p)
  <2>1. \E q \in Puts : WaitsFor(p, q)
    BY <1>3 DEF DeadlockDetected, Circle
  <2>2. InTx(p)
    BY <2>1 DEF WaitsFor, Adding, More, InTx
  <2>. QED
    BY <1>3, <2>2 DEF DeadlockDetected, TypeOK
<1>4. CASE StatementFails(p)
  BY <1>4, ConstantsOK DEF StatementFails, Fault, TypeOK
<1>. QED
  BY <1>1, <1>2, <1>3, <1>4 DEF EndsBadly

LEMMA BeginTypes ==
    ASSUME TypeOK, NEW p \in Puts, V1UpdateComposite(p)
    PROVE  TypeOK'
<1>. USE DEF V1UpdateComposite, TypeOK, txVars, roomVars
<1>1. PICK r \in Request :
          /\ req' = [req EXCEPT ![p] = r]
          /\ IF AllKnown(r)
             THEN pc' = [pc EXCEPT ![p] = "look"] /\ UNCHANGED answer
             ELSE Finish(p, "400")
  OBVIOUS
<1>2. seen[p] = {} /\ dels[p] = {} /\ ins[p] = 0 /\ answer[p] = None
  BY DEF InTx
<1>3. CASE AllKnown(r)
  BY <1>1, <1>2, <1>3 DEF InTx
<1>4. CASE ~AllKnown(r)
  <2>1. "400" # None
    BY ConstantsOK
  <2>2. pc' = [pc EXCEPT ![p] = "done"] /\ answer' = [answer EXCEPT ![p] = "400"]
    BY <1>1, <1>4 DEF Finish
  <2>. QED
    BY <1>1, <1>2, <2>1, <2>2 DEF InTx
<1>. QED
  BY <1>3, <1>4

LEMMA DeleteTypes ==
    ASSUME TypeOK, NEW p \in Puts, DeleteLooks(p) \/ DeleteAll(p)
    PROVE  TypeOK'
<1>. USE DEF TypeOK, roomVars
<1>1. CASE DeleteLooks(p)
  <2>1. seen' \in [Puts -> SUBSET Row]
    BY <1>1 DEF DeleteLooks, CompositesRooms
  <2>. QED
    BY <1>1, <2>1 DEF DeleteLooks, InTx
<1>2. CASE DeleteAll(p)
  <2>1. dels' \in [Puts -> SUBSET Row]
    BY <1>2 DEF DeleteAll
  <2>. QED
    BY <1>2, <2>1 DEF DeleteAll, InTx
<1>. QED
  BY <1>1, <1>2

LEMMA InsertTypes ==
    ASSUME TypeOK, Requested, NEW p \in Puts, Insert(p)
    PROVE  TypeOK'
<1>1. pc[p] = "insert" /\ ins[p] < Len(req[p].vquad)
  BY DEF Insert, Adding, More
<1>2. Len(req[p].vquad) \in Nat /\ Len(req[p].vquad) <= MaxItems
  BY <1>1, RequestShape DEF Requested
<1>3. ins' \in [Puts -> 0..MaxItems]
  BY <1>1, <1>2, ConstantsOK DEF Insert, TypeOK
<1>. QED
  BY <1>1, <1>3 DEF Insert, TypeOK, roomVars, InTx

LEMMA CommitTypes ==
    ASSUME TypeOK, Requested, NEW p \in Puts, Commit(p)
    PROVE  TypeOK' /\ table' = (table \ dels[p]) \cup Asked(req[p], p)
<1>. USE DEF Commit, Finish, TypeOK, roomVars
<1>1. table' = (table \ dels[p]) \cup Asked(req[p], p)
  BY DEF RowsOf, Asked
<1>2. Asked(req[p], p) \in SUBSET Row
  BY AskedRows DEF Requested
<1>3. table' \in SUBSET Row
  BY <1>1, <1>2
<1>4. ins' \in [Puts -> 0..MaxItems] /\ passed' \in [Puts -> SUBSET Puts]
  BY ConstantsOK
<1>5. "ok" # None
  BY ConstantsOK
<1>6. \A q \in Puts : /\ pc'[q] = "done" <=> answer'[q] # None
                      /\ pc'[q] \notin {"look", "delete", "insert"} =>
                             seen'[q] = {} /\ dels'[q] = {} /\ ins'[q] = 0
  BY <1>5 DEF InTx
<1>. QED
  BY <1>1, <1>3, <1>4, <1>6 DEF InTx

\* What changes of rooms, and steps that change nothing, leave alone.
LEMMA RoomTypes ==
    ASSUME TypeOK, (\E room \in Rooms : TakeRoom(room)) \/ Reload \/ UNCHANGED vars
    PROVE  TypeOK' /\ UNCHANGED putVars
<1>1. ASSUME NEW room \in Rooms, TakeRoom(room) PROVE TypeOK' /\ UNCHANGED putVars
  BY <1>1, ConstantsOK DEF TakeRoom, Fault, putVars, txVars, TypeOK, InTx
<1>2. CASE Reload
  BY <1>2 DEF Reload, putVars, txVars, TypeOK, InTx
<1>3. CASE UNCHANGED vars
  BY <1>3 DEF vars, putVars, txVars, roomVars, TypeOK, InTx
<1>. QED
  BY <1>1, <1>2, <1>3

-----------------------------------------------------------------------------
(* What replacements see and delete is whole, and is their composite's *)

\* Sets of rows stay whole as long as nothing that was answered changes.
LEMMA StaysWhole ==
    ASSUME AllWhole,
           \A q \in Puts : answer[q] = "ok" => req'[q] = req[q] /\ answer'[q] = "ok"
    PROVE  /\ WholeIn(table, req', answer')
           /\ \A q \in Puts : /\ WholeIn(seen[q], req', answer')
                              /\ WholeIn(dels[q], req', answer')
BY WholeKeeps DEF AllWhole

\* A row that was seen was put there by a replacement that was answered.
LEMMA PutOfRow ==
    ASSUME TypeOK, NEW A \in SUBSET Row, WholeIn(A, req, answer), NEW row \in A
    PROVE  row.put \in Puts /\ answer[row.put] = "ok" /\ pc[row.put] = "done"
<1>1. row.put \in Puts
  BY DEF Row
<1>2. answer[row.put] = "ok"
  BY <1>1 DEF WholeIn, RowsIn
<1>3. pc[row.put] = "done"
  BY <1>1, <1>2, ConstantsOK DEF TypeOK
<1>. QED
  BY <1>1, <1>2, <1>3

LEMMA BeginInv ==
    ASSUME Inv, NEW p \in Puts, V1UpdateComposite(p)
    PROVE  Requested' /\ AllWhole' /\ SameComposite' /\ MissesNone'
<1>. TypeOK /\ Requested /\ AllWhole /\ SameComposite /\ MissesNone
  BY DEF Inv
<1>1. PICK r \in Request :
          /\ req' = [req EXCEPT ![p] = r]
          /\ IF AllKnown(r)
             THEN pc' = [pc EXCEPT ![p] = "look"] /\ UNCHANGED answer
             ELSE Finish(p, "400")
  BY DEF V1UpdateComposite
<1>2. /\ UNCHANGED <<table, seen, dels, passed>>
      /\ pc[p] = "new" /\ seen[p] = {} /\ answer[p] = None
  BY DEF V1UpdateComposite, TypeOK, InTx, txVars
<1>3. /\ \A q \in Puts \ {p} : req'[q] = req[q] /\ answer'[q] = answer[q] /\ pc'[q] = pc[q]
      /\ req'[p] = r /\ pc'[p] \in {"look", "done"}
  BY <1>1 DEF Finish, TypeOK
<1>4. Requested'
  BY <1>3 DEF Requested
<1>5. AllWhole'
  <2>1. \A q \in Puts : answer[q] = "ok" => req'[q] = req[q] /\ answer'[q] = "ok"
    BY <1>2, <1>3, ConstantsOK
  <2>. QED
    BY <1>2, <2>1, StaysWhole DEF AllWhole
<1>6. \A row \in table : row.put \in Puts \ {p}
  BY <1>2, PutOfRow DEF TypeOK, AllWhole
<1>7. \A q \in Puts : \A row \in seen[q] : row.put \in Puts \ {p}
  BY <1>2, PutOfRow DEF TypeOK, AllWhole
<1>8. SameComposite'
  BY <1>2, <1>3, <1>7 DEF SameComposite
<1>9. MissesNone'
  BY <1>2, <1>3, <1>6 DEF MissesNone
<1>. QED
  BY <1>4, <1>5, <1>8, <1>9

LEMMA RollbackInv ==
    ASSUME Inv, NEW p \in Puts, InTx(p), NEW a \in {"500", "panic"}, Rollback(p, a)
    PROVE  Requested' /\ AllWhole' /\ SameComposite' /\ MissesNone'
<1>. TypeOK /\ Requested /\ AllWhole /\ SameComposite /\ MissesNone
  BY DEF Inv
<1>1. /\ UNCHANGED <<table, req, passed>>
      /\ seen' = [seen EXCEPT ![p] = {}] /\ dels' = [dels EXCEPT ![p] = {}]
      /\ pc' = [pc EXCEPT ![p] = "done"] /\ answer' = [answer EXCEPT ![p] = a]
      /\ answer[p] = None /\ pc[p] # "new"
  BY DEF Rollback, Finish, InTx, TypeOK
<1>2. Requested'
  BY <1>1 DEF Requested, TypeOK
<1>3. AllWhole'
  <2>1. \A q \in Puts : answer[q] = "ok" => req'[q] = req[q] /\ answer'[q] = "ok"
    BY <1>1, ConstantsOK DEF TypeOK
  <2>2. \A q \in Puts : /\ seen'[q] = seen[q] \/ seen'[q] = {}
                        /\ dels'[q] = dels[q] \/ dels'[q] = {}
    BY <1>1 DEF TypeOK
  <2>3. /\ WholeIn(table, req', answer')
        /\ \A q \in Puts : WholeIn(seen[q], req', answer') /\ WholeIn(dels[q], req', answer')
    BY <2>1, StaysWhole
  <2>4. WholeIn({}, req', answer')
    BY WholeEmpty
  <2>5. \A q \in Puts : WholeIn(seen'[q], req', answer') /\ WholeIn(dels'[q], req', answer')
    BY <2>2, <2>3, <2>4
  <2>. QED
    BY <1>1, <2>3, <2>5 DEF AllWhole
<1>4. SameComposite'
  BY <1>1 DEF SameComposite, TypeOK
<1>5. MissesNone'
  BY <1>1 DEF MissesNone, TypeOK
<1>. QED
  BY <1>2, <1>3, <1>4, <1>5

LEMMA LooksInv ==
    ASSUME Inv, NEW p \in Puts, DeleteLooks(p)
    PROVE  Requested' /\ AllWhole' /\ SameComposite' /\ MissesNone'
<1>. TypeOK /\ Requested /\ AllWhole /\ SameComposite /\ MissesNone
  BY DEF Inv
<1>. DEFINE looked == {row \in table : req[row.put].composite = req[p].composite}
<1>1. /\ UNCHANGED <<table, req, answer, dels, passed>>
      /\ pc[p] = "look"
      /\ seen' = [seen EXCEPT ![p] = looked] /\ pc' = [pc EXCEPT ![p] = "delete"]
  BY DEF DeleteLooks, CompositesRooms, TypeOK
<1>11. dels[p] = {}
  BY <1>1 DEF SameComposite
<1>3. \A row \in looked : row \in table /\ req[row.put].composite = req[p].composite
  OBVIOUS
<1>4. \A row \in table : req[row.put].composite = req[p].composite => row \in looked
  OBVIOUS
<1>. HIDE DEF looked
<1>2. WholeIn(looked, req, answer)
  <2>1. WholeIn(table, req, answer)
    BY DEF AllWhole
  <2>2. /\ looked \in SUBSET table
        /\ \A row \in table : row \in looked <=> req[row.put].composite = req[p].composite
    BY <1>3, <1>4
  <2>. QED
    BY <2>1, <2>2, WholeOfComposite
<1>5. \A q \in Puts : seen'[q] = IF q = p THEN looked ELSE seen[q]
  BY <1>1 DEF TypeOK
<1>6. \A q \in Puts : pc'[q] = IF q = p THEN "delete" ELSE pc[q]
  BY <1>1 DEF TypeOK
<1>7. Requested'
  BY <1>1, <1>6 DEF Requested
<1>8. AllWhole'
  <2>1. \A q \in Puts : WholeIn(seen'[q], req, answer)
    BY <1>2, <1>5 DEF AllWhole
  <2>. QED
    BY <1>1, <2>1 DEF AllWhole
<1>9. SameComposite'
  BY <1>1, <1>3, <1>5, <1>6, <1>11 DEF SameComposite
<1>10. MissesNone'
  BY <1>1, <1>4, <1>5, <1>6 DEF MissesNone
<1>. QED
  BY <1>7, <1>8, <1>9, <1>10

LEMMA DeleteAllInv ==
    ASSUME Inv, NEW p \in Puts, DeleteAll(p)
    PROVE  Requested' /\ AllWhole' /\ SameComposite' /\ MissesNone'
<1>. TypeOK /\ Requested /\ AllWhole /\ SameComposite /\ MissesNone
  BY DEF Inv
<1>1. /\ UNCHANGED <<table, req, answer, seen, passed>>
      /\ pc[p] = "delete"
      /\ dels' = [dels EXCEPT ![p] = seen[p] \cap table]
      /\ pc' = [pc EXCEPT ![p] = "insert"]
  BY DEF DeleteAll
<1>2. WholeIn(seen[p] \cap table, req, answer)
  BY WholeMeet DEF AllWhole
<1>3. \A q \in Puts : dels'[q] = IF q = p THEN seen[p] \cap table ELSE dels[q]
  BY <1>1 DEF TypeOK
<1>4. \A q \in Puts : pc'[q] = IF q = p THEN "insert" ELSE pc[q]
  BY <1>1 DEF TypeOK
<1>5. Requested'
  BY <1>1, <1>4 DEF Requested
<1>6. AllWhole'
  <2>1. \A q \in Puts : WholeIn(dels'[q], req, answer)
    BY <1>2, <1>3 DEF AllWhole
  <2>. QED
    BY <1>1, <2>1 DEF AllWhole
<1>7. SameComposite'
  BY <1>1, <1>3, <1>4 DEF SameComposite
<1>8. MissesNone'
  BY <1>1, <1>3, <1>4 DEF MissesNone
<1>. QED
  BY <1>5, <1>6, <1>7, <1>8

\* Inserting, and what happens to rooms, changes nothing of this.
LEMMA QuietInv ==
    ASSUME Inv, UNCHANGED <<table, req, pc, answer, seen, dels, passed>>
    PROVE  Requested' /\ AllWhole' /\ SameComposite' /\ MissesNone'
BY DEF Inv, Requested, AllWhole, SameComposite, MissesNone

LEMMA CommitInv ==
    ASSUME Inv, NEW p \in Puts, Commit(p)
    PROVE  Requested' /\ AllWhole' /\ SameComposite' /\ MissesNone'
<1>. TypeOK /\ Requested /\ AllWhole /\ SameComposite /\ MissesNone
  BY DEF Inv
<1>. DEFINE new == Asked(req[p], p)
<1>1. /\ UNCHANGED req
      /\ pc[p] = "insert" /\ req[p] \in Request
      /\ table' = (table \ dels[p]) \cup new
      /\ seen' = [seen EXCEPT ![p] = {}] /\ dels' = [dels EXCEPT ![p] = {}]
      /\ pc' = [pc EXCEPT ![p] = "done"] /\ answer' = [answer EXCEPT ![p] = "ok"]
  BY CommitTypes DEF Commit, Finish, Requested
<1>2. \A q \in Puts : passed'[q] = IF pc[q] \in {"delete", "insert"}
                                   THEN passed[q] \cup {p} ELSE passed[q]
  BY DEF Commit
<1>3. \A row \in new : row.put = p
  BY <1>1, AskedRows
<1>4. \A q \in Puts : /\ pc'[q] = IF q = p THEN "done" ELSE pc[q]
                      /\ seen'[q] = IF q = p THEN {} ELSE seen[q]
                      /\ dels'[q] = IF q = p THEN {} ELSE dels[q]
  BY <1>1 DEF TypeOK
<1>5. Requested'
  BY <1>1, <1>4 DEF Requested
<1>6. AllWhole'
  <2>1. \A q \in Puts : answer[q] = "ok" => req'[q] = req[q] /\ answer'[q] = "ok"
    BY <1>1 DEF TypeOK
  <2>2. /\ WholeIn(table, req', answer')
        /\ \A q \in Puts : WholeIn(seen[q], req', answer') /\ WholeIn(dels[q], req', answer')
    BY <2>1, StaysWhole
  <2>3. WholeIn({}, req', answer')
    BY WholeEmpty
  <2>4. WholeIn(table \ dels[p], req', answer')
    BY <2>2, WholeMinus
  <2>5. answer'[p] = "ok" /\ req'[p] \in Request /\ req'[p] = req[p]
    BY <1>1 DEF TypeOK
  <2>6. WholeIn((table \ dels[p]) \cup Asked(req'[p], p), req', answer')
    BY <2>4, <2>5, WholeJoin
  <2>7. WholeIn(table', req', answer')
    BY <1>1, <2>5, <2>6
  <2>8. \A q \in Puts : WholeIn(seen'[q], req', answer') /\ WholeIn(dels'[q], req', answer')
    BY <1>4, <2>2, <2>3
  <2>. QED
    BY <2>7, <2>8 DEF AllWhole
<1>. HIDE DEF new
<1>7. SameComposite'
  BY <1>1, <1>4 DEF SameComposite
<1>8. ASSUME NEW q \in Puts, NEW row \in table',
             req'[row.put].composite = req'[q].composite,
             pc'[q] \in {"delete", "insert"}
      PROVE  /\ pc'[q] = "delete" => row \in seen'[q] \/ row.put \in passed'[q]
             /\ pc'[q] = "insert" => row \in dels'[q] \/ row.put \in passed'[q]
  <2>1. q # p /\ pc'[q] = pc[q] /\ seen'[q] = seen[q] /\ dels'[q] = dels[q]
    BY <1>4, <1>8
  <2>2. passed'[q] = passed[q] \cup {p}
    BY <1>2, <1>8, <2>1
  <2>3. CASE row \in new
    BY <1>3, <2>2, <2>3
  <2>4. CASE row \in table
    BY <1>1, <1>8, <2>1, <2>2, <2>4 DEF MissesNone
  <2>. QED
    BY <1>1, <2>3, <2>4
<1>9. MissesNone'
  BY <1>8 DEF MissesNone
<1>. QED
  BY <1>5, <1>6, <1>7, <1>9

LEMMA InvStep == Inv /\ [Next]_vars => Inv'
<1>. SUFFICES ASSUME Inv, [Next]_vars PROVE Inv'
  OBVIOUS
<1>. TypeOK /\ Requested
  BY DEF Inv
<1>1. ASSUME NEW p \in Puts, V1UpdateComposite(p) PROVE Inv'
  BY <1>1, BeginTypes, BeginInv DEF Inv
<1>2. ASSUME NEW p \in Puts, DeleteLooks(p) PROVE Inv'
  BY <1>2, DeleteTypes, LooksInv DEF Inv
<1>3. ASSUME NEW p \in Puts, DeleteAll(p) PROVE Inv'
  BY <1>3, DeleteTypes, DeleteAllInv DEF Inv
<1>4. ASSUME NEW p \in Puts, Insert(p) PROVE Inv'
  <2>1. UNCHANGED <<table, req, pc, answer, seen, dels, passed>>
    BY <1>4 DEF Insert
  <2>. QED
    BY <1>4, <2>1, InsertTypes, QuietInv DEF Inv
<1>5. ASSUME NEW p \in Puts, EndsBadly(p) PROVE Inv'
  <2>1. PICK a \in {"500", "panic"} : Rollback(p, a)
    BY <1>5, EndsInRollback
  <2>2. InTx(p) /\ faults' \in 0..MaxFaults
    BY <1>5, EndsInRollback
  <2>3. TypeOK'
    BY <2>1, <2>2, RollbackTypes
  <2>. QED
    BY <2>1, <2>2, <2>3, RollbackInv DEF Inv
<1>6. ASSUME NEW p \in Puts, Commit(p) PROVE Inv'
  BY <1>6, CommitTypes, CommitInv DEF Inv
<1>7. CASE (\E room \in Rooms : TakeRoom(room)) \/ Reload \/ UNCHANGED vars
  <2>1. TypeOK' /\ UNCHANGED putVars
    BY <1>7, RoomTypes
  <2>2. UNCHANGED <<table, req, pc, answer, seen, dels, passed>>
    BY <2>1 DEF putVars, txVars
  <2>. QED
    BY <2>1, <2>2, QuietInv DEF Inv
<1>. QED
  BY <1>1, <1>2, <1>3, <1>4, <1>5, <1>6, <1>7 DEF Next, Put, EndsBadly

-----------------------------------------------------------------------------
(* Who waits for whom                                                       *)

(***************************************************************************)
(* Replacements that wait for one another hold rows that are there and     *)
(* that no other one holds; a committed row names a room.                  *)
(***************************************************************************)
Holds ==
    /\ \A p \in Puts : /\ pc[p] # "insert" => ins[p] = 0
                       /\ dels[p] \subseteq table
    /\ \A p \in Puts : \A q \in Puts \ {p} : \A row \in dels[p] : row \notin dels[q]

NoNil ==
    /\ \A row \in table : RoomOf(row) \in Rooms
    /\ \A p \in Puts : \A i \in 1..ins[p] : req[p].vquad[i] \in Rooms

\* A room that is not live went at some time.
Vanished == Rooms \ live \subseteq gone

FullInv == Inv /\ Holds /\ NoNil /\ Vanished

LEMMA InitFullInv == Init => FullInv
<1>. SUFFICES ASSUME Init PROVE FullInv
  OBVIOUS
<1>1. Inv
  BY InitInv
<1>2. Holds /\ Vanished
  BY DEF Init, Holds, Vanished
<1>3. \A p \in Puts : \A i \in 1..ins[p] : FALSE
  BY DEF Init
<1>4. NoNil
  BY <1>3 DEF Init, NoNil
<1>. QED
  BY <1>1, <1>2, <1>4 DEF FullInv

\* What was answered "success" keeps its request and its answer, and no room
\* that has gone is forgotten.
LEMMA AnswersStay ==
    ASSUME Inv, [Next]_vars
    PROVE  /\ \A q \in Puts : answer[q] = "ok" => req'[q] = req[q] /\ answer'[q] = "ok"
           /\ gone \subseteq gone'
<1>. TypeOK
  BY DEF Inv
<1>1. ASSUME NEW p \in Puts, V1UpdateComposite(p)
      PROVE  /\ \A q \in Puts : answer[q] = "ok" => req'[q] = req[q] /\ answer'[q] = "ok"
             /\ gone' = gone
  <2>1. answer[p] = None /\ None # "ok" /\ gone' = gone
    BY <1>1, ConstantsOK DEF V1UpdateComposite, TypeOK, roomVars
  <2>2. \A q \in Puts \ {p} : req'[q] = req[q] /\ answer'[q] = answer[q]
    BY <1>1 DEF V1UpdateComposite, Finish, TypeOK
  <2>. QED
    BY <2>1, <2>2
<1>2. ASSUME NEW p \in Puts, DeleteLooks(p) \/ DeleteAll(p) \/ Insert(p)
      PROVE  UNCHANGED <<req, answer, gone>>
  BY <1>2 DEF DeleteLooks, DeleteAll, Insert, roomVars
<1>3. ASSUME NEW p \in Puts, EndsBadly(p)
      PROVE  /\ \A q \in Puts : answer[q] = "ok" => req'[q] = req[q] /\ answer'[q] = "ok"
             /\ gone' = gone
  <2>1. PICK a \in {"500", "panic"} : Rollback(p, a)
    BY <1>3, EndsInRollback
  <2>2. answer[p] = None /\ None # "ok"
    BY <1>3, EndsInRollback, ConstantsOK DEF InTx, TypeOK
  <2>. QED
    BY <2>1, <2>2 DEF Rollback, Finish, TypeOK, roomVars
<1>4. ASSUME NEW p \in Puts, Commit(p)
      PROVE  /\ \A q \in Puts : answer[q] = "ok" => req'[q] = req[q] /\ answer'[q] = "ok"
             /\ gone' = gone
  BY <1>4 DEF Commit, Finish, TypeOK, roomVars
<1>5. CASE (\E room \in Rooms : TakeRoom(room)) \/ Reload \/ UNCHANGED vars
  <2>1. UNCHANGED <<req, answer>>
    BY <1>5, RoomTypes DEF putVars
  <2>2. gone \subseteq gone'
    BY <1>5 DEF TakeRoom, Reload, vars, roomVars
  <2>. QED
    BY <2>1, <2>2
<1>. QED
  BY <1>1, <1>2, <1>3, <1>4, <1>5 DEF Next, Put, EndsBadly

LEMMA VanishedStep ==
    ASSUME Vanished, [Next]_vars
    PROVE  Vanished'
<1>1. ASSUME NEW p \in Puts, Put(p) PROVE UNCHANGED <<live, gone>>
  BY <1>1 DEF Put, V1UpdateComposite, DeleteLooks, DeleteAll, Insert, Duplicate, NilRoom,
              DeadlockDetected, StatementFails, Rollback, Commit, roomVars
<1>2. ASSUME NEW room \in Rooms, TakeRoom(room) PROVE Vanished'
  BY <1>2 DEF TakeRoom, Vanished
<1>3. CASE Reload \/ UNCHANGED vars
  BY <1>3 DEF Reload, Vanished, vars, roomVars
<1>. QED
  BY <1>1, <1>2, <1>3 DEF Next, Vanished

-----------------------------------------------------------------------------
(* Rows are held by one replacement *)

LEMMA HoldsStep ==
    ASSUME Inv, Holds, [Next]_vars
    PROVE  Holds'
<1>. TypeOK /\ SameComposite
  BY DEF Inv
<1>1. ASSUME NEW p \in Puts, V1UpdateComposite(p) \/ DeleteLooks(p) PROVE Holds'
  <2>1. UNCHANGED <<table, dels, ins>> /\ ins[p] = 0
    BY <1>1 DEF V1UpdateComposite, DeleteLooks, txVars, Holds
  <2>2. \A q \in Puts \ {p} : pc'[q] = pc[q]
    BY <1>1 DEF V1UpdateComposite, DeleteLooks, Finish, TypeOK
  <2>. QED
    BY <2>1, <2>2 DEF Holds
<1>2. ASSUME NEW p \in Puts, DeleteAll(p) PROVE Holds'
  <2>1. \A q \in Puts \ {p} : \A row \in dels[q] : row \notin seen[p]
    BY <1>2 DEF DeleteAll, Waits, WaitsFor
  <2>2. UNCHANGED <<table, ins>>
    BY <1>2 DEF DeleteAll
  <2>3. \A q \in Puts : dels'[q] = IF q = p THEN seen[p] \cap table ELSE dels[q]
    BY <1>2 DEF DeleteAll, TypeOK
  <2>4. \A q \in Puts : pc'[q] = IF q = p THEN "insert" ELSE pc[q]
    BY <1>2 DEF DeleteAll, TypeOK
  <2>. QED
    BY <2>1, <2>2, <2>3, <2>4 DEF Holds
<1>3. ASSUME NEW p \in Puts, Insert(p) PROVE Holds'
  <2>1. UNCHANGED <<table, dels, pc>> /\ pc[p] = "insert"
    BY <1>3 DEF Insert, Adding, More
  <2>2. \A q \in Puts \ {p} : ins'[q] = ins[q]
    BY <1>3 DEF Insert, TypeOK
  <2>. QED
    BY <2>1, <2>2 DEF Holds
<1>4. ASSUME NEW p \in Puts, EndsBadly(p) \/ Commit(p) PROVE Holds'
  <2>1. /\ \A q \in Puts : dels'[q] = IF q = p THEN {} ELSE dels[q]
        /\ \A q \in Puts : ins'[q] = IF q = p THEN 0 ELSE ins[q]
        /\ \A q \in Puts : pc'[q] = IF q = p THEN "done" ELSE pc[q]
        /\ table \ dels[p] \subseteq table'
    <3>1. CASE Commit(p)
      BY <3>1 DEF Commit, Finish, TypeOK
    <3>2. CASE EndsBadly(p)
      <4>1. PICK a \in {"500", "panic"} : Rollback(p, a)
        BY <3>2, EndsInRollback
      <4>. QED
        BY <4>1 DEF Rollback, Finish, TypeOK
    <3>. QED
      BY <1>4, <3>1, <3>2
  <2>. QED
    BY <2>1 DEF Holds
<1>5. CASE (\E room \in Rooms : TakeRoom(room)) \/ Reload \/ UNCHANGED vars
  <2>1. UNCHANGED <<table, dels, ins, pc>>
    BY <1>5, RoomTypes DEF putVars, txVars
  <2>. QED
    BY <2>1 DEF Holds
<1>. QED
  BY <1>1, <1>2, <1>3, <1>4, <1>5 DEF Next, Put, EndsBadly

-----------------------------------------------------------------------------
(* Committed rows name rooms *)

LEMMA NoNilStep ==
    ASSUME Inv, Holds, NoNil, [Next]_vars
    PROVE  NoNil'
<1>. TypeOK /\ Requested /\ AllWhole
  BY DEF Inv
<1>1. \A row \in table : row.put \in Puts /\ answer[row.put] = "ok"
  BY PutOfRow DEF TypeOK, AllWhole
<1>2. \A row \in table : req'[row.put] = req[row.put]
  BY <1>1, AnswersStay
<1>3. \A row \in table : RoomOf(row)' \in Rooms
  BY <1>2 DEF NoNil, RoomOf
<1>4. ASSUME NEW p \in Puts, V1UpdateComposite(p) PROVE NoNil'
  <2>1. UNCHANGED <<table, ins>> /\ \A i \in 1..ins[p] : FALSE
    BY <1>4 DEF V1UpdateComposite, txVars, Holds
  <2>2. \A q \in Puts \ {p} : req'[q] = req[q]
    BY <1>4 DEF V1UpdateComposite, TypeOK
  <2>. QED
    BY <1>3, <2>1, <2>2 DEF NoNil
<1>5. ASSUME NEW p \in Puts, DeleteLooks(p) \/ DeleteAll(p) PROVE NoNil'
  BY <1>3, <1>5 DEF DeleteLooks, DeleteAll, NoNil
<1>6. ASSUME NEW p \in Puts, Insert(p) PROVE NoNil'
  <2>1. UNCHANGED <<table, req>>
    BY <1>6 DEF Insert
  <2>2. /\ ins[p] \in Nat /\ ins'[p] = ins[p] + 1
        /\ \A q \in Puts \ {p} : ins'[q] = ins[q]
    BY <1>6, ConstantsOK DEF Insert, TypeOK
  <2>3. req[p].vquad[ins[p] + 1] \in Rooms
    <3>1. /\ req[p] \in Request /\ ins[p] + 1 \in 1..Len(req[p].vquad)
          /\ req[p].vquad[ins[p] + 1] # Nil
      BY <1>6, <2>2, RequestShape DEF Insert, Adding, More, Requested
    <3>. QED
      BY <3>1, ItemOfRequest
  <2>. QED
    BY <1>3, <2>1, <2>2, <2>3 DEF NoNil
<1>7. ASSUME NEW p \in Puts, EndsBadly(p) PROVE NoNil'
  <2>1. PICK a \in {"500", "panic"} : Rollback(p, a)
    BY <1>7, EndsInRollback
  <2>2. UNCHANGED <<table, req>> /\ \A q \in Puts : ins'[q] = IF q = p THEN 0 ELSE ins[q]
    BY <2>1 DEF Rollback, TypeOK
  <2>3. \A i \in 1..ins'[p] : FALSE
    BY <2>2
  <2>. QED
    BY <1>3, <2>2, <2>3 DEF NoNil
<1>8. ASSUME NEW p \in Puts, Commit(p) PROVE NoNil'
  <2>1. /\ UNCHANGED req /\ ins[p] = Len(req[p].vquad)
        /\ table' = (table \ dels[p]) \cup Asked(req[p], p)
    BY <1>8, CommitTypes DEF Commit
  <2>2. \A q \in Puts : ins'[q] = IF q = p THEN 0 ELSE ins[q]
    BY <1>8 DEF Commit, TypeOK
  <2>3. \A i \in 1..ins'[p] : FALSE
    BY <2>2
  <2>4. \A row \in Asked(req[p], p) : row.put = p /\ row.position \in 1..ins[p]
    BY <2>1 DEF Asked
  <2>5. \A row \in Asked(req[p], p) : RoomOf(row)' \in Rooms
    BY <2>1, <2>4 DEF NoNil, RoomOf
  <2>. QED
    BY <1>3, <2>1, <2>2, <2>3, <2>5 DEF NoNil
<1>9. CASE (\E room \in Rooms : TakeRoom(room)) \/ Reload \/ UNCHANGED vars
  <2>1. UNCHANGED <<table, ins, req>>
    BY <1>9, RoomTypes DEF putVars, txVars
  <2>. QED
    BY <1>3, <2>1 DEF NoNil
<1>. QED
  BY <1>4, <1>5, <1>6, <1>7, <1>8, <1>9 DEF Next, Put, EndsBadly

LEMMA FullInvStep == FullInv /\ [Next]_vars => FullInv'
BY InvStep, HoldsStep, NoNilStep, VanishedStep DEF FullInv

-----------------------------------------------------------------------------
(* Circles *)

\* Sets of natural numbers have a least element.
LEMMA Least ==
    ASSUME NEW S \in SUBSET Nat, S # {}
    PROVE  \E n \in S : \A m \in S : n <= m
<1>1. PICK n \in S : \A m \in S : <<m, n>> \notin OpToRel(<, Nat)
  <2>. HIDE DEF OpToRel
  <2>. QED
    BY NatLessThanWellFounded, WFMin
<1>2. \A m \in S : ~ (m < n)
  BY <1>1 DEF OpToRel
<1>. QED
  BY <1>2

\* A replacement that none has passed waits, once it inserts, only for one that
\* has inserted more than it has.
LEMMA WaitsForFurther ==
    ASSUME FullInv, NEW p \in Puts, NEW q \in Puts, WaitsFor(p, q),
           pc[p] = "insert", passed[p] = {}
    PROVE  ins[p] < ins[q]
<1>. TypeOK /\ SameComposite /\ MissesNone /\ Holds
  BY DEF FullInv, Inv
<1>1. /\ p # q
      /\ \E row \in Pending(q) : Key(row) = Key(NextRow(p))
  BY DEF WaitsFor
<1>2. PICK row \in Pending(q) : Key(row) = Key(NextRow(p))
  BY <1>1
<1>3. /\ req[row.put].composite = req[p].composite
      /\ row.position = ins[p] + 1
  BY <1>2 DEF Key, NextRow
<1>4. row \notin dels[q]
  <2>. SUFFICES ASSUME row \in dels[q] PROVE FALSE
    OBVIOUS
  <2>1. row \in table /\ row \notin dels[p]
    BY <1>1 DEF Holds
  <2>. QED
    BY <1>3, <2>1 DEF MissesNone
<1>5. PICK i \in 1..ins[q] : row = [put |-> q, position |-> i]
  BY <1>2, <1>4 DEF Pending
<1>6. ins[p] \in Nat /\ ins[q] \in Nat
  BY ConstantsOK DEF TypeOK
<1>. QED
  BY <1>3, <1>5, <1>6

LEMMA NoCircle ==
    ASSUME FullInv, NEW D \in SUBSET Puts, Circle(D), \A p \in D : passed[p] = {}
    PROVE  FALSE
<1>. TypeOK /\ SameComposite /\ Holds
  BY DEF FullInv, Inv
<1>1. D # {} /\ \A p \in D : (\E q \in D : WaitsFor(p, q)) /\ (\E q \in D : WaitsFor(q, p))
  BY DEF Circle
<1>2. ASSUME NEW p \in D PROVE pc[p] = "insert"
  \* Whom another waits for has rows, and so is past its delete statement.
  <2>1. PICK q \in D : WaitsFor(q, p)
    BY <1>1
  <2>2. dels[p] # {} \/ \E row \in Pending(p) : TRUE
    BY <2>1 DEF WaitsFor
  <2>. SUFFICES ASSUME pc[p] # "insert" PROVE FALSE
    OBVIOUS
  <2>3. dels[p] = {} /\ ins[p] = 0
    BY DEF SameComposite, Holds
  <2>. QED
    BY <2>2, <2>3 DEF Pending
<1>3. \A p \in D : ins[p] \in Nat /\ ins[p] <= MaxItems /\ MaxItems - ins[p] \in Nat
  <2>1. \A p \in D : ins[p] \in 0..MaxItems
    BY DEF TypeOK
  <2>. QED
    BY <2>1, ConstantsOK
<1>. DEFINE left == {MaxItems - ins[p] : p \in D}
<1>4. left \in SUBSET Nat /\ left # {}
  BY <1>1, <1>3
<1>5. PICK n \in left : \A m \in left : n <= m
  <2>. HIDE DEF left
  <2>. QED
    BY <1>4, Least
<1>6. PICK p \in D : n = MaxItems - ins[p]
  BY <1>5
<1>7. PICK q \in D : WaitsFor(p, q)
  BY <1>1
<1>8. ins[p] < ins[q]
  BY <1>2, <1>7, WaitsForFurther
<1>9. MaxItems - ins[q] \in left
  OBVIOUS
<1>10. n <= MaxItems - ins[q]
  BY <1>5, <1>9
<1>. QED
  BY <1>3, <1>6, <1>8, <1>10, ConstantsOK

-----------------------------------------------------------------------------
(* Listings                                                                 *)

(***************************************************************************)
(* What a listing has loaded: rows of replacements that were answered      *)
(* "success", which keep their rooms; the rooms of those rows but for ones *)
(* that had gone by then; and sessions in rooms that it has.               *)
(***************************************************************************)
ListTypes ==
    /\ where \in [Users -> Rooms \cup {None}]
    /\ at \in [Readers -> {"idle", "quads", "rooms", "sessions", "answer", "done"}]
    /\ ask \in [Readers -> Query \cup {None}]
    /\ got \in [Readers -> SUBSET Row]
    /\ found \in [Readers -> SUBSET Rooms]
    /\ met \in [Readers -> SUBSET (Users \X Rooms)]
    /\ reply \in [Readers -> {None, "ok", "404", "500", "panic"}]

Asking(r) ==
    at[r] # "idle" =>
        /\ ask[r] \in Query
        /\ ask[r].op \in OfComposites => ask[r].hosted = Rooms

LoadedRows(r) ==
    \A row \in got[r] : answer[row.put] = "ok" /\ RoomOf(row) \in Rooms

LoadedRooms(r) ==
    at[r] \in {"sessions", "answer"} /\ ask[r].op \in OfComposites =>
        \A row \in got[r] : RoomOf(row) \in found[r] \cup gone

LoadedSessions(r) ==
    /\ at[r] # "answer" => met[r] = {}
    /\ at[r] = "answer" /\ ask[r].op \in {"rooms", "room"} =>
           \A s \in met[r] : s[2] \in found[r]

OnceIn(r) == \A s, t \in met[r] : s[1] = t[1] => s[2] = t[2]

\* Only a listing that is done has broken down, and then on what is missing.
Breaks(r) ==
    /\ ask[r].op \notin {"users", "user"}
    /\ ask[r].op \in OfComposites => \E row \in got[r] : RoomOf(row) \in gone
    /\ ask[r].op \notin OfComposites => ask[r].hosted # Rooms

Broken(r) == reply[r] = "panic" => at[r] = "done" /\ Breaks(r)

ReaderInv(r) ==
    /\ Asking(r) /\ LoadedRows(r) /\ LoadedRooms(r) /\ LoadedSessions(r)
    /\ OnceIn(r) /\ Broken(r)

ListInv == FullInv /\ ListTypes /\ \A r \in Readers : ReaderInv(r)

LEMMA ListInitInv == ListInit => ListInv
<1>. SUFFICES ASSUME ListInit PROVE ListInv
  OBVIOUS
<1>1. FullInv
  BY InitFullInv DEF ListInit
<1>2. ListTypes
  BY DEF ListInit, ListTypes
<1>3. ASSUME NEW r \in Readers PROVE ReaderInv(r)
  <2>1. at[r] = "idle" /\ got[r] = {} /\ met[r] = {} /\ reply[r] = None
    BY DEF ListInit
  <2>. QED
    BY <2>1, ConstantsOK DEF ReaderInv, Asking, LoadedRows, LoadedRooms, LoadedSessions,
                             OnceIn, Broken
<1>. QED
  BY <1>1, <1>2, <1>3 DEF ListInv

-----------------------------------------------------------------------------
(* What listings leave alone *)

\* A listing writes nothing, but a query of its may be what fails.
LEMMA ReadsOnly ==
    ASSUME TypeOK, NEW r \in Readers, Read(r)
    PROVE  UNCHANGED <<putVars, roomVars, where>> /\ faults' \in 0..MaxFaults
<1>1. CASE LoadFails(r)
  <2>1. faults' \in 0..MaxFaults
    BY <1>1, ConstantsOK DEF LoadFails, Fault, TypeOK
  <2>. QED
    BY <1>1, <2>1 DEF LoadFails
<1>2. ASSUME UNCHANGED <<vars, where>>
      PROVE  UNCHANGED <<putVars, roomVars, where>> /\ faults' \in 0..MaxFaults
  BY <1>2 DEF vars, putVars, TypeOK
<1>3. CASE V1ListComposites(r) \/ V1GetComposite(r) \/ V1ListRooms(r) \/ V1GetRoom(r)
             \/ V1ListGroups(r) \/ V1ListUsers(r) \/ V1GetUser(r)
  BY <1>2, <1>3 DEF V1ListComposites, V1GetComposite, V1ListRooms, V1GetRoom,
                    V1ListGroups, V1ListUsers, V1GetUser, Asks
<1>4. CASE LoadCompositesRooms(r) \/ LoadRooms(r) \/ LoadSessions(r) \/ FetchSessions(r)
             \/ Answer(r)
  BY <1>2, <1>4 DEF LoadCompositesRooms, LoadRooms, LoadSessions, FetchSessions, Answer
<1>. QED
  BY <1>1, <1>3, <1>4 DEF Read

LEMMA FaultsOnly ==
    ASSUME FullInv, UNCHANGED <<putVars, roomVars>>, faults' \in 0..MaxFaults
    PROVE  FullInv'
<1>1. UNCHANGED <<table, req, pc, answer, seen, dels, ins, passed, live, known, gone>>
  BY DEF putVars, txVars, roomVars
<1>2. TypeOK'
  BY <1>1 DEF FullInv, Inv, TypeOK, InTx
<1>3. Inv'
  BY <1>1, <1>2, QuietInv DEF FullInv, Inv
<1>4. Holds' /\ NoNil' /\ Vanished'
  BY <1>1 DEF FullInv, Holds, NoNil, Vanished, RoomOf
<1>. QED
  BY <1>3, <1>4 DEF FullInv

\* However a listing goes on, the replacements are as their own steps leave them.
LEMMA FullInvListStep ==
    ASSUME FullInv, [ListNext]_listVars
    PROVE  FullInv'
<1>1. CASE Next \/ UNCHANGED vars
  BY <1>1, FullInvStep
<1>2. ASSUME NEW r \in Readers, Read(r) PROVE FullInv'
  BY <1>2, ReadsOnly, FaultsOnly DEF FullInv, Inv
<1>3. ASSUME NEW u \in Users, Move(u) PROVE UNCHANGED vars
  BY <1>3 DEF Move
<1>. QED
  BY <1>1, <1>2, <1>3 DEF ListNext, listVars

\* What a listing loaded stays as it is while others go on.
LEMMA OthersGoOn ==
    ASSUME NEW r \in Readers, ReaderInv(r),
           UNCHANGED <<at[r], ask[r], got[r], found[r], met[r], reply[r]>>,
           got[r] \subseteq Row,
           \A q \in Puts : answer[q] = "ok" => req'[q] = req[q] /\ answer'[q] = "ok",
           gone \subseteq gone'
    PROVE  ReaderInv(r)'
<1>. Asking(r) /\ LoadedRows(r) /\ LoadedRooms(r) /\ LoadedSessions(r) /\ OnceIn(r) /\ Broken(r)
  BY DEF ReaderInv
<1>1. \A row \in got[r] : row.put \in Puts
  BY DEF Row
<1>2. \A row \in got[r] : RoomOf(row)' = RoomOf(row) /\ answer'[row.put] = "ok"
  BY <1>1 DEF RoomOf, LoadedRows
<1>3. Asking(r)' /\ LoadedSessions(r)' /\ OnceIn(r)'
  BY DEF Asking, LoadedSessions, OnceIn
<1>4. LoadedRows(r)' /\ LoadedRooms(r)'
  BY <1>2 DEF LoadedRows, LoadedRooms
<1>5. Broken(r)'
  BY <1>2 DEF Broken, Breaks
<1>. QED
  BY <1>3, <1>4, <1>5 DEF ReaderInv

-----------------------------------------------------------------------------
(* Each step of a listing *)

\* A request comes in, and goes to its first query or is refused.
LEMMA AsksInv ==
    ASSUME ListInv, NEW r \in Readers, NEW q \in Query, Asks(r, q.op, q.key, q.hosted),
           q.op \in OfComposites => q.hosted = Rooms,
           NEW step \in {"quads", "rooms", "sessions"},
           step = "sessions" => q.op \notin OfComposites,
           GoTo(r, step) \/ NotFound(r)
    PROVE  ListTypes' /\ ReaderInv(r)'
<1>. ListTypes /\ ReaderInv(r)
  BY DEF ListInv
<1>1. /\ at[r] = "idle" /\ UNCHANGED <<vars, where, got, found, met>>
      /\ ask' = [ask EXCEPT ![r] = q]
  BY DEF Asks, Query
<1>2. \/ at' = [at EXCEPT ![r] = step] /\ UNCHANGED reply
      \/ at' = [at EXCEPT ![r] = "done"] /\ reply' = [reply EXCEPT ![r] = "404"]
  BY DEF GoTo, NotFound, End
<1>3. ListTypes'
  BY <1>1, <1>2 DEF ListTypes
<1>4. /\ at'[r] \in {step, "done"} /\ ask'[r] = q
      /\ reply'[r] \in {reply[r], "404"} /\ reply[r] # "panic"
      /\ got'[r] = got[r] /\ met'[r] = {}
  BY <1>1, <1>2 DEF ListTypes, ReaderInv, Broken, LoadedSessions
<1>5. LoadedRows(r)'
  BY <1>1 DEF ReaderInv, LoadedRows, RoomOf, vars
<1>6. Asking(r)' /\ LoadedRooms(r)' /\ LoadedSessions(r)' /\ OnceIn(r)' /\ Broken(r)'
  BY <1>4 DEF Asking, LoadedRooms, LoadedSessions, OnceIn, Broken
<1>. QED
  BY <1>3, <1>5, <1>6 DEF ReaderInv

LEMMA RequestInv ==
    ASSUME ListInv, NEW r \in Readers,
           \/ V1ListComposites(r) \/ V1GetComposite(r) \/ V1ListRooms(r) \/ V1GetRoom(r)
           \/ V1ListGroups(r) \/ V1ListUsers(r) \/ V1GetUser(r)
    PROVE  ListTypes' /\ ReaderInv(r)'
<1>. DEFINE query(op, key, hosted) == [op |-> op, key |-> key, hosted |-> hosted]
<1>1. CASE V1ListComposites(r)
  <2>1. query("qids", None, Rooms) \in Query
    BY DEF Query
  <2>. QED
    BY <1>1, <2>1, AsksInv DEF V1ListComposites
<1>2. CASE V1GetComposite(r)
  <2>1. PICK c \in Composites : Asks(r, "qid", c, Rooms) /\ GoTo(r, "quads")
    BY <1>2 DEF V1GetComposite
  <2>2. query("qid", c, Rooms) \in Query
    BY DEF Query
  <2>. QED
    BY <2>1, <2>2, AsksInv
<1>3. CASE V1ListRooms(r)
  <2>1. PICK h \in SUBSET Rooms : Asks(r, "rooms", None, h) /\ GoTo(r, "rooms")
    BY <1>3 DEF V1ListRooms
  <2>2. query("rooms", None, h) \in Query
    BY DEF Query
  <2>. QED
    BY <2>1, <2>2, AsksInv DEF OfComposites
<1>4. CASE V1GetRoom(r)
  <2>1. PICK h \in SUBSET Rooms, room \in Rooms :
            Asks(r, "room", room, h) /\ (GoTo(r, "rooms") \/ NotFound(r))
    BY <1>4 DEF V1GetRoom
  <2>2. query("room", room, h) \in Query
    BY DEF Query
  <2>. QED
    BY <2>1, <2>2, AsksInv DEF OfComposites
<1>5. CASE V1ListGroups(r)
  <2>1. PICK h \in SUBSET Rooms : Asks(r, "groups", None, h) /\ GoTo(r, "sessions")
    BY <1>5 DEF V1ListGroups
  <2>2. query("groups", None, h) \in Query
    BY DEF Query
  <2>. QED
    BY <2>1, <2>2, AsksInv DEF OfComposites
<1>6. CASE V1ListUsers(r)
  <2>1. query("users", None, Rooms) \in Query
    BY DEF Query
  <2>. QED
    BY <1>6, <2>1, AsksInv DEF V1ListUsers, OfComposites
<1>7. CASE V1GetUser(r)
  <2>1. PICK u \in Users :
            Asks(r, "user", u, Rooms) /\ (NotFound(r) \/ GoTo(r, "sessions"))
    BY <1>7 DEF V1GetUser
  <2>2. query("user", u, Rooms) \in Query
    BY DEF Query
  <2>. QED
    BY <2>1, <2>2, AsksInv DEF OfComposites
<1>. QED
  BY <1>1, <1>2, <1>3, <1>4, <1>5, <1>6, <1>7

\* A listing that goes on was asked something and has not broken down.
LEMMA UnderWay ==
    ASSUME ListInv, NEW r \in Readers, at[r] \in {"quads", "rooms", "sessions", "answer"}
    PROVE  /\ ask[r] \in Query /\ reply[r] # "panic"
           /\ ask[r].op \in OfComposites => ask[r].hosted = Rooms
BY DEF ListInv, ReaderInv, Asking, Broken

\* The rows of composites: each was put by a replacement that was answered.
LEMMA LoadCompositesRoomsInv ==
    ASSUME ListInv, NEW r \in Readers, LoadCompositesRooms(r)
    PROVE  ListTypes' /\ ReaderInv(r)'
<1>. ListTypes /\ ReaderInv(r) /\ TypeOK /\ AllWhole /\ NoNil
  BY DEF ListInv, FullInv, Inv
<1>. DEFINE rows == UNION {CompositesRooms(c) : c \in Wanted(ask[r])}
<1>1. /\ at[r] = "quads" /\ got' = [got EXCEPT ![r] = rows]
      /\ UNCHANGED <<vars, where, ask, found, met, reply>>
      /\ \/ at' = [at EXCEPT ![r] = "answer"] /\ rows = {}
         \/ at' = [at EXCEPT ![r] = "rooms"]
  BY DEF LoadCompositesRooms, GoTo, ListTypes
<1>2. rows \subseteq table /\ table \in SUBSET Row
  BY DEF CompositesRooms, TypeOK
<1>3. \A row \in rows : answer[row.put] = "ok" /\ RoomOf(row) \in Rooms
  BY <1>2, PutOfRow DEF AllWhole, NoNil
<1>. HIDE DEF rows
<1>4. ListTypes'
  BY <1>1, <1>2 DEF ListTypes
<1>41. met[r] = {} /\ reply[r] # "panic"
  BY <1>1, UnderWay DEF ReaderInv, LoadedSessions
<1>5. /\ ask'[r] = ask[r] /\ met'[r] = {} /\ reply'[r] # "panic" /\ got'[r] = rows
      /\ at'[r] = "rooms" \/ (at'[r] = "answer" /\ rows = {})
  BY <1>1, <1>41 DEF ListTypes
<1>6. LoadedRows(r)'
  BY <1>1, <1>3, <1>5 DEF LoadedRows, RoomOf, vars
<1>7. Asking(r)' /\ LoadedRooms(r)' /\ LoadedSessions(r)' /\ OnceIn(r)' /\ Broken(r)'
  BY <1>1, <1>5, UnderWay DEF Asking, LoadedRooms, LoadedSessions, OnceIn, Broken
<1>. QED
  BY <1>4, <1>6, <1>7 DEF ReaderInv

\* The rooms: of those that the rows name only ones that have gone are missing.
LEMMA LoadRoomsInv ==
    ASSUME ListInv, NEW r \in Readers, LoadRooms(r)
    PROVE  ListTypes' /\ ReaderInv(r)'
<1>. ListTypes /\ ReaderInv(r) /\ TypeOK /\ Vanished
  BY DEF ListInv, FullInv, Inv
<1>. DEFINE rooms == IF ask[r].op \in OfComposites THEN LoadRoom(r)
                     ELSE IF ask[r].op = "room" THEN {ask[r].key} \cap live ELSE live
<1>1. /\ at[r] = "rooms" /\ found' = [found EXCEPT ![r] = rooms]
      /\ UNCHANGED <<vars, where, ask, got, met>>
      /\ \/ at' = [at EXCEPT ![r] = "done"] /\ reply' = [reply EXCEPT ![r] = "404"]
         \/ at' = [at EXCEPT ![r] = "answer"] /\ UNCHANGED reply
         \/ at' = [at EXCEPT ![r] = "sessions"] /\ UNCHANGED reply
  BY DEF LoadRooms, GoTo, NotFound, End
<1>2. rooms \subseteq Rooms
  BY DEF LoadRoom, TypeOK
<1>3. ask[r].op \in OfComposites =>
        \A row \in got[r] : RoomOf(row) \in rooms \cup gone
  BY DEF LoadRoom, Vanished, ReaderInv, LoadedRows
<1>. HIDE DEF rooms
<1>4. ListTypes'
  BY <1>1, <1>2 DEF ListTypes
<1>41. met[r] = {} /\ reply[r] # "panic"
  BY <1>1, UnderWay DEF ReaderInv, LoadedSessions
<1>5. /\ ask'[r] = ask[r] /\ met'[r] = {} /\ reply'[r] # "panic" /\ got'[r] = got[r]
      /\ found'[r] = rooms
  BY <1>1, <1>41 DEF ListTypes
<1>51. UNCHANGED <<answer, gone>> /\ \A row : RoomOf(row)' = RoomOf(row)
  BY <1>1 DEF RoomOf, vars, roomVars
<1>52. LoadedRows(r)'
  BY <1>5, <1>51 DEF ReaderInv, LoadedRows
<1>6. LoadedRows(r)' /\ LoadedRooms(r)'
  BY <1>3, <1>5, <1>51, <1>52 DEF LoadedRooms
<1>7. Asking(r)' /\ LoadedSessions(r)' /\ OnceIn(r)' /\ Broken(r)'
  BY <1>1, <1>5, UnderWay DEF Asking, LoadedSessions, OnceIn, Broken
<1>. QED
  BY <1>4, <1>6, <1>7 DEF ReaderInv

\* The sessions are those of one moment, in which a user is in one room.
LEMMA SessionsOnce ==
    ASSUME ListTypes, NEW rooms \in SUBSET Rooms
    PROVE  /\ SessionsIn(rooms) \in SUBSET (Users \X Rooms)
           /\ SessionsAll \in SUBSET (Users \X Rooms)
           /\ \A s \in SessionsIn(rooms) : s[2] \in rooms
           /\ \A s, t \in SessionsIn(rooms) : s[1] = t[1] => s[2] = t[2]
           /\ \A s, t \in SessionsAll : s[1] = t[1] => s[2] = t[2]
<1>1. where \in [Users -> Rooms \cup {None}]
  BY DEF ListTypes
<1>. QED
  BY <1>1 DEF SessionsIn, SessionsAll

LEMMA LoadSessionsInv ==
    ASSUME ListInv, NEW r \in Readers, LoadSessions(r)
    PROVE  ListTypes' /\ ReaderInv(r)'
<1>. ListTypes /\ ReaderInv(r)
  BY DEF ListInv
<1>. DEFINE sessions == SessionsIn(found[r])
<1>1. /\ at[r] = "sessions" /\ ask[r].op \in OfComposites \cup {"rooms", "room"}
      /\ at' = [at EXCEPT ![r] = "answer"] /\ met' = [met EXCEPT ![r] = sessions]
      /\ UNCHANGED <<vars, where, ask, got, found, reply>>
  BY DEF LoadSessions, GoTo
<1>2. /\ sessions \in SUBSET (Users \X Rooms)
      /\ \A s \in sessions : s[2] \in found[r]
      /\ \A s, t \in sessions : s[1] = t[1] => s[2] = t[2]
  BY SessionsOnce DEF ListTypes
<1>. HIDE DEF sessions
<1>3. ListTypes'
  BY <1>1, <1>2 DEF ListTypes
<1>4. reply[r] # "panic"
  BY <1>1, UnderWay
<1>5. at'[r] = "answer" /\ met'[r] = sessions
  BY <1>1 DEF ListTypes
<1>6. \A row : RoomOf(row)' = RoomOf(row)
  BY <1>1 DEF RoomOf, vars
<1>7. LoadedRows(r)' /\ LoadedRooms(r)'
  BY <1>1, <1>6 DEF ReaderInv, LoadedRows, LoadedRooms, vars, roomVars
<1>8. Asking(r)' /\ LoadedSessions(r)' /\ OnceIn(r)' /\ Broken(r)'
  BY <1>1, <1>2, <1>4, <1>5 DEF ReaderInv, Asking, LoadedSessions, OnceIn, Broken
<1>. QED
  BY <1>3, <1>7, <1>8 DEF ReaderInv

LEMMA FetchSessionsInv ==
    ASSUME ListInv, NEW r \in Readers, FetchSessions(r)
    PROVE  ListTypes' /\ ReaderInv(r)'
<1>. ListTypes /\ ReaderInv(r)
  BY DEF ListInv
<1>. DEFINE sessions == {s \in SessionsAll : ask[r].op = "user" => s[1] = ask[r].key}
<1>1. /\ at[r] = "sessions" /\ ask[r].op \notin OfComposites \cup {"rooms", "room"}
      /\ met' = [met EXCEPT ![r] = sessions]
      /\ UNCHANGED <<vars, where, ask, got, found>>
  BY DEF FetchSessions, OfComposites
<1>2. \/ at' = [at EXCEPT ![r] = "answer"] /\ UNCHANGED reply
      \/ /\ at' = [at EXCEPT ![r] = "done"] /\ reply' = [reply EXCEPT ![r] = "404"]
         /\ met'[r] = {}
  BY DEF FetchSessions, GoTo, NotFound, End
<1>3. /\ sessions \in SUBSET (Users \X Rooms)
      /\ \A s, t \in sessions : s[1] = t[1] => s[2] = t[2]
  BY SessionsOnce
<1>. HIDE DEF sessions
<1>4. ListTypes'
  BY <1>1, <1>2, <1>3 DEF ListTypes
<1>5. reply[r] # "panic"
  BY <1>1, UnderWay
<1>6. /\ met'[r] = sessions /\ reply'[r] # "panic"
      /\ at'[r] = "answer" \/ (at'[r] = "done" /\ met'[r] = {})
  BY <1>1, <1>2, <1>5 DEF ListTypes
<1>7. \A row : RoomOf(row)' = RoomOf(row)
  BY <1>1 DEF RoomOf, vars
<1>8. LoadedRows(r)' /\ LoadedRooms(r)'
  BY <1>1, <1>7 DEF ReaderInv, LoadedRows, LoadedRooms, vars
<1>9. Asking(r)' /\ LoadedSessions(r)' /\ OnceIn(r)' /\ Broken(r)'
  BY <1>1, <1>3, <1>6, UnderWay DEF Asking, LoadedSessions, OnceIn, Broken
<1>. QED
  BY <1>4, <1>8, <1>9 DEF ReaderInv

LEMMA LoadFailsInv ==
    ASSUME ListInv, NEW r \in Readers, LoadFails(r)
    PROVE  ListTypes' /\ ReaderInv(r)'
<1>. ListTypes /\ ReaderInv(r)
  BY DEF ListInv
<1>1. /\ at[r] \in {"quads", "rooms", "sessions"}
      /\ at' = [at EXCEPT ![r] = "done"] /\ reply' = [reply EXCEPT ![r] = "500"]
      /\ UNCHANGED <<putVars, roomVars, where, ask, got, found, met>>
  BY DEF LoadFails, End
<1>2. ListTypes'
  BY <1>1 DEF ListTypes
<1>3. at'[r] = "done" /\ reply'[r] = "500" /\ met'[r] = {}
  BY <1>1 DEF ListTypes, ReaderInv, LoadedSessions
<1>4. UNCHANGED <<req, answer>> /\ \A row : RoomOf(row)' = RoomOf(row)
  BY <1>1 DEF RoomOf, putVars
<1>5. LoadedRows(r)' /\ LoadedRooms(r)'
  BY <1>1, <1>3, <1>4 DEF ReaderInv, LoadedRows, LoadedRooms
<1>6. Asking(r)' /\ LoadedSessions(r)' /\ OnceIn(r)' /\ Broken(r)'
  BY <1>1, <1>3, UnderWay DEF Asking, LoadedSessions, OnceIn, Broken
<1>. QED
  BY <1>2, <1>5, <1>6 DEF ReaderInv

\* What makes the answer finds all it dereferences, but for rooms that have gone
\* and gateways that are not cached.
LEMMA MakesUnlessMissing ==
    ASSUME ListInv, NEW r \in Readers, at[r] = "answer", ~Makes(r)
    PROVE  Breaks(r)
<1>. ListTypes /\ ReaderInv(r) /\ TypeOK
  BY DEF ListInv, FullInv, Inv
<1>. DEFINE q == ask[r]
<1>1. q \in Query /\ (q.op \in OfComposites => q.hosted = Rooms)
  BY UnderWay
<1>2. CASE q.op \in OfComposites
  <2>1. ~makeV1Composite(q, got[r], found[r])
    BY <1>2 DEF Makes, OfComposites
  <2>2. PICK row \in got[r] : ~(RoomOf(row) \in found[r] /\ RoomOf(row) \in q.hosted)
    BY <2>1 DEF makeV1Composite, makeV1Room
  <2>3. RoomOf(row) \in Rooms /\ RoomOf(row) \in found[r] \cup gone
    BY <1>2 DEF ReaderInv, LoadedRows, LoadedRooms
  <2>4. RoomOf(row) \in gone
    BY <1>1, <1>2, <2>2, <2>3
  <2>. QED
    BY <1>2, <2>4 DEF Breaks, OfComposites
<1>3. CASE q.op \in {"rooms", "room"}
  <2>1. ~makeV1Rooms(q, found[r], met[r])
    BY <1>3 DEF Makes, OfComposites
  <2>2. \A s \in met[r] : makeV1User(s, LoadUser(met[r]), found[r])
    BY <1>3 DEF makeV1User, LoadUser, ReaderInv, LoadedSessions
  <2>3. \E room \in found[r] : room \notin q.hosted
    BY <2>1, <2>2 DEF makeV1Rooms, makeV1Room
  <2>4. q.hosted # Rooms
    BY <2>3 DEF ListTypes
  <2>. QED
    BY <1>3, <2>4 DEF Breaks, OfComposites
<1>4. CASE q.op = "groups"
  <2>1. ~SortGroups(q)
    BY <1>4 DEF Makes, OfComposites
  <2>2. q.hosted # Rooms
    BY <2>1 DEF SortGroups, TypeOK
  <2>. QED
    BY <1>4, <2>2 DEF Breaks, OfComposites
<1>5. CASE q.op \in {"users", "user"}
  <2>1. \A s \in met[r] : makeV1User(s, LoadUser(met[r]), LoadRoomOf(met[r]))
    BY DEF makeV1User, LoadUser, LoadRoomOf
  <2>2. q.op \notin OfComposites /\ q.op \notin {"rooms", "room"} /\ q.op # "groups"
    BY <1>5 DEF OfComposites
  <2>3. Makes(r)
    BY <2>1, <2>2 DEF Makes
  <2>. QED
    BY <2>3
<1>. QED
  BY <1>1, <1>2, <1>3, <1>4, <1>5 DEF Query, OfComposites

LEMMA AnswerInv ==
    ASSUME ListInv, NEW r \in Readers, Answer(r)
    PROVE  ListTypes' /\ ReaderInv(r)'
<1>. ListTypes /\ ReaderInv(r)
  BY DEF ListInv
<1>1. /\ at[r] = "answer" /\ at' = [at EXCEPT ![r] = "done"]
      /\ reply' = [reply EXCEPT ![r] = IF Makes(r) THEN "ok" ELSE "panic"]
      /\ found' = [found EXCEPT ![r] = {}] /\ met' = [met EXCEPT ![r] = {}]
      /\ UNCHANGED <<vars, where, ask, got>>
  BY DEF Answer, End
<1>2. ListTypes'
  BY <1>1 DEF ListTypes
<1>3. /\ at'[r] = "done" /\ met'[r] = {}
      /\ reply'[r] = "panic" => ~Makes(r)
  BY <1>1 DEF ListTypes
<1>4. UNCHANGED <<answer, gone>> /\ \A row : RoomOf(row)' = RoomOf(row)
  BY <1>1 DEF RoomOf, vars, roomVars
<1>5. LoadedRows(r)' /\ LoadedRooms(r)'
  BY <1>1, <1>3, <1>4 DEF ReaderInv, LoadedRows, LoadedRooms
<1>6. Asking(r)' /\ LoadedSessions(r)' /\ OnceIn(r)'
  BY <1>1, <1>3, UnderWay DEF Asking, LoadedSessions, OnceIn
<1>7. ~Makes(r) => Breaks(r)'
  <2>1. ~Makes(r) => Breaks(r)
    BY <1>1, MakesUnlessMissing
  <2>. QED
    BY <1>1, <1>4, <2>1 DEF Breaks
<1>. QED
  BY <1>2, <1>3, <1>5, <1>6, <1>7 DEF ReaderInv, Broken

\* What a listing does to itself, by the steps above.
LEMMA ReadInv ==
    ASSUME ListInv, NEW r \in Readers, Read(r)
    PROVE  ListTypes' /\ ReaderInv(r)'
BY RequestInv, LoadCompositesRoomsInv, LoadRoomsInv, LoadSessionsInv, FetchSessionsInv,
   LoadFailsInv, AnswerInv DEF Read

\* A listing changes nothing of another one.
LEMMA ReadAlone ==
    ASSUME ListInv, NEW r \in Readers, Read(r), NEW o \in Readers \ {r}
    PROVE  UNCHANGED <<at[o], ask[o], got[o], found[o], met[o], reply[o]>>
<1>. ListTypes
  BY DEF ListInv
<1>1. ASSUME NEW step, GoTo(r, step) PROVE UNCHANGED <<at[o], reply[o]>>
  BY <1>1 DEF GoTo, ListTypes
<1>2. ASSUME NEW a, End(r, a) PROVE UNCHANGED <<at[o], reply[o]>>
  BY <1>2 DEF End, ListTypes
<1>3. ASSUME NEW op, NEW key, NEW hosted, Asks(r, op, key, hosted)
      PROVE  UNCHANGED <<ask[o], got[o], found[o], met[o]>>
  BY <1>3 DEF Asks, ListTypes
<1>4. CASE V1ListComposites(r) \/ V1GetComposite(r) \/ V1ListRooms(r) \/ V1GetRoom(r)
             \/ V1ListGroups(r) \/ V1ListUsers(r) \/ V1GetUser(r)
  BY <1>1, <1>2, <1>3, <1>4
  DEF V1ListComposites, V1GetComposite, V1ListRooms, V1GetRoom, V1ListGroups, V1ListUsers,
      V1GetUser, NotFound
<1>5. CASE LoadCompositesRooms(r)
  BY <1>1, <1>5 DEF LoadCompositesRooms, ListTypes
<1>6. CASE LoadRooms(r)
  <2>1. UNCHANGED <<at[o], reply[o]>>
    BY <1>1, <1>2, <1>6 DEF LoadRooms, NotFound
  <2>2. UNCHANGED <<ask, got, met>> /\ found'[o] = found[o]
    BY <1>6 DEF LoadRooms, ListTypes
  <2>. QED
    BY <2>1, <2>2
<1>7. CASE LoadSessions(r)
  BY <1>1, <1>7 DEF LoadSessions, ListTypes
<1>8. CASE FetchSessions(r)
  <2>1. UNCHANGED <<at[o], reply[o]>>
    BY <1>1, <1>2, <1>8 DEF FetchSessions, NotFound
  <2>2. UNCHANGED <<ask, got, found>> /\ met'[o] = met[o]
    BY <1>8 DEF FetchSessions, ListTypes
  <2>. QED
    BY <2>1, <2>2
<1>9. CASE LoadFails(r)
  BY <1>2, <1>9 DEF LoadFails
<1>10. CASE Answer(r)
  BY <1>2, <1>10 DEF Answer, ListTypes
<1>. QED
  BY <1>4, <1>5, <1>6, <1>7, <1>8, <1>9, <1>10 DEF Read

\* Whatever the replacements and the rooms do, what was loaded stays what it is.
LEMMA ReadersStay ==
    ASSUME ListInv, UNCHANGED readVars, ListTypes',
           \A q \in Puts : answer[q] = "ok" => req'[q] = req[q] /\ answer'[q] = "ok",
           gone \subseteq gone', NEW r \in Readers
    PROVE  ReaderInv(r)'
<1>1. got[r] \subseteq Row /\ ReaderInv(r)
  BY DEF ListInv, ListTypes
<1>. QED
  BY <1>1, OthersGoOn DEF readVars

LEMMA ListInvStep == ListInv /\ [ListNext]_listVars => ListInv'
<1>. SUFFICES ASSUME ListInv, [ListNext]_listVars PROVE ListInv'
  OBVIOUS
<1>. FullInv /\ Inv /\ TypeOK /\ ListTypes
  BY DEF ListInv, FullInv, Inv
<1>1. FullInv'
  BY FullInvListStep
<1>2. ASSUME Next \/ UNCHANGED vars, UNCHANGED <<where, readVars>> PROVE ListInv'
  <2>1. ListTypes'
    BY <1>2 DEF ListTypes, readVars
  <2>2. /\ \A q \in Puts : answer[q] = "ok" => req'[q] = req[q] /\ answer'[q] = "ok"
        /\ gone \subseteq gone'
    BY <1>2, AnswersStay
  <2>. QED
    BY <1>1, <1>2, <2>1, <2>2, ReadersStay DEF ListInv
<1>3. ASSUME NEW r \in Readers, Read(r) PROVE ListInv'
  <2>1. ListTypes' /\ ReaderInv(r)'
    BY <1>3, ReadInv
  <2>2. UNCHANGED <<req, answer, gone>>
    BY <1>3, ReadsOnly DEF putVars, roomVars
  <2>3. ASSUME NEW o \in Readers \ {r} PROVE ReaderInv(o)'
    <3>1. got[o] \subseteq Row /\ ReaderInv(o)
      BY DEF ListInv, ListTypes
    <3>2. UNCHANGED <<at[o], ask[o], got[o], found[o], met[o], reply[o]>>
      BY <1>3, ReadAlone
    <3>. QED
      BY <2>2, <3>1, <3>2, OthersGoOn
  <2>. QED
    BY <1>1, <2>1, <2>3 DEF ListInv
<1>4. ASSUME NEW u \in Users, Move(u) PROVE ListInv'
  <2>1. UNCHANGED <<vars, readVars>> /\ ListTypes'
    BY <1>4 DEF Move, ListTypes, readVars
  <2>2. UNCHANGED <<req, answer, gone>>
    BY <2>1 DEF vars, roomVars
  <2>. QED
    BY <1>1, <2>1, <2>2, ReadersStay DEF ListInv
<1>. QED
  BY <1>2, <1>3, <1>4 DEF ListNext, listVars

THEOREM ListInvAlways == ListSpec => []ListInv
<1>. QED
  BY ListInitInv, ListInvStep, PTL DEF ListSpec

\* The same of the replacements by themselves, without listings beside them.
THEOREM FullInvAlways == Spec => []FullInv
<1>. QED
  BY InitFullInv, FullInvStep, PTL DEF Spec

-----------------------------------------------------------------------------
(* What follows *)

\* The transactions of V1UpdateComposite keep to their shape: a put has an answer
\* exactly when it is done, and holds no rows outside its transaction.
THEOREM CompositesTypeOK == ListSpec => []TypeOK
<1>. QED
  BY ListInvAlways, PTL DEF ListInv, FullInv, Inv

\* However many replacements of however many composites run at once, and whatever
\* fails: the rooms of a replacement are all shown or none is, and they are shown
\* only if it was answered "success".
THEOREM WholeAlways == ListSpec => []Whole
<1>1. ListInv => Whole
  <2>. SUFFICES ASSUME AllWhole PROVE Whole
    BY DEF ListInv, FullInv, Inv
  <2>1. WholeIn(table, req, answer)
    BY DEF AllWhole
  <2>. QED
    BY <2>1 DEF Whole, WholeIn, Shown, RowsIn, RowsOf, Asked
<1>. QED
  BY <1>1, ListInvAlways, PTL

\* However many transactions wait, of however many composites and items: a circle
\* of them needs one that another replacement has passed after its delete
\* statement looked (the primary key of composites_rooms, and AddCompositesRooms).
THEOREM CircleNeedsThirdAlways == ListSpec => []CircleNeedsThird
<1>1. ListInv => CircleNeedsThird
  BY NoCircle DEF ListInv, CircleNeedsThird
<1>. QED
  BY <1>1, ListInvAlways, PTL

\* Whatever is replaced, disabled or moved between the queries of a listing, it
\* breaks down only on a room that has gone or a gateway that is not cached.
THEOREM BreaksOnlyOnMissingAlways == ListSpec => []BreaksOnlyOnMissing
<1>1. ListInv => BreaksOnlyOnMissing
  BY DEF ListInv, ReaderInv, Broken, Breaks, BreaksOnlyOnMissing
<1>. QED
  BY <1>1, ListInvAlways, PTL

\* However users move while a list is loaded, it has each in one room at most.
THEOREM NobodyTwiceAlways == ListSpec => []NobodyTwice
<1>1. ListInv => NobodyTwice
  BY DEF ListInv, ReaderInv, OnceIn, NobodyTwice
<1>. QED
  BY <1>1, ListInvAlways, PTL

\* The one action that answers "success" is the commit.
LEMMA OnlyCommitAnswers ==
    ASSUME Inv, [Next]_vars, NEW p \in Puts, answer[p] # "ok", answer'[p] = "ok"
    PROVE  Commit(p)
<1>. TypeOK
  BY DEF Inv
<1>1. ASSUME NEW q \in Puts, V1UpdateComposite(q) PROVE FALSE
  BY <1>1 DEF V1UpdateComposite, Finish, TypeOK
<1>2. ASSUME NEW q \in Puts, DeleteLooks(q) \/ DeleteAll(q) \/ Insert(q) PROVE FALSE
  BY <1>2 DEF DeleteLooks, DeleteAll, Insert
<1>3. ASSUME NEW q \in Puts, EndsBadly(q) PROVE FALSE
  BY <1>3, EndsInRollback DEF Rollback, Finish, TypeOK
<1>4. ASSUME NEW q \in Puts, Commit(q) PROVE Commit(p)
  BY <1>4 DEF Commit, Finish, TypeOK
<1>5. CASE (\E room \in Rooms : TakeRoom(room)) \/ Reload \/ UNCHANGED vars
  BY <1>5, RoomTypes DEF putVars
<1>. QED
  BY <1>1, <1>2, <1>3, <1>4, <1>5 DEF Next, Put, EndsBadly

\* A replacement that is answered "success" has put its rooms in, and shares its
\* composite only with replacements that committed after its delete statement
\* looked; the rows of other composites are as they were.
THEOREM ReplacesWhatItSawAlways == ListSpec => ReplacesWhatItSaw
<1>1. ASSUME Inv, [Next]_vars, NEW p \in Puts, answer[p] # "ok", answer'[p] = "ok"
      PROVE  /\ RowsOf(p) \subseteq table'
             /\ \A row \in table' :
                   req[row.put].composite = req[p].composite =>
                       row.put = p \/ row.put \in passed[p]
             /\ \A row \in table :
                   req[row.put].composite # req[p].composite => row \in table'
  <2>. TypeOK /\ Requested /\ SameComposite /\ MissesNone
    BY <1>1 DEF Inv
  <2>1. Commit(p)
    BY <1>1, OnlyCommitAnswers
  <2>2. table' = (table \ dels[p]) \cup Asked(req[p], p) /\ pc[p] = "insert"
    BY <2>1, CommitTypes DEF Commit
  <2>3. req[p] \in Request
    BY <2>2 DEF Requested
  <2>4. \A row \in Asked(req[p], p) : row.put = p
    BY <2>3, AskedRows
  <2>5. RowsOf(p) \subseteq table'
    BY <2>2 DEF RowsOf, Asked
  <2>6. \A row \in table \ dels[p] :
            req[row.put].composite = req[p].composite => row.put \in passed[p]
    BY <2>2 DEF MissesNone
  <2>7. \A row \in dels[p] : req[row.put].composite = req[p].composite
    BY DEF SameComposite
  <2>. QED
    BY <2>2, <2>4, <2>5, <2>6, <2>7
<1>2. ASSUME ListInv, [ListNext]_listVars
      PROVE  [\A p \in Puts : answer[p] # "ok" /\ answer'[p] = "ok" =>
                /\ RowsOf(p) \subseteq table'
                /\ \A row \in table' :
                      req[row.put].composite = req[p].composite =>
                          row.put = p \/ row.put \in passed[p]
                /\ \A row \in table :
                      req[row.put].composite # req[p].composite => row \in table']_vars
  <2>1. Inv /\ TypeOK
    BY <1>2 DEF ListInv, FullInv, Inv
  <2>2. CASE Next \/ UNCHANGED vars
    BY <1>1, <2>1, <2>2
  <2>3. ASSUME NEW r \in Readers, Read(r) PROVE UNCHANGED answer
    BY <2>1, <2>3, ReadsOnly DEF putVars
  <2>4. ASSUME NEW u \in Users, Move(u) PROVE UNCHANGED vars
    BY <2>4 DEF Move
  <2>. QED
    BY <1>2, <2>2, <2>3, <2>4 DEF ListNext, listVars
<1>. QED
  BY <1>2, ListInvAlways, PTL DEF ListSpec, ReplacesWhatItSaw

==============================================================================
