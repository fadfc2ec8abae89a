------------------------- MODULE DynamicConfigProofs -------------------------
(***************************************************************************)
(* Proofs about DynamicConfig: types, and that the cache serves the table, *)
(* for any keys, values and number of requests.                            *)
(***************************************************************************)
EXTENDS DynamicConfig, WellFoundedInduction, TLAPS

(***************************************************************************)
(* What the program's data look like.                                      *)
(***************************************************************************)
\* Entries as they may be by now.
Made == {e \in Entry : e.at <= now}

\* A request's data fit the step it is at.
Fits(h) ==
    /\ req[h] \in Req /\ req[h].entry \in Made \cup {None}
    /\ pc[h] \in {"check", "stamp", "assign"} => req[h].touched = {} /\ req[h].val \in Values
    /\ pc[h] = "check" => req[h].op = "update" /\ req[h].entry # None
    /\ pc[h] = "stamp" => /\ req[h].op \in {"create", "update"}
                          /\ req[h].op = "update" => req[h].entry # None
    /\ pc[h] \in {"assign", "write"} => req[h].cached \/ req[h].entry # None
    /\ req[h].cached => pc[h] \in {"assign", "write"} /\ cache[req[h].key] # None

Requests == \A h \in Handlers : pc[h] # "idle" => Fits(h)

Shape ==
    /\ rows \subseteq Made /\ snap \subseteq Made
    /\ cache \in [Keys -> Made \cup {None}]
    /\ lastModified <= now
    /\ Requests

ShapeInv == TypeOK /\ Shape

\* Latest is the greatest of the times.
LEMMA LatestFacts ==
    ASSUME NEW n \in Nat, NEW t \in 0..n, NEW table, \A r \in table : r.at \in 0..n
    PROVE  /\ Latest(table, t) \in 0..n
           /\ t <= Latest(table, t)
           /\ \A r \in table : r.at <= Latest(table, t)
  <1> DEFINE times == {r.at : r \in table} \cup {t}
             below == {n - u : u \in times}
             less == {p \in Nat \X Nat : p[1] < p[2]}
  <1>1. times \subseteq 0..n /\ below \subseteq Nat /\ below # {}
    OBVIOUS
  <1>2. IsWellFoundedOn(less, Nat)
    BY NatLessThanWellFounded DEF OpToRel
  <1>3. \E a \in below : \A b \in below : <<b, a>> \notin less
    <2> HIDE DEF below, less
    <2> QED
      BY <1>1, <1>2, WFMin
  <1>4. \A a, b \in Nat : b < a => <<b, a>> \in less
    OBVIOUS
  <1>5. PICK u \in times : \A b \in below : <<b, n - u>> \notin less
    BY <1>3
  <1>6. ASSUME NEW w \in times
        PROVE  w <= u
    <2>1. n - w \in below /\ n - w \in Nat /\ n - u \in Nat /\ w \in 0..n /\ u \in 0..n
      BY <1>1
    <2> HIDE DEF below, less, times
    <2>2. ~(n - w < n - u)
      BY <1>4, <1>5, <2>1
    <2> QED
      BY <2>1, <2>2
  <1>7. \E v \in times : \A r \in table : t <= v /\ r.at <= v
    BY <1>6
  <1> QED
    BY <1>1, <1>7 DEF Latest

LEMMA EntryOfType ==
    ASSUME NEW table, NEW k
    PROVE  EntryOf(table, k) \in table \cup {None}
  BY DEF EntryOf, Rows

LEMMA ObjectMade ==
    ASSUME ShapeInv, NEW h \in Handlers, pc[h] \in {"assign", "write"}
    PROVE  Object(h) \in Made
  <1>1. req[h] \in Req /\ req[h].key \in Keys
    BY DEF ShapeInv, Shape, Requests, Fits, Req
  <1> QED
    BY <1>1 DEF ShapeInv, Shape, Requests, Fits, Object

LEMMA WrittenMade ==
    ASSUME ShapeInv, NEW h \in Handlers, pc[h] = "write"
    PROVE  Written(h) \subseteq Made
  <1> DEFINE o == Object(h)
             Changed(r) == IF r.id = o.id THEN [r EXCEPT !.val = o.val, !.at = o.at] ELSE r
  <1>1. o \in Made /\ rows \subseteq Made /\ serial \in Nat
    BY ObjectMade DEF ShapeInv, Shape, TypeOK
  <1>2. req[h].op \in {"create", "update", "set", "delete"}
    BY DEF ShapeInv, Shape, Requests, Fits, Req
  <1>3. [o EXCEPT !.id = serial + 1] \in Made
    BY <1>1 DEF Made, Entry
  <1>4. \A r \in rows : Changed(r) \in Made
    BY <1>1 DEF Made, Entry
  <1>9. req[h].op = "set" => Written(h) = {Changed(r) : r \in rows}
    BY DEF Written
  <1> HIDE DEF o, Changed
  <1>5. CASE req[h].op = "create"
    BY <1>1, <1>3, <1>5 DEF Written, o
  <1>6. CASE req[h].op = "update"
    BY <1>1, <1>6 DEF Written, o
  <1>7. CASE req[h].op = "set"
    BY <1>4, <1>7, <1>9
  <1>8. CASE req[h].op = "delete"
    BY <1>1, <1>8 DEF Written, o
  <1> QED
    BY <1>2, <1>5, <1>6, <1>7, <1>8

LEMMA ShapeInit == Init => ShapeInv
  <1> SUFFICES ASSUME Init PROVE ShapeInv
    OBVIOUS
  <1>1. rows \subseteq Made /\ now = 0
    BY DEF Init, Made, Entry
  <1>2. cache \in [Keys -> Made \cup {None}]
    BY <1>1, EntryOfType DEF Init
  <1>3. Made \subseteq Entry /\ rows \in SUBSET Entry
    BY <1>1 DEF Made
  <1> QED
    BY <1>1, <1>2, <1>3, ConstantsOK
       DEF Init, ShapeInv, TypeOK, Shape, Requests, NoReq, NoneStale, Procs

\* Entries that were made stay made.
LEMMA MadeStays ==
    ASSUME ShapeInv, now' = now \/ now' = now + 1
    PROVE  Made \subseteq Made' /\ now' \in Nat
  BY DEF ShapeInv, TypeOK, Made, Entry

\* Requests that others leave alone keep their shape.
LEMMA RequestsKept ==
    ASSUME ShapeInv, now' = now \/ now' = now + 1, NEW h \in Handlers,
           \A q \in Handlers \ {h} : pc'[q] = pc[q] /\ req'[q] = req[q],
           \A k \in Keys : cache[k] # None => cache'[k] # None,
           pc'[h] # "idle" => Fits(h)'
    PROVE  Requests'
  <1> SUFFICES ASSUME NEW q \in Handlers, pc'[q] # "idle"
               PROVE  Fits(q)'
    BY DEF Requests
  <1>1. CASE q = h
    BY <1>1
  <1>2. CASE q # h
    <2>1. Fits(q) /\ req'[q] = req[q] /\ pc'[q] = pc[q] /\ req[q].key \in Keys
      BY <1>2 DEF ShapeInv, Shape, Requests, Fits, Req
    <2> QED
      BY <2>1, MadeStays DEF Fits
  <1> QED
    BY <1>1, <1>2

\* A request that ends leaves the others' shape.
LEMMA ShapeAnswer ==
    ASSUME ShapeInv, NEW h \in Handlers, Answer(h), rows' \subseteq Made,
           UNCHANGED <<cacheVars, now, begun>>,
           serial' \in Nat, faults' \in 0..MaxFaults,
           stale' \in [before : SUBSET Keys, since : SUBSET Keys]
    PROVE  ShapeInv'
  <1>1. /\ pc' = [pc EXCEPT ![h] = "idle"] /\ req' = [req EXCEPT ![h] = NoReq]
        /\ UNCHANGED <<cache, lastModified, lock, snap>>
    BY DEF Answer, cacheVars
  <1>2. Requests'
    BY <1>1, RequestsKept DEF ShapeInv, TypeOK
  <1>3. Made' = Made /\ Made \subseteq Entry
    BY DEF Made
  <1> QED
    BY <1>1, <1>2, <1>3 DEF ShapeInv, TypeOK, Shape

\* A request that begins or goes on.
LEMMA ShapeGoesOn ==
    ASSUME ShapeInv, NEW h \in Handlers, NEW step \in {"check", "stamp", "assign", "write", "reload"},
           NEW r \in Req, pc' = [pc EXCEPT ![h] = step], req' = [req EXCEPT ![h] = r],
           rows' \subseteq Made', snap' = snap, lock' = lock, lastModified' = lastModified,
           cache' \in [Keys -> Made' \cup {None}],
           \A k \in Keys : cache[k] # None => cache'[k] # None,
           now' = now \/ now' = now + 1, Fits(h)',
           serial' \in Nat, begun' \in 0..MaxRequests, faults' \in 0..MaxFaults,
           UNCHANGED stale
    PROVE  ShapeInv'
  <1>1. Requests'
    BY RequestsKept DEF ShapeInv, TypeOK
  <1>2. Made \subseteq Made' /\ Made' \subseteq Entry /\ now' \in Nat
    BY MadeStays DEF Made
  <1>3. r # NoReq
    BY ConstantsOK DEF Req, NoReq
  <1>4. lastModified' <= now'
    BY DEF ShapeInv, TypeOK, Shape
  <1> QED
    BY <1>1, <1>2, <1>3, <1>4 DEF ShapeInv, TypeOK, Shape

LEMMA FaultType ==
    ASSUME TypeOK, Fault \/ UNCHANGED faults
    PROVE  faults' \in 0..MaxFaults
  BY ConstantsOK DEF TypeOK, Fault

\* A new request has nothing to let go of.
LEMMA ShapeBegin ==
    ASSUME ShapeInv, NEW h \in Handlers, NEW r \in Req,
           NEW step \in {"check", "stamp", "assign", "write"}, Begin(h, r, step),
           UNCHANGED <<rows, cacheVars, serial, now, stale>>,
           Fault \/ UNCHANGED faults,
           r.touched = {}, r.val \in Values \/ step = "write",
           r.entry \in Made \cup {None},
           \/ step = "check" /\ r.op = "update" /\ r.entry # None /\ ~r.cached
           \/ step = "stamp" /\ r.op = "create" /\ ~r.cached
           \/ step = "assign" /\ r.cached /\ cache[r.key] # None
           \/ step = "write" /\ r.entry # None /\ ~r.cached
    PROVE  ShapeInv'
  <1>1. /\ pc' = [pc EXCEPT ![h] = step] /\ req' = [req EXCEPT ![h] = r]
        /\ begun' \in 0..MaxRequests /\ UNCHANGED <<cache, lastModified, lock, snap>>
    BY ConstantsOK DEF Begin, ShapeInv, TypeOK, cacheVars
  <1>2. Made' = Made
    BY DEF Made
  <1>3. pc'[h] = step /\ req'[h] = r
    BY <1>1 DEF ShapeInv, TypeOK
  <1>4. Fits(h)'
    BY <1>1, <1>2, <1>3 DEF Fits
  <1>5. faults' \in 0..MaxFaults
    BY FaultType DEF ShapeInv
  <1> QED
    BY <1>1, <1>2, <1>4, <1>5, ShapeGoesOn DEF ShapeInv, TypeOK, Shape

LEMMA ShapeRequests ==
    ASSUME ShapeInv, NEW h \in Handlers, NEW k \in Keys, NEW v \in Values,
           \/ AdminCreate(h, k, v) \/ AdminSet(h, k, v)
           \/ \E r \in rows : AdminUpdate(h, r, k, v)
    PROVE  ShapeInv'
  <1>1. CASE AdminCreate(h, k, v)
    <2> DEFINE r == NewReq("create", k, v)
    <2>1. /\ r \in Req /\ r.touched = {} /\ r.val = v /\ r.entry = None
          /\ r.op = "create" /\ r.cached = FALSE
      BY DEF NewReq, Req
    <2>2. Begin(h, r, "stamp") /\ UNCHANGED <<rows, cacheVars, serial, now, stale>>
      BY <1>1 DEF AdminCreate
    <2>3. Fault \/ UNCHANGED faults
      BY <1>1 DEF AdminCreate, KeyFree
    <2> HIDE DEF r
    <2> QED
      BY <2>1, <2>2, <2>3, ShapeBegin
  <1>2. CASE AdminSet(h, k, v)
    <2> DEFINE r == [NewReq("set", k, v) EXCEPT !.cached = TRUE]
    <2>1. /\ r \in Req /\ r.touched = {} /\ r.val = v /\ r.entry = None
          /\ r.cached = TRUE /\ r.key = k
      BY DEF NewReq, Req
    <2>2. Begin(h, r, "assign") /\ UNCHANGED <<rows, cacheVars, serial, now, faults, stale>>
      BY <1>2 DEF AdminSet
    <2>3. cache[k] # None
      BY <1>2 DEF AdminSet
    <2> HIDE DEF r
    <2> QED
      BY <2>1, <2>2, <2>3, ShapeBegin
  <1>3. ASSUME NEW e \in rows, AdminUpdate(h, e, k, v)
        PROVE  ShapeInv'
    <2> DEFINE r == [NewReq("update", k, v) EXCEPT !.entry = e]
    <2>0. e \in Made /\ e \in Entry
      BY DEF ShapeInv, Shape, Made
    <2>1. /\ r \in Req /\ r.touched = {} /\ r.val = v /\ r.entry = e
          /\ r.op = "update" /\ r.cached = FALSE /\ e # None
      BY <2>0, ConstantsOK DEF NewReq, Req
    <2>2. Begin(h, r, "check") /\ UNCHANGED <<rows, cacheVars, serial, now, faults, stale>>
      BY <1>3 DEF AdminUpdate
    <2> HIDE DEF r
    <2> QED
      BY <2>0, <2>1, <2>2, ShapeBegin
  <1> QED
    BY <1>1, <1>2, <1>3

LEMMA ShapeDelete ==
    ASSUME ShapeInv, NEW h \in Handlers, NEW e \in rows, AdminDelete(h, e)
    PROVE  ShapeInv'
  <1> DEFINE r == [NewReq("delete", e.key, None) EXCEPT !.entry = e]
  <1>1. e \in Made /\ e \in Entry
    BY DEF ShapeInv, Shape, Made
  <1>2. r \in Req /\ r.touched = {} /\ r.entry = e /\ r.cached = FALSE /\ e # None
    BY <1>1, ConstantsOK DEF NewReq, Req, Entry
  <1>3. Begin(h, r, "write") /\ UNCHANGED <<rows, cacheVars, serial, now, faults, stale>>
    BY DEF AdminDelete
  <1> HIDE DEF r
  <1> QED
    BY <1>1, <1>2, <1>3, ShapeBegin

LEMMA ShapeCheck ==
    ASSUME ShapeInv, NEW h \in Handlers, CheckKey(h)
    PROVE  ShapeInv'
  <1>1. /\ pc[h] = "check" /\ pc' = [pc EXCEPT ![h] = "stamp"] /\ UNCHANGED req
        /\ UNCHANGED <<rows, cache, lastModified, lock, snap, serial, now, begun, stale>>
    BY DEF CheckKey, cacheVars
  <1>2. Fits(h) /\ req[h] \in Req /\ req' = [req EXCEPT ![h] = req[h]]
    BY <1>1 DEF ShapeInv, TypeOK, Shape, Requests, Fits
  <1>3. Made' = Made
    BY <1>1 DEF Made
  <1>4. Fits(h)'
    BY <1>1, <1>2, <1>3 DEF Fits, ShapeInv, TypeOK
  <1>5. faults' \in 0..MaxFaults
    BY FaultType DEF ShapeInv, CheckKey, KeyFree
  <1> QED
    BY <1>1, <1>2, <1>3, <1>4, <1>5, ShapeGoesOn DEF ShapeInv, TypeOK, Shape

LEMMA ShapeStamp ==
    ASSUME ShapeInv, NEW h \in Handlers, Stamp(h)
    PROVE  ShapeInv'
  <1> DEFINE e == [id |-> IF req[h].op = "create" THEN 0 ELSE req[h].entry.id,
                   key |-> req[h].key, val |-> req[h].val, at |-> now + 1]
             r == [req[h] EXCEPT !.entry = e]
  <1>1. pc[h] = "stamp" /\ Fits(h) /\ req[h] \in Req /\ now \in Nat
    BY DEF Stamp, ShapeInv, Shape, Requests, Fits, TypeOK
  <1>2. e \in Entry /\ e.at = now + 1
    BY <1>1 DEF Fits, Made, Entry, Req
  <1>3. /\ pc' = [pc EXCEPT ![h] = "write"] /\ req' = [req EXCEPT ![h] = r] /\ now' = now + 1
        /\ UNCHANGED <<rows, cache, lastModified, lock, snap, serial, begun, faults, stale>>
    BY DEF Stamp, cacheVars
  <1>4. e # None /\ e \in Made'
    BY <1>1, <1>2, <1>3, ConstantsOK DEF Made
  <1> HIDE DEF e
  <1>5. r \in Req /\ r.entry = e /\ r.cached = req[h].cached
    BY <1>1, <1>2 DEF Req
  <1>6. ~req[h].cached
    BY <1>1 DEF Fits
  <1> HIDE DEF r
  <1>7. Fits(h)'
    BY <1>3, <1>4, <1>5, <1>6 DEF Fits, ShapeInv, TypeOK
  <1>8. Made \subseteq Made'
    BY <1>3, MadeStays
  <1> QED
    BY <1>3, <1>5, <1>7, <1>8, ShapeGoesOn DEF ShapeInv, TypeOK, Shape

LEMMA ShapeTaken ==
    ASSUME ShapeInv, NEW h \in Handlers, KeyTaken(h)
    PROVE  ShapeInv'
  BY ShapeAnswer DEF KeyTaken, ShapeInv, TypeOK, Shape, cacheVars

LEMMA ShapeAssign ==
    ASSUME ShapeInv, NEW h \in Handlers, Assign(h)
    PROVE  ShapeInv'
  <1> DEFINE new == [Object(h) EXCEPT !.val = req[h].val, !.at = now + 1]
             r == [req[h] EXCEPT !.touched = {req[h].key}]
  <1>1. /\ pc[h] = "assign" /\ Fits(h) /\ now \in Nat /\ req[h].val \in Values
        /\ req[h] \in Req /\ req[h].key \in Keys
    BY DEF Assign, ShapeInv, TypeOK, Shape, Requests, Fits, Req
  <1>2. Object(h) \in Made
    BY <1>1, ObjectMade
  <1>3. /\ now' = now + 1 /\ pc' = [pc EXCEPT ![h] = "write"]
        /\ UNCHANGED <<rows, lastModified, lock, snap, serial, begun, faults, stale>>
    BY DEF Assign
  <1>4. new \in Entry /\ new \in Made' /\ new # None /\ Made \subseteq Made'
    <2>1. Object(h) \in Entry
      BY <1>2 DEF Made
    <2>2. new \in Entry /\ new.at = now + 1
      <3> DEFINE o == Object(h)
                 v == req[h].val
                 t == now + 1
      <3>1. o \in Entry /\ v \in Values /\ t \in Nat
        BY <1>1, <2>1
      <3> HIDE DEF o, v, t
      <3>2. [o EXCEPT !.val = v, !.at = t] \in Entry /\ [o EXCEPT !.val = v, !.at = t].at = t
        BY <3>1 DEF Entry
      <3> QED
        BY <3>2 DEF o, v, t
    <2> HIDE DEF new
    <2> QED
      BY <1>3, <2>2, MadeStays, ConstantsOK DEF Made
  <1>5. req[h].cached => /\ cache' = [cache EXCEPT ![req[h].key] = new]
                         /\ req' = [req EXCEPT ![h] = r]
    BY DEF Assign
  <1>6. ~req[h].cached => /\ req' = [q \in Handlers |-> IF q \in Sharing(h)
                                                         THEN [req[q] EXCEPT !.entry = new]
                                                         ELSE req[q]]
                          /\ UNCHANGED cache
    BY DEF Assign
  <1>7. r \in Req /\ r.cached = req[h].cached /\ r.key = req[h].key /\ r.entry = req[h].entry
    BY <1>1 DEF Req
  <1> HIDE DEF new, r
  <1>8. CASE req[h].cached
    <2>1. cache' \in [Keys -> Made' \cup {None}]
      BY <1>4, <1>5, <1>8 DEF ShapeInv, Shape
    <2>2. /\ \A k \in Keys : cache[k] # None => cache'[k] # None
          /\ cache'[req[h].key] # None
      BY <1>1, <1>4, <1>5, <1>8 DEF ShapeInv, Shape
    <2>3. pc'[h] = "write" /\ req'[h] = r
      BY <1>3, <1>5, <1>8 DEF ShapeInv, TypeOK
    <2>4. r.entry \in Made' \cup {None}
      BY <1>1, <1>4, <1>7 DEF Fits
    <2>5. Fits(h)'
      BY <1>7, <1>8, <2>2, <2>3, <2>4 DEF Fits
    <2> QED
      BY <1>3, <1>4, <1>5, <1>7, <1>8, <2>1, <2>2, <2>5, ShapeGoesOn
         DEF ShapeInv, TypeOK, Shape
  <1>9. CASE ~req[h].cached
    <2>1. ASSUME NEW q \in Handlers, pc[q] # "idle"
          PROVE  Fits(q)' /\ req'[q] \in Req
      <3>1. Fits(q) /\ req[q] \in Req /\ req[q].key \in Keys
        BY <2>1 DEF ShapeInv, Shape, Requests, Fits, Req
      <3>2. pc'[q] = IF q = h THEN "write" ELSE pc[q]
        BY <1>3 DEF ShapeInv, TypeOK
      <3>3. CASE q \in Sharing(h)
        <4> DEFINE c == [req[q] EXCEPT !.entry = new]
        <4>1. /\ c \in Req /\ c.entry = new /\ c.key = req[q].key /\ c.cached = req[q].cached
              /\ c.touched = req[q].touched /\ c.val = req[q].val /\ c.op = req[q].op
          BY <1>4, <3>1 DEF Req
        <4>2. req'[q] = c /\ UNCHANGED cache
          BY <1>6, <1>9, <3>3
        <4>3. pc'[q] \in {"assign", "write"} /\ (pc'[q] = "assign" => pc[q] = "assign")
          BY <3>2, <3>3 DEF Sharing
        <4>4. pc[q] \in {"assign", "write"}
          BY <3>3 DEF Sharing
        <4> HIDE DEF c
        <4> QED
          BY <1>4, <3>1, <4>1, <4>2, <4>3, <4>4 DEF Fits
      <3>4. CASE q \notin Sharing(h)
        <4>1. req'[q] = req[q] /\ UNCHANGED cache
          BY <1>6, <1>9, <3>4
        <4>2. q = h => pc[q] = "assign"
          BY <1>1
        <4> QED
          BY <1>4, <3>1, <3>2, <4>1, <4>2 DEF Fits
      <3> QED
        BY <3>3, <3>4
    <2>2. pc' \in [Handlers -> {"idle", "check", "stamp", "assign", "write", "reload"}]
      BY <1>3 DEF ShapeInv, TypeOK
    <2>3. ASSUME NEW q \in Handlers
          PROVE  /\ pc'[q] = "idle" <=> pc[q] = "idle"
                 /\ pc[q] = "idle" => req'[q] = NoReq
      <3>1. pc'[q] = IF q = h THEN "write" ELSE pc[q]
        BY <1>3 DEF ShapeInv, TypeOK
      <3>2. pc[q] = "idle" => q \notin Sharing(h) /\ req[q] = NoReq
        BY DEF Sharing, ShapeInv, TypeOK
      <3> QED
        BY <1>1, <1>6, <1>9, <3>1, <3>2
    <2>4. \A q \in Req : q # NoReq
      BY ConstantsOK DEF Req, NoReq
    <2>5. \A q \in Handlers : req'[q] \in Req \cup {NoReq} /\ (pc'[q] = "idle" <=> req'[q] = NoReq)
      BY <2>1, <2>3, <2>4
    <2>6. req' \in [Handlers -> Req \cup {NoReq}]
      BY <1>6, <1>9, <2>5
    <2>7. Requests'
      BY <2>1, <2>3 DEF Requests
    <2>8. lastModified <= now' /\ now' \in Nat
      BY <1>1, <1>3 DEF ShapeInv, TypeOK, Shape
    <2> QED
      BY <1>3, <1>4, <1>6, <1>9, <2>2, <2>5, <2>6, <2>7, <2>8 DEF ShapeInv, TypeOK, Shape
  <1> QED
    BY <1>8, <1>9

LEMMA TouchedType ==
    ASSUME ShapeInv, NEW h \in Handlers, pc[h] = "write", rows' \subseteq Made
    PROVE  Touched(h) \in SUBSET Keys
  <1>1. \A r \in Made : r.key \in Keys
    BY DEF Made, Entry
  <1>2. req[h].touched \subseteq Keys
    BY DEF ShapeInv, Shape, Requests, Fits, Req
  <1> QED
    BY <1>1, <1>2 DEF Touched, KeysOf, ShapeInv, Shape

LEMMA ShapeCommit ==
    ASSUME ShapeInv, NEW h \in Handlers, Commit(h)
    PROVE  ShapeInv'
  <1>1. /\ pc[h] = "write" /\ rows' = Written(h) /\ pc' = [pc EXCEPT ![h] = "reload"]
        /\ req' = [req EXCEPT ![h] = LetGo(h)] /\ NextId(h)
        /\ UNCHANGED <<cache, lastModified, lock, snap, now, begun, faults, stale>>
    BY DEF Commit, cacheVars
  <1>2. rows' \subseteq Made /\ Made' = Made /\ serial' \in Nat
    BY <1>1, WrittenMade DEF Made, NextId, ShapeInv, TypeOK
  <1>3. Touched(h) \in SUBSET Keys
    BY <1>1, <1>2, TouchedType
  <1>4. req[h] \in Req
    BY <1>1 DEF ShapeInv, Shape, Requests, Fits
  <1>5. LetGo(h) \in Req /\ LetGo(h).cached = FALSE /\ LetGo(h).entry = None
    BY <1>3, <1>4 DEF LetGo, Req
  <1>6. pc'[h] = "reload" /\ req'[h] = LetGo(h)
    BY <1>1 DEF ShapeInv, TypeOK
  <1>7. Fits(h)'
    BY <1>5, <1>6 DEF Fits
  <1> HIDE DEF Commit
  <1> QED
    BY <1>1, <1>2, <1>5, <1>7, ShapeGoesOn DEF ShapeInv, TypeOK, Shape

LEMMA ShapeWriteFails ==
    ASSUME ShapeInv, NEW h \in Handlers, WriteFails(h)
    PROVE  ShapeInv'
  <1>1. /\ pc[h] = "write" /\ Answer(h) /\ NextId(h) /\ UNCHANGED <<cacheVars, now, begun>>
        /\ rows' = rows \/ rows' = Written(h)
        /\ stale' = [stale EXCEPT !.since = @ \cup Touched(h)]
    BY DEF WriteFails
  <1>2. rows' \subseteq Made /\ serial' \in Nat
    BY <1>1, WrittenMade DEF NextId, ShapeInv, TypeOK, Shape
  <1>3. Touched(h) \in SUBSET Keys
    BY <1>1, <1>2, TouchedType
  <1>4. stale' \in [before : SUBSET Keys, since : SUBSET Keys]
    BY <1>1, <1>3 DEF ShapeInv, TypeOK
  <1>5. faults' \in 0..MaxFaults
    BY FaultType DEF ShapeInv, WriteFails
  <1> QED
    BY <1>1, <1>2, <1>4, <1>5, ShapeAnswer

LEMMA ShapeReloadQuery ==
    ASSUME ShapeInv, NEW p \in Procs, ReloadQuery(p)
    PROVE  ShapeInv'
  <1>1. /\ lock' = p /\ snap' = rows
        /\ stale' = [before |-> stale.before \cup stale.since, since |-> {}]
        /\ UNCHANGED <<rows, cache, lastModified, pc, req, serial, now, begun, faults>>
    BY DEF ReloadQuery
  <1>2. Made' = Made
    BY <1>1 DEF Made
  <1>3. Requests'
    BY <1>1, <1>2 DEF ShapeInv, Shape, Requests, Fits
  <1>4. stale' \in [before : SUBSET Keys, since : SUBSET Keys]
    BY <1>1 DEF ShapeInv, TypeOK
  <1> QED
    BY <1>1, <1>2, <1>3, <1>4 DEF ShapeInv, TypeOK, Shape

\* What a reload makes of entries.
LEMMA ReloadMakes ==
    ASSUME ShapeInv, NEW table, table \subseteq Made, NEW t \in 0..now
    PROVE  /\ Reloaded(table) \in [Keys -> Made \cup {None}]
           /\ Latest(table, t) \in 0..now
           /\ \A r \in table : r.at <= Latest(table, t)
  <1>1. \A r \in table : r.at \in 0..now
    BY DEF Made, Entry
  <1>2. now \in Nat
    BY DEF ShapeInv, TypeOK
  <1> QED
    BY <1>1, <1>2, LatestFacts, EntryOfType DEF Reloaded

LEMMA ShapeReloadEnd ==
    ASSUME ShapeInv, NEW p \in Procs, ReloadEnd(p)
    PROVE  ShapeInv'
  <1>1. /\ lock = p /\ lock' = None /\ snap' = {} /\ cache' = Reloaded(snap)
        /\ lastModified' = Latest(snap, lastModified)
        /\ stale' = [stale EXCEPT !.before = {}]
        /\ pc' = [h \in Handlers |-> IF h = p THEN "idle" ELSE pc[h]]
        /\ req' = [h \in Handlers |-> IF h = p THEN NoReq
                                      ELSE IF pc[h] # "idle" /\ req[h].cached THEN Orphaned(h)
                                      ELSE req[h]]
        /\ UNCHANGED <<rows, serial, now, begun, faults>>
    BY DEF ReloadEnd
  <1>2. Made' = Made /\ Made \subseteq Entry
    BY <1>1 DEF Made
  <1>3. lastModified \in 0..now /\ snap \subseteq Made
    BY DEF ShapeInv, TypeOK, Shape
  <1>4. cache' \in [Keys -> Made \cup {None}] /\ lastModified' \in 0..now
    BY <1>1, <1>3, ReloadMakes
  <1>5. ASSUME NEW h \in Handlers, pc'[h] # "idle"
        PROVE  Fits(h)' /\ req'[h] \in Req
    <2>1. h # p /\ pc'[h] = pc[h] /\ Fits(h) /\ req[h] \in Req /\ req[h].key \in Keys
      BY <1>1, <1>5 DEF ShapeInv, Shape, Requests, Fits, Req
    <2>2. CASE ~req[h].cached
      <3>1. req'[h] = req[h]
        BY <1>1, <2>1, <2>2
      <3> QED
        BY <1>2, <2>1, <2>2, <3>1 DEF Fits
    <2>3. CASE req[h].cached
      <3>1. req'[h] = Orphaned(h)
        BY <1>1, <1>5, <2>1, <2>3
      <3>2. cache[req[h].key] \in Made /\ pc[h] \in {"assign", "write"}
        BY <2>1, <2>3 DEF Fits, ShapeInv, Shape
      <3>3. cache[req[h].key] # None
        BY <1>2, <3>2, ConstantsOK
      <3>4. /\ Orphaned(h) \in Req /\ Orphaned(h).cached = FALSE
            /\ Orphaned(h).entry = cache[req[h].key]
            /\ Orphaned(h).val = req[h].val /\ Orphaned(h).touched = req[h].touched
        <4> DEFINE sharers == {q \in Handlers : /\ pc[q] \in {"assign", "write"}
                                                /\ req[q].cached
                                                /\ req[q].key = req[h].key}
        <4>1. sharers \in SUBSET Handlers /\ cache[req[h].key] \in Entry
          BY <1>2, <3>2
        <4>2. Orphaned(h) = [req[h] EXCEPT !.cached = FALSE, !.entry = cache[req[h].key],
                                           !.same = sharers]
          BY DEF Orphaned
        <4> HIDE DEF sharers
        <4> QED
          BY <2>1, <4>1, <4>2 DEF Req
      <3> QED
        BY <1>2, <2>1, <3>1, <3>2, <3>3, <3>4 DEF Fits
    <2> QED
      BY <2>2, <2>3
  <1>6. Requests'
    BY <1>5 DEF Requests
  <1>7. \A r \in Req : r # NoReq
    BY ConstantsOK DEF Req, NoReq
  <1>8. ASSUME NEW h \in Handlers
        PROVE  req'[h] \in Req \cup {NoReq} /\ (pc'[h] = "idle" <=> req'[h] = NoReq)
    <2>1. pc'[h] = "idle" => req'[h] = NoReq
      BY <1>1 DEF ShapeInv, TypeOK
    <2> QED
      BY <1>5, <1>7, <2>1
  <1>9. /\ req' \in [Handlers -> Req \cup {NoReq}]
        /\ pc' \in [Handlers -> {"idle", "check", "stamp", "assign", "write", "reload"}]
    BY <1>1, <1>8 DEF ShapeInv, TypeOK
  <1>10. stale' \in [before : SUBSET Keys, since : SUBSET Keys]
    BY <1>1 DEF ShapeInv, TypeOK
  <1> QED
    BY <1>1, <1>2, <1>4, <1>6, <1>8, <1>9, <1>10 DEF ShapeInv, TypeOK, Shape

LEMMA ShapeReloadFails ==
    ASSUME ShapeInv, NEW p \in Procs, ReloadFails(p)
    PROVE  ShapeInv'
  <1>1. faults' \in 0..MaxFaults
    BY FaultType DEF ShapeInv, ReloadFails
  <1>2. CASE p = Ticker
    <2>1. UNCHANGED <<rows, cache, lastModified, lock, snap, pc, req, stale, serial, now, begun>>
      BY <1>2 DEF ReloadFails, cacheVars
    <2>2. Made' = Made
      BY <2>1 DEF Made
    <2>3. Requests'
      BY <2>1, <2>2 DEF ShapeInv, Shape, Requests, Fits
    <2> QED
      BY <1>1, <2>1, <2>2, <2>3 DEF ShapeInv, TypeOK, Shape
  <1>3. CASE p # Ticker
    <2>1. /\ p \in Handlers /\ pc[p] = "reload" /\ Answer(p)
          /\ stale' = [stale EXCEPT !.since = @ \cup req[p].touched]
          /\ UNCHANGED <<rows, cacheVars, serial, now, begun>>
      BY <1>3 DEF ReloadFails, Reloads, Procs
    <2>2. req[p].touched \subseteq Keys
      BY <2>1 DEF ShapeInv, Shape, Requests, Fits, Req
    <2>3. stale' \in [before : SUBSET Keys, since : SUBSET Keys]
      BY <2>1, <2>2 DEF ShapeInv, TypeOK
    <2> QED
      BY <1>1, <2>1, <2>3, ShapeAnswer DEF ShapeInv, TypeOK, Shape
  <1> QED
    BY <1>2, <1>3

LEMMA ShapeRestart ==
    ASSUME ShapeInv, Restart
    PROVE  ShapeInv'
  <1>1. /\ cache' = Reloaded(rows) /\ lastModified' = Latest(rows, 0)
        /\ lock' = None /\ snap' = {}
        /\ pc' = [h \in Handlers |-> "idle"] /\ req' = [h \in Handlers |-> NoReq]
        /\ stale' = NoneStale
        /\ UNCHANGED <<rows, serial, now, begun>>
    BY DEF Restart
  <1>2. Made' = Made /\ Made \subseteq Entry
    BY <1>1 DEF Made
  <1>3. 0 \in 0..now /\ rows \subseteq Made
    BY DEF ShapeInv, TypeOK, Shape
  <1>4. cache' \in [Keys -> Made \cup {None}] /\ lastModified' \in 0..now
    BY <1>1, <1>3, ReloadMakes
  <1>5. faults' \in 0..MaxFaults
    BY FaultType DEF ShapeInv, Restart
  <1> QED
    BY <1>1, <1>2, <1>4, <1>5 DEF ShapeInv, TypeOK, Shape, Requests, NoneStale, Procs

LEMMA ShapeStep == ShapeInv /\ [Next]_vars => ShapeInv'
  <1> SUFFICES ASSUME ShapeInv, [Next]_vars PROVE ShapeInv'
    OBVIOUS
  <1>1. CASE \E h \in Handlers, k \in Keys, v \in Values : AdminCreate(h, k, v) \/ AdminSet(h, k, v)
    BY <1>1, ShapeRequests
  <1>2. CASE \E h \in Handlers, r \in rows, k \in Keys, v \in Values : AdminUpdate(h, r, k, v)
    BY <1>2, ShapeRequests
  <1>3. CASE \E h \in Handlers, r \in rows : AdminDelete(h, r)
    BY <1>3, ShapeDelete
  <1>4. CASE \E h \in Handlers : Work(h)
    BY <1>4, ShapeCheck, ShapeTaken, ShapeStamp, ShapeAssign, ShapeCommit, ShapeWriteFails DEF Work
  <1>5. CASE \E p \in Procs : Reload(p)
    BY <1>5, ShapeReloadQuery, ShapeReloadEnd, ShapeReloadFails DEF Reload
  <1>6. CASE Restart
    BY <1>6, ShapeRestart
  <1>7. CASE UNCHANGED vars
    BY <1>7 DEF vars, ShapeInv, TypeOK, Shape, Requests, Fits, Made
  <1> QED
    BY <1>1, <1>2, <1>3, <1>4, <1>5, <1>6, <1>7 DEF Next

\* All of the state stays of the types: rows, requests and the cache's entries.
THEOREM ConfigTyped == Spec => []TypeOK
  <1>1. ShapeInv => TypeOK
    BY DEF ShapeInv
  <1> QED
    BY ShapeInit, ShapeStep, <1>1, PTL DEF Spec

(***************************************************************************)
(* The cache and the table.                                                *)
(***************************************************************************)
Busy(h, k) == pc[h] # "idle" /\ k \in req[h].touched

\* What the query of a reload returned is as good as the table, but for keys
\* that other requests are at work on, or have failed on, since.
SnapCurrent ==
    lock # None =>
      \A k \in Keys : \/ \E q \in Handlers \ {lock} : Busy(q, k)
                      \/ k \in stale.since
                      \/ EntryOf(snap, k) = EntryOf(rows, k)

Serves ==
    /\ lock \in Handlers => pc[lock] = "reload"
    /\ SnapCurrent
    /\ CacheCurrent /\ ModifiedCovers

LEMMA ServesInit == Init => Serves
  <1> SUFFICES ASSUME Init PROVE Serves
    OBVIOUS
  <1>1. ASSUME NEW k \in Keys
        PROVE  cache[k] = EntryOf(rows, k) /\ (cache[k] = None \/ cache[k].at <= lastModified)
    <2>1. cache[k] = EntryOf(rows, k) /\ cache[k] \in rows \cup {None}
      BY EntryOfType DEF Init
    <2>2. \A r \in rows : r.at <= lastModified
      BY DEF Init
    <2> QED
      BY <2>1, <2>2
  <1> QED
    BY <1>1, ConstantsOK DEF Init, Serves, SnapCurrent, CacheCurrent, ModifiedCovers

\* A step of requests, with the lock and the last query as they were: it keeps
\* hold of what it touched or marks it stale, and so with what it changes.
LEMMA ServesKept ==
    ASSUME Serves, UNCHANGED <<lock, snap, lastModified>>,
           lock \in Handlers => pc'[lock] = "reload",
           stale.before \subseteq stale'.before, stale.since \subseteq stale'.since,
           \A q \in Handlers, k \in Keys : Busy(q, k) => Busy(q, k)' \/ k \in stale'.since,
           \A k \in Keys : \/ \E q \in Handlers \ {lock} : Busy(q, k)'
                           \/ k \in stale'.since
                           \/ EntryOf(rows', k) = EntryOf(rows, k) /\ cache'[k] = cache[k]
    PROVE  Serves'
  <1>1. CacheCurrent' /\ ModifiedCovers'
    BY DEF Serves, CacheCurrent, ModifiedCovers, AtWork, Stale, Busy
  <1>2. SnapCurrent'
    BY DEF Serves, SnapCurrent
  <1> QED
    BY <1>1, <1>2 DEF Serves

\* The step of one request.
LEMMA ServesOne ==
    ASSUME Serves, NEW h \in Handlers, pc[h] # "reload",
           UNCHANGED <<lock, snap, lastModified>>,
           stale.before \subseteq stale'.before, stale.since \subseteq stale'.since,
           \A q \in Handlers \ {h} : pc'[q] = pc[q] /\ req'[q] = req[q],
           \A k \in Keys : Busy(h, k) => Busy(h, k)' \/ k \in stale'.since,
           \A k \in Keys : \/ Busy(h, k)' \/ k \in stale'.since
                           \/ EntryOf(rows', k) = EntryOf(rows, k) /\ cache'[k] = cache[k]
    PROVE  Serves'
  <1>1. h # lock
    BY DEF Serves
  <1>2. lock \in Handlers => pc'[lock] = "reload"
    BY <1>1 DEF Serves
  <1>3. \A q \in Handlers, k \in Keys : Busy(q, k) => Busy(q, k)' \/ k \in stale'.since
    BY DEF Busy
  <1> QED
    BY <1>1, <1>2, <1>3, ServesKept

\* A row that is neither removed nor added is still the key's.
LEMMA EntryElsewhere ==
    ASSUME NEW k \in Keys, k \notin KeysOf((rows \ rows') \cup (rows' \ rows))
    PROVE  EntryOf(rows', k) = EntryOf(rows, k)
  <1>1. Rows(rows', k) = Rows(rows, k)
    BY DEF Rows, KeysOf
  <1> QED
    BY <1>1 DEF EntryOf

\* Steps that change neither the table nor the cache.
LEMMA ServesQuiet ==
    ASSUME ShapeInv, Serves, NEW h \in Handlers, pc[h] # "reload",
           UNCHANGED <<rows, cacheVars, stale>>,
           \A q \in Handlers \ {h} : pc'[q] = pc[q] /\ req'[q] = req[q],
           \/ pc[h] = "idle" \/ req[h].touched = {}
           \/ pc'[h] # "idle" /\ req'[h].touched = req[h].touched
    PROVE  Serves'
  <1>1. \A k \in Keys : Busy(h, k) => Busy(h, k)'
    BY DEF Busy
  <1> QED
    BY <1>1, ServesOne DEF cacheVars

LEMMA ServesRequests ==
    ASSUME ShapeInv, Serves, NEW h \in Handlers,
           \/ \E k \in Keys, v \in Values :
                \/ AdminCreate(h, k, v) \/ AdminSet(h, k, v)
                \/ \E r \in rows : AdminUpdate(h, r, k, v)
           \/ \E r \in rows : AdminDelete(h, r)
           \/ CheckKey(h) \/ KeyTaken(h) \/ Stamp(h)
    PROVE  Serves'
  <1>1. /\ pc \in [Handlers -> {"idle", "check", "stamp", "assign", "write", "reload"}]
        /\ req \in [Handlers -> Req \cup {NoReq}]
    BY DEF ShapeInv, TypeOK
  <1>2. CASE \/ \E k \in Keys, v \in Values :
                  \/ AdminCreate(h, k, v) \/ AdminSet(h, k, v)
                  \/ \E r \in rows : AdminUpdate(h, r, k, v)
             \/ \E r \in rows : AdminDelete(h, r)
    <2>1. pc[h] = "idle" /\ UNCHANGED <<rows, cacheVars, stale>>
      BY <1>2 DEF AdminCreate, AdminSet, AdminUpdate, AdminDelete, Begin
    <2>2. \A q \in Handlers \ {h} : pc'[q] = pc[q] /\ req'[q] = req[q]
      BY <1>1, <1>2 DEF AdminCreate, AdminSet, AdminUpdate, AdminDelete, Begin
    <2> QED
      BY <2>1, <2>2, ServesQuiet
  <1>3. CASE CheckKey(h) \/ KeyTaken(h) \/ Stamp(h)
    <2>1. pc[h] \in {"check", "stamp"} /\ UNCHANGED <<rows, cacheVars, stale>>
      BY <1>3 DEF CheckKey, KeyTaken, Stamp
    <2>2. \A q \in Handlers \ {h} : pc'[q] = pc[q] /\ req'[q] = req[q]
      BY <1>1, <1>3 DEF CheckKey, KeyTaken, Stamp, Answer
    <2>3. req[h].touched = {}
      BY <2>1 DEF ShapeInv, Shape, Requests, Fits
    <2> QED
      BY <2>1, <2>2, <2>3, ServesQuiet
  <1> QED
    BY <1>2, <1>3

LEMMA ServesAssign ==
    ASSUME ShapeInv, Serves, NEW h \in Handlers, Assign(h)
    PROVE  Serves'
  <1>1. /\ pc[h] = "assign" /\ pc' = [pc EXCEPT ![h] = "write"]
        /\ UNCHANGED <<rows, lastModified, lock, snap, stale>>
        /\ pc \in [Handlers -> {"idle", "check", "stamp", "assign", "write", "reload"}]
        /\ req \in [Handlers -> Req \cup {NoReq}]
        /\ cache \in [Keys -> Entry \cup {None}]
    BY DEF Assign, ShapeInv, TypeOK
  <1>2. req[h].touched = {} /\ req[h] \in Req
    BY <1>1 DEF ShapeInv, Shape, Requests, Fits
  <1>3. \A k \in Keys : ~Busy(h, k)
    BY <1>2 DEF Busy
  <1>4. CASE req[h].cached
    <2> DEFINE r == [req[h] EXCEPT !.touched = {req[h].key}]
    <2>1. PICK new : cache' = [cache EXCEPT ![req[h].key] = new]
      BY <1>4 DEF Assign
    <2>2. req' = [req EXCEPT ![h] = r]
      BY <1>4 DEF Assign
    <2>3. r.touched = {req[h].key}
      BY <1>2 DEF Req
    <2> HIDE DEF r
    <2>4. \A k \in Keys : k = req[h].key => Busy(h, k)'
      BY <1>1, <2>2, <2>3 DEF Busy
    <2>5. \A k \in Keys : k # req[h].key => cache'[k] = cache[k]
      BY <1>1, <2>1
    <2>6. \A q \in Handlers \ {h} : pc'[q] = pc[q] /\ req'[q] = req[q]
      BY <1>1, <2>2
    <2>7. \A k \in Keys : \/ Busy(h, k)' \/ k \in stale'.since
                          \/ EntryOf(rows', k) = EntryOf(rows, k) /\ cache'[k] = cache[k]
      <3> SUFFICES ASSUME NEW k \in Keys, k # req[h].key
                   PROVE  EntryOf(rows', k) = EntryOf(rows, k) /\ cache'[k] = cache[k]
        BY <2>4
      <3> QED
        BY <1>1, <2>5
    <2> QED
      BY <1>1, <1>3, <2>6, <2>7, ServesOne
  <1>5. CASE ~req[h].cached
    <2>1. PICK new : /\ req' = [q \in Handlers |-> IF q \in Sharing(h)
                                                   THEN [req[q] EXCEPT !.entry = new]
                                                   ELSE req[q]]
                     /\ UNCHANGED cache
      BY <1>5 DEF Assign
    <2>2. ASSUME NEW q \in Handlers, NEW k \in Keys, Busy(q, k)
          PROVE  Busy(q, k)'
      <3>1. pc[q] # "idle" /\ pc'[q] # "idle" /\ k \in req[q].touched
        BY <1>1, <2>2 DEF Busy
      <3>2. req[q] \in Req
        BY <3>1 DEF ShapeInv, Shape, Requests, Fits
      <3>3. CASE q \in Sharing(h)
        <4>1. req'[q] = [req[q] EXCEPT !.entry = new]
          BY <2>1, <3>3
        <4>2. [req[q] EXCEPT !.entry = new].touched = req[q].touched
          BY <3>2 DEF Req
        <4> QED
          BY <3>1, <4>1, <4>2 DEF Busy
      <3>4. CASE q \notin Sharing(h)
        BY <2>1, <3>1, <3>4 DEF Busy
      <3> QED
        BY <3>3, <3>4
    <2>3. lock \in Handlers => pc'[lock] = "reload"
      BY <1>1 DEF Serves
    <2>4. rows' = rows /\ cache' = cache
      BY <1>1, <2>1
    <2> QED
      BY <1>1, <2>2, <2>3, <2>4, ServesKept
  <1> QED
    BY <1>4, <1>5

LEMMA ServesWrite ==
    ASSUME ShapeInv, Serves, NEW h \in Handlers, Commit(h) \/ WriteFails(h)
    PROVE  Serves'
  <1>1. /\ pc[h] = "write" /\ UNCHANGED <<cache, lastModified, lock, snap>>
        /\ pc \in [Handlers -> {"idle", "check", "stamp", "assign", "write", "reload"}]
        /\ req \in [Handlers -> Req \cup {NoReq}]
        /\ stale \in [before : SUBSET Keys, since : SUBSET Keys]
    BY DEF Commit, WriteFails, cacheVars, ShapeInv, TypeOK
  <1>2. req[h] \in Req
    BY <1>1 DEF ShapeInv, Shape, Requests, Fits
  <1>3. \A q \in Handlers \ {h} : pc'[q] = pc[q] /\ req'[q] = req[q]
    BY <1>1 DEF Commit, WriteFails, Answer
  <1>4. \A k \in Keys : k \notin Touched(h) => EntryOf(rows', k) = EntryOf(rows, k)
    BY EntryElsewhere DEF Touched
  <1>5. req[h].touched \subseteq Touched(h)
    BY DEF Touched
  <1>6. \A k \in Keys : k \in Touched(h) => Busy(h, k)' \/ k \in stale'.since
    <2>1. CASE Commit(h)
      <3>1. LetGo(h).touched = Touched(h)
        BY <1>2 DEF LetGo, Req
      <3>2. pc'[h] = "reload" /\ req'[h] = LetGo(h)
        BY <1>1, <2>1 DEF Commit
      <3> QED
        BY <3>1, <3>2 DEF Busy
    <2>2. CASE WriteFails(h)
      <3>1. stale' = [stale EXCEPT !.since = @ \cup Touched(h)]
        BY <2>2 DEF WriteFails
      <3> QED
        BY <1>1, <3>1
    <2> QED
      BY <2>1, <2>2
  <1>7. stale.before \subseteq stale'.before /\ stale.since \subseteq stale'.since
    BY <1>1 DEF Commit, WriteFails
  <1>8. \A k \in Keys : Busy(h, k) => Busy(h, k)' \/ k \in stale'.since
    BY <1>5, <1>6 DEF Busy
  <1>9. \A k \in Keys : \/ Busy(h, k)' \/ k \in stale'.since
                        \/ EntryOf(rows', k) = EntryOf(rows, k) /\ cache'[k] = cache[k]
    BY <1>1, <1>4, <1>6
  <1> QED
    BY <1>1, <1>3, <1>7, <1>8, <1>9, ServesOne

LEMMA ServesReloadQuery ==
    ASSUME ShapeInv, Serves, NEW p \in Procs, ReloadQuery(p)
    PROVE  Serves'
  <1>1. /\ Reloads(p) /\ lock' = p /\ snap' = rows
        /\ stale' = [before |-> stale.before \cup stale.since, since |-> {}]
        /\ UNCHANGED <<rows, cache, lastModified, pc, req>>
    BY DEF ReloadQuery
  <1>2. CacheCurrent' /\ ModifiedCovers'
    BY <1>1 DEF Serves, CacheCurrent, ModifiedCovers, AtWork, Stale
  <1>3. SnapCurrent'
    BY <1>1 DEF SnapCurrent
  <1>4. lock' \in Handlers => pc'[lock'] = "reload"
    BY <1>1, ConstantsOK DEF Reloads
  <1> QED
    BY <1>2, <1>3, <1>4 DEF Serves

LEMMA ServesReloadEnd ==
    ASSUME ShapeInv, Serves, NEW p \in Procs, ReloadEnd(p)
    PROVE  Serves'
  <1>1. /\ lock = p /\ lock' = None /\ cache' = Reloaded(snap)
        /\ lastModified' = Latest(snap, lastModified)
        /\ stale' = [stale EXCEPT !.before = {}]
        /\ pc' = [h \in Handlers |-> IF h = p THEN "idle" ELSE pc[h]]
        /\ req' = [h \in Handlers |-> IF h = p THEN NoReq
                                      ELSE IF pc[h] # "idle" /\ req[h].cached THEN Orphaned(h)
                                      ELSE req[h]]
        /\ UNCHANGED rows
    BY DEF ReloadEnd
  <1>2. p # None
    BY ConstantsOK DEF Procs
  <1>3. stale'.since = stale.since
    BY <1>1 DEF ShapeInv, TypeOK
  <1>4. ASSUME NEW q \in Handlers \ {p}, NEW k \in Keys, Busy(q, k)
        PROVE  AtWork(k)'
    <2>1. req[q] \in Req /\ pc'[q] = pc[q] /\ pc[q] # "idle" /\ k \in req[q].touched
      BY <1>1, <1>4 DEF Busy, ShapeInv, Shape, Requests, Fits
    <2>2. Orphaned(q).touched = req[q].touched
      BY <2>1 DEF Orphaned, Req
    <2>3. req'[q] = Orphaned(q) \/ req'[q] = req[q]
      BY <1>1
    <2> QED
      BY <2>1, <2>2, <2>3 DEF AtWork
  <1>5. ASSUME NEW k \in Keys
        PROVE  AtWork(k)' \/ Stale(k)' \/ EntryOf(snap, k) = EntryOf(rows, k)
    BY <1>1, <1>2, <1>3, <1>4 DEF Serves, SnapCurrent, Stale
  <1>6. \A k \in Keys : cache'[k] = EntryOf(snap, k)
    BY <1>1 DEF Reloaded
  <1>7. \A r \in snap : r.at <= lastModified'
    <2>1. lastModified \in 0..now /\ snap \subseteq Made
      BY DEF ShapeInv, TypeOK, Shape
    <2> QED
      BY <1>1, <2>1, ReloadMakes
  <1>8. CacheCurrent'
    BY <1>1, <1>5, <1>6 DEF CacheCurrent
  <1>9. ModifiedCovers'
    BY <1>6, <1>7, EntryOfType DEF ModifiedCovers
  <1> QED
    BY <1>1, <1>8, <1>9, ConstantsOK DEF Serves, SnapCurrent

LEMMA ServesReloadFails ==
    ASSUME ShapeInv, Serves, NEW p \in Procs, ReloadFails(p)
    PROVE  Serves'
  <1>1. lock = None /\ UNCHANGED <<rows, cache, lastModified, lock, snap>>
    BY DEF ReloadFails, cacheVars
  <1>2. /\ stale.before \subseteq stale'.before /\ stale.since \subseteq stale'.since
        /\ \A q \in Handlers, k \in Keys : Busy(q, k) => Busy(q, k)' \/ k \in stale'.since
    <2>1. CASE p = Ticker
      <3>1. UNCHANGED <<pc, req, stale>>
        BY <2>1 DEF ReloadFails
      <3> QED
        BY <3>1 DEF Busy
    <2>2. CASE p # Ticker
      <3>1. /\ p \in Handlers /\ Answer(p)
            /\ stale' = [stale EXCEPT !.since = @ \cup req[p].touched]
        <4>1. p \in Handlers
          BY <2>2 DEF Procs
        <4> QED
          BY <2>2, <4>1 DEF ReloadFails
      <3>2. stale'.before = stale.before /\ stale'.since = stale.since \cup req[p].touched
        BY <3>1 DEF ShapeInv, TypeOK
      <3>3. \A q \in Handlers \ {p} : pc'[q] = pc[q] /\ req'[q] = req[q]
        BY <3>1 DEF Answer, ShapeInv, TypeOK
      <3> QED
        BY <3>2, <3>3 DEF Busy
    <2> QED
      BY <2>1, <2>2
  <1> QED
    BY <1>1, <1>2, ServesKept, ConstantsOK

LEMMA ServesRestart ==
    ASSUME ShapeInv, Serves, Restart
    PROVE  Serves'
  <1>1. /\ cache' = Reloaded(rows) /\ lastModified' = Latest(rows, 0) /\ lock' = None
        /\ UNCHANGED rows
    BY DEF Restart
  <1>2. \A k \in Keys : cache'[k] = EntryOf(rows, k)
    BY <1>1 DEF Reloaded
  <1>3. \A r \in rows : r.at <= lastModified'
    <2>1. 0 \in 0..now /\ rows \subseteq Made
      BY DEF ShapeInv, TypeOK, Shape
    <2> QED
      BY <1>1, <2>1, ReloadMakes
  <1> QED
    BY <1>1, <1>2, <1>3, EntryOfType, ConstantsOK
       DEF Serves, SnapCurrent, CacheCurrent, ModifiedCovers

LEMMA ServesStep == ShapeInv /\ Serves /\ [Next]_vars => Serves'
  <1> SUFFICES ASSUME ShapeInv, Serves, [Next]_vars PROVE Serves'
    OBVIOUS
  <1>1. CASE \E h \in Handlers, k \in Keys, v \in Values : AdminCreate(h, k, v) \/ AdminSet(h, k, v)
    BY <1>1, ServesRequests
  <1>2. CASE \E h \in Handlers, r \in rows, k \in Keys, v \in Values : AdminUpdate(h, r, k, v)
    BY <1>2, ServesRequests
  <1>3. CASE \E h \in Handlers, r \in rows : AdminDelete(h, r)
    BY <1>3, ServesRequests
  <1>4. CASE \E h \in Handlers : Work(h)
    BY <1>4, ServesRequests, ServesAssign, ServesWrite DEF Work
  <1>5. CASE \E p \in Procs : Reload(p)
    BY <1>5, ServesReloadQuery, ServesReloadEnd, ServesReloadFails DEF Reload
  <1>6. CASE Restart
    BY <1>6, ServesRestart
  <1>7. CASE UNCHANGED vars
    BY <1>7 DEF vars, Serves, SnapCurrent, CacheCurrent, ModifiedCovers, Busy, AtWork, Stale
  <1> QED
    BY <1>1, <1>2, <1>3, <1>4, <1>5, <1>6, <1>7 DEF Next

\* The cache serves the row of every key but those that requests are at work
\* on, or failed on since the last reload: no reload, however late its query's
\* result, takes an answered change back.
THEOREM CacheServesTable == Spec => []CacheCurrent
  <1>1. ShapeInv /\ Serves => CacheCurrent
    BY DEF Serves
  <1> QED
    BY ShapeInit, ShapeStep, ServesInit, ServesStep, <1>1, PTL DEF Spec

\* Clients that compare times miss nothing of what they would be served.
THEOREM ModifiedCoversServed == Spec => []ModifiedCovers
  <1>1. ShapeInv /\ Serves => ModifiedCovers
    BY DEF Serves
  <1> QED
    BY ShapeInit, ShapeStep, ServesInit, ServesStep, <1>1, PTL DEF Spec

=============================================================================
