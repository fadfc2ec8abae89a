------------------------------ MODULE RoomsProofs ------------------------------
(***************************************************************************)
(* The rooms of the table, of the gateways and of the cache agree but for  *)
(* those that a failure explains, for every number of requests, gateways,  *)
(* names and rooms, and any number of failures.                            *)
(***************************************************************************)
EXTENDS Rooms, TLAPS

(***************************************************************************)
(* The requests that tell the gateways, as a set: tell is a Boolean of a   *)
(* record, which the provers handle badly.                                 *)
(***************************************************************************)
Tellers == {w \in Workers : req[w] # None /\ req[w].tell}

\* What a request asks for fits its operation, and rooms it found stay.
Asks ==
    \A w \in Workers : req[w] # None =>
        /\ req[w].op \in {"create", "delete"} =>
               req[w].target = req[w].uid /\ w \in Tellers
        /\ req[w].op \in {"group", "extra"} => w \notin Tellers
        /\ req[w].op \in {"create", "update", "group"} => req[w].name \in Names
        /\ req[w].op = "delete" => req[w].name = None
        /\ req[w].op \in {"update", "delete"} => rows[req[w].uid] # None

\* What it has written fits what it asks for.
Writes ==
    \A w \in Workers : pc[w] \in {"gateways", "commit"} =>
        /\ pend[w] = None => req[w].op = "extra"
        /\ todo[w] # {} => w \in Tellers
        /\ pend[w] # None =>
              /\ req[w].op \in {"create", "update"} => pend[w].name = req[w].name
              /\ req[w].op = "create" => pend[w].status # "removed"
              /\ req[w].op = "update" /\ pend[w].status = "removed" =>
                     rows[req[w].uid].status = "removed"
              /\ req[w].op = "delete" => pend[w].status = "removed"
              /\ req[w].op = "extra" => pend[w] = rows[req[w].uid]

\* A row is written by one transaction at a time.
Locks ==
    \A v, w \in Workers :
        pend[v] # None /\ pend[w] # None /\ v # w => req[v].uid # req[w].uid

\* The gateway was told what the transaction of w has in store for room u.
Told(w, g, u) ==
    /\ pend[w] # None /\ w \in Tellers
    /\ req[w].uid = u /\ req[w].target = u
    /\ g \in Gateways \ todo[w]

\* An update addresses a room that is not its own, and has begun to.
Strays(w, u) ==
    /\ pc[w] \in {"gateways", "commit"} /\ w \in Tellers
    /\ req[w].target = u /\ req[w].uid # u
    /\ todo[w] # Gateways

\* Each gateway has the room as it is in the table, or as it was told by the
\* transaction that is writing it.
Sound(u) ==
    \A g \in Gateways :
        /\ (\A w \in Workers : ~Told(w, g, u)) => videorooms[g][u] = Wanted(rows[u])
        /\ \A w \in Workers : Told(w, g, u) => videorooms[g][u] = Wanted(pend[w])

Gates ==
    \A u \in Uids : u \in torn \/ (\E w \in Workers : Strays(w, u)) \/ Sound(u)

\* Where a creation was told the room is, and where a deletion was it is not,
\* whether the room is torn or not.
Made ==
    \A w \in Workers : \A g \in Gateways :
        pend[w] # None /\ g \notin todo[w] =>
            /\ req[w].op = "create" => videorooms[g][req[w].uid] # None
            /\ req[w].op = "delete" => videorooms[g][req[w].uid] = None

\* A request that has yet to reload, or whose group is cached and not committed.
Late(w, u) ==
    /\ req[w] # None /\ req[w].uid = u
    /\ pc[w] = "reload" \/ (req[w].op = "group" /\ pend[w] # None)

Cached ==
    \A u \in Uids : u \in stale \/ cache[u] = Loaded(u) \/ \E w \in Workers : Late(w, u)

Inv == TypeOK /\ Asks /\ Writes /\ Locks /\ Gates /\ Made /\ Cached

-----------------------------------------------------------------------------
(* Telling *)

LEMMA TellersKeep ==
    ASSUME NEW w \in Workers, req'[w] = req[w]
    PROVE  w \in Tellers' <=> w \in Tellers
BY Zenon DEF Tellers

LEMMA TellFacts ==
    ASSUME NEW w \in Workers, req[w] # None
    PROVE  /\ w \in Tellers => GatewaysToTell(w) = Gateways
           /\ w \notin Tellers => GatewaysToTell(w) = {}
           /\ HasTold(w) <=> /\ pc[w] \in {"gateways", "commit"} /\ w \in Tellers
                             /\ todo[w] # Gateways
           /\ w \in Tellers /\ req[w].target # req[w].uid => Untold(w) = Concerned(w)
           /\ /\ w \notin Tellers
              /\ Wanted(rows[req[w].uid]) # Wanted(Stored(w)[req[w].uid])
              => Untold(w) = Concerned(w)
<1>1. w \in Tellers <=> req[w].tell
  BY Zenon DEF Tellers
<1>. QED
  BY <1>1, Zenon DEF GatewaysToTell, HasTold, Untold

LEMMA Untorn ==
    ASSUME NEW us, Tear(us), NEW u, u \notin torn'
    PROVE  u \notin torn \cup us \/ (~InFlight(u)' /\ Agree(u)')
BY DEF Tear

LEMMA Unstale ==
    ASSUME NEW us, Leave(us), NEW u, u \notin stale'
    PROVE  u \notin stale \cup us \/ (cache[u] = Loaded(u))'
BY DEF Leave

\* A room that nobody is at work on and that agrees is sound.
LEMMA AgreeSound ==
    ASSUME TypeOK', NEW u \in Uids, ~InFlight(u)', Agree(u)'
    PROVE  Sound(u)'
<1>1. \A w \in Workers, g \in Gateways : ~Told(w, g, u)'
  BY DEF InFlight, Concerned, Told, TypeOK
<1>. QED
  BY <1>1 DEF Sound, Agree

\* A room that a step does not concern stays sound.
LEMMA SoundKeep ==
    ASSUME NEW u \in Uids, Sound(u), rows'[u] = rows[u],
           \A g \in Gateways : videorooms'[g][u] = videorooms[g][u],
           \A w \in Workers, g \in Gateways :
               /\ Told(w, g, u)' <=> Told(w, g, u)
               /\ Told(w, g, u) => pend'[w] = pend[w]
    PROVE  Sound(u)'
<1>1. \A g \in Gateways :
          (\A w \in Workers : ~Told(w, g, u)') => videorooms'[g][u] = Wanted(rows'[u])
  BY DEF Sound
<1>2. \A g \in Gateways : \A w \in Workers :
          Told(w, g, u)' => videorooms'[g][u] = Wanted(pend'[w])
  BY DEF Sound
<1>3. \A w \in Workers : Wanted(pend[w])' = Wanted(pend'[w])
  BY DEF Wanted
<1>4. Wanted(rows[u])' = Wanted(rows'[u])
  BY DEF Wanted
<1>. QED
  BY <1>1, <1>2, <1>3, <1>4 DEF Sound

-----------------------------------------------------------------------------
(* A request arrives *)

\* What Asks says of a request, but for the row it found.
Fits(r) ==
    /\ r.op \in {"create", "delete"} => r.target = r.uid /\ r.tell = TRUE
    /\ r.op \in {"group", "extra"} => r.tell = FALSE
    /\ r.op \in {"create", "update", "group"} => r.name \in Names
    /\ r.op = "delete" => r.name = None
    /\ r.op \in {"update", "delete"} => rows[r.uid] # None

LEMMA CheckCounts ==
    ASSUME TypeOK, NEW b \in BOOLEAN, Check(b)
    PROVE  faults' \in 0..MaxFaults
BY ConstantsOK DEF Check, Fault, TypeOK

LEMMA RequestOf ==
    ASSUME NEW op \in {"create", "update", "delete", "group", "extra"},
           NEW u \in Uids, NEW t \in Uids, NEW n \in Names \cup {None}, NEW b \in BOOLEAN
    PROVE  [op |-> op, uid |-> u, target |-> t, name |-> n, tell |-> b] \in Request
BY DEF Request

LEMMA ArriveBegins ==
    ASSUME TypeOK, NEW w \in Workers, Arrive(w)
    PROVE  \E r \in Request : Begin(w, r) /\ Fits(r) /\ faults' \in 0..MaxFaults
<1>1. CASE AdminCreateRoom(w)
  <2>1. PICK n \in Names, u \in Uids :
            /\ Check(\A v \in Uids : rows[v] # None => rows[v].name # n)
            /\ Begin(w, [op |-> "create", uid |-> u, target |-> u, name |-> n, tell |-> TRUE])
    BY <1>1, Zenon DEF AdminCreateRoom
  <2>2. faults' \in 0..MaxFaults
    BY <2>1, CheckCounts
  <2>3. [op |-> "create", uid |-> u, target |-> u, name |-> n, tell |-> TRUE] \in Request
    BY RequestOf
  <2>4. Fits([op |-> "create", uid |-> u, target |-> u, name |-> n, tell |-> TRUE])
    BY DEF Fits
  <2>. QED
    BY <2>1, <2>2, <2>3, <2>4, Zenon
<1>2. CASE AdminUpdateRoom(w)
  <2>1. PICK u \in Uids, t \in Uids, n \in Names :
            /\ FindRoom(u)
            /\ Check((t = u \/ rows[t] = None) /\ ~NameExists(n, u))
            /\ Begin(w, [op |-> "update", uid |-> u, target |-> t, name |-> n,
                         tell |-> rows[u].name # n /\ rows[u].status # "removed"])
    BY <1>2, Zenon DEF AdminUpdateRoom
  <2>. DEFINE b == rows[u].name # n /\ rows[u].status # "removed"
              r == [op |-> "update", uid |-> u, target |-> t, name |-> n, tell |-> b]
  <2>2. faults' \in 0..MaxFaults
    BY <2>1, CheckCounts
  <2>3. Begin(w, r)
    BY <2>1
  <2>4. b \in BOOLEAN
    OBVIOUS
  <2>. HIDE DEF b
  <2>5. r \in Request
    BY <2>4, RequestOf
  <2>6. Fits(r)
    BY <2>1 DEF Fits, FindRoom
  <2>. QED
    BY <2>2, <2>3, <2>5, <2>6, Zenon
<1>3. CASE AdminDeleteRoom(w)
  <2>1. PICK u \in Uids :
            /\ FindRoom(u) /\ UNCHANGED faults
            /\ Begin(w, [op |-> "delete", uid |-> u, target |-> u, name |-> None, tell |-> TRUE])
    BY <1>3, Zenon DEF AdminDeleteRoom
  <2>2. [op |-> "delete", uid |-> u, target |-> u, name |-> None, tell |-> TRUE] \in Request
    BY RequestOf
  <2>3. Fits([op |-> "delete", uid |-> u, target |-> u, name |-> None, tell |-> TRUE])
    BY <2>1 DEF Fits, FindRoom
  <2>4. faults' \in 0..MaxFaults
    BY <2>1 DEF TypeOK
  <2>. QED
    BY <2>1, <2>2, <2>3, <2>4, Zenon
<1>4. CASE V1CreateGroup(w)
  <2>1. PICK u \in Uids, n \in Names :
            /\ UNCHANGED faults
            /\ Begin(w, [op |-> "group", uid |-> u, target |-> u, name |-> n, tell |-> FALSE])
    BY <1>4, Zenon DEF V1CreateGroup
  <2>2. [op |-> "group", uid |-> u, target |-> u, name |-> n, tell |-> FALSE] \in Request
    BY RequestOf
  <2>3. Fits([op |-> "group", uid |-> u, target |-> u, name |-> n, tell |-> FALSE])
    BY DEF Fits
  <2>4. faults' \in 0..MaxFaults
    BY <2>1 DEF TypeOK
  <2>. QED
    BY <2>1, <2>2, <2>3, <2>4, Zenon
<1>5. CASE V1UpdateRoom(w)
  <2>1. PICK u \in Uids :
            /\ UNCHANGED faults
            /\ Begin(w, [op |-> "extra", uid |-> u, target |-> u, name |-> None, tell |-> FALSE])
    BY <1>5, Zenon DEF V1UpdateRoom
  <2>2. [op |-> "extra", uid |-> u, target |-> u, name |-> None, tell |-> FALSE] \in Request
    BY RequestOf
  <2>3. Fits([op |-> "extra", uid |-> u, target |-> u, name |-> None, tell |-> FALSE])
    BY DEF Fits
  <2>4. faults' \in 0..MaxFaults
    BY <2>1 DEF TypeOK
  <2>. QED
    BY <2>1, <2>2, <2>3, <2>4, Zenon
<1>. QED
  BY <1>1, <1>2, <1>3, <1>4, <1>5 DEF Arrive

LEMMA BeginInv ==
    ASSUME Inv, NEW w \in Workers, NEW r \in Request, Begin(w, r), Fits(r),
           faults' \in 0..MaxFaults
    PROVE  Inv'
<1>. TypeOK /\ Asks /\ Writes /\ Locks /\ Gates /\ Made /\ Cached
  BY DEF Inv
<1>1. /\ pc[w] = "idle" /\ pend[w] = None /\ todo[w] = {} /\ req[w] = None
      /\ pc' = [pc EXCEPT ![w] = "write"] /\ req' = [req EXCEPT ![w] = r]
      /\ UNCHANGED <<rows, videorooms, cache, pend, todo, torn, stale>>
  BY DEF Begin, TypeOK
<1>2. \A v \in Workers \ {w} : req'[v] = req[v] /\ pc'[v] = pc[v]
  BY <1>1 DEF TypeOK
<1>3. req'[w] = r /\ pc'[w] = "write" /\ r # None
  BY <1>1, ConstantsOK DEF TypeOK
<1>4. TypeOK'
  BY <1>1, <1>3 DEF TypeOK
<1>5. \A v \in Workers \ {w} : v \in Tellers' <=> v \in Tellers
  BY <1>2, TellersKeep
<1>6. w \in Tellers' <=> r.tell
  BY <1>3, Zenon DEF Tellers
<1>7. Asks'
  <2>1. r.tell = TRUE => w \in Tellers'
    BY <1>6, Zenon
  <2>2. r.tell = FALSE => w \notin Tellers'
    BY <1>6, Zenon
  <2>3. r.op \in {"create", "delete"} => r.target = r.uid /\ w \in Tellers'
    BY <2>1 DEF Fits
  <2>4. r.op \in {"group", "extra"} => w \notin Tellers'
    BY <2>2 DEF Fits
  <2>. QED
    BY <1>1, <1>2, <1>3, <1>5, <2>3, <2>4 DEF Asks, Fits
<1>8. Writes'
  BY <1>1, <1>2, <1>3, <1>5 DEF Writes
<1>9. Locks'
  BY <1>1, <1>2, <1>3 DEF Locks
<1>10. Gates'
  <2>1. \A v \in Workers, g \in Gateways, u \in Uids : Told(v, g, u)' <=> Told(v, g, u)
    BY <1>1, <1>2, <1>5 DEF Told
  <2>2. \A v \in Workers, u \in Uids : Strays(v, u) => Strays(v, u)'
    BY <1>1, <1>2, <1>5 DEF Strays
  <2>3. \A u \in Uids : Sound(u) => Sound(u)'
    BY <1>1, <2>1, SoundKeep
  <2>. QED
    BY <1>1, <2>2, <2>3 DEF Gates
<1>11. Made'
  BY <1>1, <1>2 DEF Made
<1>12. Cached'
  <2>1. \A v \in Workers, u \in Uids : Late(v, u) => Late(v, u)'
    BY <1>1, <1>2 DEF Late
  <2>2. \A u \in Uids : Loaded(u)' = Loaded(u)
    BY <1>1 DEF Loaded, AllLive
  <2>. QED
    BY <1>1, <2>1, <2>2 DEF Cached
<1>. QED
  BY <1>4, <1>7, <1>8, <1>9, <1>10, <1>11, <1>12 DEF Inv

-----------------------------------------------------------------------------
(* The statement *)

Concrete(w) == InsertRoom(w) \/ UpdateRoom(w) \/ RemoveRoom(w) \/ UpsertRoom(w) \/ UpdateExtra(w)

\* The version that a statement writes fits its request.
RowFits(w, row) ==
    /\ row = None => req[w].op = "extra"
    /\ req[w].op \in {"create", "update"} => row.name = req[w].name
    /\ req[w].op = "create" => row.status # "removed"
    /\ req[w].op = "update" /\ row.status = "removed" => rows[req[w].uid].status = "removed"
    /\ req[w].op = "delete" => row.status = "removed"
    /\ req[w].op = "extra" => row \in {rows[req[w].uid], None}

LEMMA RequestTypes ==
    ASSUME TypeOK, NEW w \in Workers, req[w] # None
    PROVE  /\ req[w].op \in {"create", "update", "delete", "group", "extra"}
           /\ req[w].uid \in Uids /\ req[w].target \in Uids
           /\ req[w].name \in Names \cup {None}
BY DEF TypeOK, Request

LEMMA RowOf ==
    ASSUME NEW n \in Names, NEW s \in {"live", "disabled", "removed"}
    PROVE  /\ [name |-> n, status |-> s] \in Row
           /\ [name |-> n, status |-> s].name = n
           /\ [name |-> n, status |-> s].status = s
           /\ [name |-> n, status |-> s] # None
BY ConstantsOK DEF Row

LEMMA ConcreteWrites ==
    ASSUME Inv, NEW w \in Workers, Concrete(w)
    PROVE  /\ \E row \in Row \cup {None} : Write(w, row) /\ RowFits(w, row)
           /\ cache' = cache \/ (/\ req[w].op = "group"
                                 /\ cache' = [cache EXCEPT ![req[w].uid] = req[w].name])
           /\ pc[w] = "write" /\ req[w] # None
<1>. TypeOK /\ Asks
  BY DEF Inv
<1>1. pc[w] = "write"
  BY DEF Concrete, InsertRoom, UpdateRoom, RemoveRoom, UpsertRoom, UpdateExtra
<1>2. req[w] # None
  BY <1>1 DEF TypeOK
<1>. USE RequestTypes, <1>1, <1>2
<1>3. CASE InsertRoom(w)
  <2>1. PICK s \in Statuses : Write(w, [name |-> req[w].name, status |-> s])
    BY <1>3 DEF InsertRoom
  <2>2. req[w].op = "create" /\ cache' = cache /\ req[w].name \in Names
    BY <1>3 DEF InsertRoom, Asks
  <2>. DEFINE row == [name |-> req[w].name, status |-> s]
  <2>3. row \in Row /\ row.name = req[w].name /\ row.status = s /\ row # None
    BY <2>2, RowOf, Zenon DEF Statuses
  <2>4. Write(w, row)
    BY <2>1
  <2>. HIDE DEF row
  <2>. QED
    BY <2>2, <2>3, <2>4 DEF RowFits, Statuses
<1>4. CASE UpdateRoom(w)
  <2>1. PICK s \in IF rows[req[w].uid].status = "removed" THEN {"removed"} ELSE Statuses :
            Write(w, [name |-> req[w].name, status |-> s])
    BY <1>4 DEF UpdateRoom
  <2>2. req[w].op = "update" /\ cache' = cache /\ req[w].name \in Names
    BY <1>4 DEF UpdateRoom, Asks
  <2>. DEFINE row == [name |-> req[w].name, status |-> s]
  <2>3. s \in {"live", "disabled", "removed"}
    BY DEF Statuses
  <2>4. row \in Row /\ row.name = req[w].name /\ row.status = s /\ row # None
    BY <2>2, <2>3, RowOf
  <2>5. Write(w, row)
    BY <2>1
  <2>. HIDE DEF row
  <2>. QED
    BY <2>1, <2>2, <2>4, <2>5 DEF RowFits, Statuses
<1>5. CASE RemoveRoom(w)
  <2>1. Write(w, [name |-> rows[req[w].uid].name, status |-> "removed"])
    BY <1>5 DEF RemoveRoom
  <2>2. req[w].op = "delete" /\ cache' = cache /\ rows[req[w].uid] \in Row
    BY <1>5 DEF RemoveRoom, Asks, TypeOK
  <2>. DEFINE row == [name |-> rows[req[w].uid].name, status |-> "removed"]
  <2>3. rows[req[w].uid].name \in Names
    BY <2>2 DEF Row
  <2>4. row \in Row /\ row.status = "removed" /\ row # None
    BY <2>3, RowOf
  <2>5. Write(w, row)
    BY <2>1
  <2>. HIDE DEF row
  <2>. QED
    BY <2>2, <2>4, <2>5 DEF RowFits
<1>6. CASE UpsertRoom(w)
  <2>1. Write(w, [name |-> req[w].name, status |-> "live"])
    BY <1>6 DEF UpsertRoom
  <2>2. /\ req[w].op = "group" /\ req[w].name \in Names
        /\ cache' = [cache EXCEPT ![req[w].uid] = req[w].name]
    BY <1>6 DEF UpsertRoom, Asks
  <2>. DEFINE row == [name |-> req[w].name, status |-> "live"]
  <2>3. row \in Row /\ row # None
    BY <2>2, RowOf
  <2>4. Write(w, row)
    BY <2>1
  <2>. HIDE DEF row
  <2>. QED
    BY <2>2, <2>3, <2>4 DEF RowFits
<1>7. CASE UpdateExtra(w)
  <2>1. PICK row \in {rows[req[w].uid], None} : Write(w, row)
    BY <1>7 DEF UpdateExtra
  <2>2. req[w].op = "extra" /\ cache' = cache
    BY <1>7 DEF UpdateExtra
  <2>3. row \in Row \cup {None}
    BY DEF TypeOK
  <2>. QED
    BY <2>1, <2>2, <2>3 DEF RowFits
<1>. QED
  BY <1>3, <1>4, <1>5, <1>6, <1>7 DEF Concrete

LEMMA WriteInv ==
    ASSUME Inv, NEW w \in Workers, Concrete(w)
    PROVE  Inv'
<1>. TypeOK /\ Asks /\ Writes /\ Locks /\ Gates /\ Made /\ Cached
  BY DEF Inv
<1>1. PICK row \in Row \cup {None} : Write(w, row) /\ RowFits(w, row)
  BY ConcreteWrites
<1>2. /\ cache' = cache \/ (/\ req[w].op = "group"
                            /\ cache' = [cache EXCEPT ![req[w].uid] = req[w].name])
      /\ pc[w] = "write" /\ req[w] # None
  BY ConcreteWrites
<1>3. pend[w] = None /\ todo[w] = {}
  BY <1>2 DEF TypeOK
<1>. DEFINE G == GatewaysToTell(w)
<1>4. /\ pend' = [pend EXCEPT ![w] = row] /\ todo' = [todo EXCEPT ![w] = G]
      /\ pc' = [pc EXCEPT ![w] = IF G # {} THEN "gateways" ELSE "commit"]
      /\ UNCHANGED <<rows, videorooms, req, torn, stale, faults>>
      /\ ~Waits(w)
  BY <1>1 DEF Write
<1>5. (w \in Tellers /\ G = Gateways) \/ (w \notin Tellers /\ G = {})
  BY <1>2, TellFacts
<1>. HIDE DEF G
<1>6. \A v \in Workers : /\ req'[v] = req[v]
                         /\ v # w => pc'[v] = pc[v] /\ pend'[v] = pend[v] /\ todo'[v] = todo[v]
  BY <1>4 DEF TypeOK
<1>7. /\ pc'[w] \in {"gateways", "commit"} /\ pend'[w] = row /\ todo'[w] = G
      /\ pc'[w] = "commit" => G = {}
  BY <1>4 DEF TypeOK
<1>8. \A v \in Workers : v \in Tellers' <=> v \in Tellers
  BY <1>6, TellersKeep
<1>9. req[w].uid \in Uids /\ req[w].name \in Names \cup {None}
  BY <1>2, RequestTypes
<1>10. TypeOK'
  <2>1. cache' \in [Uids -> Names \cup {None}]
    BY <1>2, <1>9 DEF TypeOK
  <2>2. \A v \in Workers : /\ pc'[v] = "idle" <=> req'[v] = None
                           /\ pend'[v] # None => pc'[v] \in {"gateways", "commit"}
                           /\ todo'[v] # {} => pc'[v] = "gateways"
    BY <1>2, <1>6, <1>7 DEF TypeOK
  <2>3. /\ pend' \in [Workers -> Row \cup {None}] /\ todo' \in [Workers -> SUBSET Gateways]
        /\ pc' \in [Workers -> {"idle", "write", "gateways", "commit", "reload"}]
    BY <1>4, <1>5 DEF TypeOK
  <2>. QED
    BY <1>4, <2>1, <2>2, <2>3 DEF TypeOK
<1>11. Asks'
  BY <1>4, <1>6, <1>8 DEF Asks
<1>12. Writes'
  <2>1. ASSUME NEW v \in Workers, v # w, pc'[v] \in {"gateways", "commit"}
        PROVE  /\ pend'[v] = None => req'[v].op = "extra"
               /\ todo'[v] # {} => v \in Tellers'
               /\ pend'[v] # None =>
                     /\ req'[v].op \in {"create", "update"} => pend'[v].name = req'[v].name
                     /\ req'[v].op = "create" => pend'[v].status # "removed"
                     /\ req'[v].op = "update" /\ pend'[v].status = "removed" =>
                            rows'[req'[v].uid].status = "removed"
                     /\ req'[v].op = "delete" => pend'[v].status = "removed"
                     /\ req'[v].op = "extra" => pend'[v] = rows'[req'[v].uid]
    BY <1>4, <1>6, <1>8, <2>1 DEF Writes
  <2>2. /\ row = None => req'[w].op = "extra"
        /\ todo'[w] # {} => w \in Tellers'
        /\ row # None =>
              /\ req'[w].op \in {"create", "update"} => row.name = req'[w].name
              /\ req'[w].op = "create" => row.status # "removed"
              /\ req'[w].op = "update" /\ row.status = "removed" =>
                     rows'[req'[w].uid].status = "removed"
              /\ req'[w].op = "delete" => row.status = "removed"
              /\ req'[w].op = "extra" => row = rows'[req'[w].uid]
    BY <1>1, <1>4, <1>5, <1>6, <1>7, <1>8 DEF RowFits
  <2>. QED
    BY <1>7, <2>1, <2>2 DEF Writes
<1>13. \A v \in Workers \ {w} : pend[v] # None => req[v].uid # req[w].uid
  BY <1>4 DEF Waits
<1>14. Locks'
  BY <1>6, <1>7, <1>13 DEF Locks
<1>15. Gates'
  <2>1. \A v \in Workers, g \in Gateways, u \in Uids : Told(v, g, u)' <=> Told(v, g, u)
    BY <1>3, <1>5, <1>6, <1>7, <1>8 DEF Told
  <2>2. \A v \in Workers, u \in Uids : Strays(v, u) => Strays(v, u)'
    BY <1>2, <1>6, <1>8 DEF Strays
  <2>3. \A v \in Workers, g \in Gateways, u \in Uids : Told(v, g, u) => pend'[v] = pend[v]
    BY <1>3, <1>6 DEF Told
  <2>4. \A u \in Uids : Sound(u) => Sound(u)'
    BY <1>4, <2>1, <2>3, SoundKeep
  <2>. QED
    BY <1>4, <2>2, <2>4 DEF Gates
<1>16. Made'
  <2>1. req[w].op \in {"create", "delete"} => w \in Tellers
    BY <1>2 DEF Asks
  <2>. QED
    BY <1>4, <1>5, <1>6, <1>7, <2>1 DEF Made
<1>17. Cached'
  <2>1. \A v \in Workers, u \in Uids : Late(v, u) => Late(v, u)'
    BY <1>2, <1>3, <1>6 DEF Late
  <2>2. \A u \in Uids : Loaded(u)' = Loaded(u)
    BY <1>4 DEF Loaded, AllLive
  <2>3. \A u \in Uids : cache'[u] = cache[u] \/ Late(w, u)'
    <3>1. req[w].op = "group" => row # None
      BY <1>1 DEF RowFits
    <3>. QED
      BY <1>2, <1>6, <1>7, <1>9, <3>1 DEF Late, TypeOK
  <2>. QED
    BY <1>4, <2>1, <2>2, <2>3 DEF Cached
<1>. QED
  BY <1>10, <1>11, <1>12, <1>14, <1>15, <1>16, <1>17 DEF Inv

-----------------------------------------------------------------------------
(* A transaction that is rolled back, or a request that ends *)

\* Whatever else a step does to the gateways, it does to no room that another
\* request has created or deleted there.
OthersKept(w) ==
    /\ videorooms' \in [Gateways -> [Uids -> Names \cup {None}]]
    /\ \A v \in Workers \ {w}, h \in Gateways :
           pend[v] # None /\ h \notin todo[v] =>
               /\ req[v].op = "create" => videorooms'[h][req[v].uid] # None
               /\ req[v].op = "delete" => videorooms'[h][req[v].uid] = None

LEMMA OthersMade ==
    ASSUME Inv, NEW w \in Workers, NEW g \in Gateways, pc[w] = "gateways", g \in todo[w],
           Accepts(w, g), DoAsTold(w, g)
    PROVE  /\ OthersKept(w)
           /\ \A h \in Gateways, u \in Uids :
                  videorooms'[h][u] = IF h = g /\ u = req[w].target
                                      THEN req[w].name ELSE videorooms[h][u]
<1>. TypeOK /\ Asks /\ Writes /\ Locks /\ Made
  BY DEF Inv
<1>1. req[w] # None
  BY DEF TypeOK
<1>2. /\ req[w].uid \in Uids /\ req[w].target \in Uids /\ req[w].name \in Names \cup {None}
      /\ req[w].op \in {"create", "update", "delete", "group", "extra"}
  BY <1>1, RequestTypes
<1>3. videorooms' = [videorooms EXCEPT ![g] = [@ EXCEPT ![req[w].target] = req[w].name]]
  BY DEF DoAsTold
<1>4. /\ videorooms' \in [Gateways -> [Uids -> Names \cup {None}]]
      /\ \A h \in Gateways, u \in Uids :
             videorooms'[h][u] = IF h = g /\ u = req[w].target
                                 THEN req[w].name ELSE videorooms[h][u]
  BY <1>2, <1>3 DEF TypeOK
<1>5. w \in Tellers /\ req[w].op \in {"create", "update", "delete"} /\ pend[w] # None
  BY <1>1, <1>2 DEF Writes, Asks
<1>6. ASSUME NEW v \in Workers \ {w}, NEW h \in Gateways, pend[v] # None, h \notin todo[v],
             req[v].op \in {"create", "delete"}
      PROVE  /\ req[v].op = "create" => videorooms'[h][req[v].uid] # None
             /\ req[v].op = "delete" => videorooms'[h][req[v].uid] = None
  <2>1. req[v] # None /\ req[v].uid \in Uids
    BY <1>6, RequestTypes DEF TypeOK
  <2>2. /\ req[v].op = "create" => videorooms[h][req[v].uid] # None
        /\ req[v].op = "delete" => videorooms[h][req[v].uid] = None
    BY <1>6 DEF Made
  <2>3. CASE h = g /\ req[v].uid = req[w].target
    <3>1. req[v].uid # req[w].uid
      BY <1>5, <1>6 DEF Locks
    <3>2. req[w].op = "update"
      BY <1>1, <1>5, <2>3, <3>1 DEF Asks
    <3>3. req[w].name \in Names /\ videorooms[g][req[w].target] # None
      BY <1>1, <3>2 DEF Asks, Accepts
    <3>4. videorooms'[h][req[v].uid] = req[w].name /\ req[w].name # None
      BY <1>4, <2>1, <2>3, <3>3, ConstantsOK
    <3>. QED
      BY <2>2, <2>3, <3>3, <3>4
  <2>4. CASE ~(h = g /\ req[v].uid = req[w].target)
    BY <1>4, <2>1, <2>2, <2>4
  <2>. QED
    BY <2>3, <2>4
<1>. QED
  BY <1>4, <1>6 DEF OthersKept

LEMMA ClearTypes ==
    ASSUME TypeOK, NEW w \in Workers, Clear(w)
    PROVE  /\ pc' \in [Workers -> {"idle", "write", "gateways", "commit", "reload"}]
           /\ req' \in [Workers -> Request \cup {None}]
           /\ pend' \in [Workers -> Row \cup {None}]
           /\ todo' \in [Workers -> SUBSET Gateways]
           /\ \A v \in Workers :
                 /\ pc'[v] = "idle" <=> req'[v] = None
                 /\ pend'[v] # None => pc'[v] \in {"gateways", "commit"}
                 /\ todo'[v] # {} => pc'[v] = "gateways"
           /\ \A v \in Workers \ {w} : /\ req'[v] = req[v] /\ pc'[v] = pc[v]
                                       /\ pend'[v] = pend[v] /\ todo'[v] = todo[v]
           /\ req'[w] = None /\ pc'[w] = "idle" /\ pend'[w] = None /\ todo'[w] = {}
           /\ w \notin Tellers' /\ \A v \in Workers \ {w} : v \in Tellers' <=> v \in Tellers
<1>1. /\ pc' = [pc EXCEPT ![w] = "idle"] /\ req' = [req EXCEPT ![w] = None]
      /\ pend' = [pend EXCEPT ![w] = None] /\ todo' = [todo EXCEPT ![w] = {}]
  BY DEF Clear
<1>2. /\ \A v \in Workers \ {w} : /\ req'[v] = req[v] /\ pc'[v] = pc[v]
                                  /\ pend'[v] = pend[v] /\ todo'[v] = todo[v]
      /\ req'[w] = None /\ pc'[w] = "idle" /\ pend'[w] = None /\ todo'[w] = {}
  BY <1>1 DEF TypeOK
<1>3. w \notin Tellers'
  BY <1>2 DEF Tellers
<1>4. \A v \in Workers \ {w} : v \in Tellers' <=> v \in Tellers
  BY <1>2, TellersKeep
<1>5. \A v \in Workers :
         /\ pc'[v] = "idle" <=> req'[v] = None
         /\ pend'[v] # None => pc'[v] \in {"gateways", "commit"}
         /\ todo'[v] # {} => pc'[v] = "gateways"
  BY <1>2 DEF TypeOK
<1>. QED
  BY <1>1, <1>2, <1>3, <1>4, <1>5 DEF TypeOK

\* A request ends, and does not change the table by that: the rooms it was telling
\* gateways about count as torn, and the entries it was late for as stale, but for
\* those that are loaded now.
Ends(w, us, ls) ==
    /\ Clear(w) /\ pc[w] # "idle"
    /\ us \in SUBSET Uids /\ Tear(us)
    /\ ls \in SUBSET Uids /\ Leave(ls)
    /\ UNCHANGED rows /\ faults' \in 0..MaxFaults
    /\ OthersKept(w)
    /\ \A g \in Gateways : \A u \in Uids \ us : videorooms'[g][u] = videorooms[g][u]
    /\ HasTold(w) => Concerned(w) \subseteq us
    /\ cache' \in [Uids -> Names \cup {None}]
    /\ \A u \in Uids : cache'[u] \in {cache[u], Loaded(u)}
    /\ \A u \in Uids : Late(w, u) => u \in ls \/ cache'[u] = Loaded(u)

LEMMA EndInv ==
    ASSUME Inv, NEW w \in Workers, NEW us, NEW ls, Ends(w, us, ls)
    PROVE  Inv'
<1>. USE DEF Ends, OthersKept
<1>. TypeOK /\ Asks /\ Writes /\ Locks /\ Gates /\ Made /\ Cached
  BY DEF Inv
<1>. USE ClearTypes
<1>1. req[w] # None
  BY DEF TypeOK
<1>2. TypeOK'
  <2>1. torn' \in SUBSET Uids /\ stale' \in SUBSET Uids
    BY DEF Tear, Leave, TypeOK
  <2>2. rows' \in [Uids -> Row \cup {None}]
    BY DEF TypeOK
  <2>. QED
    BY <2>1, <2>2 DEF TypeOK
<1>3. Asks'
  BY DEF Asks
<1>4. Writes'
  BY DEF Writes
<1>5. Locks'
  BY DEF Locks
<1>6. \A u \in Uids : (\E g \in Gateways : Told(w, g, u)) \/ Strays(w, u) => u \in us
  <2>1. \A u \in Uids, g \in Gateways : Told(w, g, u) => HasTold(w) /\ u \in Concerned(w)
    BY <1>1, TellFacts DEF Told, Concerned, TypeOK
  <2>2. \A u \in Uids : Strays(w, u) => HasTold(w) /\ u \in Concerned(w)
    BY <1>1, TellFacts DEF Strays, Concerned
  <2>. QED
    BY <2>1, <2>2
<1>7. Gates'
  <2>1. SUFFICES ASSUME NEW u \in Uids, u \notin torn'
                 PROVE  (\E v \in Workers : Strays(v, u)') \/ Sound(u)'
    BY DEF Gates
  <2>2. CASE ~InFlight(u)' /\ Agree(u)'
    BY <1>2, <2>2, AgreeSound
  <2>3. CASE u \notin torn \cup us
    <3>1. CASE \E v \in Workers : Strays(v, u)
      BY <1>6, <2>3, <3>1 DEF Strays
    <3>2. CASE Sound(u)
      <4>1. \A v \in Workers, g \in Gateways : Told(v, g, u)' <=> Told(v, g, u)
        BY <1>6, <2>3 DEF Told
      <4>2. \A v \in Workers, g \in Gateways : Told(v, g, u) => pend'[v] = pend[v]
        BY <1>6, <2>3
      <4>. QED
        BY <2>3, <3>2, <4>1, <4>2, SoundKeep
    <3>. QED
      BY <2>3, <3>1, <3>2 DEF Gates
  <2>. QED
    BY <2>1, <2>2, <2>3, Untorn
<1>8. Made'
  BY DEF Made
<1>9. Cached'
  <2>1. SUFFICES ASSUME NEW u \in Uids, u \notin stale'
                 PROVE  cache'[u] = Loaded(u)' \/ \E v \in Workers : Late(v, u)'
    BY DEF Cached
  <2>2. CASE u \notin stale \cup ls
    <3>1. Loaded(u)' = Loaded(u)
      BY DEF Loaded, AllLive
    <3>2. \A v \in Workers : Late(v, u) => Late(v, u)' \/ cache'[u] = Loaded(u)
      BY <2>2 DEF Late
    <3>. QED
      BY <2>2, <3>1, <3>2 DEF Cached
  <2>. QED
    BY <2>1, <2>2, Unstale
<1>. QED
  BY <1>2, <1>3, <1>4, <1>5, <1>7, <1>8, <1>9 DEF Inv

LEMMA NotLate ==
    ASSUME TypeOK, NEW w \in Workers, pc[w] # "reload", NEW u \in Uids, Late(w, u)
    PROVE  req[w].op = "group" /\ pend[w] # None /\ u = req[w].uid
BY DEF Late

\* Rollback, with the rooms that it leaves apart.
Undone(w, us) ==
    /\ Clear(w) /\ UNCHANGED <<rows, cache>> /\ Tear(us)
    /\ Leave(IF req[w].op = "group" /\ pend[w] # None THEN {req[w].uid} ELSE {})

LEMMA RollbackUndone ==
    ASSUME NEW w \in Workers
    PROVE  /\ Rollback(w, TRUE) => Undone(w, Concerned(w))
           /\ Rollback(w, FALSE) => Undone(w, {})
           /\ Rollback(w, HasTold(w)) =>
                 (HasTold(w) /\ Undone(w, Concerned(w))) \/ (~HasTold(w) /\ Undone(w, {}))
<1>1. Rollback(w, TRUE) => Undone(w, Concerned(w))
  BY Zenon DEF Rollback, Undone
<1>2. Rollback(w, FALSE) => Undone(w, {})
  BY Zenon DEF Rollback, Undone
<1>3. HasTold(w) /\ Rollback(w, HasTold(w)) => Undone(w, Concerned(w))
  BY Zenon DEF Rollback, Undone
<1>4. ~HasTold(w) /\ Rollback(w, HasTold(w)) => Undone(w, {})
  BY Zenon DEF Rollback, Undone
<1>. QED
  BY <1>1, <1>2, <1>3, <1>4, Zenon

\* What of EndInv holds of every rollback.
LEMMA RollbackEnds ==
    ASSUME Inv, NEW w \in Workers, pc[w] \in {"write", "gateways"},
           NEW us, us = Concerned(w) \/ (us = {} /\ ~HasTold(w)),
           Undone(w, us), faults' \in 0..MaxFaults, OthersKept(w),
           \A g \in Gateways : \A u \in Uids \ us : videorooms'[g][u] = videorooms[g][u]
    PROVE  Inv'
<1>. TypeOK
  BY DEF Inv
<1>0. PICK ls : ls = IF req[w].op = "group" /\ pend[w] # None THEN {req[w].uid} ELSE {}
  OBVIOUS
<1>1. req[w] # None /\ pc[w] # "idle"
  BY DEF TypeOK
<1>2. req[w].uid \in Uids /\ req[w].target \in Uids
  BY <1>1, RequestTypes
<1>3. us \in SUBSET Uids /\ ls \in SUBSET Uids
  BY <1>0, <1>2 DEF Concerned
<1>4. Clear(w) /\ UNCHANGED rows /\ UNCHANGED cache /\ Tear(us)
  BY DEF Undone
<1>5. Leave(ls)
  BY <1>0 DEF Undone, Leave
<1>6. \A u \in Uids : Late(w, u) => u \in ls \/ cache'[u] = Loaded(u)
  BY <1>0, NotLate
<1>7. /\ cache' \in [Uids -> Names \cup {None}]
      /\ \A u \in Uids : cache'[u] \in {cache[u], Loaded(u)}
  BY <1>4 DEF TypeOK
<1>8. HasTold(w) => Concerned(w) \subseteq us
  OBVIOUS
<1>9. Ends(w, us, ls)
  BY <1>1, <1>3, <1>4, <1>5, <1>6, <1>7, <1>8 DEF Ends
<1>. QED
  BY <1>9, EndInv

\* RefuseWrite, WriteFails, GatewayRefuses and CallFails
RolledBack(w) ==
    \/ RefuseWrite(w) \/ WriteFails(w)
    \/ \E g \in Gateways : GatewayRefuses(w, g) \/ CallFails(w, g)

LEMMA RollbackInv ==
    ASSUME Inv, NEW w \in Workers, RolledBack(w)
    PROVE  Inv'
<1>. TypeOK
  BY DEF Inv
<1>1. pc[w] \in {"write", "gateways"} /\ req[w] # None
  BY DEF RolledBack, RefuseWrite, WriteFails, GatewayRefuses, CallFails, TypeOK
<1>2. UNCHANGED videorooms => OthersKept(w)
  BY DEF TypeOK, Inv, Made, OthersKept
<1>3. faults \in 0..MaxFaults /\ \A kind : Fault(kind) => faults' \in 0..MaxFaults
  BY ConstantsOK DEF TypeOK, Fault
<1>4. ASSUME RefuseWrite(w) \/ WriteFails(w) PROVE Inv'
  <2>1. UNCHANGED videorooms /\ Rollback(w, FALSE) /\ pc[w] = "write"
    BY <1>4, Zenon DEF RefuseWrite, WriteFails
  <2>2. UNCHANGED faults \/ Fault("db")
    BY <1>4, Zenon DEF RefuseWrite, WriteFails
  <2>3. ~HasTold(w) /\ Undone(w, {})
    BY <1>1, <2>1, TellFacts, RollbackUndone
  <2>. QED
    BY <1>1, <1>2, <1>3, <2>1, <2>2, <2>3, RollbackEnds
<1>5. ASSUME NEW g \in Gateways, GatewayRefuses(w, g) PROVE Inv'
  <2>1. Rollback(w, HasTold(w)) /\ UNCHANGED videorooms /\ UNCHANGED faults
    BY <1>5, Zenon DEF GatewayRefuses
  <2>2. CASE HasTold(w) /\ Undone(w, Concerned(w))
    BY <1>1, <1>2, <1>3, <2>1, <2>2, RollbackEnds
  <2>3. CASE ~HasTold(w) /\ Undone(w, {})
    BY <1>1, <1>2, <1>3, <2>1, <2>3, RollbackEnds
  <2>. QED
    BY <2>1, <2>2, <2>3, RollbackUndone, Zenon
<1>6. ASSUME NEW g \in Gateways, CallFails(w, g) PROVE Inv'
  <2>1. /\ Rollback(w, TRUE) /\ Fault("gateway") /\ pc[w] = "gateways" /\ g \in todo[w]
        /\ (Accepts(w, g) /\ DoAsTold(w, g)) \/ UNCHANGED videorooms
    BY <1>6, Zenon DEF CallFails
  <2>2. /\ OthersKept(w)
        /\ \A h \in Gateways : \A u \in Uids \ Concerned(w) :
               videorooms'[h][u] = videorooms[h][u]
    <3>1. CASE Accepts(w, g) /\ DoAsTold(w, g)
      BY <2>1, <3>1, OthersMade DEF Concerned
    <3>2. CASE UNCHANGED videorooms
      BY <1>2, <3>2
    <3>. QED
      BY <2>1, <3>1, <3>2
  <2>3. Undone(w, Concerned(w))
    BY <2>1, RollbackUndone
  <2>. QED
    BY <1>1, <1>3, <2>1, <2>2, <2>3, RollbackEnds
<1>. QED
  BY <1>4, <1>5, <1>6 DEF RolledBack

-----------------------------------------------------------------------------
(* A gateway does as it is told *)

\* What a gateway is told is what the version that is being written wants,
\* when the room is sound there: it refuses to edit one that is removed.
LEMMA ToldAsWanted ==
    ASSUME Inv, NEW w \in Workers, NEW g \in Gateways, pc[w] = "gateways", g \in todo[w],
           Accepts(w, g), req[w].target = req[w].uid, Sound(req[w].uid)
    PROVE  req[w].name = Wanted(pend[w])
<1>. TypeOK /\ Asks /\ Writes /\ Locks
  BY DEF Inv
<1>1. req[w] # None
  BY DEF TypeOK
<1>2. /\ req[w].uid \in Uids /\ req[w].name \in Names \cup {None}
      /\ req[w].op \in {"create", "update", "delete", "group", "extra"}
  BY <1>1, RequestTypes
<1>3. w \in Tellers /\ req[w].op \in {"create", "update", "delete"} /\ pend[w] # None
  BY <1>1, <1>2 DEF Writes, Asks
<1>4. CASE req[w].op = "create"
  BY <1>3, <1>4 DEF Writes, Wanted
<1>5. CASE req[w].op = "delete"
  BY <1>1, <1>3, <1>5 DEF Writes, Asks, Wanted
<1>6. CASE req[w].op = "update"
  <2>1. pend[w].name = req[w].name
    BY <1>3, <1>6 DEF Writes
  <2>2. ASSUME pend[w].status = "removed" PROVE FALSE
    <3>1. Wanted(rows[req[w].uid]) = None
      BY <1>3, <1>6, <2>2 DEF Writes, Wanted
    <3>2. \A v \in Workers : ~Told(v, g, req[w].uid)
      BY <1>3, Zenon DEF Told, Locks
    <3>. QED
      BY <1>6, <3>1, <3>2 DEF Sound, Accepts
  <2>. QED
    BY <1>3, <2>1, <2>2 DEF Wanted
<1>. QED
  BY <1>3, <1>4, <1>5, <1>6

LEMMA MessageInv ==
    ASSUME Inv, NEW w \in Workers, NEW g \in Gateways, MessagePlugin(w, g)
    PROVE  Inv'
<1>. TypeOK /\ Asks /\ Writes /\ Locks /\ Gates /\ Made /\ Cached
  BY DEF Inv
<1>1. /\ pc[w] = "gateways" /\ g \in todo[w] /\ Accepts(w, g) /\ DoAsTold(w, g)
      /\ todo' = [todo EXCEPT ![w] = @ \ {g}]
      /\ pc' = [pc EXCEPT ![w] = IF todo[w] = {g} THEN "commit" ELSE @]
      /\ UNCHANGED <<rows, cache, req, pend, torn, stale, faults>>
  BY DEF MessagePlugin, NextGateway
<1>2. /\ req[w] # None /\ req[w].uid \in Uids /\ req[w].target \in Uids
      /\ req[w].name \in Names \cup {None}
      /\ req[w].op \in {"create", "update", "delete", "group", "extra"}
  BY <1>1, RequestTypes DEF TypeOK
<1>3. w \in Tellers /\ req[w].op \in {"create", "update", "delete"} /\ pend[w] # None
  BY <1>1, <1>2 DEF Writes, Asks
<1>4. /\ OthersKept(w)
      /\ \A h \in Gateways, u \in Uids :
             videorooms'[h][u] = IF h = g /\ u = req[w].target
                                 THEN req[w].name ELSE videorooms[h][u]
  BY <1>1, OthersMade
<1>5. /\ \A v \in Workers \ {w} : pc'[v] = pc[v] /\ todo'[v] = todo[v]
      /\ todo'[w] = todo[w] \ {g} /\ pc'[w] = IF todo[w] = {g} THEN "commit" ELSE "gateways"
      /\ pc' \in [Workers -> {"idle", "write", "gateways", "commit", "reload"}]
      /\ todo' \in [Workers -> SUBSET Gateways]
  BY <1>1 DEF TypeOK
<1>6. \A v \in Workers : v \in Tellers' <=> v \in Tellers
  BY <1>1, TellersKeep
<1>7. TypeOK'
  <2>1. \A v \in Workers : /\ pc'[v] = "idle" <=> req'[v] = None
                           /\ pend'[v] # None => pc'[v] \in {"gateways", "commit"}
                           /\ todo'[v] # {} => pc'[v] = "gateways"
    BY <1>1, <1>2, <1>5 DEF TypeOK
  <2>. QED
    BY <1>1, <1>4, <1>5, <2>1 DEF TypeOK, OthersKept
<1>8. Asks'
  BY <1>1, <1>6 DEF Asks
<1>9. Writes'
  <2>1. \A v \in Workers : pc'[v] \in {"gateways", "commit"} => pc[v] \in {"gateways", "commit"}
    BY <1>1, <1>5
  <2>2. \A v \in Workers : todo'[v] # {} => todo[v] # {}
    BY <1>5
  <2>. QED
    BY <1>1, <1>6, <2>1, <2>2 DEF Writes
<1>10. Locks'
  BY <1>1 DEF Locks
<1>11. Gates'
  <2>1. SUFFICES ASSUME NEW u \in Uids, u \notin torn
                 PROVE  (\E v \in Workers : Strays(v, u)') \/ Sound(u)'
    BY <1>1 DEF Gates
  <2>2. \A v \in Workers : Strays(v, u) => Strays(v, u)'
    BY <1>1, <1>5, <1>6 DEF Strays
  <2>3. CASE u = req[w].target /\ u # req[w].uid
    <3>1. Strays(w, u)'
      BY <1>1, <1>3, <1>5, <1>6, <2>3 DEF Strays
    <3>. QED
      BY <3>1
  <2>4. CASE u # req[w].target /\ Sound(u)
    <3>1. \A v \in Workers, h \in Gateways : Told(v, h, u)' <=> Told(v, h, u)
      BY <1>1, <1>5, <1>6, <2>4 DEF Told
    <3>. QED
      BY <1>1, <1>4, <2>4, <3>1, SoundKeep
  <2>5. CASE u = req[w].target /\ u = req[w].uid /\ Sound(u)
    <3>1. req[w].name = Wanted(pend[w])
      BY <1>1, <2>5, ToldAsWanted
    <3>2. \A v \in Workers, h \in Gateways :
              Told(v, h, u)' <=> Told(v, h, u) \/ (v = w /\ h = g)
      BY <1>1, <1>3, <1>5, <1>6, <2>5 DEF Told
    <3>3. \A v \in Workers : Told(v, g, u)' => v = w
      BY <1>1, <1>3, <2>5 DEF Told, Locks
    <3>4. /\ \A v \in Workers : Wanted(pend[v])' = Wanted(pend[v])
          /\ Wanted(rows[u])' = Wanted(rows[u])
      BY <1>1 DEF Wanted
    <3>5. videorooms'[g][u] = Wanted(pend[w])
      BY <1>4, <2>5, <3>1
    <3>6. \A h \in Gateways \ {g} : videorooms'[h][u] = videorooms[h][u]
      BY <1>4
    <3>. QED
      BY <2>5, <3>2, <3>3, <3>4, <3>5, <3>6 DEF Sound
  <2>. QED
    BY <2>1, <2>2, <2>3, <2>4, <2>5 DEF Gates
<1>12. Made'
  <2>1. ASSUME NEW v \in Workers \ {w}, NEW h \in Gateways, pend'[v] # None, h \notin todo'[v]
        PROVE  /\ req'[v].op = "create" => videorooms'[h][req'[v].uid] # None
               /\ req'[v].op = "delete" => videorooms'[h][req'[v].uid] = None
    BY <1>1, <1>4, <1>5, <2>1 DEF OthersKept
  <2>2. ASSUME NEW h \in Gateways, h \notin todo'[w]
        PROVE  /\ req[w].op = "create" => videorooms'[h][req[w].uid] # None
               /\ req[w].op = "delete" => videorooms'[h][req[w].uid] = None
    <3>1. CASE h = g
      BY <1>2, <1>4, <3>1, ConstantsOK DEF Asks
    <3>2. CASE h # g
      BY <1>2, <1>3, <1>4, <1>5, <2>2, <3>2 DEF Made
    <3>. QED
      BY <3>1, <3>2
  <2>. QED
    BY <1>1, <2>1, <2>2 DEF Made
<1>13. Cached'
  <2>1. \A v \in Workers, u \in Uids : Late(v, u) => Late(v, u)'
    BY <1>1, <1>5 DEF Late
  <2>2. \A u \in Uids : Loaded(u)' = Loaded(u)
    BY <1>1 DEF Loaded, AllLive
  <2>. QED
    BY <1>1, <2>1, <2>2 DEF Cached
<1>. QED
  BY <1>7, <1>8, <1>9, <1>10, <1>11, <1>12, <1>13 DEF Inv

-----------------------------------------------------------------------------
(* A transaction commits *)

\* The row is stored, and the request goes on to reload the cache or ends: what
\* the gateways were not told counts as torn, and a cached group as stale.
Stores(w, us, ls) ==
    /\ pc[w] = "commit" /\ rows' = Stored(w)
    /\ UNCHANGED <<videorooms, cache>> /\ faults' \in 0..MaxFaults
    /\ us \in SUBSET Uids /\ Untold(w) \subseteq us /\ Tear(us)
    /\ ls \in SUBSET Uids /\ Leave(ls)
    /\ \/ Clear(w) /\ (req[w].op = "extra" \/ req[w].uid \in ls)
       \/ /\ pc' = [pc EXCEPT ![w] = "reload"]
          /\ pend' = [pend EXCEPT ![w] = None]
          /\ UNCHANGED <<req, todo>>

\* What both ways of going on have in common.
LEMMA StoreKeeps ==
    ASSUME Inv, NEW w \in Workers, NEW us, NEW ls, Stores(w, us, ls)
    PROVE  /\ TypeOK'
           /\ \A v \in Workers \ {w} : /\ req'[v] = req[v] /\ pc'[v] = pc[v]
                                       /\ pend'[v] = pend[v] /\ todo'[v] = todo[v]
                                       /\ v \in Tellers' <=> v \in Tellers
           /\ pend'[w] = None /\ todo'[w] = {} /\ todo[w] = {} /\ req[w] # None
           /\ req'[w] # None => /\ req'[w] = req[w] /\ pc'[w] = "reload"
                                /\ w \in Tellers' <=> w \in Tellers
           /\ req'[w] = None => req[w].op = "extra" \/ req[w].uid \in ls
           /\ pc'[w] \in {"idle", "reload"}
           /\ \A u \in Uids : rows'[u] = IF u = req[w].uid /\ pend[w] # None
                                         THEN pend[w] ELSE rows[u]
<1>. TypeOK
  BY DEF Inv
<1>1. req[w] # None /\ todo[w] = {}
  BY DEF Stores, TypeOK
<1>2. req[w].uid \in Uids
  BY <1>1, RequestTypes
<1>3. /\ rows' \in [Uids -> Row \cup {None}]
      /\ \A u \in Uids : rows'[u] = IF u = req[w].uid /\ pend[w] # None
                                    THEN pend[w] ELSE rows[u]
  BY <1>2 DEF Stores, Stored, TypeOK
<1>4. torn' \in SUBSET Uids /\ stale' \in SUBSET Uids /\ faults' \in 0..MaxFaults
  BY DEF Stores, Tear, Leave, TypeOK
<1>5. /\ videorooms' \in [Gateways -> [Uids -> Names \cup {None}]]
      /\ cache' \in [Uids -> Names \cup {None}]
  BY DEF Stores, TypeOK
<1>6. CASE Clear(w) /\ (req[w].op = "extra" \/ req[w].uid \in ls)
  <2>1. TypeOK'
    BY <1>3, <1>4, <1>5, <1>6, ClearTypes DEF TypeOK
  <2>. QED
    BY <1>1, <1>3, <1>6, <2>1, ClearTypes
<1>7. CASE /\ pc' = [pc EXCEPT ![w] = "reload"]
           /\ pend' = [pend EXCEPT ![w] = None]
           /\ UNCHANGED <<req, todo>>
  <2>1. /\ \A v \in Workers \ {w} : /\ req'[v] = req[v] /\ pc'[v] = pc[v]
                                    /\ pend'[v] = pend[v] /\ todo'[v] = todo[v]
        /\ pend'[w] = None /\ todo'[w] = {} /\ req'[w] = req[w] /\ pc'[w] = "reload"
    BY <1>1, <1>7 DEF TypeOK
  <2>2. \A v \in Workers : v \in Tellers' <=> v \in Tellers
    BY <1>7, TellersKeep
  <2>3. /\ pc' \in [Workers -> {"idle", "write", "gateways", "commit", "reload"}]
        /\ pend' \in [Workers -> Row \cup {None}]
        /\ req' \in [Workers -> Request \cup {None}] /\ todo' \in [Workers -> SUBSET Gateways]
    BY <1>7 DEF TypeOK
  <2>4. \A v \in Workers : /\ pc'[v] = "idle" <=> req'[v] = None
                           /\ pend'[v] # None => pc'[v] \in {"gateways", "commit"}
                           /\ todo'[v] # {} => pc'[v] = "gateways"
    BY <1>1, <2>1 DEF TypeOK
  <2>5. TypeOK'
    BY <1>3, <1>4, <1>5, <2>3, <2>4 DEF TypeOK
  <2>. QED
    BY <1>1, <1>3, <2>1, <2>2, <2>5
<1>. QED
  BY <1>6, <1>7 DEF Stores

LEMMA StoreInv ==
    ASSUME Inv, NEW w \in Workers, NEW us, NEW ls, Stores(w, us, ls)
    PROVE  Inv'
<1>. TypeOK /\ Asks /\ Writes /\ Locks /\ Gates /\ Made /\ Cached
  BY DEF Inv
<1>1. /\ TypeOK'
      /\ \A v \in Workers \ {w} : /\ req'[v] = req[v] /\ pc'[v] = pc[v]
                                  /\ pend'[v] = pend[v] /\ todo'[v] = todo[v]
                                  /\ v \in Tellers' <=> v \in Tellers
      /\ pend'[w] = None /\ todo'[w] = {} /\ todo[w] = {} /\ req[w] # None
      /\ req'[w] # None => /\ req'[w] = req[w] /\ pc'[w] = "reload"
                           /\ w \in Tellers' <=> w \in Tellers
      /\ req'[w] = None => req[w].op = "extra" \/ req[w].uid \in ls
      /\ pc'[w] \in {"idle", "reload"}
      /\ \A u \in Uids : rows'[u] = IF u = req[w].uid /\ pend[w] # None
                                    THEN pend[w] ELSE rows[u]
  BY StoreKeeps
<1>2. /\ pc[w] = "commit" /\ UNCHANGED <<videorooms, cache>>
      /\ Untold(w) \subseteq us /\ Tear(us) /\ Leave(ls) /\ rows' = Stored(w)
  BY DEF Stores
<1>3. req[w].uid \in Uids /\ req[w].target \in Uids
  BY <1>1, RequestTypes
<1>4. \A v \in Workers \ {w} : pend[v] # None /\ pend[w] # None => req[v].uid # req[w].uid
  BY DEF Locks
<1>5. Asks'
  <2>1. \A v \in Workers : req'[v] # None =>
            req'[v] = req[v] /\ (v \in Tellers' <=> v \in Tellers)
    BY <1>1
  <2>2. \A u \in Uids : rows[u] # None => rows'[u] # None
    BY <1>1
  <2>3. \A v \in Workers : req[v] # None => req[v].uid \in Uids
    BY RequestTypes
  <2>. QED
    BY <2>1, <2>2, <2>3 DEF Asks
<1>6. Writes'
  <2>1. ASSUME NEW v \in Workers, pc'[v] \in {"gateways", "commit"}
        PROVE  v # w /\ pc[v] \in {"gateways", "commit"} /\ req[v].uid \in Uids
    BY <1>1, <2>1, RequestTypes DEF TypeOK
  <2>2. ASSUME NEW v \in Workers, pc'[v] \in {"gateways", "commit"}, pend[v] # None
        PROVE  rows'[req[v].uid] = rows[req[v].uid]
    BY <1>1, <1>4, <2>1, <2>2
  <2>. QED
    BY <1>1, <2>1, <2>2 DEF Writes
<1>7. Locks'
  BY <1>1 DEF Locks
<1>8. Gates'
  <2>1. SUFFICES ASSUME NEW u \in Uids, u \notin torn'
                 PROVE  (\E v \in Workers : Strays(v, u)') \/ Sound(u)'
    BY DEF Gates
  <2>2. CASE ~InFlight(u)' /\ Agree(u)'
    BY <1>1, <2>2, AgreeSound
  <2>3. CASE u \notin torn \cup us
    <3>1. u \notin Untold(w)
      BY <1>2, <2>3
    <3>2. CASE \E v \in Workers : Strays(v, u)
      <4>1. ~Strays(w, u)
        BY <1>1, <3>1, TellFacts DEF Strays, Concerned
      <4>. QED
        BY <1>1, <3>2, <4>1 DEF Strays
    <3>3. CASE Sound(u) /\ (u # req[w].uid \/ pend[w] = None)
      <4>1. \A v \in Workers, g \in Gateways : Told(v, g, u)' <=> Told(v, g, u)
        BY <1>1, <3>3 DEF Told
      <4>2. \A v \in Workers, g \in Gateways : Told(v, g, u) => pend'[v] = pend[v]
        BY <1>1, <3>3 DEF Told
      <4>. QED
        BY <1>1, <1>2, <3>3, <4>1, <4>2, SoundKeep
    <3>4. CASE Sound(u) /\ u = req[w].uid /\ pend[w] # None
      <4>1. \A v \in Workers \ {w}, g \in Gateways : ~Told(v, g, u)
        BY <1>4, <3>4 DEF Told
      <4>2. \A v \in Workers, g \in Gateways : ~Told(v, g, u)'
        BY <1>1, <4>1 DEF Told
      <4>3. rows'[u] = pend[w] /\ Wanted(rows[u])' = Wanted(rows'[u])
        BY <1>1, <3>4 DEF Wanted
      <4>4. \A g \in Gateways : videorooms[g][u] = Wanted(pend[w])
        <5>1. CASE w \in Tellers
          <6>1. req[w].target = u
            BY <1>1, <3>1, <3>4, <5>1, TellFacts DEF Concerned
          <6>2. \A g \in Gateways : Told(w, g, u)
            BY <1>1, <3>4, <5>1, <6>1 DEF Told
          <6>. QED
            BY <3>4, <6>2 DEF Sound
        <5>2. CASE w \notin Tellers
          <6>1. Wanted(Stored(w)[u]) = Wanted(pend[w])
            BY <1>2, <4>3
          <6>2. Wanted(rows[u]) = Wanted(Stored(w)[u])
            BY <1>1, <3>1, <3>4, <5>2, TellFacts DEF Concerned
          <6>3. \A g \in Gateways : ~Told(w, g, u)
            BY <5>2 DEF Told
          <6>. QED
            BY <3>4, <4>1, <6>1, <6>2, <6>3 DEF Sound
        <5>. QED
          BY <5>1, <5>2
      <4>. QED
        BY <1>2, <4>2, <4>3, <4>4 DEF Sound
    <3>. QED
      BY <2>3, <3>2, <3>3, <3>4 DEF Gates
  <2>. QED
    BY <1>2, <2>1, <2>2, <2>3, Untorn
<1>9. Made'
  BY <1>1, <1>2 DEF Made
<1>10. Cached'
  <2>1. SUFFICES ASSUME NEW u \in Uids, u \notin stale'
                 PROVE  cache'[u] = Loaded(u)' \/ \E v \in Workers : Late(v, u)'
    BY DEF Cached
  <2>2. CASE u \notin stale \cup ls
    <3>1. CASE req'[w] # None /\ u = req[w].uid
      BY <1>1, <3>1 DEF Late
    <3>2. CASE u # req[w].uid \/ req'[w] = None
      <4>1. rows'[u] = rows[u]
        <5>1. CASE u # req[w].uid
          BY <1>1, <5>1
        <5>2. CASE u = req[w].uid /\ req'[w] = None
          BY <1>1, <1>2, <2>2, <5>2 DEF Writes
        <5>. QED
          BY <3>2, <5>1, <5>2
      <4>2. Loaded(u)' = Loaded(u)
        BY <4>1 DEF Loaded, AllLive
      <4>3. ~Late(w, u)
        BY <1>1, <1>2, <2>2, <3>2 DEF Late
      <4>4. \A v \in Workers : Late(v, u) => Late(v, u)'
        BY <1>1, <4>3 DEF Late
      <4>. QED
        BY <1>2, <2>2, <4>2, <4>4 DEF Cached
    <3>. QED
      BY <3>1, <3>2
  <2>. QED
    BY <1>2, <2>1, <2>2, Unstale
<1>. QED
  BY <1>1, <1>5, <1>6, <1>7, <1>8, <1>9, <1>10 DEF Inv

\* Nothing that a step leaves at the gateways is anybody's loss.
LEMMA StillKept ==
    ASSUME Inv, UNCHANGED videorooms, NEW w \in Workers
    PROVE  OthersKept(w)
BY DEF Inv, TypeOK, Made, OthersKept

LEMMA FaultCounts ==
    ASSUME TypeOK, NEW kind, Fault(kind)
    PROVE  faults' \in 0..MaxFaults
BY ConstantsOK DEF TypeOK, Fault

\* COMMIT, whether its answer comes back or not.
LEMMA CommitInv ==
    ASSUME Inv, NEW w \in Workers, Commit(w) \/ CommitFails(w)
    PROVE  Inv'
<1>. TypeOK
  BY DEF Inv
<1>1. pc[w] = "commit" /\ req[w] # None
  BY DEF Commit, CommitFails, TypeOK
<1>2. /\ req[w].uid \in Uids /\ Concerned(w) \subseteq Uids
      /\ req[w].op \in {"create", "update", "delete", "group", "extra"}
  BY <1>1, RequestTypes DEF Concerned
<1>3. Untold(w) \subseteq Concerned(w)
  BY DEF Untold
<1>4. CASE Commit(w)
  <2>1. PICK us : us = Untold(w)
    OBVIOUS
  <2>2. PICK ls : ls = IF req[w].op = "group" THEN {req[w].uid} ELSE {}
    OBVIOUS
  <2>3. us \in SUBSET Uids /\ ls \in SUBSET Uids
    BY <1>2, <1>3, <2>1, <2>2
  <2>4. Tear(us)
    BY <1>4, <2>1 DEF Commit, Tear
  <2>5. Leave(ls)
    BY <1>4, <2>2 DEF Commit, Leave
  <2>6. rows' = Stored(w) /\ UNCHANGED <<videorooms, cache>> /\ faults' \in 0..MaxFaults
    BY <1>4 DEF Commit, TypeOK
  <2>7. \/ Clear(w) /\ (req[w].op = "extra" \/ req[w].uid \in ls)
        \/ /\ pc' = [pc EXCEPT ![w] = "reload"]
           /\ pend' = [pend EXCEPT ![w] = None]
           /\ UNCHANGED <<req, todo>>
    BY <1>2, <1>4, <2>2 DEF Commit, AdminOps
  <2>8. Stores(w, us, ls)
    BY <1>1, <2>1, <2>3, <2>4, <2>5, <2>6, <2>7 DEF Stores
  <2>. QED
    BY <2>8, StoreInv
<1>5. CASE CommitFails(w)
  <2>1. PICK us : us = Concerned(w)
    OBVIOUS
  <2>2. PICK ls : ls = {req[w].uid}
    OBVIOUS
  <2>3. us \in SUBSET Uids /\ ls \in SUBSET Uids /\ req[w].uid \in ls
    BY <1>2, <2>1, <2>2
  <2>4. Tear(us) /\ Leave(ls)
    BY <1>5, <2>1, <2>2 DEF CommitFails, Tear, Leave
  <2>5. Clear(w) /\ UNCHANGED <<videorooms, cache>>
    BY <1>5 DEF CommitFails
  <2>6. faults' \in 0..MaxFaults
    BY <1>5, FaultCounts DEF CommitFails
  <2>7. CASE rows' = Stored(w)
    <3>1. Stores(w, us, ls)
      BY <1>1, <1>3, <2>1, <2>3, <2>4, <2>5, <2>6, <2>7 DEF Stores
    <3>. QED
      BY <3>1, StoreInv
  <2>8. CASE rows' = rows
    <3>1. OthersKept(w)
      BY <2>5, StillKept
    <3>2. \A u \in Uids : Late(w, u) => u \in ls
      BY <2>2 DEF Late
    <3>3. cache' \in [Uids -> Names \cup {None}]
      BY <2>5 DEF TypeOK
    <3>4. Ends(w, us, ls)
      BY <1>1, <2>1, <2>3, <2>4, <2>5, <2>6, <2>8, <3>1, <3>2, <3>3 DEF Ends
    <3>. QED
      BY <3>4, EndInv
  <2>. QED
    BY <1>5, <2>7, <2>8 DEF CommitFails
<1>. QED
  BY <1>4, <1>5

LEMMA LoadedTypes ==
    ASSUME TypeOK
    PROVE  /\ \A u \in Uids : Loaded(u) \in Names \cup {None}
           /\ \A u \in Uids : Wanted(rows[u]) \in Names \cup {None}
BY DEF TypeOK, Loaded, AllLive, Wanted, Row

LEMMA ReloadInv ==
    ASSUME Inv, NEW w \in Workers, Reload(w) \/ ReloadFails(w)
    PROVE  Inv'
<1>. TypeOK
  BY DEF Inv
<1>1. pc[w] = "reload" /\ req[w] # None
  BY DEF Reload, ReloadFails, TypeOK
<1>2. req[w].uid \in Uids
  BY <1>1, RequestTypes
<1>3. ~HasTold(w)
  BY <1>1, TellFacts
<1>4. Clear(w) /\ UNCHANGED rows /\ UNCHANGED videorooms /\ Tear({})
  BY DEF Reload, ReloadFails
<1>5. OthersKept(w)
  BY <1>4, StillKept
<1>6. CASE Reload(w)
  <2>1. Leave({}) /\ cache' = [u \in Uids |-> Loaded(u)] /\ faults' \in 0..MaxFaults
    BY <1>6 DEF Reload, TypeOK
  <2>2. /\ cache' \in [Uids -> Names \cup {None}]
        /\ \A u \in Uids : cache'[u] = Loaded(u)
    BY <2>1, LoadedTypes
  <2>3. Ends(w, {}, {})
    BY <1>1, <1>3, <1>4, <1>5, <2>1, <2>2 DEF Ends
  <2>. QED
    BY <2>3, EndInv
<1>7. CASE ReloadFails(w)
  <2>1. PICK ls : ls = {req[w].uid}
    OBVIOUS
  <2>2. Leave(ls)
    BY <1>7, <2>1 DEF ReloadFails, Leave
  <2>3. faults' \in 0..MaxFaults
    BY <1>7, FaultCounts DEF ReloadFails
  <2>4. cache' \in [Uids -> Names \cup {None}] /\ \A u \in Uids : cache'[u] = cache[u]
    BY <1>7 DEF ReloadFails, TypeOK
  <2>5. \A u \in Uids : Late(w, u) => u \in ls
    BY <2>1 DEF Late
  <2>6. ls \in SUBSET Uids
    BY <1>2, <2>1
  <2>7. Ends(w, {}, ls)
    BY <1>1, <1>3, <1>4, <1>5, <2>2, <2>3, <2>4, <2>5, <2>6 DEF Ends
  <2>. QED
    BY <2>7, EndInv
<1>. QED
  BY <1>6, <1>7

-----------------------------------------------------------------------------
(* The process and the operator *)

LEMMA RestartInv ==
    ASSUME Inv, Restart
    PROVE  Inv'
<1>. TypeOK /\ Gates
  BY DEF Inv
<1>1. PICK us : us = UNION {Concerned(w) : w \in {v \in Workers : pc[v] # "idle" /\ HasTold(v)}}
  OBVIOUS
<1>2. us \subseteq Uids
  <2>1. \A w \in Workers : pc[w] # "idle" => Concerned(w) \subseteq Uids
    BY RequestTypes DEF TypeOK, Concerned
  <2>. QED
    BY <1>1, <2>1
<1>3. Tear(us) /\ Leave({})
  BY <1>1 DEF Restart, Tear
<1>4. /\ cache' = [u \in Uids |-> Loaded(u)] /\ UNCHANGED <<rows, videorooms>>
      /\ pc' = [w \in Workers |-> "idle"] /\ req' = [w \in Workers |-> None]
      /\ pend' = [w \in Workers |-> None] /\ todo' = [w \in Workers |-> {}]
  BY DEF Restart
<1>5. faults' \in 0..MaxFaults
  BY FaultCounts DEF Restart
<1>6. TypeOK'
  <2>1. torn' \in SUBSET Uids /\ stale' \in SUBSET Uids
    BY <1>2, <1>3 DEF Tear, Leave, TypeOK
  <2>2. cache' \in [Uids -> Names \cup {None}]
    BY <1>4, LoadedTypes
  <2>3. rows' \in [Uids -> Row \cup {None}]
        /\ videorooms' \in [Gateways -> [Uids -> Names \cup {None}]]
    BY <1>4 DEF TypeOK
  <2>. QED
    BY <1>4, <1>5, <2>1, <2>2, <2>3 DEF TypeOK
<1>7. Asks' /\ Writes' /\ Locks' /\ Made'
  BY <1>4 DEF Asks, Writes, Locks, Made
<1>8. Gates'
  <2>1. SUFFICES ASSUME NEW u \in Uids, u \notin torn'
                 PROVE  Sound(u)'
    BY DEF Gates
  <2>2. CASE ~InFlight(u)' /\ Agree(u)'
    BY <1>6, <2>2, AgreeSound
  <2>3. CASE u \notin torn \cup us
    <3>1. \A w \in Workers : pc[w] # "idle" /\ HasTold(w) => u \notin Concerned(w)
      BY <1>1, <2>3
    <3>2. \A w \in Workers : ~Strays(w, u)
      BY <3>1, TellFacts, Zenon DEF Strays, Concerned, TypeOK
    <3>3. \A w \in Workers, g \in Gateways : ~Told(w, g, u)
      BY <3>1, TellFacts DEF Told, Concerned, TypeOK
    <3>4. \A w \in Workers, g \in Gateways : ~Told(w, g, u)'
      BY <1>4 DEF Told
    <3>5. Wanted(rows[u])' = Wanted(rows[u])
      BY <1>4 DEF Wanted
    <3>6. Sound(u)
      BY <2>3, <3>2 DEF Gates
    <3>. QED
      BY <1>4, <3>3, <3>4, <3>5, <3>6 DEF Sound
  <2>. QED
    BY <1>3, <2>1, <2>2, <2>3, Untorn
<1>9. Cached'
  <2>1. \A u \in Uids : Loaded(u)' = Loaded(u)
    BY <1>4 DEF Loaded, AllLive
  <2>. QED
    BY <1>4, <2>1 DEF Cached
<1>. QED
  BY <1>6, <1>7, <1>8, <1>9 DEF Inv

LEMMA RegenerateInv ==
    ASSUME Inv, NEW g \in Gateways, Regenerate(g)
    PROVE  Inv'
<1>. TypeOK /\ Asks /\ Gates /\ Cached
  BY DEF Inv
<1>1. /\ \A w \in Workers : pc[w] = "idle"
      /\ videorooms' = [videorooms EXCEPT ![g] = [u \in Uids |-> Wanted(rows[u])]]
      /\ UNCHANGED <<rows, cache, pc, req, pend, todo, stale>> /\ Tear({})
  BY DEF Regenerate, workVars
<1>2. \A w \in Workers : req[w] = None /\ pend[w] = None
  BY <1>1 DEF TypeOK
<1>3. faults' \in 0..MaxFaults
  BY FaultCounts DEF Regenerate
<1>4. /\ videorooms' \in [Gateways -> [Uids -> Names \cup {None}]]
      /\ \A h \in Gateways, u \in Uids :
             videorooms'[h][u] = IF h = g THEN Wanted(rows[u]) ELSE videorooms[h][u]
  BY <1>1, LoadedTypes DEF TypeOK
<1>5. TypeOK'
  BY <1>1, <1>3, <1>4 DEF TypeOK, Tear
<1>6. Asks' /\ Writes' /\ Locks' /\ Made'
  BY <1>1, <1>2 DEF Asks, Writes, Locks, Made
<1>7. Gates'
  <2>1. SUFFICES ASSUME NEW u \in Uids, u \notin torn'
                 PROVE  Sound(u)'
    BY DEF Gates
  <2>2. CASE ~InFlight(u)' /\ Agree(u)'
    BY <1>5, <2>2, AgreeSound
  <2>3. CASE u \notin torn
    <3>1. Sound(u)
      BY <1>1, <2>3 DEF Gates, Strays
    <3>2. \A w \in Workers, h \in Gateways : ~Told(w, h, u) /\ ~Told(w, h, u)'
      BY <1>1, <1>2 DEF Told
    <3>3. Wanted(rows[u])' = Wanted(rows[u])
      BY <1>1 DEF Wanted
    <3>. QED
      BY <1>4, <3>1, <3>2, <3>3 DEF Sound
  <2>. QED
    BY <1>1, <2>1, <2>2, <2>3, Untorn
<1>8. Cached'
  <2>1. \A u \in Uids : Loaded(u)' = Loaded(u)
    BY <1>1 DEF Loaded, AllLive
  <2>. QED
    BY <1>1, <1>2, <2>1 DEF Cached, Late
<1>. QED
  BY <1>5, <1>6, <1>7, <1>8 DEF Inv

-----------------------------------------------------------------------------
(* Every step *)

LEMMA InitInv == Init => Inv
<1>. SUFFICES ASSUME Init PROVE Inv
  OBVIOUS
<1>1. TypeOK
  BY ConstantsOK DEF Init, TypeOK
<1>2. Asks /\ Writes /\ Locks /\ Made
  BY DEF Init, Asks, Writes, Locks, Made
<1>3. Gates
  BY DEF Init, Gates, Sound, Told, Wanted
<1>4. Cached
  BY DEF Init, Cached, Loaded, AllLive
<1>. QED
  BY <1>1, <1>2, <1>3, <1>4 DEF Inv

LEMMA StutterInv ==
    ASSUME Inv, UNCHANGED vars
    PROVE  Inv'
<1>1. UNCHANGED <<rows, videorooms, cache, pc, req, pend, todo, torn, stale, faults>>
  BY DEF vars, workVars
<1>2. \A w \in Workers : w \in Tellers' <=> w \in Tellers
  BY <1>1, TellersKeep
<1>3. TypeOK'
  BY <1>1 DEF Inv, TypeOK
<1>4. Asks' /\ Writes'
  BY <1>1, <1>2 DEF Inv, Asks, Writes
<1>5. Locks' /\ Made'
  BY <1>1 DEF Inv, Locks, Made
<1>6. Gates'
  <2>1. \A w \in Workers, g \in Gateways, u \in Uids : Told(w, g, u)' <=> Told(w, g, u)
    BY <1>1, <1>2 DEF Told
  <2>2. \A w \in Workers, u \in Uids : Strays(w, u) => Strays(w, u)'
    BY <1>1, <1>2 DEF Strays
  <2>3. \A u \in Uids : Sound(u) => Sound(u)'
    BY <1>1, <2>1, SoundKeep
  <2>. QED
    BY <1>1, <2>2, <2>3 DEF Inv, Gates
<1>7. Cached'
  BY <1>1 DEF Inv, Cached, Late, Loaded, AllLive
<1>. QED
  BY <1>3, <1>4, <1>5, <1>6, <1>7 DEF Inv

LEMMA InvStep ==
    ASSUME Inv, [Next]_vars
    PROVE  Inv'
<1>1. ASSUME NEW w \in Workers, Arrive(w) PROVE Inv'
  <2>1. TypeOK
    BY DEF Inv
  <2>2. PICK r \in Request : Begin(w, r) /\ Fits(r) /\ faults' \in 0..MaxFaults
    BY <1>1, <2>1, ArriveBegins
  <2>. QED
    BY <2>2, BeginInv
<1>2. ASSUME NEW w \in Workers, Statement(w) PROVE Inv'
  BY <1>2, WriteInv, RollbackInv DEF Statement, Concrete, RolledBack
<1>3. ASSUME NEW w \in Workers, Tell(w) PROVE Inv'
  BY <1>3, MessageInv, RollbackInv DEF Tell, RolledBack
<1>4. ASSUME NEW w \in Workers, Finish(w) PROVE Inv'
  BY <1>4, CommitInv, ReloadInv DEF Finish
<1>. QED
  BY <1>1, <1>2, <1>3, <1>4, RestartInv, RegenerateInv, StutterInv DEF Next

LEMMA InvAlways == Spec => []Inv
BY InitInv, InvStep, PTL DEF Spec

-----------------------------------------------------------------------------
(* Theorems *)

\* The table, the gateways' rooms, the cache and what each request holds stay
\* of their types, and only a request past its statement has an uncommitted row.
THEOREM RoomsTypeOK == Spec => []TypeOK
<1>1. Inv => TypeOK
  BY DEF Inv
<1>. QED
  BY <1>1, InvAlways, PTL

\* A room that no request is at work on, and that no failure has torn, has on
\* every gateway the name that its row has, or is on none when it was removed:
\* the gateways are told one by one before the commit of AdminCreateRoom,
\* AdminUpdateRoom and AdminDeleteRoom.
THEOREM GatewaysAgreeAlways == Spec => []GatewaysAgree
<1>1. Inv => GatewaysAgree
  <2>1. SUFFICES ASSUME Inv, NEW u \in Uids, u \notin torn, ~InFlight(u)
                 PROVE  Agree(u)
    BY DEF GatewaysAgree
  <2>2. TypeOK /\ Gates
    BY <2>1 DEF Inv
  <2>3. \A w \in Workers : req[w] # None => req[w].uid # u /\ req[w].target # u
    BY <2>1 DEF InFlight, Concerned
  <2>4. \A w \in Workers : ~Strays(w, u)
    BY <2>2, <2>3, Zenon DEF Strays, TypeOK
  <2>5. \A w \in Workers, g \in Gateways : ~Told(w, g, u)
    BY <2>2, <2>3 DEF Told, TypeOK
  <2>. QED
    BY <2>1, <2>2, <2>4, <2>5 DEF Gates, Sound, Agree
<1>. QED
  BY <1>1, InvAlways, PTL

\* RoomCache has a room that no request is at work on exactly when its row is
\* live, by the name it has there, but for the entries that a failed reload, a
\* failed commit or a group has left behind.
THEOREM CacheFollowsAlways == Spec => []CacheFollows
<1>1. Inv => CacheFollows
  <2>1. \A w \in Workers, u \in Uids : Late(w, u) => InFlight(u)
    BY DEF Late, InFlight, Concerned
  <2>. QED
    BY <2>1 DEF Inv, Cached, CacheFollows
<1>. QED
  BY <1>1, InvAlways, PTL

\* AdminCreateRoom commits only when the room is on every gateway, and
\* AdminDeleteRoom only when it is on none.
THEOREM AnsweredEverywhereAlways == Spec => AnsweredEverywhere
<1>1. ASSUME Inv, NEW w \in Workers, pc[w] = "commit", NEW g \in Gateways
      PROVE  /\ req[w].op = "create" => videorooms[g][req[w].uid] # None
             /\ req[w].op = "delete" => videorooms[g][req[w].uid] = None
  <2>1. todo[w] = {}
    BY <1>1 DEF Inv, TypeOK
  <2>2. req[w].op \in {"create", "delete"} => pend[w] # None
    BY <1>1 DEF Inv, Writes
  <2>. QED
    BY <1>1, <2>1, <2>2 DEF Inv, Made
<1>2. Inv => \A w \in Workers :
                 pc[w] = "commit" /\ pc'[w] = "reload" =>
                    \A g \in Gateways :
                       /\ req[w].op = "create" => videorooms[g][req[w].uid] # None
                       /\ req[w].op = "delete" => videorooms[g][req[w].uid] = None
  BY <1>1
<1>. QED
  BY <1>2, InvAlways, PTL DEF AnsweredEverywhere

================================================================================
